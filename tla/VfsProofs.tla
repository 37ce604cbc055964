----------------------------- MODULE VfsProofs -----------------------------
(***************************************************************************)
(* Proofs about Vfs, for any number of tasks, descriptors, files, paths    *)
(* and vnodes.                                                             *)
(***************************************************************************)
EXTENDS Vfs, NatLemmas, FiniteSetTheorems, SequenceTheorems, TLAPS

-----------------------------------------------------------------------------
(* The inductive invariant                                                 *)

NodesTyped == nodes \in Seq(NodeType) /\ Root \in DOMAIN nodes

(* Pointers lead to younger vnodes.                                        *)
EdgesDown ==
  \A d \in DOMAIN nodes :
    /\ Len(nodes[d].childs) <= MAX_DIR_NUM
    /\ nodes[d].type = "file" => nodes[d].childs = <<>>
    /\ \A k \in DOMAIN nodes[d].childs :
         nodes[d].childs[k] \in DOMAIN nodes /\ d < nodes[d].childs[k]
    /\ nodes[d].mount # NULL => nodes[d].mount \in DOMAIN nodes /\ d < nodes[d].mount

(* No vnode has two places in the tree.                                    *)
OnePlace ==
  /\ \A c, d \in DOMAIN nodes :
       \A j \in DOMAIN nodes[c].childs, k \in DOMAIN nodes[d].childs :
         nodes[c].childs[j] = nodes[d].childs[k] => c = d /\ j = k
  /\ \A c, d \in DOMAIN nodes :
       nodes[c].mount = nodes[d].mount /\ nodes[c].mount # NULL => c = d
  /\ \A c, d \in DOMAIN nodes : \A k \in DOMAIN nodes[c].childs :
       nodes[c].childs[k] # nodes[d].mount

TreeInv == NodesTyped /\ EdgesDown /\ OnePlace

FilesTyped ==
  /\ files \in [Files -> [vnode : Nat, f_pos : Nat]]
  /\ \A f \in Files : files[f].vnode # NULL => files[f].vnode \in DOMAIN nodes
  /\ fd_table \in [Tasks -> [Fds -> Files \cup {NULL}]]
  /\ running \subseteq Tasks /\ wild \in BOOLEAN

VfsInv == TreeInv /\ FilesTyped /\ PosWithinSize

-----------------------------------------------------------------------------
(* Lookup                                                                  *)

(* The fields of a vnode.                                                  *)
LEMMA NodeFields ==
  ASSUME NodesTyped, NEW d \in DOMAIN nodes
  PROVE  /\ nodes[d].fs \in Filesystems /\ nodes[d].type \in {"dir", "file"}
         /\ nodes[d].name \in Names /\ nodes[d].childs \in Seq(Nat)
         /\ nodes[d].mount \in Nat /\ nodes[d].data \in Seq(Values)
         /\ d \in 1 .. Len(nodes) /\ Len(nodes) \in Nat
<1>1. nodes[d] \in NodeType /\ d \in 1 .. Len(nodes) /\ Len(nodes) \in Nat
  BY DEF NodesTyped
<1> QED
  BY <1>1 DEF NodeType

(* The first child of a name is a child.                                   *)
LEMMA FirstNamedChild ==
  ASSUME NodesTyped, NEW d \in DOMAIN nodes, NEW name
  PROVE  \/ /\ FirstNamed(nodes[d].childs, name) = NULL
            /\ \A k \in DOMAIN nodes[d].childs : nodes[nodes[d].childs[k]].name # name
         \/ \E k \in DOMAIN nodes[d].childs :
              /\ FirstNamed(nodes[d].childs, name) = nodes[d].childs[k]
              /\ nodes[nodes[d].childs[k]].name = name
              /\ \A j \in DOMAIN nodes[d].childs :
                   nodes[nodes[d].childs[j]].name = name => k <= j
<1> DEFINE childs == nodes[d].childs
           T == {k \in DOMAIN childs : nodes[childs[k]].name = name}
<1>1. childs \in Seq(Nat)
  BY NodeFields
<1>2. T \subseteq Nat
  BY <1>1
<1>3. FirstNamed(childs, name) =
        IF T = {} THEN NULL ELSE childs[CHOOSE k \in T : \A j \in T : k <= j]
  BY DEF FirstNamed
<1>4. CASE T = {}
  BY <1>3, <1>4
<1>5. CASE T # {}
  <2>1. \E k \in T : \A j \in T : k <= j
    BY <1>2, <1>5, LeastElement
  <2> DEFINE m == CHOOSE k \in T : \A j \in T : k <= j
  <2>2. m \in T /\ \A j \in T : m <= j
    BY <2>1
  <2>3. FirstNamed(childs, name) = childs[m]
    BY <1>3, <1>5
  <2> HIDE DEF m
  <2> QED
    BY <2>2, <2>3
<1> QED
  BY <1>4, <1>5

(* The lookup of one component finds a vnode or fails.                     *)
LEMMA LookupChild ==
  ASSUME TreeInv, NEW d \in DOMAIN nodes, NEW name
  PROVE  Lookup(d, name) \in DOMAIN nodes \cup {NULL}
<1>1. NodesTyped /\ Lookup(d, name) = FirstNamed(nodes[d].childs, name)
  BY DEF TreeInv, Lookup, TmpfsLookup, InitramfsLookup
<1>2. \/ Lookup(d, name) = NULL
      \/ \E k \in DOMAIN nodes[d].childs : Lookup(d, name) = nodes[d].childs[k]
  BY <1>1, FirstNamedChild
<1> QED
  BY <1>2 DEF TreeInv, EdgesDown

(* So does following the mount on what it found.                           *)
LEMMA RedirectNode ==
  ASSUME TreeInv, NEW n \in DOMAIN nodes \cup {NULL}
  PROVE  Redirect(n) \in DOMAIN nodes \cup {NULL}
  BY DEF TreeInv, EdgesDown, Redirect

(* The vnodes that vfs_lookup() passes through.                            *)
Steps(f, path) ==
  /\ f \in [0 .. Len(path) -> DOMAIN nodes \cup {NULL}]
  /\ f[0] = Root
  /\ \A k \in 1 .. Len(path) :
       f[k] = IF f[k - 1] = NULL THEN NULL ELSE Redirect(Lookup(f[k - 1], path[k]))

(* vfs_lookup()'s loop has such steps, and its result is the last of them. *)
LEMMA LookupSteps ==
  ASSUME TreeInv, NEW path \in Seq(Names)
  PROVE  \E f : Steps(f, path) /\ VfsLookup(path) = f[Len(path)]
<1> DEFINE n == Len(path)
           X == DOMAIN nodes \cup {NULL}
           step(d, k) == IF d = NULL THEN NULL ELSE Redirect(Lookup(d, path[k]))
           R == [x \in X \X (1 .. n) |-> step(x[1], x[2])]
           body(f, k) == IF k = 0 THEN Root ELSE step(f[k - 1], k)
           F == CHOOSE f : f = [k \in 0 .. n |-> body(f, k)]
<1>1. n \in Nat /\ Root \in X
  BY DEF TreeInv, NodesTyped
<1>2. \A d \in X, k \in 1 .. n : step(d, k) \in X
  <2> SUFFICES ASSUME NEW d \in X, NEW k \in 1 .. n PROVE step(d, k) \in X
    OBVIOUS
  <2>1. CASE d = NULL
    BY <2>1
  <2>2. CASE d # NULL
    BY <2>2, LookupChild, RedirectNode
  <2> QED
    BY <2>1, <2>2
<1> HIDE DEF n, X, step
<1>3. R \in [X \X (1 .. n) -> X]
  BY <1>2
<1>4. PICK f \in [0 .. n -> X] : Iterates(f, n, Root, R)
  <2> HIDE DEF R
  <2> QED
    BY <1>1, <1>3, Iteration
<1>5. \A k \in 0 .. n : f[k] = body(f, k)
  <2> SUFFICES ASSUME NEW k \in 0 .. n, k # 0 PROVE f[k] = step(f[k - 1], k)
    BY <1>4 DEF Iterates
  <2>1. k \in 1 .. n /\ k - 1 \in 0 .. n
    BY <1>1
  <2>2. f[k - 1] \in X
    BY <2>1
  <2>3. f[k] = R[<<f[k - 1], k>>]
    BY <1>4, <2>1 DEF Iterates
  <2> QED
    BY <2>1, <2>2, <2>3
<1>6. f = [k \in 0 .. n |-> body(f, k)]
  BY <1>5
<1>7. F = [k \in 0 .. n |-> body(F, k)]
  BY <1>6, Zenon
<1>8. VfsLookup(path) = F[n]
  BY DEF VfsLookup, F, n, step
<1> HIDE DEF F
<1>9. \A k \in 0 .. n : F[k] = body(F, k)
  BY <1>7
<1>10. F[0] = Root /\ \A k \in 1 .. n : F[k] = step(F[k - 1], k)
  <2>1. 0 \in 0 .. n /\ \A k \in 1 .. n : k \in 0 .. n /\ k # 0
    BY <1>1
  <2> QED
    BY <1>9, <2>1
<1>11. \A k \in 0 .. n : F[k] \in X
  <2> SUFFICES ASSUME NEW k0 \in 0 .. n, F[k0] \notin X PROVE FALSE
    OBVIOUS
  <2> DEFINE T == {k \in Nat : k <= n /\ F[k] \notin X}
  <2>1. k0 \in T /\ T \subseteq Nat
    BY <1>1
  <2>2. PICK m \in T : \A j \in T : m <= j
    BY <2>1, LeastElement
  <2>3. m \in Nat /\ m <= n /\ F[m] \notin X /\ m # 0
    BY <1>1, <1>10, <2>2
  <2>4. PICK l : l = m - 1
    OBVIOUS
  <2>5. l \in Nat /\ l <= n /\ ~ (m <= l) /\ m \in 1 .. n
    BY <1>1, <2>3, <2>4
  <2>6. F[l] \in X
    BY <2>2, <2>5
  <2> QED
    BY <1>2, <1>10, <2>3, <2>4, <2>5, <2>6
<1>12. F \in [0 .. n -> X]
  BY <1>7, <1>11
<1>13. Steps(F, path)
  BY <1>10, <1>12 DEF Steps, n, X, step
<1> QED
  BY <1>8, <1>13 DEF n

(* vfs_lookup() finds a vnode or fails.                                    *)
LEMMA LookupNode ==
  ASSUME TreeInv, NEW path \in Seq(Names)
  PROVE  VfsLookup(path) \in DOMAIN nodes \cup {NULL}
<1>1. PICK f : Steps(f, path) /\ VfsLookup(path) = f[Len(path)]
  BY LookupSteps
<1>2. Len(path) \in 0 .. Len(path)
  OBVIOUS
<1> QED
  BY <1>1, <1>2 DEF Steps

-----------------------------------------------------------------------------
(* Changes of the tree                                                     *)

(* The vnodes that the file systems make.                                  *)
LEMMA TmpfsVnode ==
  ASSUME NEW type \in {"dir", "file"}, NEW name \in Names
  PROVE  /\ TmpfsCreateVnode(type, name) \in NodeType
         /\ TmpfsCreateVnode(type, name).childs = <<>>
         /\ TmpfsCreateVnode(type, name).mount = NULL
         /\ TmpfsCreateVnode(type, name).type = type
         /\ TmpfsCreateVnode(type, name).name = name
         /\ TmpfsCreateVnode(type, name).data = <<>>
  BY DEF TmpfsCreateVnode, NodeType, Filesystems, NULL

(* The same for initramfs_create_vnode().                                  *)
LEMMA InitramfsVnode ==
  ASSUME NEW type \in {"dir", "file"}, NEW name \in Names, NEW data \in Seq(Values)
  PROVE  /\ InitramfsCreateVnode(type, name, data) \in NodeType
         /\ InitramfsCreateVnode(type, name, data).childs = <<>>
         /\ InitramfsCreateVnode(type, name, data).mount = NULL
         /\ InitramfsCreateVnode(type, name, data).type = type
  BY DEF InitramfsCreateVnode, NodeType, Filesystems, NULL

(* What NewChild() leaves.                                                 *)
HasNewChild(ns, dir, v) ==
  /\ ns \in Seq(NodeType) /\ Len(ns) = Len(nodes) + 1 /\ DOMAIN ns = 1 .. Len(nodes) + 1
  /\ \A n \in DOMAIN nodes : n # dir => ns[n] = nodes[n]
  /\ ns[dir] = [nodes[dir] EXCEPT !.childs = Append(nodes[dir].childs, Len(nodes) + 1)]
  /\ ns[Len(nodes) + 1] = v

(* tmpfs_create() and tmpfs_mkdir() change one directory and add one vnode. *)
LEMMA NewChildNodes ==
  ASSUME NodesTyped, NEW dir \in DOMAIN nodes, NEW type \in {"dir", "file"},
         NEW name \in Names, NEW ns, ns = NewChild(dir, type, name)
  PROVE  HasNewChild(ns, dir, TmpfsCreateVnode(type, name))
<1> DEFINE N == Len(nodes)
           new == N + 1
           v == TmpfsCreateVnode(type, name)
           m == Append(nodes, v)
           d2 == [nodes[dir] EXCEPT !.childs = Append(nodes[dir].childs, new)]
<1>1. N \in Nat /\ DOMAIN nodes = 1 .. N /\ nodes \in Seq(NodeType)
  BY DEF NodesTyped
<1>2. v \in NodeType
  BY TmpfsVnode
<1>3. /\ m \in Seq(NodeType) /\ Len(m) = new /\ m[new] = v
      /\ \A n \in 1 .. N : m[n] = nodes[n]
  <2> HIDE DEF v
  <2> QED
    BY <1>1, <1>2, AppendProperties
<1>4. d2 \in NodeType
  <2>1. nodes[dir] \in NodeType /\ new \in Nat
    BY <1>1
  <2>2. Append(nodes[dir].childs, new) \in Seq(Nat)
    BY <2>1 DEF NodeType
  <2> QED
    BY <2>1, <2>2 DEF NodeType
<1>5. ns = [m EXCEPT ![dir] = d2]
  <2>1. m[dir] = nodes[dir]
    BY <1>1, <1>3
  <2>2. ns = [m EXCEPT ![dir] = [m[dir] EXCEPT !.childs = Append(m[dir].childs, new)]]
    BY DEF NewChild
  <2> QED
    BY <2>1, <2>2
<1> HIDE DEF v, m, d2, N
<1>6. dir \in 1 .. Len(m) /\ new \in 1 .. Len(m) /\ dir # new /\ \A n \in 1 .. N : n \in 1 .. Len(m)
  BY <1>1, <1>3
<1>7. /\ ns \in Seq(NodeType) /\ Len(ns) = Len(m)
      /\ \A n \in 1 .. Len(m) : ns[n] = IF n = dir THEN d2 ELSE m[n]
  BY <1>3, <1>4, <1>5, <1>6, ExceptSeq
<1>8. DOMAIN ns = 1 .. new
  BY <1>3, <1>7
<1> QED
  BY <1>1, <1>3, <1>6, <1>7, <1>8 DEF v, d2, N, HasNewChild

(* A new child keeps the tree a tree, and the data of all others.          *)
LEMMA NewChildTree ==
  ASSUME TreeInv, NEW dir \in DOMAIN nodes, TmpfsRoom(dir),
         NEW type \in {"dir", "file"}, NEW name \in Names,
         nodes' = NewChild(dir, type, name)
  PROVE  /\ TreeInv' /\ DOMAIN nodes' = 1 .. Len(nodes) + 1
         /\ \A n \in DOMAIN nodes : n \in DOMAIN nodes' /\ nodes'[n].data = nodes[n].data
<1> DEFINE N == Len(nodes)
           new == N + 1
           L == Len(nodes[dir].childs)
<1>1. N \in Nat /\ DOMAIN nodes = 1 .. N /\ NodesTyped
  BY DEF TreeInv, NodesTyped
<1>2. /\ nodes' \in Seq(NodeType) /\ Len(nodes') = new /\ DOMAIN nodes' = 1 .. new
      /\ \A n \in DOMAIN nodes : n # dir => nodes'[n] = nodes[n]
      /\ nodes'[dir] = [nodes[dir] EXCEPT !.childs = Append(nodes[dir].childs, new)]
      /\ nodes'[new] = TmpfsCreateVnode(type, name)
  <2>1. HasNewChild(nodes', dir, TmpfsCreateVnode(type, name))
    BY <1>1, NewChildNodes
  <2> QED
    BY <2>1 DEF HasNewChild
<1>3. /\ nodes[dir].childs \in Seq(Nat) /\ L \in Nat /\ L < MAX_DIR_NUM
      /\ nodes[dir].type = "dir" /\ MAX_DIR_NUM \in Nat
      /\ nodes[dir] \in NodeType
  <2>1. nodes[dir].childs \in Seq(Nat) /\ nodes[dir] \in NodeType
    BY <1>1, NodeFields DEF NodesTyped
  <2> QED
    BY <2>1, VfsAssumption DEF TmpfsRoom
<1>4. /\ nodes'[dir].childs = Append(nodes[dir].childs, new)
      /\ nodes'[dir].mount = nodes[dir].mount /\ nodes'[dir].type = nodes[dir].type
      /\ nodes'[dir].data = nodes[dir].data
  BY <1>2, <1>3 DEF NodeType
<1>5. /\ nodes'[new].childs = <<>> /\ nodes'[new].mount = NULL
  BY <1>2, TmpfsVnode
<1>6. \A n \in DOMAIN nodes' : n = new \/ n \in DOMAIN nodes
  BY <1>1, <1>2
<1>7. \A n \in DOMAIN nodes : n \in DOMAIN nodes' /\ n < new /\ n # new
  BY <1>1, <1>2
<1>8. /\ \A n \in DOMAIN nodes : nodes'[n].mount = nodes[n].mount /\ nodes'[n].type = nodes[n].type
      /\ \A n \in DOMAIN nodes : nodes'[n].data = nodes[n].data
      /\ \A n \in DOMAIN nodes : n # dir => nodes'[n].childs = nodes[n].childs
  BY <1>2, <1>4
<1>9. /\ Len(nodes'[dir].childs) = L + 1 /\ DOMAIN nodes'[dir].childs = 1 .. L + 1
      /\ DOMAIN nodes[dir].childs = 1 .. L
      /\ nodes'[dir].childs[L + 1] = new
      /\ \A k \in 1 .. L : nodes'[dir].childs[k] = nodes[dir].childs[k]
  BY <1>3, <1>4
<1> DEFINE old(d, k) == /\ d \in DOMAIN nodes /\ k \in DOMAIN nodes[d].childs
                        /\ nodes'[d].childs[k] = nodes[d].childs[k]
           fresh(d, k) == d = dir /\ k = L + 1 /\ nodes'[d].childs[k] = new
<1>10. ASSUME NEW d \in DOMAIN nodes', NEW k \in DOMAIN nodes'[d].childs
       PROVE  old(d, k) \/ fresh(d, k)
  <2>1. CASE d = new
    <3>1. DOMAIN <<>> = {}
      OBVIOUS
    <3> QED
      BY <1>5, <1>10, <2>1, <3>1
  <2>2. CASE d = dir
    <3>1. k \in 1 .. L \/ k = L + 1
      BY <1>3, <1>9, <1>10, <2>2
    <3> QED
      BY <1>9, <2>2, <3>1
  <2>3. CASE d # new /\ d # dir
    BY <1>6, <1>8, <1>10, <2>3
  <2> QED
    BY <2>1, <2>2, <2>3
<1>11. \A d \in DOMAIN nodes : \A k \in DOMAIN nodes[d].childs :
         nodes[d].childs[k] \in DOMAIN nodes /\ d < nodes[d].childs[k]
  BY DEF TreeInv, EdgesDown
<1>12. \A d \in DOMAIN nodes : nodes[d].mount # NULL => nodes[d].mount \in DOMAIN nodes /\ d < nodes[d].mount
  BY DEF TreeInv, EdgesDown
<1>13. NodesTyped'
  BY <1>2, <1>7 DEF TreeInv, NodesTyped
<1> HIDE DEF N, L
<1>14. EdgesDown'
  <2> SUFFICES ASSUME NEW d \in DOMAIN nodes'
               PROVE  /\ Len(nodes'[d].childs) <= MAX_DIR_NUM
                      /\ nodes'[d].type = "file" => nodes'[d].childs = <<>>
                      /\ \A k \in DOMAIN nodes'[d].childs :
                           nodes'[d].childs[k] \in DOMAIN nodes' /\ d < nodes'[d].childs[k]
                      /\ nodes'[d].mount # NULL => nodes'[d].mount \in DOMAIN nodes' /\ d < nodes'[d].mount
    BY DEF EdgesDown
  <2>1. Len(nodes'[d].childs) <= MAX_DIR_NUM
    <3>1. CASE d = new
      <4>1. Len(<<>>) = 0
        OBVIOUS
      <4> QED
        BY <1>3, <1>5, <3>1, <4>1
    <3>2. CASE d = dir
      BY <1>3, <1>9, <3>2
    <3>3. CASE d # new /\ d # dir
      BY <1>6, <1>8, <3>3 DEF TreeInv, EdgesDown
    <3> QED
      BY <3>1, <3>2, <3>3
  <2>2. nodes'[d].type = "file" => nodes'[d].childs = <<>>
    BY <1>3, <1>4, <1>5, <1>6, <1>8 DEF TreeInv, EdgesDown
  <2>3. ASSUME NEW k \in DOMAIN nodes'[d].childs
        PROVE  nodes'[d].childs[k] \in DOMAIN nodes' /\ d < nodes'[d].childs[k]
    <3>1. CASE old(d, k)
      BY <1>7, <1>11, <3>1
    <3>2. CASE fresh(d, k)
      <4>1. new \in DOMAIN nodes'
        BY <1>1, <1>2
      <4> QED
        BY <1>7, <3>2, <4>1
    <3> QED
      BY <1>10, <2>3, <3>1, <3>2
  <2>4. nodes'[d].mount # NULL => nodes'[d].mount \in DOMAIN nodes' /\ d < nodes'[d].mount
    BY <1>5, <1>6, <1>7, <1>8, <1>12
  <2> QED
    BY <2>1, <2>2, <2>3, <2>4
<1>15. OnePlace'
  <2>1. ASSUME NEW c \in DOMAIN nodes', NEW d \in DOMAIN nodes',
               NEW j \in DOMAIN nodes'[c].childs, NEW k \in DOMAIN nodes'[d].childs,
               nodes'[c].childs[j] = nodes'[d].childs[k]
        PROVE  c = d /\ j = k
    <3>1. (old(c, j) \/ fresh(c, j)) /\ (old(d, k) \/ fresh(d, k))
      BY <1>10
    <3>2. CASE old(c, j) /\ old(d, k)
      <4>1. nodes[c].childs[j] = nodes[d].childs[k]
        BY <2>1, <3>2
      <4>2. \A a, b \in DOMAIN nodes :
              \A g \in DOMAIN nodes[a].childs, h \in DOMAIN nodes[b].childs :
                nodes[a].childs[g] = nodes[b].childs[h] => a = b /\ g = h
        BY DEF TreeInv, OnePlace
      <4> QED
        BY <3>2, <4>1, <4>2
    <3>3. CASE fresh(c, j) /\ fresh(d, k)
      BY <3>3
    <3>4. CASE (old(c, j) /\ fresh(d, k)) \/ (fresh(c, j) /\ old(d, k))
      <4>1. nodes'[c].childs[j] \in DOMAIN nodes \/ nodes'[d].childs[k] \in DOMAIN nodes
        BY <1>11, <3>4
      <4>2. nodes'[c].childs[j] = new \/ nodes'[d].childs[k] = new
        BY <3>4
      <4> QED
        BY <1>7, <2>1, <4>1, <4>2
    <3> QED
      BY <3>1, <3>2, <3>3, <3>4
  <2>2. ASSUME NEW c \in DOMAIN nodes', NEW d \in DOMAIN nodes',
               nodes'[c].mount = nodes'[d].mount, nodes'[c].mount # NULL
        PROVE  c = d
    <3>1. c \in DOMAIN nodes /\ d \in DOMAIN nodes
      BY <1>5, <1>6, <2>2
    <3> QED
      BY <1>8, <2>2, <3>1 DEF TreeInv, OnePlace
  <2>3. ASSUME NEW c \in DOMAIN nodes', NEW d \in DOMAIN nodes',
               NEW k \in DOMAIN nodes'[c].childs, nodes'[c].childs[k] = nodes'[d].mount
        PROVE  FALSE
    <3>1. nodes'[c].childs[k] # NULL
      <4>1. NULL \notin DOMAIN nodes /\ new # NULL
        BY <1>1 DEF NULL
      <4> QED
        BY <1>10, <1>11, <4>1
    <3>2. d \in DOMAIN nodes /\ nodes'[d].mount = nodes[d].mount /\ nodes[d].mount \in DOMAIN nodes
      BY <1>5, <1>6, <1>8, <1>12, <2>3, <3>1
    <3>3. CASE old(c, k)
      BY <2>3, <3>2, <3>3 DEF TreeInv, OnePlace
    <3>4. CASE fresh(c, k)
      BY <1>7, <2>3, <3>2, <3>4
    <3> QED
      BY <1>10, <3>3, <3>4
  <2> QED
    BY <2>1, <2>2, <2>3 DEF OnePlace
<1> QED
  BY <1>2, <1>7, <1>8, <1>13, <1>14, <1>15 DEF TreeInv, N

(* What setup_mount() makes: a root whose childs are the files after it.   *)
IsMount(s, N) ==
  /\ s \in Seq(NodeType) /\ Len(s) >= 1
  /\ s[1].type = "dir" /\ s[1].mount = NULL
  /\ s[1].childs \in Seq(Nat) /\ Len(s[1].childs) = Len(s) - 1
  /\ Len(s) - 1 <= MAX_DIR_NUM
  /\ \A k \in 1 .. Len(s) - 1 : s[1].childs[k] = N + 1 + k
  /\ \A j \in 2 .. Len(s) : s[j].childs = <<>> /\ s[j].mount = NULL

(* initramfs_setup_mount() makes a root with the archive's files below it.  *)
LEMMA InitramfsIsMount ==
  ASSUME NEW N \in Nat
  PROVE  IsMount(InitramfsSetupMount(N), N)
<1> DEFINE A == Len(Archive)
           kids == [k \in 1 .. A |-> N + 1 + k]
           r == [InitramfsCreateVnode("dir", "", <<>>) EXCEPT !.childs = kids]
           t == InitramfsInit(N)
           s == <<r>> \o t
<1>1. /\ A \in Nat /\ DOMAIN Archive = 1 .. A /\ A <= MAX_DIR_NUM /\ MAX_DIR_NUM \in Nat
      /\ Archive \in Seq([name : Names, data : Seq(Values)])
  BY VfsAssumption
<1>2. kids \in Seq(Nat) /\ Len(kids) = A
  BY <1>1
<1>3. /\ r.childs = kids /\ r.type = "dir" /\ r.mount = NULL /\ r \in NodeType
  <2>1. <<>> \in Seq(Values)
    OBVIOUS
  <2>2. PICK w : w = InitramfsCreateVnode("dir", "", <<>>)
    OBVIOUS
  <2>3. w \in NodeType /\ w.type = "dir" /\ w.mount = NULL
    BY <2>1, <2>2, NamesAssumption, InitramfsVnode
  <2>4. r = [w EXCEPT !.childs = kids]
    BY <2>2
  <2> HIDE DEF r, kids
  <2> QED
    BY <1>2, <2>3, <2>4 DEF NodeType
<1>4. /\ t = [k \in 1 .. A |-> InitramfsCreateVnode("file", Archive[k].name, Archive[k].data)]
  BY <1>1 DEF InitramfsInit
<1>5. \A k \in 1 .. A : /\ InitramfsCreateVnode("file", Archive[k].name, Archive[k].data) \in NodeType
                        /\ InitramfsCreateVnode("file", Archive[k].name, Archive[k].data).childs = <<>>
                        /\ InitramfsCreateVnode("file", Archive[k].name, Archive[k].data).mount = NULL
  <2> SUFFICES ASSUME NEW k \in 1 .. A
               PROVE  /\ InitramfsCreateVnode("file", Archive[k].name, Archive[k].data) \in NodeType
                      /\ InitramfsCreateVnode("file", Archive[k].name, Archive[k].data).childs = <<>>
                      /\ InitramfsCreateVnode("file", Archive[k].name, Archive[k].data).mount = NULL
    OBVIOUS
  <2>1. Archive[k] \in [name : Names, data : Seq(Values)]
    BY <1>1, ElementOfSeq
  <2>2. Archive[k].name \in Names /\ Archive[k].data \in Seq(Values)
    BY <2>1
  <2> QED
    BY <2>2, InitramfsVnode
<1>6. t \in Seq(NodeType) /\ Len(t) = A /\ \A k \in 1 .. A : t[k].childs = <<>> /\ t[k].mount = NULL
  BY <1>1, <1>4, <1>5
<1>7. InitramfsSetupMount(N) = s
  BY <1>1 DEF InitramfsSetupMount
<1> HIDE DEF r, t, kids
<1>8. /\ s \in Seq(NodeType) /\ Len(s) = A + 1 /\ s[1] = r
      /\ \A j \in 2 .. A + 1 : s[j] = t[j - 1] /\ j - 1 \in 1 .. A
  BY <1>1, <1>3, <1>6
<1> HIDE DEF s
<1>9. \A k \in 1 .. A : kids[k] = N + 1 + k
  BY DEF kids
<1>10. IsMount(s, N)
  <2>1. Len(s) >= 1 /\ Len(s) - 1 = A
    BY <1>1, <1>8
  <2>2. \A j \in 2 .. Len(s) : s[j].childs = <<>> /\ s[j].mount = NULL
    BY <1>6, <1>8
  <2> QED
    BY <1>1, <1>2, <1>3, <1>8, <1>9, <2>1, <2>2 DEF IsMount
<1> QED
  BY <1>7, <1>10

(* So does setup_mount() of any file system, tmpfs without files.          *)
LEMMA SetupIsMount ==
  ASSUME NEW N \in Nat, NEW fs \in Filesystems
  PROVE  IsMount(SetupMount(fs, N), N)
<1>1. CASE fs = "tmpfs"
  <2> DEFINE v == TmpfsCreateVnode("dir", "")
  <2>1. v \in NodeType /\ v.childs = <<>> /\ v.type = "dir" /\ v.mount = NULL
    BY NamesAssumption, TmpfsVnode
  <2>2. SetupMount(fs, N) = <<v>>
    BY <1>1 DEF SetupMount, TmpfsSetupMount
  <2> HIDE DEF v
  <2>3. <<v>> \in Seq(NodeType) /\ Len(<<v>>) = 1 /\ <<v>>[1] = v
    BY <2>1
  <2>4. IsMount(<<v>>, N)
    <3>1. MAX_DIR_NUM \in Nat
      BY VfsAssumption
    <3>2. v.childs \in Seq(Nat) /\ Len(v.childs) = 0
      BY <2>1
    <3>3. PICK s : s = <<v>>
      OBVIOUS
    <3>4. /\ s \in Seq(NodeType) /\ Len(s) = 1 /\ s[1].childs \in Seq(Nat) /\ Len(s[1].childs) = 0
          /\ s[1].type = "dir" /\ s[1].mount = NULL
      BY <2>1, <2>3, <3>2, <3>3
    <3>5. IsMount(s, N)
      BY <3>1, <3>4 DEF IsMount
    <3> QED
      BY <3>3, <3>5
  <2> QED
    BY <2>2, <2>4
<1>2. CASE fs = "initramfs"
  <2>1. SetupMount(fs, N) = InitramfsSetupMount(N)
    BY <1>2 DEF SetupMount
  <2> QED
    BY <2>1, InitramfsIsMount
<1> QED
  BY <1>1, <1>2 DEF Filesystems

(* The result of vfs_mount(): s is what setup_mount() made.                *)
Mounted(target, s) ==
  IF nodes[target].mount # NULL THEN nodes \o s
  ELSE [(nodes \o s) EXCEPT ![target].mount = Len(nodes) + 1]

(* The vnodes after a mount: what was there, at most one mount point more, *)
(* and the mounted root with its files.                                    *)
LEMMA MountNodes ==
  ASSUME NodesTyped, NEW target \in DOMAIN nodes, NEW s, IsMount(s, Len(nodes)), NEW ns,
         ns = Mounted(target, s)
  PROVE  /\ ns \in Seq(NodeType) /\ DOMAIN ns = 1 .. Len(nodes) + Len(s)
         /\ \A n \in DOMAIN nodes :
              /\ ns[n].data = nodes[n].data /\ ns[n].childs = nodes[n].childs
              /\ ns[n].type = nodes[n].type /\ ns[n].name = nodes[n].name
              /\ ns[n].fs = nodes[n].fs
              /\ ns[n].mount = IF n = target /\ nodes[n].mount = NULL
                               THEN Len(nodes) + 1 ELSE nodes[n].mount
         /\ \A j \in 1 .. Len(s) : ns[Len(nodes) + j] = s[j]
<1> DEFINE N == Len(nodes)
           M == Len(s)
           m == nodes \o s
           d2 == [nodes[target] EXCEPT !.mount = N + 1]
<1>1. /\ N \in Nat /\ DOMAIN nodes = 1 .. N /\ nodes \in Seq(NodeType)
      /\ M \in Nat /\ s \in Seq(NodeType)
  BY DEF NodesTyped, IsMount
<1>2. /\ m \in Seq(NodeType) /\ Len(m) = N + M
      /\ \A n \in 1 .. N : n \in 1 .. N + M /\ m[n] = nodes[n]
      /\ \A j \in 1 .. M : N + j \in 1 .. N + M /\ m[N + j] = s[j] /\ N + j \notin 1 .. N
  BY <1>1
<1>3. nodes[target] \in NodeType
  BY <1>1
<1>4. /\ d2 \in NodeType /\ d2.mount = N + 1 /\ d2.data = nodes[target].data
      /\ d2.childs = nodes[target].childs /\ d2.type = nodes[target].type
      /\ d2.name = nodes[target].name /\ d2.fs = nodes[target].fs
  <2>1. PICK e \in Nat : e = N + 1
    BY <1>1
  <2> QED
    BY <1>3, <2>1 DEF NodeType
<1> HIDE DEF d2, m, N, M
<1>5. CASE nodes[target].mount # NULL
  <2>1. ns = m
    BY <1>5 DEF m, Mounted
  <2> QED
    BY <1>1, <1>2, <1>5, <2>1 DEF N, M
<1>6. CASE nodes[target].mount = NULL
  <2>1. ns = [m EXCEPT ![target] = d2]
    <3>1. m[target] = nodes[target]
      BY <1>1, <1>2
    <3>2. ns = [m EXCEPT ![target] = [m[target] EXCEPT !.mount = N + 1]]
      BY <1>6 DEF m, N, Mounted
    <3> QED
      BY <3>1, <3>2 DEF d2
  <2>2. target \in 1 .. Len(m)
    BY <1>1, <1>2
  <2>3. /\ ns \in Seq(NodeType) /\ Len(ns) = Len(m)
        /\ \A n \in 1 .. Len(m) : ns[n] = IF n = target THEN d2 ELSE m[n]
    BY <1>2, <1>4, <2>1, <2>2, ExceptSeq
  <2>4. DOMAIN ns = 1 .. N + M
    BY <1>2, <2>3
  <2>5. ns[target] = d2 /\ \A n \in 1 .. N : n # target => ns[n] = nodes[n]
    BY <1>1, <1>2, <2>2, <2>3
  <2>6. \A j \in 1 .. M : ns[N + j] = s[j]
    BY <1>1, <1>2, <2>3
  <2> QED
    BY <1>1, <1>4, <1>6, <2>3, <2>4, <2>5, <2>6 DEF N, M
<1> QED
  BY <1>5, <1>6

(* A mount keeps the tree a tree, and the data of all vnodes.              *)
LEMMA MountTree ==
  ASSUME TreeInv, NEW target \in DOMAIN nodes, NEW s, IsMount(s, Len(nodes)),
         nodes' = Mounted(target, s)
  PROVE  /\ TreeInv'
         /\ \A n \in DOMAIN nodes : n \in DOMAIN nodes' /\ nodes'[n].data = nodes[n].data
<1> DEFINE N == Len(nodes)
           M == Len(s)
           top == N + 1
<1>1. N \in Nat /\ DOMAIN nodes = 1 .. N /\ NodesTyped
  BY DEF TreeInv, NodesTyped
<1>2. /\ nodes' \in Seq(NodeType) /\ DOMAIN nodes' = 1 .. N + M
      /\ \A n \in DOMAIN nodes :
           /\ nodes'[n].data = nodes[n].data /\ nodes'[n].childs = nodes[n].childs
           /\ nodes'[n].type = nodes[n].type
           /\ nodes'[n].mount = IF n = target /\ nodes[n].mount = NULL
                                THEN top ELSE nodes[n].mount
      /\ \A j \in 1 .. M : nodes'[N + j] = s[j]
  BY <1>1, MountNodes
<1>3. /\ M \in Nat /\ M >= 1 /\ s[1].type = "dir" /\ s[1].mount = NULL
      /\ s[1].childs \in Seq(Nat) /\ Len(s[1].childs) = M - 1
      /\ M - 1 <= MAX_DIR_NUM
      /\ \A k \in 1 .. M - 1 : s[1].childs[k] = N + 1 + k
      /\ \A j \in 2 .. M : s[j].childs = <<>> /\ s[j].mount = NULL
  <2>1. s \in Seq(NodeType)
    BY DEF IsMount
  <2>2. M \in Nat
    BY <2>1
  <2> QED
    BY <2>2 DEF IsMount
<1> HIDE DEF N, M
<1>4. \A n \in DOMAIN nodes : n \in DOMAIN nodes' /\ n < top /\ n # top
  BY <1>1, <1>2, <1>3
<1>5. /\ nodes'[top] = s[1] /\ top \in DOMAIN nodes'
      /\ DOMAIN s[1].childs = 1 .. M - 1
  <2>1. 1 \in 1 .. M
    BY <1>3
  <2>2. nodes'[top] = s[1]
    BY <1>2, <2>1
  <2>3. top \in DOMAIN nodes'
    BY <1>1, <1>2, <1>3
  <2>4. DOMAIN s[1].childs = 1 .. Len(s[1].childs)
    BY <1>3
  <2> QED
    BY <1>3, <2>2, <2>3, <2>4
<1>6. ASSUME NEW n \in DOMAIN nodes', n \notin DOMAIN nodes, n # top
      PROVE  nodes'[n].childs = <<>> /\ nodes'[n].mount = NULL
  <2>1. n \in Int /\ N + 1 < n /\ n <= N + M /\ N \in Nat /\ M \in Nat
    BY <1>1, <1>2, <1>3, <1>6
  <2>2. PICK j \in Int : j = n - N
    BY <2>1
  <2>3. j \in 2 .. M /\ j \in 1 .. M /\ n = N + j
    BY <2>1, <2>2
  <2> QED
    BY <1>2, <1>3, <2>3, SMTT(30)
<1> DEFINE old(d, k) == /\ d \in DOMAIN nodes /\ k \in DOMAIN nodes[d].childs
                        /\ nodes'[d].childs[k] = nodes[d].childs[k]
           fresh(d, k) == d = top /\ k \in 1 .. M - 1 /\ nodes'[d].childs[k] = N + 1 + k
<1>7. ASSUME NEW d \in DOMAIN nodes', NEW k \in DOMAIN nodes'[d].childs
      PROVE  old(d, k) \/ fresh(d, k)
  <2>1. CASE d \in DOMAIN nodes
    BY <1>2, <1>7, <2>1
  <2>2. CASE d = top
    BY <1>3, <1>5, <1>7, <2>2
  <2>3. CASE d \notin DOMAIN nodes /\ d # top
    <3>1. DOMAIN <<>> = {}
      OBVIOUS
    <3> QED
      BY <1>6, <1>7, <2>3, <3>1
  <2> QED
    BY <2>1, <2>2, <2>3
<1>8. \A d \in DOMAIN nodes : \A k \in DOMAIN nodes[d].childs :
         nodes[d].childs[k] \in DOMAIN nodes /\ d < nodes[d].childs[k]
  BY DEF TreeInv, EdgesDown
<1>9. \A d \in DOMAIN nodes : nodes[d].mount # NULL => nodes[d].mount \in DOMAIN nodes /\ d < nodes[d].mount
  BY DEF TreeInv, EdgesDown
<1>10. \A k \in 1 .. M - 1 : /\ N + 1 + k \in DOMAIN nodes' /\ top < N + 1 + k
                             /\ N + 1 + k \notin DOMAIN nodes
  BY <1>1, <1>2, <1>3
<1>11. top \notin DOMAIN nodes /\ NULL \notin DOMAIN nodes /\ NULL # top /\ NULL \notin DOMAIN nodes'
  BY <1>1, <1>2 DEF NULL
<1> DEFINE oldMount(d) == d \in DOMAIN nodes /\ nodes'[d].mount = nodes[d].mount /\ nodes[d].mount \in DOMAIN nodes
           newMount(d) == d = target /\ nodes'[d].mount = top
<1>12. ASSUME NEW d \in DOMAIN nodes', nodes'[d].mount # NULL
       PROVE  oldMount(d) \/ newMount(d)
  <2>1. d \in DOMAIN nodes
    BY <1>3, <1>5, <1>6, <1>12
  <2> QED
    BY <1>2, <1>9, <1>12, <2>1
<1>13. NodesTyped'
  BY <1>2, <1>4 DEF TreeInv, NodesTyped
<1> HIDE DEF top
<1>14. EdgesDown'
  <2> SUFFICES ASSUME NEW d \in DOMAIN nodes'
               PROVE  /\ Len(nodes'[d].childs) <= MAX_DIR_NUM
                      /\ nodes'[d].type = "file" => nodes'[d].childs = <<>>
                      /\ \A k \in DOMAIN nodes'[d].childs :
                           nodes'[d].childs[k] \in DOMAIN nodes' /\ d < nodes'[d].childs[k]
                      /\ nodes'[d].mount # NULL => nodes'[d].mount \in DOMAIN nodes' /\ d < nodes'[d].mount
    BY DEF EdgesDown
  <2>1. /\ Len(nodes'[d].childs) <= MAX_DIR_NUM
        /\ nodes'[d].type = "file" => nodes'[d].childs = <<>>
    <3>1. CASE d \in DOMAIN nodes
      BY <1>2, <3>1 DEF TreeInv, EdgesDown
    <3>2. CASE d = top
      BY <1>3, <1>5, <3>2
    <3>3. CASE d \notin DOMAIN nodes /\ d # top
      <4>1. Len(<<>>) = 0 /\ MAX_DIR_NUM \in Nat
        BY VfsAssumption
      <4> QED
        BY <1>6, <3>3, <4>1
    <3> QED
      BY <3>1, <3>2, <3>3
  <2>2. ASSUME NEW k \in DOMAIN nodes'[d].childs
        PROVE  nodes'[d].childs[k] \in DOMAIN nodes' /\ d < nodes'[d].childs[k]
    <3>1. CASE old(d, k)
      BY <1>4, <1>8, <3>1
    <3>2. CASE fresh(d, k)
      BY <1>10, <3>2
    <3> QED
      BY <1>7, <2>2, <3>1, <3>2
  <2>3. ASSUME nodes'[d].mount # NULL
        PROVE  nodes'[d].mount \in DOMAIN nodes' /\ d < nodes'[d].mount
    <3>1. CASE oldMount(d)
      BY <1>4, <1>9, <1>11, <3>1
    <3>2. CASE newMount(d)
      BY <1>4, <1>5, <3>2
    <3> QED
      BY <1>12, <2>3, <3>1, <3>2
  <2> QED
    BY <2>1, <2>2, <2>3
<1>15. OnePlace'
  <2>1. ASSUME NEW c \in DOMAIN nodes', NEW d \in DOMAIN nodes',
               NEW j \in DOMAIN nodes'[c].childs, NEW k \in DOMAIN nodes'[d].childs,
               nodes'[c].childs[j] = nodes'[d].childs[k]
        PROVE  c = d /\ j = k
    <3>1. (old(c, j) \/ fresh(c, j)) /\ (old(d, k) \/ fresh(d, k))
      BY <1>7
    <3>2. CASE old(c, j) /\ old(d, k)
      <4>1. nodes[c].childs[j] = nodes[d].childs[k]
        BY <2>1, <3>2
      <4>2. \A a, b \in DOMAIN nodes :
              \A g \in DOMAIN nodes[a].childs, h \in DOMAIN nodes[b].childs :
                nodes[a].childs[g] = nodes[b].childs[h] => a = b /\ g = h
        BY DEF TreeInv, OnePlace
      <4> QED
        BY <3>2, <4>1, <4>2
    <3>3. CASE fresh(c, j) /\ fresh(d, k)
      <4>1. N + 1 + j = N + 1 + k
        BY <2>1, <3>3
      <4> QED
        BY <1>1, <1>3, <3>3, <4>1
    <3>4. CASE (old(c, j) /\ fresh(d, k)) \/ (fresh(c, j) /\ old(d, k))
      <4>1. nodes'[c].childs[j] \in DOMAIN nodes \/ nodes'[d].childs[k] \in DOMAIN nodes
        BY <1>8, <3>4
      <4>2. nodes'[c].childs[j] \notin DOMAIN nodes \/ nodes'[d].childs[k] \notin DOMAIN nodes
        BY <1>10, <3>4
      <4> QED
        BY <2>1, <4>1, <4>2
    <3> QED
      BY <3>1, <3>2, <3>3, <3>4
  <2>2. ASSUME NEW c \in DOMAIN nodes', NEW d \in DOMAIN nodes',
               nodes'[c].mount = nodes'[d].mount, nodes'[c].mount # NULL
        PROVE  c = d
    <3>1. (oldMount(c) \/ newMount(c)) /\ (oldMount(d) \/ newMount(d))
      BY <1>12, <2>2
    <3>2. CASE oldMount(c) /\ oldMount(d)
      <4>1. nodes[c].mount = nodes[d].mount /\ nodes[c].mount # NULL
        BY <2>2, <3>2
      <4> QED
        BY <3>2, <4>1 DEF TreeInv, OnePlace
    <3>3. CASE newMount(c) /\ newMount(d)
      BY <3>3
    <3> QED
      BY <1>11, <2>2, <3>1, <3>2, <3>3
  <2>3. ASSUME NEW c \in DOMAIN nodes', NEW d \in DOMAIN nodes',
               NEW k \in DOMAIN nodes'[c].childs, nodes'[c].childs[k] = nodes'[d].mount
        PROVE  FALSE
    <3>1. old(c, k) \/ fresh(c, k)
      BY <1>7
    <3>2. nodes'[c].childs[k] \in DOMAIN nodes'
      BY <1>4, <1>8, <1>10, <3>1
    <3>3. oldMount(d) \/ newMount(d)
      BY <1>11, <1>12, <2>3, <3>2
    <3>4. CASE old(c, k) /\ oldMount(d)
      <4>1. nodes[c].childs[k] = nodes[d].mount
        BY <2>3, <3>4
      <4>2. \A a, b \in DOMAIN nodes : \A h \in DOMAIN nodes[a].childs :
              nodes[a].childs[h] # nodes[b].mount
        BY DEF TreeInv, OnePlace
      <4> QED
        BY <3>4, <4>1, <4>2
    <3>5. CASE old(c, k) /\ newMount(d)
      BY <1>8, <1>11, <2>3, <3>5
    <3>6. CASE fresh(c, k)
      <4>1. nodes'[d].mount = N + 1 + k /\ nodes'[d].mount \notin DOMAIN nodes /\ nodes'[d].mount # top
        <5>1. \A x \in 1 .. M - 1 : N + 1 + x # top
          BY <1>1, <1>3 DEF top
        <5> QED
          BY <1>10, <2>3, <3>6, <5>1
      <4> QED
        BY <3>3, <4>1
    <3> QED
      BY <3>1, <3>3, <3>4, <3>5, <3>6
  <2> QED
    BY <2>1, <2>2, <2>3 DEF OnePlace
<1> QED
  BY <1>2, <1>4, <1>13, <1>14, <1>15 DEF TreeInv

(* The vnodes after a write: the data of one of them.                      *)
LEMMA DataTree ==
  ASSUME TreeInv, NEW v \in DOMAIN nodes, NEW d \in Seq(Values),
         nodes' = [nodes EXCEPT ![v].data = d]
  PROVE  /\ TreeInv' /\ DOMAIN nodes' = DOMAIN nodes /\ nodes'[v].data = d
         /\ \A n \in DOMAIN nodes : n # v => nodes'[n].data = nodes[n].data
<1> DEFINE e == [nodes[v] EXCEPT !.data = d]
<1>1. nodes \in Seq(NodeType) /\ nodes[v] \in NodeType /\ v \in 1 .. Len(nodes)
  BY DEF TreeInv, NodesTyped
<1>2. /\ e \in NodeType /\ e.data = d /\ e.childs = nodes[v].childs
      /\ e.type = nodes[v].type /\ e.mount = nodes[v].mount
  BY <1>1 DEF NodeType
<1>3. nodes' = [nodes EXCEPT ![v] = e]
  BY <1>1
<1> HIDE DEF e
<1>4. nodes' \in Seq(NodeType) /\ DOMAIN nodes' = DOMAIN nodes
  <2>1. nodes' \in Seq(NodeType) /\ Len(nodes') = Len(nodes)
    BY <1>1, <1>2, <1>3, ExceptSeq, SMTT(30)
  <2> QED
    BY <1>1, <2>1
<1>5. nodes'[v] = e /\ \A n \in DOMAIN nodes : n # v => nodes'[n] = nodes[n]
  BY <1>1, <1>3
<1>6. \A n \in DOMAIN nodes : /\ nodes'[n].childs = nodes[n].childs
                              /\ nodes'[n].type = nodes[n].type
                              /\ nodes'[n].mount = nodes[n].mount
  BY <1>2, <1>5
<1>7. NodesTyped'
  BY <1>4 DEF TreeInv, NodesTyped
<1>8. EdgesDown'
  BY <1>4, <1>6 DEF TreeInv, EdgesDown
<1>9. OnePlace'
  <2>1. \A a, b \in DOMAIN nodes :
          \A g \in DOMAIN nodes[a].childs, h \in DOMAIN nodes[b].childs :
            nodes[a].childs[g] = nodes[b].childs[h] => a = b /\ g = h
    BY DEF TreeInv, OnePlace
  <2>2. \A a, b \in DOMAIN nodes :
          nodes[a].mount = nodes[b].mount /\ nodes[a].mount # NULL => a = b
    BY DEF TreeInv, OnePlace
  <2>3. \A a, b \in DOMAIN nodes : \A h \in DOMAIN nodes[a].childs :
          nodes[a].childs[h] # nodes[b].mount
    BY DEF TreeInv, OnePlace
  <2> QED
    BY <1>4, <1>6, <2>1, <2>2, <2>3 DEF OnePlace
<1> QED
  BY <1>2, <1>4, <1>5, <1>7, <1>8, <1>9 DEF TreeInv

-----------------------------------------------------------------------------
(* Handles                                                                 *)

(* The vnodes are the same for the handles: none is gone and none has lost *)
(* data.                                                                   *)
NodesKept == \A n \in DOMAIN nodes : n \in DOMAIN nodes' /\ nodes'[n].data = nodes[n].data

(* What is in use is untouched when only the tree changes.                 *)
LEMMA TreeStep ==
  ASSUME VfsInv, TreeInv', NodesKept, UNCHANGED <<files, fd_table>>,
         running' \subseteq Tasks, wild' \in BOOLEAN
  PROVE  VfsInv'
<1>1. FilesTyped'
  BY DEF VfsInv, FilesTyped, NodesKept
<1>2. PosWithinSize'
  BY DEF VfsInv, FilesTyped, PosWithinSize, NodesKept
<1> QED
  BY <1>1, <1>2 DEF VfsInv

(* A descriptor and a struct file that were free refer to a vnode.         *)
LEMMA OpenStep ==
  ASSUME VfsInv, TreeInv', NodesKept, UNCHANGED <<running, wild>>,
         NEW t \in Tasks, NEW i \in Fds, fd_table[t][i] = NULL,
         NEW f \in Files, files[f].vnode = NULL, NEW node \in DOMAIN nodes',
         files' = [files EXCEPT ![f] = [vnode |-> node, f_pos |-> 0]],
         fd_table' = [fd_table EXCEPT ![t][i] = f]
  PROVE  VfsInv'
<1>1. f # NULL /\ node \in Nat /\ node # NULL
  BY VfsAssumption DEF TreeInv, NodesTyped, NULL
<1>2. /\ files'[f].vnode = node /\ files'[f].f_pos = 0
      /\ \A g \in Files : g # f => files'[g] = files[g]
  BY DEF VfsInv, FilesTyped
<1>4. FilesTyped'
  <2>1. files' \in [Files -> [vnode : Nat, f_pos : Nat]]
    BY <1>1 DEF VfsInv, FilesTyped
  <2>2. fd_table' \in [Tasks -> [Fds -> Files \cup {NULL}]]
    BY DEF VfsInv, FilesTyped
  <2>3. \A g \in Files : files'[g].vnode # NULL => files'[g].vnode \in DOMAIN nodes'
    BY <1>2 DEF VfsInv, FilesTyped, NodesKept
  <2> QED
    BY <2>1, <2>2, <2>3 DEF VfsInv, FilesTyped
<1>7. PosWithinSize'
  <2> SUFFICES ASSUME NEW g \in Files, files'[g].vnode # NULL
               PROVE  files'[g].f_pos <= Len(nodes'[files'[g].vnode].data)
    BY DEF PosWithinSize
  <2>1. CASE g = f
    <3>1. nodes'[node].data \in Seq(Values)
      <4>1. nodes' \in Seq(NodeType)
        BY DEF TreeInv, NodesTyped
      <4>2. nodes'[node] \in NodeType
        BY <4>1
      <4> QED
        BY <4>2 DEF NodeType
    <3>2. 0 <= Len(nodes'[node].data)
      BY <3>1
    <3> QED
      BY <1>2, <2>1, <3>2
  <2>2. CASE g # f
    BY <1>2, <2>2 DEF VfsInv, FilesTyped, PosWithinSize, NodesKept
  <2> QED
    BY <2>1, <2>2
<1> QED
  BY <1>4, <1>7 DEF VfsInv

-----------------------------------------------------------------------------
(* The initial state                                                       *)

(* rootfs_init() builds a tree: the archive is mounted below the root.     *)
LEMMA InitTree ==
  ASSUME Init
  PROVE  TreeInv
<1> DEFINE A == [TmpfsCreateVnode("dir", "") EXCEPT !.childs = <<2>>]
           B == [TmpfsCreateVnode("dir", "i") EXCEPT !.mount = 3]
<1>1. /\ A \in NodeType /\ A.childs = <<2>> /\ A.type = "dir" /\ A.mount = NULL
  <2>1. PICK w : w = TmpfsCreateVnode("dir", "")
    OBVIOUS
  <2>2. w \in NodeType /\ w.type = "dir" /\ w.mount = NULL
    BY <2>1, NamesAssumption, TmpfsVnode
  <2>3. PICK c : c = <<2>>
    OBVIOUS
  <2>4. c \in Seq(Nat)
    BY <2>3
  <2>5. A = [w EXCEPT !.childs = c]
    BY <2>1, <2>3
  <2> HIDE DEF A
  <2>6. A \in NodeType /\ A.childs = c /\ A.type = "dir" /\ A.mount = NULL
    BY <2>2, <2>4, <2>5 DEF NodeType
  <2> QED
    BY <2>3, <2>6
<1>2. /\ B \in NodeType /\ B.childs = <<>> /\ B.type = "dir" /\ B.mount = 3
  <2>1. PICK w : w = TmpfsCreateVnode("dir", "i")
    OBVIOUS
  <2>2. w \in NodeType /\ w.type = "dir" /\ w.childs = <<>>
    BY <2>1, NamesAssumption, TmpfsVnode
  <2>3. B = [w EXCEPT !.mount = 3]
    BY <2>1
  <2> HIDE DEF B
  <2> QED
    BY <2>2, <2>3 DEF NodeType
<1>3. PICK a, b, s : a = A /\ b = B /\ s = InitramfsSetupMount(2)
  OBVIOUS
<1>4. nodes = <<a, b>> \o s
  BY <1>3 DEF Init
<1>5. IsMount(s, 2)
  BY <1>3, InitramfsIsMount
<1>6. /\ a \in NodeType /\ a.childs = <<2>> /\ a.type = "dir" /\ a.mount = NULL
      /\ b \in NodeType /\ b.childs = <<>> /\ b.type = "dir" /\ b.mount = 3
  BY <1>1, <1>2, <1>3
<1> HIDE DEF A, B
<1> DEFINE M == Len(s)
<1>7. /\ s \in Seq(NodeType) /\ M \in Nat /\ M >= 1 /\ s[1].type = "dir" /\ s[1].mount = NULL
      /\ s[1].childs \in Seq(Nat) /\ Len(s[1].childs) = M - 1
      /\ M - 1 <= MAX_DIR_NUM /\ MAX_DIR_NUM \in Nat \ {0}
      /\ \A k \in 1 .. M - 1 : s[1].childs[k] = 3 + k
      /\ \A j \in 2 .. M : s[j].childs = <<>> /\ s[j].mount = NULL
  <2>1. s \in Seq(NodeType) /\ MAX_DIR_NUM \in Nat \ {0}
    BY <1>5, VfsAssumption DEF IsMount
  <2>2. M \in Nat
    BY <2>1
  <2>3. /\ M >= 1 /\ s[1].type = "dir" /\ s[1].mount = NULL
        /\ s[1].childs \in Seq(Nat) /\ Len(s[1].childs) = M - 1 /\ M - 1 <= MAX_DIR_NUM
    BY <1>5 DEF IsMount
  <2>4. \A k \in 1 .. M - 1 : s[1].childs[k] = 2 + 1 + k
    BY <1>5 DEF IsMount
  <2>5. \A j \in 2 .. M : s[j].childs = <<>> /\ s[j].mount = NULL
    BY <1>5 DEF IsMount
  <2>6. 2 + 1 = 3
    OBVIOUS
  <2> HIDE DEF M
  <2>7. \A k \in 1 .. M - 1 : s[1].childs[k] = 3 + k
    BY <2>4, <2>6
  <2> QED
    BY <2>1, <2>2, <2>3, <2>5, <2>7
<1> HIDE DEF M
<1>8. /\ nodes \in Seq(NodeType) /\ Len(nodes) = 2 + M /\ DOMAIN nodes = 1 .. 2 + M
      /\ nodes[1] = a /\ nodes[2] = b /\ nodes[3] = s[1]
      /\ \A n \in 4 .. 2 + M : nodes[n] = s[n - 2] /\ n - 2 \in 2 .. M
  <2>1. PICK p : p = <<a, b>>
    OBVIOUS
  <2>2. p \in Seq(NodeType) /\ Len(p) = 2 /\ p[1] = a /\ p[2] = b
    BY <1>6, <2>1
  <2>3. /\ nodes \in Seq(NodeType) /\ Len(nodes) = 2 + M
        /\ \A n \in 1 .. 2 + M : nodes[n] = IF n <= 2 THEN p[n] ELSE s[n - 2]
    BY <1>4, <1>7, <2>1, <2>2, ConcatProperties DEF M
  <2>4. DOMAIN nodes = 1 .. 2 + M
    BY <2>3
  <2>5. nodes[1] = p[1] /\ nodes[2] = p[2] /\ nodes[3] = s[1]
    <3>1. 1 \in 1 .. 2 + M /\ 2 \in 1 .. 2 + M /\ 3 \in 1 .. 2 + M /\ 3 - 2 = 1
      BY <1>7
    <3>2. nodes[1] = p[1] /\ nodes[2] = p[2]
      BY <2>3, <3>1
    <3>3. nodes[3] = s[3 - 2]
      BY <2>3, <3>1
    <3> QED
      BY <3>1, <3>2, <3>3
  <2>6. \A n \in 4 .. 2 + M : nodes[n] = s[n - 2] /\ n - 2 \in 2 .. M
    BY <1>7, <2>3
  <2> QED
    BY <2>2, <2>3, <2>4, <2>5, <2>6
<1>9. \A n \in 4 .. 2 + M : nodes[n].childs = <<>> /\ nodes[n].mount = NULL
  BY <1>7, <1>8
<1>10. /\ DOMAIN nodes[1].childs = {1} /\ nodes[1].childs[1] = 2 /\ nodes[1].mount = NULL
       /\ Len(nodes[1].childs) = 1
       /\ nodes[2].childs = <<>> /\ nodes[2].mount = 3
       /\ DOMAIN nodes[3].childs = 1 .. M - 1 /\ nodes[3].mount = NULL
       /\ \A k \in 1 .. M - 1 : nodes[3].childs[k] = 3 + k
       /\ Len(nodes[3].childs) = M - 1
       /\ nodes[1].type = "dir" /\ nodes[2].type = "dir" /\ nodes[3].type = "dir"
  <2>1. DOMAIN nodes[3].childs = 1 .. M - 1
    BY <1>7, <1>8
  <2>2. PICK c : c = <<2>>
    OBVIOUS
  <2>3. DOMAIN c = {1} /\ c[1] = 2 /\ Len(c) = 1
    BY <2>2
  <2> QED
    BY <1>6, <1>7, <1>8, <2>1, <2>2, <2>3
<1>11. \A n \in DOMAIN nodes : n = 1 \/ n = 2 \/ n = 3 \/ n \in 4 .. 2 + M
  BY <1>7, <1>8
<1>12. DOMAIN <<>> = {} /\ Len(<<>>) = 0
  OBVIOUS
<1> DEFINE first(d, k) == d = 1 /\ k = 1 /\ nodes[d].childs[k] = 2
           arch(d, k) == d = 3 /\ k \in 1 .. M - 1 /\ nodes[d].childs[k] = 3 + k
<1>13. ASSUME NEW d \in DOMAIN nodes, NEW k \in DOMAIN nodes[d].childs
       PROVE  first(d, k) \/ arch(d, k)
  <2>1. CASE d = 1
    BY <1>10, <1>13, <2>1
  <2>2. CASE d = 3
    BY <1>10, <1>13, <2>2
  <2>3. CASE d = 2 \/ d \in 4 .. 2 + M
    BY <1>9, <1>10, <1>12, <1>13, <2>3
  <2> QED
    BY <1>11, <2>1, <2>2, <2>3
<1>14. \A d \in DOMAIN nodes : nodes[d].mount # NULL => d = 2 /\ nodes[d].mount = 3
  BY <1>9, <1>10, <1>11
<1>15. 1 \in DOMAIN nodes /\ 2 \in DOMAIN nodes /\ 3 \in DOMAIN nodes
       /\ \A k \in 1 .. M - 1 : 3 + k \in DOMAIN nodes /\ 3 < 3 + k
  BY <1>7, <1>8
<1>16. NodesTyped
  BY <1>8, <1>15 DEF NodesTyped, Root
<1>17. EdgesDown
  <2> SUFFICES ASSUME NEW d \in DOMAIN nodes
               PROVE  /\ Len(nodes[d].childs) <= MAX_DIR_NUM
                      /\ nodes[d].type = "file" => nodes[d].childs = <<>>
                      /\ \A k \in DOMAIN nodes[d].childs :
                           nodes[d].childs[k] \in DOMAIN nodes /\ d < nodes[d].childs[k]
                      /\ nodes[d].mount # NULL => nodes[d].mount \in DOMAIN nodes /\ d < nodes[d].mount
    BY DEF EdgesDown
  <2>1. Len(nodes[d].childs) <= MAX_DIR_NUM
    <3>1. 0 <= MAX_DIR_NUM /\ 1 <= MAX_DIR_NUM
      BY <1>7
    <3>2. CASE d = 1
      BY <1>10, <3>1, <3>2
    <3>3. CASE d = 3
      BY <1>7, <1>10, <3>3
    <3>4. CASE d = 2 \/ d \in 4 .. 2 + M
      BY <1>9, <1>10, <1>12, <3>1, <3>4
    <3> QED
      BY <1>11, <3>2, <3>3, <3>4
  <2>2. nodes[d].type = "file" => nodes[d].childs = <<>>
    BY <1>9, <1>10, <1>11
  <2>3. ASSUME NEW k \in DOMAIN nodes[d].childs
        PROVE  nodes[d].childs[k] \in DOMAIN nodes /\ d < nodes[d].childs[k]
    BY <1>13, <1>15, <2>3
  <2>4. nodes[d].mount # NULL => nodes[d].mount \in DOMAIN nodes /\ d < nodes[d].mount
    BY <1>14, <1>15
  <2> QED
    BY <2>1, <2>2, <2>3, <2>4
<1>18. OnePlace
  <2>1. ASSUME NEW c \in DOMAIN nodes, NEW d \in DOMAIN nodes,
               NEW j \in DOMAIN nodes[c].childs, NEW k \in DOMAIN nodes[d].childs,
               nodes[c].childs[j] = nodes[d].childs[k]
        PROVE  c = d /\ j = k
    <3>1. (first(c, j) \/ arch(c, j)) /\ (first(d, k) \/ arch(d, k))
      BY <1>13
    <3>2. CASE arch(c, j) /\ arch(d, k)
      <4>1. 3 + j = 3 + k /\ j \in Int /\ k \in Int
        BY <1>7, <2>1, <3>2
      <4> QED
        BY <3>2, <4>1
    <3> QED
      BY <1>7, <2>1, <3>1, <3>2
  <2>2. ASSUME NEW c \in DOMAIN nodes, NEW d \in DOMAIN nodes,
               nodes[c].mount = nodes[d].mount, nodes[c].mount # NULL
        PROVE  c = d
    BY <1>14, <2>2
  <2>3. ASSUME NEW c \in DOMAIN nodes, NEW d \in DOMAIN nodes,
               NEW k \in DOMAIN nodes[c].childs, nodes[c].childs[k] = nodes[d].mount
        PROVE  FALSE
    <3>1. first(c, k) \/ arch(c, k)
      BY <1>13
    <3>2. nodes[c].childs[k] # NULL /\ nodes[c].childs[k] # 3
      BY <1>7, <3>1 DEF NULL
    <3> QED
      BY <1>14, <2>3, <3>2
  <2> QED
    BY <2>1, <2>2, <2>3 DEF OnePlace
<1> QED
  BY <1>16, <1>17, <1>18 DEF TreeInv

(* The invariant holds after rootfs_init().                                *)
LEMMA VfsInit ==
  ASSUME Init
  PROVE  VfsInv
<1>1. FilesTyped
  <2>1. NoFile \in [vnode : Nat, f_pos : Nat] /\ NoFile.vnode = NULL
    BY DEF NoFile, NULL
  <2> QED
    BY <2>1, VfsAssumption DEF Init, FilesTyped
<1>2. \A f \in Files : files[f].vnode = NULL
  BY DEF Init, NoFile
<1>5. PosWithinSize
  BY <1>2 DEF PosWithinSize
<1> QED
  BY <1>1, <1>5, InitTree DEF VfsInv

-----------------------------------------------------------------------------
(* The system calls                                                        *)

(* The directory part and the last component of a path.                    *)
LEMMA PathParts ==
  ASSUME NEW path \in Seq(Names), path # <<>>
  PROVE  Parent(path) \in Seq(Names) /\ Name(path) \in Names /\ Len(path) \in Nat \ {0}
         /\ Len(Parent(path)) = Len(path) - 1
         /\ \A k \in 1 .. Len(path) - 1 : Parent(path)[k] = path[k]
<1>1. Len(path) \in Nat \ {0}
  BY EmptySeq
<1>2. Name(path) \in Names
  BY <1>1, ElementOfSeq DEF Name
<1>3. PICK n \in Nat : n = Len(path) - 1 /\ n <= Len(path)
  <2>1. PICK m : m = Len(path)
    OBVIOUS
  <2>2. m - 1 \in Nat /\ m - 1 <= m
    BY <1>1, <2>1
  <2> QED
    BY <2>1, <2>2
<1>4. /\ SubSeq(path, 1, n) \in Seq(Names) /\ Len(SubSeq(path, 1, n)) = n
      /\ \A k \in 1 .. n : SubSeq(path, 1, n)[k] = path[k]
  BY <1>1, <1>3
<1> QED
  BY <1>1, <1>2, <1>3, <1>4 DEF Parent

(* The empty path leads to the root.                                       *)
LEMMA LookupRoot ==
  ASSUME TreeInv
  PROVE  VfsLookup(<<>>) = Root /\ Root # NULL
<1>1. PICK path : path = <<>>
  OBVIOUS
<1>2. path \in Seq(Names) /\ Len(path) = 0
  BY <1>1
<1>3. PICK f : Steps(f, path) /\ VfsLookup(path) = f[Len(path)]
  BY <1>2, LookupSteps
<1> QED
  BY <1>1, <1>2, <1>3 DEF Steps, Root, NULL

(* sys_open() takes a descriptor that is free.                             *)
LEMMA FirstFreeIsFree ==
  ASSUME NEW t, FreeFd(t) # {}
  PROVE  FirstFreeFd(t) \in Fds /\ fd_table[t][FirstFreeFd(t)] = NULL
<1>1. FreeFd(t) \subseteq Nat
  BY VfsAssumption DEF FreeFd, Fds
<1>2. \E i \in FreeFd(t) : \A j \in FreeFd(t) : i <= j
  BY <1>1, LeastElement
<1>3. FirstFreeFd(t) \in FreeFd(t)
  BY <1>2 DEF FirstFreeFd
<1> QED
  BY <1>3 DEF FreeFd

(* create() happens in a directory with room: OpenCreate and VfsMkdir.     *)
LEMMA CreatesRoom ==
  ASSUME NEW dir, NEW name, Creates(dir, name)
  PROVE  TmpfsRoom(dir) /\ TmpfsCreates(dir, name)
  BY DEF Creates, TmpfsCreates, InitramfsCreates

(* vfs_open() of a path that exists keeps the invariant.                   *)
LEMMA OpenExistingInv ==
  ASSUME VfsInv, ~ wild, NEW t \in running, NEW path \in Paths, NEW f \in FreeFiles,
         FreeFd(t) # {}, OpenExisting(f, path), UNCHANGED running,
         fd_table' = IF wild' THEN fd_table ELSE [fd_table EXCEPT ![t][FirstFreeFd(t)] = f]
  PROVE  VfsInv'
<1>1. TreeInv /\ FilesTyped /\ path \in Seq(Names) /\ t \in Tasks
  BY VfsAssumption DEF VfsInv, FilesTyped
<1>2. /\ VfsLookup(path) # NULL /\ nodes' = nodes /\ wild' = wild
      /\ files' = [files EXCEPT ![f] = [vnode |-> VfsLookup(path), f_pos |-> 0]]
  BY DEF OpenExisting, FileOpen, TmpfsOpen, InitramfsOpen
<1>3. VfsLookup(path) \in DOMAIN nodes
  BY <1>1, <1>2, LookupNode
<1>4. TreeInv' /\ NodesKept
  BY <1>1, <1>2 DEF TreeInv, NodesTyped, EdgesDown, OnePlace, NodesKept
<1>5. FirstFreeFd(t) \in Fds /\ fd_table[t][FirstFreeFd(t)] = NULL
  BY FirstFreeIsFree
<1>6. f \in Files /\ files[f].vnode = NULL
  BY DEF FreeFiles
<1>7. fd_table' = [fd_table EXCEPT ![t][FirstFreeFd(t)] = f]
  BY <1>2
<1>8. VfsLookup(path) \in DOMAIN nodes'
  BY <1>2, <1>3
<1>9. PICK i \in Fds, node \in DOMAIN nodes' : i = FirstFreeFd(t) /\ node = VfsLookup(path)
  BY <1>5, <1>8
<1>10. /\ files' = [files EXCEPT ![f] = [vnode |-> node, f_pos |-> 0]]
       /\ fd_table' = [fd_table EXCEPT ![t][i] = f] /\ fd_table[t][i] = NULL
  BY <1>2, <1>5, <1>7, <1>9
<1>11. UNCHANGED <<running, wild>> /\ f \in Files /\ files[f].vnode = NULL
  BY <1>2, <1>6
<1> QED
  BY <1>1, <1>4, <1>10, <1>11, OpenStep

(* vfs_open() that creates the file, or fails to, keeps the invariant.     *)
LEMMA OpenCreateInv ==
  ASSUME VfsInv, ~ wild, NEW t \in running, NEW path \in Paths, NEW f \in FreeFiles,
         FreeFd(t) # {}, OpenCreate(f, path), UNCHANGED running,
         fd_table' = IF wild' THEN fd_table ELSE [fd_table EXCEPT ![t][FirstFreeFd(t)] = f]
  PROVE  VfsInv'
<1> DEFINE dir == VfsLookup(Parent(path))
<1>1. TreeInv /\ FilesTyped /\ path \in Seq(Names) /\ t \in Tasks /\ running \subseteq Tasks
  BY VfsAssumption DEF VfsInv, FilesTyped
<1>2. VfsLookup(path) = NULL /\ dir # NULL
  BY DEF OpenCreate
<1>3. path # <<>>
  BY <1>1, <1>2, LookupRoot
<1>4. Parent(path) \in Seq(Names) /\ Name(path) \in Names
  BY <1>1, <1>3, PathParts
<1>5. dir \in DOMAIN nodes
  BY <1>1, <1>2, <1>4, LookupNode
<1>6. CASE ~ Creates(dir, Name(path))
  <2>1. wild' = TRUE /\ nodes' = nodes /\ files' = files
    BY <1>6 DEF OpenCreate
  <2>2. fd_table' = fd_table
    BY <2>1
  <2>3. TreeInv' /\ NodesKept
    BY <1>1, <2>1 DEF TreeInv, NodesTyped, EdgesDown, OnePlace, NodesKept
  <2> QED
    BY <1>1, <2>1, <2>2, <2>3, TreeStep
<1>7. CASE Creates(dir, Name(path))
  <2>1. /\ nodes' = NewChild(dir, "file", Name(path)) /\ wild' = wild
        /\ files' = [files EXCEPT ![f] = [vnode |-> Len(nodes) + 1, f_pos |-> 0]]
    BY <1>7 DEF OpenCreate, FileOpen, TmpfsOpen, InitramfsOpen
  <2>2. TmpfsRoom(dir)
    BY <1>7, CreatesRoom
  <2>3. "file" \in {"dir", "file"}
    OBVIOUS
  <2> HIDE DEF dir
  <2>4. TreeInv' /\ DOMAIN nodes' = 1 .. Len(nodes) + 1 /\ NodesKept
    BY <1>1, <1>4, <1>5, <2>1, <2>2, <2>3, NewChildTree DEF NodesKept
  <2>5. Len(nodes) + 1 \in DOMAIN nodes'
    <3>1. Len(nodes) \in Nat
      BY <1>1 DEF TreeInv, NodesTyped
    <3> QED
      BY <2>4, <3>1
  <2>6. FirstFreeFd(t) \in Fds /\ fd_table[t][FirstFreeFd(t)] = NULL
    BY FirstFreeIsFree
  <2>7. f \in Files /\ files[f].vnode = NULL
    BY DEF FreeFiles
  <2>8. fd_table' = [fd_table EXCEPT ![t][FirstFreeFd(t)] = f]
    BY <2>1
  <2>9. PICK i \in Fds, node \in DOMAIN nodes' : i = FirstFreeFd(t) /\ node = Len(nodes) + 1
    BY <2>5, <2>6
  <2>10. /\ files' = [files EXCEPT ![f] = [vnode |-> node, f_pos |-> 0]]
         /\ fd_table' = [fd_table EXCEPT ![t][i] = f] /\ fd_table[t][i] = NULL
    BY <2>1, <2>6, <2>8, <2>9
  <2>11. UNCHANGED <<running, wild>>
    BY <2>1
  <2> QED
    BY <1>1, <2>4, <2>7, <2>10, <2>11, OpenStep
<1> QED
  BY <1>6, <1>7

(* sys_open(), of a path that exists or of one that it creates.            *)
LEMMA SysOpenInv ==
  ASSUME VfsInv, ~ wild, NEW t \in running, NEW path \in Paths, SysOpen(t, path)
  PROVE  VfsInv'
<1>1. PICK f \in FreeFiles :
        /\ OpenExisting(f, path) \/ OpenCreate(f, path)
        /\ fd_table' = IF wild' THEN fd_table ELSE [fd_table EXCEPT ![t][FirstFreeFd(t)] = f]
  BY DEF SysOpen
<1>2. FreeFd(t) # {} /\ UNCHANGED running
  BY DEF SysOpen
<1> QED
  BY <1>1, <1>2, OpenExistingInv, OpenCreateInv

(* sys_close() gives up the descriptor and the struct file together.       *)
LEMMA SysCloseInv ==
  ASSUME VfsInv, NEW t \in running, NEW i \in Fds, SysClose(t, i)
  PROVE  VfsInv'
<1> DEFINE f == fd_table[t][i]
<1>1. /\ f # NULL /\ files' = [files EXCEPT ![f] = NoFile]
      /\ fd_table' = [fd_table EXCEPT ![t][i] = NULL]
      /\ nodes' = nodes /\ running' = running /\ wild' = wild
  BY DEF SysClose, Held, VfsClose, TmpfsClose, InitramfsClose
<1>2. FilesTyped /\ TreeInv /\ PosWithinSize /\ t \in Tasks
  BY DEF VfsInv, FilesTyped
<1>3. f \in Files
  BY <1>1, <1>2 DEF FilesTyped
<1>4. NoFile \in [vnode : Nat, f_pos : Nat] /\ NoFile.vnode = NULL
  BY DEF NoFile, NULL
<1>5. /\ files'[f].vnode = NULL
      /\ \A g \in Files : g # f => files'[g] = files[g]
  BY <1>1, <1>2, <1>3, <1>4 DEF FilesTyped
<1>8. files' \in [Files -> [vnode : Nat, f_pos : Nat]]
  <2> HIDE DEF f
  <2> QED
    BY <1>1, <1>2, <1>4 DEF FilesTyped
<1>9. fd_table' \in [Tasks -> [Fds -> Files \cup {NULL}]]
  BY <1>1, <1>2 DEF FilesTyped
<1> HIDE DEF f
<1>10. FilesTyped'
  <2>1. \A g \in Files : files'[g].vnode # NULL => files'[g].vnode \in DOMAIN nodes'
    BY <1>1, <1>2, <1>5 DEF FilesTyped
  <2> QED
    BY <1>1, <1>2, <1>8, <1>9, <2>1 DEF FilesTyped
<1>12. TreeInv'
  BY <1>1, <1>2 DEF TreeInv, NodesTyped, EdgesDown, OnePlace
<1>13. PosWithinSize'
  BY <1>1, <1>2, <1>5 DEF PosWithinSize
<1> QED
  BY <1>10, <1>12, <1>13 DEF VfsInv

(* A handle that is used: its struct file, its vnode and its position.     *)
LEMMA Handle ==
  ASSUME VfsInv, NEW t \in Tasks, NEW i \in Fds, Held(t, i)
  PROVE  /\ fd_table[t][i] \in Files
         /\ files[fd_table[t][i]].vnode \in DOMAIN nodes
         /\ files[fd_table[t][i]].f_pos \in Nat
         /\ nodes[files[fd_table[t][i]].vnode].data \in Seq(Values)
         /\ files[fd_table[t][i]].f_pos <= Len(nodes[files[fd_table[t][i]].vnode].data)
<1>1. fd_table[t][i] \in Files
  BY DEF VfsInv, FilesTyped, Held
<1>2. files[fd_table[t][i]].vnode # NULL
  BY DEF Held
<1>3. files[fd_table[t][i]].vnode \in DOMAIN nodes
  BY <1>1, <1>2 DEF VfsInv, FilesTyped
<1>4. NodesTyped
  BY DEF VfsInv, TreeInv
<1>5. files[fd_table[t][i]] \in [vnode : Nat, f_pos : Nat]
  BY <1>1 DEF VfsInv, FilesTyped
<1> QED
  BY <1>1, <1>2, <1>3, <1>4, <1>5, NodeFields DEF VfsInv, PosWithinSize

(* A handle moves to a position within its data, and no vnode loses data.  *)
LEMMA MoveStep ==
  ASSUME VfsInv, TreeInv', DOMAIN nodes' = DOMAIN nodes,
         \A n \in DOMAIN nodes : Len(nodes[n].data) <= Len(nodes'[n].data),
         UNCHANGED <<fd_table, running, wild>>,
         NEW f \in Files, files[f].vnode # NULL, NEW p \in Nat,
         p <= Len(nodes'[files[f].vnode].data),
         files' = [files EXCEPT ![f].f_pos = p]
  PROVE  VfsInv'
<1>1. FilesTyped /\ PosWithinSize
  BY DEF VfsInv
<1>2. files \in [Files -> [vnode : Nat, f_pos : Nat]]
  BY <1>1 DEF FilesTyped
<1>3. /\ files' \in [Files -> [vnode : Nat, f_pos : Nat]]
      /\ \A g \in Files : files'[g].vnode = files[g].vnode
      /\ files'[f].f_pos = p /\ \A g \in Files : g # f => files'[g].f_pos = files[g].f_pos
  BY <1>2
<1>4. FilesTyped'
  BY <1>1, <1>3 DEF FilesTyped
<1>5. PosWithinSize'
  <2> SUFFICES ASSUME NEW g \in Files, files'[g].vnode # NULL
               PROVE  files'[g].f_pos <= Len(nodes'[files'[g].vnode].data)
    BY DEF PosWithinSize
  <2>1. files[g].vnode \in DOMAIN nodes
    BY <1>1, <1>3 DEF FilesTyped
  <2>2. CASE g = f
    BY <1>3, <2>2
  <2>3. CASE g # f
    <3>1. PICK n \in DOMAIN nodes : n = files[g].vnode
      BY <2>1
    <3>2. files[g].f_pos <= Len(nodes[n].data) /\ files[g].f_pos \in Nat
      BY <1>1, <1>2, <1>3, <3>1 DEF PosWithinSize
    <3>3. NodesTyped /\ NodesTyped'
      BY DEF VfsInv, TreeInv
    <3>4. nodes[n].data \in Seq(Values) /\ nodes'[n].data \in Seq(Values)
      <4>1. nodes[n] \in NodeType /\ nodes'[n] \in NodeType
        BY <3>3 DEF NodesTyped
      <4> QED
        BY <4>1 DEF NodeType
    <3>5. Len(nodes[n].data) \in Nat /\ Len(nodes'[n].data) \in Nat
      BY <3>4
    <3>6. Len(nodes[n].data) <= Len(nodes'[n].data)
      OBVIOUS
    <3> QED
      BY <1>3, <2>3, <3>1, <3>2, <3>5, <3>6
  <2> QED
    BY <2>2, <2>3
<1> QED
  BY <1>4, <1>5 DEF VfsInv

(* sys_read() stops at the end of the data.                                *)
LEMMA SysReadInv ==
  ASSUME VfsInv, NEW t \in running, NEW i \in Fds, NEW len \in 1 .. MaxData,
         SysRead(t, i, len)
  PROVE  VfsInv'
<1>1. PICK f : f = fd_table[t][i]
  OBVIOUS
<1>2. t \in Tasks /\ Held(t, i)
  BY DEF VfsInv, FilesTyped, SysRead
<1>3. PICK v : v = files[f].vnode
  OBVIOUS
<1>4. PICK size : size = Len(nodes[v].data)
  OBVIOUS
<1>5. /\ f \in Files /\ v \in DOMAIN nodes /\ files[f].f_pos \in Nat
      /\ files[f].f_pos <= size /\ size \in Nat
  <2>1. /\ f \in Files /\ v \in DOMAIN nodes /\ files[f].f_pos \in Nat
        /\ files[f].f_pos <= size /\ nodes[v].data \in Seq(Values)
    BY <1>1, <1>2, <1>3, <1>4, Handle
  <2> QED
    BY <1>4, <2>1
<1>6. PICK p : p = TmpfsRead(f, len)
  OBVIOUS
<1>7. p \in Nat /\ p <= size
  BY <1>3, <1>4, <1>5, <1>6 DEF TmpfsRead
<1>8. /\ files' = [files EXCEPT ![f].f_pos = p]
      /\ nodes' = nodes /\ UNCHANGED <<fd_table, running, wild>>
  BY <1>1, <1>6 DEF SysRead, VfsRead, InitramfsRead
<1>9. TreeInv' /\ DOMAIN nodes' = DOMAIN nodes
  BY <1>8 DEF VfsInv, TreeInv, NodesTyped, EdgesDown, OnePlace
<1>10. \A n \in DOMAIN nodes : Len(nodes[n].data) <= Len(nodes'[n].data)
  <2> SUFFICES ASSUME NEW n \in DOMAIN nodes PROVE Len(nodes[n].data) <= Len(nodes[n].data)
    BY <1>8
  <2>1. nodes[n].data \in Seq(Values)
    BY NodeFields DEF VfsInv, TreeInv
  <2> QED
    BY <2>1
<1>11. p <= Len(nodes'[files[f].vnode].data) /\ files[f].vnode # NULL
  <2>1. NULL \notin DOMAIN nodes
    BY DEF VfsInv, TreeInv, NodesTyped, NULL
  <2> QED
    BY <1>3, <1>4, <1>5, <1>7, <1>8, <2>1
<1> QED
  BY <1>5, <1>7, <1>8, <1>9, <1>10, <1>11, MoveStep

(* sys_write() puts the handle at the end of what it wrote and never       *)
(* shortens the data below the other handles.                              *)
LEMMA SysWriteInv ==
  ASSUME VfsInv, NEW t \in running, NEW i \in Fds, NEW value \in Values,
         NEW len \in 1 .. MaxData, SysWrite(t, i, value, len)
  PROVE  VfsInv'
<1>1. PICK f : f = fd_table[t][i]
  OBVIOUS
<1>2. t \in Tasks /\ Held(t, i) /\ UNCHANGED <<fd_table, running, wild>>
  BY DEF VfsInv, FilesTyped, SysWrite
<1>3. PICK v : v = files[f].vnode
  OBVIOUS
<1>4. PICK data : data = nodes[v].data
  OBVIOUS
<1>5. PICK pos : pos = files[f].f_pos
  OBVIOUS
<1>6. /\ f \in Files /\ v \in DOMAIN nodes /\ pos \in Nat /\ data \in Seq(Values)
      /\ pos <= Len(data)
  BY <1>1, <1>2, <1>3, <1>4, <1>5, Handle
<1>7. TreeInv /\ NodesTyped
  BY DEF VfsInv, TreeInv
<1>8. v # NULL
  BY <1>6, <1>7 DEF NodesTyped, NULL
<1>9. \A n \in DOMAIN nodes : nodes[n].data \in Seq(Values) /\ Len(nodes[n].data) \in Nat
  <2>1. \A n \in DOMAIN nodes : nodes[n].data \in Seq(Values)
    BY <1>7, NodeFields
  <2> QED
    BY <2>1
<1>10. CASE nodes[v].fs = "tmpfs"
  <2>1. PICK top : top = IF Len(data) < pos + len THEN pos + len ELSE Len(data)
    OBVIOUS
  <2>2. PICK p : p = pos + len
    OBVIOUS
  <2>3. top \in Nat /\ p \in Nat /\ p <= top /\ Len(data) <= top /\ Len(data) \in Nat
        /\ (top = p \/ top = Len(data))
    BY <1>6, <2>1, <2>2
  <2>4. PICK d : d = [k \in 1 .. top |-> IF k > pos /\ k <= p THEN value ELSE data[k]]
    OBVIOUS
  <2>5. /\ nodes' = [nodes EXCEPT ![v].data = d]
        /\ files' = [files EXCEPT ![f].f_pos = p]
    <3>1. TmpfsWrite(f, value, len)
      BY <1>1, <1>3, <1>10 DEF SysWrite, VfsWrite
    <3> QED
      BY <1>3, <1>4, <1>5, <2>1, <2>2, <2>4, <3>1 DEF TmpfsWrite
  <2>6. \A k \in 1 .. top : (IF k > pos /\ k <= p THEN value ELSE data[k]) \in Values
    <3> SUFFICES ASSUME NEW k \in 1 .. top, ~ (k > pos /\ k <= p) PROVE data[k] \in Values
      OBVIOUS
    <3>1. k \in 1 .. Len(data)
      BY <1>6, <2>3
    <3> QED
      BY <1>6, <3>1, ElementOfSeq
  <2>7. d \in Seq(Values) /\ Len(d) = top
    BY <2>3, <2>4, <2>6
  <2>8. /\ TreeInv' /\ DOMAIN nodes' = DOMAIN nodes /\ nodes'[v].data = d
        /\ \A n \in DOMAIN nodes : n # v => nodes'[n].data = nodes[n].data
    BY <1>6, <1>7, <2>5, <2>7, DataTree
  <2>9. ASSUME NEW n \in DOMAIN nodes PROVE Len(nodes[n].data) <= Len(nodes'[n].data)
    <3>1. CASE n = v
      BY <1>4, <2>3, <2>7, <2>8, <3>1
    <3>2. CASE n # v
      <4>1. Len(nodes[n].data) <= Len(nodes[n].data)
        BY <1>9
      <4> QED
        BY <2>8, <3>2, <4>1
    <3> QED
      BY <3>1, <3>2
  <2>10. p <= Len(nodes'[files[f].vnode].data) /\ files[f].vnode # NULL
    BY <1>3, <1>8, <2>3, <2>7, <2>8
  <2> QED
    BY <1>2, <1>6, <2>3, <2>5, <2>8, <2>9, <2>10, MoveStep
<1>11. CASE nodes[v].fs # "tmpfs"
  <2>1. nodes' = nodes /\ files' = files
    BY <1>1, <1>3, <1>11 DEF SysWrite, VfsWrite, InitramfsWrite
  <2>2. TreeInv' /\ NodesKept
    BY <1>7, <2>1 DEF TreeInv, NodesTyped, EdgesDown, OnePlace, NodesKept
  <2>3. UNCHANGED <<files, fd_table>> /\ running' \subseteq Tasks /\ wild' \in BOOLEAN
    BY <1>2, <2>1 DEF VfsInv, FilesTyped
  <2> QED
    BY <2>2, <2>3, TreeStep
<1> QED
  BY <1>10, <1>11

(* sys_mkdir() adds a directory.                                           *)
LEMMA SysMkdirInv ==
  ASSUME VfsInv, NEW path \in Paths, SysMkdir(path)
  PROVE  VfsInv'
<1> DEFINE dir == VfsLookup(Parent(path))
<1>1. TreeInv /\ path \in Seq(Names)
  BY VfsAssumption DEF VfsInv
<1>2. /\ path # <<>> /\ dir # NULL /\ Mkdirs(dir) /\ nodes' = NewChild(dir, "dir", Name(path))
      /\ UNCHANGED <<files, fd_table, running, wild>>
  BY DEF SysMkdir, VfsMkdir, TmpfsMkdir
<1>3. Parent(path) \in Seq(Names) /\ Name(path) \in Names
  BY <1>1, <1>2, PathParts
<1>4. dir \in DOMAIN nodes
  BY <1>1, <1>2, <1>3, LookupNode
<1>5. TmpfsRoom(dir)
  BY <1>2 DEF Mkdirs, InitramfsMkdirs
<1>6. "dir" \in {"dir", "file"}
  OBVIOUS
<1> HIDE DEF dir
<1>7. TreeInv' /\ NodesKept
  BY <1>1, <1>2, <1>3, <1>4, <1>5, <1>6, NewChildTree DEF NodesKept
<1>8. UNCHANGED <<files, fd_table>> /\ running' \subseteq Tasks /\ wild' \in BOOLEAN
  BY <1>2 DEF VfsInv, FilesTyped
<1> QED
  BY <1>7, <1>8, TreeStep

(* sys_mount() adds a file system, mounted or lost.                        *)
LEMMA SysMountInv ==
  ASSUME VfsInv, NEW path \in Paths, NEW fs \in Filesystems, SysMount(path, fs)
  PROVE  VfsInv'
<1>1. TreeInv /\ path \in Seq(Names)
  BY VfsAssumption DEF VfsInv
<1>2. PICK target, s : target = VfsLookup(path) /\ s = SetupMount(fs, Len(nodes))
  OBVIOUS
<1>3. target # NULL /\ nodes' = Mounted(target, s)
  BY <1>2 DEF SysMount, VfsMount, Mounted
<1>4. target \in DOMAIN nodes
  BY <1>1, <1>2, <1>3, LookupNode
<1>5. IsMount(s, Len(nodes))
  <2>1. Len(nodes) \in Nat
    BY <1>1 DEF TreeInv, NodesTyped
  <2> QED
    BY <1>2, <2>1, SetupIsMount
<1>6. TreeInv' /\ NodesKept
  BY <1>1, <1>3, <1>4, <1>5, MountTree DEF NodesKept
<1>7. UNCHANGED <<files, fd_table>> /\ running' \subseteq Tasks /\ wild' \in BOOLEAN
  BY DEF SysMount, VfsInv, FilesTyped
<1> QED
  BY <1>6, <1>7, TreeStep

(* sys_fork() keeps the invariant: what the child shares, or inherits from *)
(* the slot's last owner, are descriptors of struct files.                 *)
LEMMA SysForkInv ==
  ASSUME VfsInv, NEW t \in running, NEW child \in Tasks, SysFork(t, child)
  PROVE  VfsInv'
<1>1. /\ fd_table' = [fd_table EXCEPT ![child] = fd_table[t]]
      /\ nodes' = nodes /\ files' = files /\ wild' = wild /\ running' = running \cup {child}
  BY DEF SysFork
<1>2. FilesTyped /\ t \in Tasks
  BY DEF VfsInv, FilesTyped
<1>3. fd_table' \in [Tasks -> [Fds -> Files \cup {NULL}]]
  BY <1>1, <1>2 DEF FilesTyped
<1>4. FilesTyped'
  BY <1>1, <1>2, <1>3 DEF FilesTyped
<1>5. TreeInv' /\ PosWithinSize'
  BY <1>1 DEF VfsInv, TreeInv, NodesTyped, EdgesDown, OnePlace, PosWithinSize
<1> QED
  BY <1>4, <1>5 DEF VfsInv

(* The use of a freed struct file is only recorded.                        *)
LEMMA UseFreedInv ==
  ASSUME VfsInv, NEW t \in running, NEW i \in Fds, UseFreed(t, i)
  PROVE  VfsInv'
<1>1. TreeInv' /\ NodesKept
  BY DEF UseFreed, VfsInv, TreeInv, NodesTyped, EdgesDown, OnePlace, NodesKept
<1>2. UNCHANGED <<files, fd_table>> /\ running' \subseteq Tasks /\ wild' \in BOOLEAN
  BY DEF UseFreed, VfsInv, FilesTyped
<1> QED
  BY <1>1, <1>2, TreeStep

(* sys_exit() keeps the invariant: it touches neither handles nor vnodes.  *)
LEMMA SysExitInv ==
  ASSUME VfsInv, NEW t \in running, SysExit(t)
  PROVE  VfsInv'
<1>1. TreeInv' /\ NodesKept
  BY DEF SysExit, VfsInv, TreeInv, NodesTyped, EdgesDown, OnePlace, NodesKept
<1>2. UNCHANGED <<files, fd_table>> /\ running' \subseteq Tasks /\ wild' \in BOOLEAN
  BY DEF SysExit, VfsInv, FilesTyped
<1> QED
  BY <1>1, <1>2, TreeStep

(* Every system call keeps the invariant.                                  *)
LEMMA VfsNext ==
  ASSUME VfsInv, [Next]_vars
  PROVE  VfsInv'
<1>1. CASE Next
  <2>1. ~ wild
    BY <1>1 DEF Next
  <2>2. ASSUME NEW t \in running, NEW path \in Paths, SysOpen(t, path) PROVE VfsInv'
    BY <2>1, <2>2, SysOpenInv
  <2>3. ASSUME NEW t \in running, NEW i \in Fds, SysClose(t, i) PROVE VfsInv'
    BY <2>3, SysCloseInv
  <2>4. ASSUME NEW t \in running, NEW i \in Fds, NEW v \in Values, NEW len \in 1 .. MaxData,
               SysWrite(t, i, v, len)
        PROVE  VfsInv'
    BY <2>4, SysWriteInv
  <2>5. ASSUME NEW t \in running, NEW i \in Fds, NEW len \in 1 .. MaxData, SysRead(t, i, len)
        PROVE  VfsInv'
    BY <2>5, SysReadInv
  <2>6. ASSUME NEW t \in running, NEW child \in Tasks, SysFork(t, child) PROVE VfsInv'
    BY <2>6, SysForkInv
  <2>7. ASSUME NEW t \in running, SysExit(t) PROVE VfsInv'
    BY <2>7, SysExitInv
  <2>8. ASSUME NEW path \in Paths, SysMkdir(path) PROVE VfsInv'
    BY <2>8, SysMkdirInv
  <2>9. ASSUME NEW path \in Paths, NEW fs \in Filesystems, SysMount(path, fs) PROVE VfsInv'
    BY <2>9, SysMountInv
  <2>10. ASSUME NEW t \in running, NEW i \in Fds, UseFreed(t, i) PROVE VfsInv'
    BY <2>10, UseFreedInv
  <2> QED
    BY <1>1, <2>2, <2>3, <2>4, <2>5, <2>6, <2>7, <2>8, <2>9, <2>10, Zenon DEF Next
<1>2. CASE UNCHANGED vars
  <2>1. TreeInv' /\ NodesKept
    BY <1>2 DEF vars, VfsInv, TreeInv, NodesTyped, EdgesDown, OnePlace, NodesKept
  <2>2. UNCHANGED <<files, fd_table>> /\ running' \subseteq Tasks /\ wild' \in BOOLEAN
    BY <1>2 DEF vars, VfsInv, FilesTyped
  <2> QED
    BY <2>1, <2>2, TreeStep
<1> QED
  BY <1>1, <1>2

-----------------------------------------------------------------------------
(* The theorems                                                            *)

(* The invariant of vfs.c, tmpfs.c and initramfs.c, whatever is created,   *)
(* mounted, opened, read, written and closed in whatever order, by tasks   *)
(* that fork and exit with files open.                                     *)
THEOREM VfsInvariance == Spec => []VfsInv
<1>1. Init => VfsInv
  BY VfsInit
<1>2. VfsInv /\ [Next]_vars => VfsInv'
  BY VfsNext
<1> QED
  BY <1>1, <1>2, PTL DEF Spec

(* A set whose elements are all equal has at most one.                     *)
LEMMA AtMostOne ==
  ASSUME NEW S, \A x, y \in S : x = y
  PROVE  Cardinality(S) \in {0, 1} /\ (S # {} => Cardinality(S) = 1)
<1>1. CASE S = {}
  BY <1>1, FS_EmptySet
<1>2. CASE S # {}
  <2>1. PICK x : x \in S
    BY <1>2
  <2>2. S = {x}
    BY <2>1
  <2> QED
    BY <2>2, FS_Singleton
<1> QED
  BY <1>1, <1>2

(* The vnodes are a tree in which no vnode has two places.                 *)
LEMMA TreeInvSound ==
  ASSUME TreeInv
  PROVE  TreeSound
<1>0. NodesTyped /\ EdgesDown /\ OnePlace
  BY DEF TreeInv
<1> DEFINE child(n, u) == /\ u[1] \in DOMAIN nodes /\ u[2] \in DOMAIN nodes[u[1]].childs
                          /\ nodes[u[1]].childs[u[2]] = n /\ u = <<u[1], u[2]>>
           mount(n, u) == u = <<u[1], 0>> /\ u[1] \in DOMAIN nodes /\ nodes[u[1]].mount = n
<1>1. ASSUME NEW n \in DOMAIN nodes, NEW u \in Uses(n)
      PROVE  child(n, u) \/ mount(n, u)
  <2>1. CASE u \in (DOMAIN nodes) \X (1 .. MAX_DIR_NUM)
             /\ u[2] \in DOMAIN nodes[u[1]].childs /\ nodes[u[1]].childs[u[2]] = n
    BY <2>1
  <2>2. CASE u \in {<<d, 0>> : d \in {m \in DOMAIN nodes : nodes[m].mount = n}}
    BY <2>2
  <2> QED
    BY <1>1, <2>1, <2>2 DEF Uses
<1>2. NULL \notin DOMAIN nodes
  BY <1>0 DEF NodesTyped, NULL
<1>3. ASSUME NEW n \in DOMAIN nodes, NEW u \in Uses(n)
      PROVE  u[1] < n
  BY <1>0, <1>1, <1>2 DEF EdgesDown
<1>4. ASSUME NEW n \in DOMAIN nodes
      PROVE  Cardinality(Uses(n)) \in {0, 1}
  <2>1. ASSUME NEW u \in Uses(n), NEW w \in Uses(n) PROVE u = w
    <3>1. (child(n, u) \/ mount(n, u)) /\ (child(n, w) \/ mount(n, w))
      BY <1>1
    <3>2. CASE child(n, u) /\ child(n, w)
      <4>1. u[1] = w[1] /\ u[2] = w[2]
        <5>1. nodes[u[1]].childs[u[2]] = nodes[w[1]].childs[w[2]]
          BY <3>2
        <5>2. \A a, b \in DOMAIN nodes :
                \A g \in DOMAIN nodes[a].childs, h \in DOMAIN nodes[b].childs :
                  nodes[a].childs[g] = nodes[b].childs[h] => a = b /\ g = h
          BY <1>0 DEF OnePlace
        <5> QED
          BY <3>2, <5>1, <5>2
      <4> QED
        BY <3>2, <4>1
    <3>3. CASE mount(n, u) /\ mount(n, w)
      <4>1. u[1] = w[1]
        BY <1>0, <1>2, <3>3 DEF OnePlace
      <4> QED
        BY <3>3, <4>1
    <3>4. CASE (child(n, u) /\ mount(n, w)) \/ (mount(n, u) /\ child(n, w))
      <4>1. \A a, b \in DOMAIN nodes : \A h \in DOMAIN nodes[a].childs :
              nodes[a].childs[h] # nodes[b].mount
        BY <1>0 DEF OnePlace
      <4> QED
        BY <3>4, <4>1
    <3> QED
      BY <3>1, <3>2, <3>3, <3>4
  <2> QED
    BY <2>1, AtMostOne
<1>5. Uses(Root) = {}
  <2> SUFFICES ASSUME NEW u \in Uses(Root) PROVE FALSE
    OBVIOUS
  <2>1. Root \in DOMAIN nodes
    BY <1>0 DEF NodesTyped
  <2>2. u[1] < Root /\ (child(Root, u) \/ mount(Root, u))
    BY <1>1, <1>3, <2>1
  <2>3. u[1] \in DOMAIN nodes
    BY <2>2
  <2> QED
    BY <1>0, <2>2, <2>3 DEF NodesTyped, Root
<1>6. \A n \in DOMAIN nodes : nodes[n] \in NodeType
  BY <1>0 DEF NodesTyped
<1>7. \A n \in DOMAIN nodes : Cardinality(Uses(n)) <= 1
  BY <1>4
<1> QED
  BY <1>0, <1>3, <1>5, <1>6, <1>7 DEF TreeSound, EdgesDown

(* The vnodes form a tree below the root: none has two names, two mount    *)
(* points or both, and no directory outgrows its array (tmpfs_create(),    *)
(* tmpfs_mkdir(), vfs_mount(), initramfs_init()).                          *)
THEOREM TreeStaysTree == Spec => []TreeSound
<1>1. VfsInv => TreeSound
  BY TreeInvSound DEF VfsInv
<1> QED
  BY <1>1, VfsInvariance, PTL

(* No handle is ever past the end of its data: the unsigned difference of  *)
(* tmpfs_read() and initramfs_read() does not wrap.                        *)
THEOREM PositionsStayWithin == Spec => []PosWithinSize
<1>1. VfsInv => PosWithinSize
  BY DEF VfsInv
<1> QED
  BY <1>1, VfsInvariance, PTL

-----------------------------------------------------------------------------
(* Lookups before and after a step                                         *)

(* The k-th entry of directory d is its first one of that name.            *)
NamedAt(d, name, k) ==
  /\ k \in DOMAIN nodes[d].childs /\ nodes[nodes[d].childs[k]].name = name
  /\ \A j \in DOMAIN nodes[d].childs : nodes[nodes[d].childs[j]].name = name => k <= j
NotNamed(d, name) ==
  \A k \in DOMAIN nodes[d].childs : nodes[nodes[d].childs[k]].name # name

(* What lookups do in any state, to be used of the state after a step.     *)
LookupFacts ==
  TreeInv =>
    /\ \A path \in Seq(Names) : \E f : Steps(f, path) /\ VfsLookup(path) = f[Len(path)]
    /\ \A d \in DOMAIN nodes, name \in Names :
         /\ \A k : NamedAt(d, name, k) => Lookup(d, name) = nodes[d].childs[k]
         /\ NotNamed(d, name) => Lookup(d, name) = NULL

(* The least element of a set of numbers is the one CHOOSE takes.          *)
LEMMA ChooseLeast ==
  ASSUME NEW T \in SUBSET Nat, NEW k \in T, \A j \in T : k <= j
  PROVE  (CHOOSE m \in T : \A j \in T : m <= j) = k
<1> DEFINE m == CHOOSE m \in T : \A j \in T : m <= j
<1>1. m \in T /\ \A j \in T : m <= j
  OBVIOUS
<1> HIDE DEF m
<1>2. m <= k /\ k <= m /\ m \in Nat /\ k \in Nat
  BY <1>1
<1>3. m = k
  BY <1>2
<1> QED
  BY <1>3 DEF m

(* tmpfs_lookup() and initramfs_lookup() return the first of the name.     *)
LEMMA LookupFactsHold == LookupFacts
<1> SUFFICES ASSUME TreeInv
             PROVE  /\ \A path \in Seq(Names) : \E f : Steps(f, path) /\ VfsLookup(path) = f[Len(path)]
                    /\ \A d \in DOMAIN nodes, name \in Names :
                         /\ \A k : NamedAt(d, name, k) => Lookup(d, name) = nodes[d].childs[k]
                         /\ NotNamed(d, name) => Lookup(d, name) = NULL
  BY DEF LookupFacts
<1>1. \A path \in Seq(Names) : \E f : Steps(f, path) /\ VfsLookup(path) = f[Len(path)]
  BY LookupSteps
<1>2. ASSUME NEW d \in DOMAIN nodes, NEW name \in Names
      PROVE  /\ \A k : NamedAt(d, name, k) => Lookup(d, name) = nodes[d].childs[k]
             /\ NotNamed(d, name) => Lookup(d, name) = NULL
  <2> DEFINE T == {k \in DOMAIN nodes[d].childs : nodes[nodes[d].childs[k]].name = name}
  <2>1. Lookup(d, name) = IF T = {} THEN NULL
                          ELSE nodes[d].childs[CHOOSE k \in T : \A j \in T : k <= j]
    BY DEF Lookup, TmpfsLookup, InitramfsLookup, FirstNamed
  <2>2. T \in SUBSET Nat
    <3>1. nodes[d].childs \in Seq(Nat)
      BY NodeFields DEF TreeInv
    <3> QED
      BY <3>1
  <2>3. ASSUME NEW k, NamedAt(d, name, k) PROVE Lookup(d, name) = nodes[d].childs[k]
    <3>1. k \in T /\ \A j \in T : k <= j
      BY <2>3 DEF NamedAt
    <3>2. (CHOOSE m \in T : \A j \in T : m <= j) = k
      <4> HIDE DEF T
      <4> QED
        BY <2>2, <3>1, ChooseLeast
    <3>3. T # {}
      BY <3>1
    <3> QED
      BY <2>1, <3>2, <3>3
  <2>4. ASSUME NotNamed(d, name) PROVE Lookup(d, name) = NULL
    <3>1. T = {}
      BY <2>4 DEF NotNamed
    <3> QED
      BY <2>1, <3>1
  <2> QED
    BY <2>3, <2>4
<1> QED
  BY <1>1, <1>2

(* The same of the next state.                                             *)
LEMMA LookupFactsNext == LookupFacts'
  BY LookupFactsHold, PTL

(* A lookup that succeeds finds an entry of the directory.                 *)
LEMMA LookupFinds ==
  ASSUME TreeInv, NEW d \in DOMAIN nodes, NEW name \in Names
  PROVE  \/ Lookup(d, name) = NULL /\ NotNamed(d, name)
         \/ \E k : NamedAt(d, name, k) /\ Lookup(d, name) = nodes[d].childs[k]
<1>1. NodesTyped /\ Lookup(d, name) = FirstNamed(nodes[d].childs, name)
  BY DEF TreeInv, Lookup, TmpfsLookup, InitramfsLookup
<1> QED
  BY <1>1, FirstNamedChild DEF NamedAt, NotNamed

(* A failed lookup on the way makes the whole lookup fail.                 *)
LEMMA NoneAfterNull ==
  ASSUME NEW path \in Seq(Names), NEW f, Steps(f, path),
         NEW k \in 0 .. Len(path), NEW m \in k .. Len(path), f[k] = NULL
  PROVE  f[m] = NULL
<1> DEFINE T == {j \in Nat : k <= j /\ j <= Len(path) /\ f[j] # NULL}
<1> SUFFICES ASSUME f[m] # NULL PROVE FALSE
  OBVIOUS
<1>1. Len(path) \in Nat
  OBVIOUS
<1>2. m \in T /\ T \subseteq Nat
  BY <1>1
<1>3. PICK j \in T : \A i \in T : j <= i
  BY <1>2, LeastElement
<1>4. j \in Nat /\ k <= j /\ j <= Len(path) /\ f[j] # NULL /\ j # k
  BY <1>3
<1>5. PICK i : i = j - 1
  OBVIOUS
<1>6. i \in Nat /\ k <= i /\ i <= Len(path) /\ ~ (j <= i) /\ j \in 1 .. Len(path)
  BY <1>1, <1>4, <1>5
<1>7. f[i] = NULL
  BY <1>3, <1>6
<1> QED
  BY <1>4, <1>5, <1>6, <1>7 DEF Steps

(* Two ways along the same components are the same.                        *)
LEMMA SameSteps ==
  ASSUME NEW p \in Seq(Names), NEW q \in Seq(Names), NEW f, NEW g, Steps(f, p), Steps(g, q),
         NEW n \in Nat, n <= Len(p), n <= Len(q), \A k \in 1 .. n : p[k] = q[k]
  PROVE  \A k \in 0 .. n : f[k] = g[k]
<1> DEFINE T == {k \in Nat : k <= n /\ f[k] # g[k]}
<1> SUFFICES ASSUME NEW k0 \in 0 .. n, f[k0] # g[k0] PROVE FALSE
  OBVIOUS
<1>1. k0 \in T /\ T \subseteq Nat
  OBVIOUS
<1>2. PICK k \in T : \A i \in T : k <= i
  BY <1>1, LeastElement
<1>3. k \in Nat /\ k <= n /\ f[k] # g[k] /\ k # 0
  BY <1>2 DEF Steps
<1>4. PICK i : i = k - 1
  OBVIOUS
<1>5. i \in Nat /\ i <= n /\ ~ (k <= i) /\ k \in 1 .. n
  BY <1>3, <1>4
<1>6. k \in 1 .. Len(p) /\ k \in 1 .. Len(q)
  <2>1. Len(p) \in Nat /\ Len(q) \in Nat
    OBVIOUS
  <2> QED
    BY <1>5, <2>1
<1>7. f[i] = g[i]
  BY <1>2, <1>5
<1>8. p[k] = q[k]
  BY <1>5
<1> QED
  BY <1>3, <1>4, <1>6, <1>7, <1>8 DEF Steps

(* The directory that vfs_open() and vfs_mkdir() cut off a path is the     *)
(* last but one vnode that vfs_lookup() passes.                            *)
LEMMA ParentStep ==
  ASSUME TreeInv, NEW path \in Seq(Names), path # <<>>, NEW f, Steps(f, path)
  PROVE  VfsLookup(Parent(path)) = f[Len(path) - 1]
<1>1. /\ Parent(path) \in Seq(Names) /\ Len(path) \in Nat \ {0}
      /\ Len(Parent(path)) = Len(path) - 1
      /\ \A k \in 1 .. Len(path) - 1 : Parent(path)[k] = path[k]
  BY PathParts
<1>2. PICK g : Steps(g, Parent(path)) /\ VfsLookup(Parent(path)) = g[Len(Parent(path))]
  BY <1>1, LookupSteps
<1>3. PICK q : q = Parent(path)
  OBVIOUS
<1>3a. PICK n \in Nat : n = Len(path) - 1
  <2>1. PICK m : m = Len(path)
    OBVIOUS
  <2>2. m - 1 \in Nat
    BY <1>1, <2>1
  <2> QED
    BY <2>1, <2>2
<1>4. n <= Len(path) /\ n <= Len(q) /\ q \in Seq(Names) /\ \A k \in 1 .. n : q[k] = path[k]
  BY <1>1, <1>3, <1>3a
<1>5. \A k \in 0 .. n : g[k] = f[k]
  BY <1>2, <1>3, <1>4, SameSteps
<1>6. n \in 0 .. n
  OBVIOUS
<1> QED
  BY <1>1, <1>2, <1>3, <1>3a, <1>5, <1>6

(* A step that changes none of the lookups on a way does not change it.    *)
LEMMA WayKept ==
  ASSUME NEW path \in Seq(Names), NEW f, NEW g, Steps(f, path), Steps(g, path)',
         NEW m \in 0 .. Len(path),
         \A k \in 1 .. m : f[k - 1] # NULL => Redirect(Lookup(f[k - 1], path[k]))' = f[k]
  PROVE  \A k \in 0 .. m : g[k] = f[k]
<1> DEFINE T == {k \in Nat : k <= m /\ g[k] # f[k]}
<1> SUFFICES ASSUME NEW k0 \in 0 .. m, g[k0] # f[k0] PROVE FALSE
  OBVIOUS
<1>1. k0 \in T /\ T \subseteq Nat
  OBVIOUS
<1>2. PICK k \in T : \A i \in T : k <= i
  BY <1>1, LeastElement
<1>3. /\ g[0] = Root
      /\ \A j \in 1 .. Len(path) :
           g[j] = IF g[j - 1] = NULL THEN NULL ELSE Redirect(Lookup(g[j - 1], path[j]))'
  BY DEF Steps, Root, NULL
<1>4. k \in Nat /\ k <= m /\ f[k] # g[k] /\ k # 0
  BY <1>2, <1>3 DEF Steps
<1>5. PICK i : i = k - 1
  OBVIOUS
<1>6. i \in Nat /\ i <= m /\ ~ (k <= i) /\ k \in 1 .. m /\ k \in 1 .. Len(path)
  <2>1. Len(path) \in Nat
    OBVIOUS
  <2> QED
    BY <1>4, <1>5, <2>1
<1>7. f[i] = g[i]
  BY <1>2, <1>6
<1>8. CASE f[i] = NULL
  BY <1>3, <1>4, <1>5, <1>6, <1>7, <1>8 DEF Steps
<1>9. CASE f[i] # NULL
  <2>1. g[k] = Redirect(Lookup(g[k - 1], path[k]))'
    BY <1>3, <1>5, <1>6, <1>7, <1>9
  <2>2. g[k - 1] = f[k - 1]
    BY <1>5, <1>7
  <2>3. Redirect(Lookup(f[k - 1], path[k]))' = f[k]
    BY <1>5, <1>6, <1>9
  <2> QED
    BY <1>4, <2>1, <2>2, <2>3
<1> QED
  BY <1>8, <1>9

-----------------------------------------------------------------------------
(* sys_open() and the next lookup                                          *)

(* A new last entry of a directory hides no other.                         *)
LEMMA EntryKept ==
  ASSUME TreeInv, TreeInv', NEW dir \in DOMAIN nodes, NEW v,
         HasNewChild(nodes', dir, v), NEW d \in DOMAIN nodes, NEW name \in Names,
         Lookup(d, name) # NULL
  PROVE  /\ Lookup(d, name)' = Lookup(d, name)
         /\ Redirect(Lookup(d, name))' = Redirect(Lookup(d, name))
<1>1. PICK k : NamedAt(d, name, k) /\ Lookup(d, name) = nodes[d].childs[k]
  BY LookupFinds
<1>2. NodesTyped /\ Len(nodes) \in Nat /\ DOMAIN nodes = 1 .. Len(nodes)
  BY DEF TreeInv, NodesTyped
<1>3. /\ DOMAIN nodes' = 1 .. Len(nodes) + 1
      /\ \A n \in DOMAIN nodes : n # dir => nodes'[n] = nodes[n]
      /\ nodes'[dir] = [nodes[dir] EXCEPT !.childs = Append(nodes[dir].childs, Len(nodes) + 1)]
  BY DEF HasNewChild
<1>4. /\ nodes'[dir].childs = Append(nodes[dir].childs, Len(nodes) + 1)
      /\ nodes'[dir].name = nodes[dir].name /\ nodes'[dir].mount = nodes[dir].mount
  <2>1. nodes[dir] \in NodeType
    BY <1>2 DEF NodesTyped
  <2> QED
    BY <1>3, <2>1 DEF NodeType
<1>5. \A n \in DOMAIN nodes : nodes'[n].name = nodes[n].name /\ nodes'[n].mount = nodes[n].mount
                              /\ n \in DOMAIN nodes'
  <2>1. \A n \in DOMAIN nodes : n \in DOMAIN nodes'
    BY <1>2, <1>3
  <2>2. \A n \in DOMAIN nodes : nodes'[n].name = nodes[n].name /\ nodes'[n].mount = nodes[n].mount
    BY <1>3, <1>4
  <2> QED
    BY <2>1, <2>2
<1>6. nodes[d].childs \in Seq(Nat)
  BY <1>2, NodeFields
<1>7. PICK L : L = Len(nodes[d].childs)
  OBVIOUS
<1>8. L \in Nat /\ DOMAIN nodes[d].childs = 1 .. L
  BY <1>6, <1>7
<1>9. /\ \A j \in 1 .. L : nodes'[d].childs[j] = nodes[d].childs[j] /\ j \in DOMAIN nodes'[d].childs
      /\ \A j \in DOMAIN nodes'[d].childs : j \in 1 .. L \/ j = L + 1
  <2>1. CASE d = dir
    <3>1. PICK x : x = Len(nodes) + 1 /\ x \in Nat
      BY <1>2
    <3>2. PICK c : c = nodes[d].childs
      OBVIOUS
    <3>3. c \in Seq(Nat) /\ L = Len(c) /\ nodes'[d].childs = Append(c, x)
      BY <1>4, <1>6, <1>7, <2>1, <3>1, <3>2
    <3>4. /\ DOMAIN Append(c, x) = 1 .. L + 1
          /\ \A j \in 1 .. L : Append(c, x)[j] = c[j]
      BY <3>1, <3>3
    <3> QED
      BY <1>8, <3>2, <3>3, <3>4
  <2>2. CASE d # dir
    BY <1>3, <1>8, <2>2
  <2> QED
    BY <2>1, <2>2
<1>10. \A j \in 1 .. L : nodes[d].childs[j] \in DOMAIN nodes
  BY <1>8 DEF TreeInv, EdgesDown
<1>11. \A j \in 1 .. L : nodes'[nodes'[d].childs[j]].name = nodes[nodes[d].childs[j]].name
  BY <1>5, <1>9, <1>10
<1>12. /\ k \in 1 .. L /\ nodes[nodes[d].childs[k]].name = name
       /\ \A j \in 1 .. L : nodes[nodes[d].childs[j]].name = name => k <= j
  BY <1>1, <1>8 DEF NamedAt
<1>13. \A j \in DOMAIN nodes'[d].childs : nodes'[nodes'[d].childs[j]].name = name => k <= j
  <2> SUFFICES ASSUME NEW j \in DOMAIN nodes'[d].childs, nodes'[nodes'[d].childs[j]].name = name
               PROVE  k <= j
    OBVIOUS
  <2>1. CASE j \in 1 .. L
    BY <1>11, <1>12, <2>1
  <2>2. CASE j = L + 1
    BY <1>8, <1>12, <2>2
  <2> QED
    BY <1>9, <2>1, <2>2
<1>14. NamedAt(d, name, k)'
  BY <1>9, <1>11, <1>12, <1>13 DEF NamedAt
<1>15. Lookup(d, name)' = nodes'[d].childs[k]
  <2>1. d \in DOMAIN nodes'
    BY <1>5
  <2>2. \A e \in DOMAIN nodes', nm \in Names :
           \A i : NamedAt(e, nm, i)' => Lookup(e, nm)' = nodes'[e].childs[i]
    BY LookupFactsNext DEF LookupFacts
  <2> QED
    BY <1>14, <2>1, <2>2
<1>16. Lookup(d, name)' = Lookup(d, name)
  BY <1>1, <1>9, <1>12, <1>15
<1>17. Lookup(d, name) \in DOMAIN nodes
  BY <1>1, <1>10, <1>12
<1>18. nodes'[Lookup(d, name)].mount = nodes[Lookup(d, name)].mount
  BY <1>5, <1>17
<1>19. Redirect(Lookup(d, name))' = Redirect(Lookup(d, name))
  BY <1>16, <1>18 DEF Redirect, NULL
<1> QED
  BY <1>16, <1>19

(* The new entry is found by its name, which is new.                       *)
LEMMA EntryFound ==
  ASSUME TreeInv, TreeInv', NEW dir \in DOMAIN nodes, NEW v, NEW name \in Names,
         HasNewChild(nodes', dir, v), v.name = name, v.mount = NULL, NotNamed(dir, name)
  PROVE  Redirect(Lookup(dir, name))' = Len(nodes) + 1
<1>2. NodesTyped /\ Len(nodes) \in Nat /\ DOMAIN nodes = 1 .. Len(nodes)
  BY DEF TreeInv, NodesTyped
<1>3. PICK new : new = Len(nodes) + 1 /\ new \in Nat
  BY <1>2
<1>4. /\ DOMAIN nodes' = 1 .. new /\ nodes'[new] = v
      /\ \A n \in DOMAIN nodes : n # dir => nodes'[n] = nodes[n]
      /\ nodes'[dir] = [nodes[dir] EXCEPT !.childs = Append(nodes[dir].childs, new)]
  BY <1>3 DEF HasNewChild
<1>5. /\ nodes'[dir].childs = Append(nodes[dir].childs, new)
      /\ nodes'[dir].name = nodes[dir].name
  <2>1. nodes[dir] \in NodeType
    BY <1>2 DEF NodesTyped
  <2> QED
    BY <1>4, <2>1 DEF NodeType
<1>6. nodes[dir].childs \in Seq(Nat)
  BY <1>2, NodeFields
<1>7. PICK L : L = Len(nodes[dir].childs)
  OBVIOUS
<1>8. L \in Nat /\ DOMAIN nodes[dir].childs = 1 .. L
  BY <1>6, <1>7
<1>9. /\ DOMAIN nodes'[dir].childs = 1 .. L + 1 /\ nodes'[dir].childs[L + 1] = new
      /\ \A j \in 1 .. L : nodes'[dir].childs[j] = nodes[dir].childs[j]
  BY <1>3, <1>5, <1>6, <1>7
<1>10. \A j \in 1 .. L : nodes[dir].childs[j] \in DOMAIN nodes
  BY <1>8 DEF TreeInv, EdgesDown
<1>11. \A j \in 1 .. L : nodes'[nodes'[dir].childs[j]].name # name
  <2> SUFFICES ASSUME NEW j \in 1 .. L PROVE nodes'[nodes'[dir].childs[j]].name # name
    OBVIOUS
  <2>1. PICK c \in DOMAIN nodes : c = nodes[dir].childs[j]
    BY <1>10
  <2>2. nodes[c].name # name
    BY <1>8, <2>1 DEF NotNamed
  <2>3. nodes'[c].name = nodes[c].name
    BY <1>4, <1>5
  <2> QED
    BY <1>9, <2>1, <2>2, <2>3
<1>12. NamedAt(dir, name, L + 1)'
  <2>1. \A j \in DOMAIN nodes'[dir].childs : nodes'[nodes'[dir].childs[j]].name = name => L + 1 <= j
    BY <1>8, <1>9, <1>11
  <2>2. L + 1 \in DOMAIN nodes'[dir].childs /\ nodes'[nodes'[dir].childs[L + 1]].name = name
    BY <1>4, <1>8, <1>9
  <2> QED
    BY <2>1, <2>2 DEF NamedAt
<1>13. Lookup(dir, name)' = new
  <2>1. dir \in DOMAIN nodes'
    BY <1>2, <1>3, <1>4
  <2>2. \A e \in DOMAIN nodes', nm \in Names :
           \A i : NamedAt(e, nm, i)' => Lookup(e, nm)' = nodes'[e].childs[i]
    BY LookupFactsNext DEF LookupFacts
  <2> QED
    BY <1>9, <1>12, <2>1, <2>2
<1>14. nodes'[new].mount = NULL
  BY <1>4
<1> QED
  BY <1>3, <1>13, <1>14 DEF Redirect, NULL

(* vfs_open() with O_CREAT: the path leads to the new vnode.               *)
LEMMA CreateMeetsLookup ==
  ASSUME TreeInv, TreeInv', NEW path \in Seq(Names), path # <<>>, NEW dir \in DOMAIN nodes,
         dir = VfsLookup(Parent(path)), NotNamed(dir, Name(path)),
         NEW v, HasNewChild(nodes', dir, v), v.name = Name(path), v.mount = NULL
  PROVE  VfsLookup(path)' = Len(nodes) + 1
<1>1. PICK f : Steps(f, path) /\ VfsLookup(path) = f[Len(path)]
  BY LookupSteps
<1>2. PICK g : Steps(g, path)' /\ VfsLookup(path)' = g[Len(path)]
  BY LookupFactsNext DEF LookupFacts
<1>3. Len(path) \in Nat \ {0} /\ Name(path) \in Names
  BY PathParts
<1>4. PICK m : m = Len(path) - 1
  OBVIOUS
<1>5. m \in Nat /\ m \in 0 .. Len(path) /\ Len(path) \in 1 .. Len(path) /\ Len(path) - 1 = m
      /\ \A k \in 1 .. m : k \in 1 .. Len(path) /\ k - 1 \in 0 .. Len(path) /\ m \in k - 1 .. Len(path)
                           /\ k \in 0 .. Len(path) /\ m \in k .. Len(path)
  BY <1>3, <1>4
<1>6. f[m] = dir /\ NULL \notin DOMAIN nodes
  <2>1. f[m] = dir
    BY <1>1, <1>4, ParentStep
  <2> QED
    BY <2>1 DEF TreeInv, NodesTyped, NULL
<1>7. ASSUME NEW k \in 1 .. m
      PROVE  f[k - 1] # NULL => Redirect(Lookup(f[k - 1], path[k]))' = f[k]
  <2> SUFFICES ASSUME f[k - 1] # NULL PROVE Redirect(Lookup(f[k - 1], path[k]))' = f[k]
    OBVIOUS
  <2>1. f[k] # NULL
    BY <1>1, <1>5, <1>6, NoneAfterNull
  <2>2. f[k - 1] \in DOMAIN nodes
    BY <1>1, <1>5 DEF Steps
  <2>3. path[k] \in Names
    BY <1>5, ElementOfSeq
  <2>4. f[k] = Redirect(Lookup(f[k - 1], path[k]))
    BY <1>1, <1>5 DEF Steps
  <2>5. Lookup(f[k - 1], path[k]) # NULL
    BY <2>1, <2>4 DEF Redirect
  <2>6. PICK d \in DOMAIN nodes, name \in Names : d = f[k - 1] /\ name = path[k]
    BY <2>2, <2>3
  <2>7. Redirect(Lookup(d, name))' = Redirect(Lookup(d, name))
    BY <2>5, <2>6, EntryKept
  <2> QED
    BY <2>4, <2>6, <2>7
<1>8. g[m] = f[m]
  <2>1. \A k \in 0 .. m : g[k] = f[k]
    BY <1>1, <1>2, <1>5, <1>7, WayKept
  <2> QED
    BY <1>5, <2>1
<1>9. g[Len(path)] = Redirect(Lookup(g[m], path[Len(path)]))'
  <2>1. \A j \in 1 .. Len(path) :
           g[j] = IF g[j - 1] = NULL THEN NULL ELSE Redirect(Lookup(g[j - 1], path[j]))'
    BY <1>2 DEF Steps, NULL
  <2>2. g[Len(path) - 1] # NULL
    BY <1>5, <1>6, <1>8
  <2> QED
    BY <1>5, <2>1, <2>2
<1>10. Redirect(Lookup(dir, Name(path)))' = Len(nodes) + 1
  <2>1. PICK name \in Names : name = Name(path)
    BY <1>3
  <2>2. Redirect(Lookup(dir, name))' = Len(nodes) + 1
    BY <2>1, EntryFound
  <2> QED
    BY <2>1, <2>2
<1> QED
  BY <1>2, <1>6, <1>8, <1>9, <1>10 DEF Name

(* The handle of sys_open() is that of the vnode the path leads to next    *)
(* time: the directory cut off the path, the mounts on the way and the new *)
(* name agree with vfs_lookup().                                           *)
THEOREM OpenAgreesWithLookup == Spec => OpenMeetsLookup
<1> DEFINE Meets == \A t \in Tasks, path \in Paths :
                      SysOpen(t, path) /\ ~ wild' =>
                        files'[fd_table'[t][FirstFreeFd(t)]].vnode = VfsLookup(path)'
<1>1. ASSUME VfsInv, VfsInv', NEW t \in Tasks, NEW path \in Paths, SysOpen(t, path), ~ wild'
      PROVE  files'[fd_table'[t][FirstFreeFd(t)]].vnode = VfsLookup(path)'
  <2>1. PICK f \in FreeFiles :
          /\ OpenExisting(f, path) \/ OpenCreate(f, path)
          /\ fd_table' = [fd_table EXCEPT ![t][FirstFreeFd(t)] = f]
    BY <1>1 DEF SysOpen
  <2>2. FirstFreeFd(t) \in Fds
    BY <1>1, FirstFreeIsFree DEF SysOpen
  <2>3. TreeInv /\ TreeInv' /\ FilesTyped /\ path \in Seq(Names) /\ f \in Files
    BY <1>1, VfsAssumption DEF VfsInv, FreeFiles
  <2>4. fd_table'[t][FirstFreeFd(t)] = f
    BY <2>1, <2>2, <2>3 DEF FilesTyped
  <2>5. \A node : files' = [files EXCEPT ![f] = [vnode |-> node, f_pos |-> 0]]
                    => files'[f].vnode = node
    BY <2>3 DEF FilesTyped
  <2>6. CASE OpenExisting(f, path)
    <3>1. /\ files' = [files EXCEPT ![f] = [vnode |-> VfsLookup(path), f_pos |-> 0]]
          /\ nodes' = nodes
      BY <2>6 DEF OpenExisting, FileOpen, TmpfsOpen, InitramfsOpen
    <3>2. VfsLookup(path)' = VfsLookup(path)
      <4>1. PICK h : Steps(h, path) /\ VfsLookup(path) = h[Len(path)]
        BY <2>3, LookupSteps
      <4>2. PICK g : Steps(g, path)' /\ VfsLookup(path)' = g[Len(path)]
        BY <2>3, LookupFactsNext DEF LookupFacts
      <4>3. \A k \in 1 .. Len(path) :
              h[k - 1] # NULL => Redirect(Lookup(h[k - 1], path[k]))' = h[k]
        <5>1. \A d, name : Redirect(Lookup(d, name))' = Redirect(Lookup(d, name))
          BY <3>1 DEF Redirect, Lookup, TmpfsLookup, InitramfsLookup, FirstNamed, NULL
        <5> QED
          BY <4>1, <5>1 DEF Steps
      <4>4. PICK m : m = Len(path) /\ m \in 0 .. Len(path)
        BY <2>3
      <4>5. \A k \in 0 .. m : g[k] = h[k]
        BY <2>3, <4>1, <4>2, <4>3, <4>4, WayKept
      <4> QED
        BY <4>1, <4>2, <4>4, <4>5
    <3> QED
      BY <2>4, <2>5, <3>1, <3>2
  <2>7. CASE OpenCreate(f, path)
    <3> DEFINE dir == VfsLookup(Parent(path))
               v == TmpfsCreateVnode("file", Name(path))
    <3>1. VfsLookup(path) = NULL /\ dir # NULL
      BY <2>7 DEF OpenCreate
    <3>2. path # <<>>
      BY <2>3, <3>1, LookupRoot
    <3>3. Parent(path) \in Seq(Names) /\ Name(path) \in Names
      BY <2>3, <3>2, PathParts
    <3>4. dir \in DOMAIN nodes
      BY <2>3, <3>1, <3>3, LookupNode
    <3>5. /\ Creates(dir, Name(path)) /\ nodes' = NewChild(dir, "file", Name(path))
          /\ files' = [files EXCEPT ![f] = [vnode |-> Len(nodes) + 1, f_pos |-> 0]]
      BY <1>1, <2>7 DEF OpenCreate, FileOpen, TmpfsOpen, InitramfsOpen
    <3>6. NotNamed(dir, Name(path))
      BY <3>5, CreatesRoom DEF TmpfsCreates, NotNamed
    <3>7. "file" \in {"dir", "file"}
      OBVIOUS
    <3> HIDE DEF dir
    <3>8. HasNewChild(nodes', dir, v)
      BY <2>3, <3>3, <3>4, <3>5, <3>7, NewChildNodes DEF TreeInv
    <3>9. v.name = Name(path) /\ v.mount = NULL
      BY <3>3, <3>7, TmpfsVnode
    <3> HIDE DEF v
    <3>10. VfsLookup(path)' = Len(nodes) + 1
      BY <2>3, <3>2, <3>4, <3>6, <3>8, <3>9, CreateMeetsLookup DEF dir
    <3> QED
      BY <2>4, <2>5, <3>5, <3>10
  <2> QED
    BY <2>1, <2>6, <2>7
<1>2. VfsInv /\ VfsInv' /\ [Next]_vars => [Meets]_vars
  BY <1>1
<1>3. OpenMeetsLookup <=> [][Meets]_vars
  BY DEF OpenMeetsLookup
<1> QED
  BY <1>2, <1>3, VfsInvariance, PTL DEF Spec

-----------------------------------------------------------------------------
(* sys_mount() and the next lookup                                         *)

(* x is what the lookup of name in d returns, the mount on it followed.    *)
Leads(d, name, x) ==
  \E k \in DOMAIN nodes[d].childs :
    /\ nodes[nodes[d].childs[k]].name = name
    /\ \/ x = nodes[d].childs[k]
       \/ x # NULL /\ x = nodes[nodes[d].childs[k]].mount

(* One directory and one name lead to a vnode, and it is younger.          *)
LEMMA LeadsOnce ==
  ASSUME TreeInv, NEW d \in DOMAIN nodes, NEW e \in DOMAIN nodes, NEW a, NEW b, NEW x,
         Leads(d, a, x), Leads(e, b, x)
  PROVE  d = e /\ a = b
<1>1. PICK j \in DOMAIN nodes[d].childs :
        /\ nodes[nodes[d].childs[j]].name = a
        /\ \/ x = nodes[d].childs[j]
           \/ x # NULL /\ x = nodes[nodes[d].childs[j]].mount
  BY DEF Leads
<1>2. PICK k \in DOMAIN nodes[e].childs :
        /\ nodes[nodes[e].childs[k]].name = b
        /\ \/ x = nodes[e].childs[k]
           \/ x # NULL /\ x = nodes[nodes[e].childs[k]].mount
  BY DEF Leads
<1>3. nodes[d].childs[j] \in DOMAIN nodes /\ nodes[e].childs[k] \in DOMAIN nodes
  BY DEF TreeInv, EdgesDown
<1>4. nodes[d].childs[j] = nodes[e].childs[k]
  <2>1. \A c1, c2 \in DOMAIN nodes :
          nodes[c1].mount = nodes[c2].mount /\ nodes[c1].mount # NULL => c1 = c2
    BY DEF TreeInv, OnePlace
  <2>2. \A c1, c2 \in DOMAIN nodes : \A h \in DOMAIN nodes[c1].childs :
          nodes[c1].childs[h] # nodes[c2].mount
    BY DEF TreeInv, OnePlace
  <2> QED
    BY <1>1, <1>2, <1>3, <2>1, <2>2
<1>5. \A c1, c2 \in DOMAIN nodes :
        \A g \in DOMAIN nodes[c1].childs, h \in DOMAIN nodes[c2].childs :
          nodes[c1].childs[g] = nodes[c2].childs[h] => c1 = c2 /\ g = h
  BY DEF TreeInv, OnePlace
<1>6. d = e
  BY <1>4, <1>5
<1> QED
  BY <1>1, <1>2, <1>4, <1>6

(* The root is not below any directory.                                    *)
LEMMA LeadsDown ==
  ASSUME TreeInv, NEW d \in DOMAIN nodes, NEW a, NEW x, Leads(d, a, x)
  PROVE  x # Root
<1>1. PICK j \in DOMAIN nodes[d].childs :
        \/ x = nodes[d].childs[j]
        \/ x # NULL /\ x = nodes[nodes[d].childs[j]].mount
  BY DEF Leads
<1>2. nodes[d].childs[j] \in DOMAIN nodes /\ d < nodes[d].childs[j]
  BY DEF TreeInv, EdgesDown
<1>3. \A c \in DOMAIN nodes : nodes[c].mount # NULL => c < nodes[c].mount /\ nodes[c].mount \in DOMAIN nodes
  BY DEF TreeInv, EdgesDown
<1>4. DOMAIN nodes = 1 .. Len(nodes) /\ Len(nodes) \in Nat
  BY DEF TreeInv, NodesTyped
<1>5. CASE x = nodes[d].childs[j]
  BY <1>2, <1>4, <1>5 DEF Root
<1>6. CASE x # NULL /\ x = nodes[nodes[d].childs[j]].mount
  <2>1. nodes[d].childs[j] < x /\ x \in DOMAIN nodes
    BY <1>2, <1>3, <1>6
  <2> QED
    BY <1>2, <1>4, <2>1 DEF Root
<1> QED
  BY <1>1, <1>5, <1>6

(* Each step of a lookup that succeeds is such a lead.                     *)
LEMMA StepLeads ==
  ASSUME TreeInv, NEW path \in Seq(Names), NEW f, Steps(f, path),
         NEW k \in 1 .. Len(path), f[k] # NULL
  PROVE  f[k - 1] \in DOMAIN nodes /\ path[k] \in Names /\ Leads(f[k - 1], path[k], f[k])
<1>1. k - 1 \in 0 .. Len(path) /\ k \in 0 .. Len(path)
  <2>1. Len(path) \in Nat
    OBVIOUS
  <2> QED
    BY <2>1
<1>2. f[k - 1] # NULL /\ f[k] = Redirect(Lookup(f[k - 1], path[k]))
  BY DEF Steps
<1>3. f[k - 1] \in DOMAIN nodes
  BY <1>1, <1>2 DEF Steps
<1>4. path[k] \in Names
  BY ElementOfSeq
<1>5. PICK c : c = Lookup(f[k - 1], path[k])
  OBVIOUS
<1>6. c # NULL
  BY <1>2, <1>5 DEF Redirect
<1>7. PICK j : NamedAt(f[k - 1], path[k], j) /\ c = nodes[f[k - 1]].childs[j]
  BY <1>3, <1>4, <1>5, <1>6, LookupFinds
<1>8. f[k] = c \/ (f[k] # NULL /\ f[k] = nodes[c].mount)
  BY <1>2, <1>5 DEF Redirect
<1> QED
  BY <1>3, <1>4, <1>7, <1>8 DEF Leads, NamedAt

(* A vnode is reached along one path only.                                 *)
LEMMA PathUnique ==
  ASSUME TreeInv, NEW p \in Seq(Names), NEW q \in Seq(Names), NEW f, NEW g,
         Steps(f, p), Steps(g, q), NEW j0 \in 0 .. Len(p), NEW k0 \in 0 .. Len(q),
         f[j0] = g[k0], f[j0] # NULL
  PROVE  j0 = k0 /\ \A i \in 1 .. j0 : p[i] = q[i]
<1> DEFINE good(j, k) == j = k /\ \A i \in 1 .. j : p[i] = q[i]
           T == {j \in Nat : j <= Len(p) /\ f[j] # NULL
                             /\ \E k \in 0 .. Len(q) : f[j] = g[k] /\ ~ good(j, k)}
<1> SUFFICES ASSUME ~ good(j0, k0) PROVE FALSE
  OBVIOUS
<1>1. Len(p) \in Nat /\ Len(q) \in Nat
  OBVIOUS
<1>2. j0 \in T /\ T \subseteq Nat
  BY <1>1
<1>3. PICK j \in T : \A i \in T : j <= i
  <2> HIDE DEF T
  <2> QED
    BY <1>2, LeastElement
<1>4. PICK k \in 0 .. Len(q) : f[j] = g[k] /\ ~ good(j, k)
  BY <1>3
<1>5. j \in Nat /\ j <= Len(p) /\ f[j] # NULL /\ j \in 0 .. Len(p)
  BY <1>1, <1>3
<1>6. f[0] = Root /\ g[0] = Root
  BY DEF Steps
<1>7. j = 0 => k # 0
  BY <1>4
<1>8. CASE j = 0
  <2>1. k \in 1 .. Len(q) /\ g[k] = Root /\ g[k] # NULL
    BY <1>1, <1>4, <1>5, <1>6, <1>7, <1>8
  <2>2. g[k - 1] \in DOMAIN nodes /\ Leads(g[k - 1], q[k], g[k])
    BY <2>1, StepLeads
  <2> QED
    BY <2>1, <2>2, LeadsDown
<1>9. CASE j # 0
  <2>1. j \in 1 .. Len(p)
    BY <1>1, <1>5, <1>9
  <2>2. f[j - 1] \in DOMAIN nodes /\ Leads(f[j - 1], p[j], f[j])
    BY <1>5, <2>1, StepLeads
  <2>3. f[j] # Root
    BY <2>2, LeadsDown
  <2>4. k \in 1 .. Len(q) /\ g[k] # NULL
    BY <1>1, <1>4, <1>5, <1>6, <2>3
  <2>5. g[k - 1] \in DOMAIN nodes /\ Leads(g[k - 1], q[k], g[k])
    BY <2>4, StepLeads
  <2>6. f[j - 1] = g[k - 1] /\ p[j] = q[k]
    BY <1>4, <2>2, <2>5, LeadsOnce
  <2>7. PICK a, b : a = j - 1 /\ b = k - 1
    OBVIOUS
  <2>8. a \in Nat /\ a <= Len(p) /\ b \in 0 .. Len(q) /\ ~ (j <= a) /\ j = a + 1 /\ k = b + 1
        /\ b \in Nat
    BY <1>1, <2>1, <2>4, <2>7
  <2>9. f[a] # NULL
    BY <2>2, <2>7 DEF TreeInv, NodesTyped, NULL
  <2>10. good(a, b)
    BY <1>3, <2>6, <2>7, <2>8, <2>9
  <2>11. \A i \in 1 .. j : i \in 1 .. a \/ i = j
    BY <2>8
  <2>12. good(j, k)
    BY <2>6, <2>8, <2>10, <2>11
  <2> QED
    BY <1>4, <2>12
<1> QED
  BY <1>8, <1>9

(* The lookup of one component is not changed by a mount: only the way on  *)
(* from the mount point is.                                                *)
LEMMA MountEntry ==
  ASSUME TreeInv, TreeInv', NEW target \in DOMAIN nodes, NEW s, IsMount(s, Len(nodes)),
         nodes' = Mounted(target, s), nodes[target].mount = NULL,
         NEW d \in DOMAIN nodes, NEW name \in Names
  PROVE  /\ Lookup(d, name)' = Lookup(d, name)
         /\ Lookup(d, name) # target =>
              Redirect(Lookup(d, name))' = Redirect(Lookup(d, name))
         /\ Lookup(d, name) = target => Redirect(Lookup(d, name))' = Len(nodes) + 1
<1>1. NodesTyped /\ Len(nodes) \in Nat /\ DOMAIN nodes = 1 .. Len(nodes)
  BY DEF TreeInv, NodesTyped
<1>2. /\ DOMAIN nodes' = 1 .. Len(nodes) + Len(s)
      /\ \A n \in DOMAIN nodes :
           /\ nodes'[n].childs = nodes[n].childs /\ nodes'[n].name = nodes[n].name
           /\ nodes'[n].mount = IF n = target /\ nodes[n].mount = NULL
                                THEN Len(nodes) + 1 ELSE nodes[n].mount
  BY <1>1, MountNodes
<1>3. \A n \in DOMAIN nodes : n \in DOMAIN nodes'
  <2>1. Len(s) \in Nat
    BY DEF IsMount
  <2> QED
    BY <1>1, <1>2, <2>1
<1>4. \A k \in DOMAIN nodes[d].childs : nodes[d].childs[k] \in DOMAIN nodes
  BY DEF TreeInv, EdgesDown
<1>5. Lookup(d, name)' = Lookup(d, name)
  <2>1. \A e \in DOMAIN nodes', nm \in Names :
           \A i : NamedAt(e, nm, i)' => Lookup(e, nm)' = nodes'[e].childs[i]
    BY LookupFactsNext DEF LookupFacts
  <2>2. \A e \in DOMAIN nodes', nm \in Names : NotNamed(e, nm)' => Lookup(e, nm)' = NULL
    BY LookupFactsNext DEF LookupFacts, NULL
  <2>3. CASE Lookup(d, name) = NULL /\ NotNamed(d, name)
    <3>1. NotNamed(d, name)'
      BY <1>2, <1>4, <2>3 DEF NotNamed
    <3> QED
      BY <1>3, <2>2, <2>3, <3>1
  <2>4. CASE \E k : NamedAt(d, name, k) /\ Lookup(d, name) = nodes[d].childs[k]
    <3>1. PICK k : NamedAt(d, name, k) /\ Lookup(d, name) = nodes[d].childs[k]
      BY <2>4
    <3>2. NamedAt(d, name, k)'
      BY <1>2, <1>4, <3>1 DEF NamedAt
    <3>3. Lookup(d, name)' = nodes'[d].childs[k]
      BY <1>3, <2>1, <3>2
    <3> QED
      BY <1>2, <3>1, <3>3
  <2> QED
    BY <2>3, <2>4, LookupFinds
<1>6. PICK c : c = Lookup(d, name)
  OBVIOUS
<1>7. c \in DOMAIN nodes \cup {NULL}
  BY <1>6, LookupChild
<1>8. Redirect(Lookup(d, name))' = IF c # NULL /\ nodes'[c].mount # NULL THEN nodes'[c].mount ELSE c
  BY <1>5, <1>6 DEF Redirect, NULL
<1>9. Redirect(Lookup(d, name)) = IF c # NULL /\ nodes[c].mount # NULL THEN nodes[c].mount ELSE c
  BY <1>6 DEF Redirect
<1>10. ASSUME c # target PROVE Redirect(Lookup(d, name))' = Redirect(Lookup(d, name))
  BY <1>2, <1>7, <1>8, <1>9, <1>10
<1>11. ASSUME c = target PROVE Redirect(Lookup(d, name))' = Len(nodes) + 1
  <2>1. c # NULL /\ Len(nodes) + 1 # NULL
    BY <1>1, <1>11 DEF NULL
  <2>2. nodes'[c].mount = Len(nodes) + 1
    BY <1>2, <1>11
  <2> QED
    BY <1>8, <2>1, <2>2
<1> QED
  BY <1>5, <1>6, <1>10, <1>11

(* The mounted root belongs to the file system asked for.                  *)
LEMMA MountedFs ==
  ASSUME NEW N \in Nat, NEW fs \in Filesystems
  PROVE  SetupMount(fs, N)[1].fs = fs
<1>1. CASE fs = "tmpfs"
  BY <1>1 DEF SetupMount, TmpfsSetupMount, TmpfsCreateVnode
<1>2. CASE fs = "initramfs"
  <2> DEFINE kids == [k \in DOMAIN Archive |-> N + 1 + k]
             w == InitramfsCreateVnode("dir", "", <<>>)
             r == [w EXCEPT !.childs = kids]
             t == InitramfsInit(N)
  <2>1. r.fs = "initramfs"
    BY DEF InitramfsCreateVnode
  <2>2. SetupMount(fs, N) = <<r>> \o t
    BY <1>2 DEF SetupMount, InitramfsSetupMount
  <2>3. PICK n \in Nat : DOMAIN t = 1 .. n /\ Len(t) = n
    <3>1. Archive \in Seq([name : Names, data : Seq(Values)])
      BY VfsAssumption
    <3>2. DOMAIN Archive = 1 .. Len(Archive) /\ Len(Archive) \in Nat
      BY <3>1
    <3>3. t = [k \in 1 .. Len(Archive) |->
                 InitramfsCreateVnode("file", Archive[k].name, Archive[k].data)]
      BY <3>2 DEF InitramfsInit
    <3>4. DOMAIN t = 1 .. Len(Archive) /\ Len(t) = Len(Archive)
      BY <3>2, <3>3
    <3> QED
      BY <3>2, <3>4
  <2> HIDE DEF r, t
  <2>4. (<<r>> \o t)[1] = r
    BY <2>3
  <2> QED
    BY <1>2, <2>1, <2>2, <2>4
<1> QED
  BY <1>1, <1>2 DEF Filesystems

(* A mount on a vnode that a path reaches without a mount on it.           *)
LEMMA MountMeetsLookup ==
  ASSUME TreeInv, TreeInv', NEW path \in Seq(Names), path # <<>>,
         NEW target \in DOMAIN nodes, target = VfsLookup(path),
         target = Lookup(VfsLookup(Parent(path)), Name(path)),
         NEW s, IsMount(s, Len(nodes)), nodes' = Mounted(target, s)
  PROVE  /\ VfsLookup(path)' = Len(nodes) + 1
         /\ nodes'[Len(nodes) + 1] = s[1]
         /\ \A p \in Seq(Names) : ~ Below(p, path) => VfsLookup(p)' = VfsLookup(p)
<1>1. PICK f : Steps(f, path) /\ VfsLookup(path) = f[Len(path)]
  BY LookupSteps
<1>2. PICK n : n = Len(path)
  OBVIOUS
<1>3. n \in Nat /\ n \in 1 .. n /\ Name(path) \in Names
  <2>1. Len(path) \in Nat \ {0} /\ Name(path) \in Names
    BY PathParts
  <2> QED
    BY <1>2, <2>1
<1>4. NULL \notin DOMAIN nodes
  BY DEF TreeInv, NodesTyped, NULL
<1>5. f[n] = target /\ f[n] # NULL
  BY <1>1, <1>2, <1>4
<1>6. f[n - 1] \in DOMAIN nodes /\ f[n] = Redirect(Lookup(f[n - 1], path[n]))
      /\ Lookup(f[n - 1], path[n]) = target
  <2>1. f[n - 1] \in DOMAIN nodes
    BY <1>1, <1>2, <1>3, <1>5, StepLeads
  <2>2. VfsLookup(Parent(path)) = f[n - 1]
    BY <1>1, <1>2, ParentStep
  <2>3. f[n] = Redirect(Lookup(f[n - 1], path[n]))
    BY <1>1, <1>2, <1>3, <1>4, <2>1 DEF Steps
  <2> QED
    BY <1>2, <2>1, <2>2, <2>3 DEF Name
<1>7. nodes[target].mount = NULL
  <2>1. nodes[target].mount # NULL => nodes[target].mount # target
    <3>1. nodes[target].mount # NULL => target < nodes[target].mount
      BY DEF TreeInv, EdgesDown
    <3>2. target \in Nat
      BY DEF TreeInv, NodesTyped
    <3> QED
      BY <3>1, <3>2
  <2>2. Redirect(target) = target
    BY <1>5, <1>6
  <2> QED
    BY <1>4, <2>1, <2>2 DEF Redirect
<1>8. ASSUME NEW p \in Seq(Names), NEW h, Steps(h, p), NEW k \in 1 .. Len(p), h[k - 1] # NULL
      PROVE  \/ Redirect(Lookup(h[k - 1], p[k]))' = h[k]
             \/ k = n /\ \A i \in 1 .. n : p[i] = path[i]
  <2>1. Len(p) \in Nat /\ k - 1 \in 0 .. Len(p) /\ k \in 0 .. Len(p)
    <3>1. Len(p) \in Nat
      OBVIOUS
    <3> QED
      BY <3>1
  <2>2. h[k - 1] \in DOMAIN nodes /\ h[k] = Redirect(Lookup(h[k - 1], p[k])) /\ p[k] \in Names
    <3>1. h[k - 1] \in DOMAIN nodes
      BY <1>8, <2>1 DEF Steps
    <3>2. h[k] = Redirect(Lookup(h[k - 1], p[k]))
      BY <1>8 DEF Steps
    <3>3. p[k] \in Names
      BY ElementOfSeq
    <3> QED
      BY <3>1, <3>2, <3>3
  <2>3. CASE Lookup(h[k - 1], p[k]) # target
    <3>1. PICK d \in DOMAIN nodes, name \in Names : d = h[k - 1] /\ name = p[k]
      BY <2>2
    <3>2. Redirect(Lookup(d, name))' = Redirect(Lookup(d, name))
      BY <1>7, <2>3, <3>1, MountEntry
    <3> QED
      BY <2>2, <3>1, <3>2
  <2>4. CASE Lookup(h[k - 1], p[k]) = target
    <3>1. h[k] = f[n] /\ h[k] # NULL
      BY <1>5, <1>6, <2>2, <2>4
    <3>2. n \in 0 .. Len(path)
      BY <1>2, <1>3
    <3>3. k = n /\ \A i \in 1 .. k : p[i] = path[i]
      BY <1>1, <1>8, <2>1, <3>1, <3>2, PathUnique
    <3> QED
      BY <3>3
  <2> QED
    BY <2>3, <2>4
<1>9. VfsLookup(path)' = Len(nodes) + 1
  <2>1. PICK g : Steps(g, path)' /\ VfsLookup(path)' = g[Len(path)]
    BY LookupFactsNext DEF LookupFacts
  <2>2. PICK m : m = n - 1
    OBVIOUS
  <2>3. m \in Nat /\ m \in 0 .. Len(path) /\ m \in 0 .. m
        /\ \A k \in 1 .. m : k \in 1 .. Len(path) /\ k # n
    BY <1>2, <1>3, <2>2
  <2>4. \A k \in 1 .. m : f[k - 1] # NULL => Redirect(Lookup(f[k - 1], path[k]))' = f[k]
    BY <1>1, <1>8, <2>3
  <2>5. \A k \in 0 .. m : g[k] = f[k]
    BY <1>1, <2>1, <2>3, <2>4, WayKept
  <2>6. g[n - 1] = f[n - 1]
    BY <2>2, <2>3, <2>5
  <2>7. \A j \in 1 .. Len(path) :
           g[j] = IF g[j - 1] = NULL THEN NULL ELSE Redirect(Lookup(g[j - 1], path[j]))'
    BY <2>1 DEF Steps, NULL
  <2>8. g[n] = Redirect(Lookup(f[n - 1], path[n]))'
    <3>1. n \in 1 .. Len(path) /\ g[n - 1] # NULL
      BY <1>2, <1>3, <1>4, <1>6, <2>6
    <3>2. g[n] = Redirect(Lookup(g[n - 1], path[n]))'
      BY <2>7, <3>1
    <3> QED
      BY <2>6, <3>2
  <2>9. PICK d \in DOMAIN nodes, name \in Names : d = f[n - 1] /\ name = path[n]
    BY <1>2, <1>3, <1>6 DEF Name
  <2>10. Redirect(Lookup(d, name))' = Len(nodes) + 1
    BY <1>6, <1>7, <2>9, MountEntry
  <2> QED
    BY <1>2, <2>1, <2>8, <2>9, <2>10
<1>10. nodes'[Len(nodes) + 1] = s[1]
  <2>1. \A j \in 1 .. Len(s) : nodes'[Len(nodes) + j] = s[j]
    BY MountNodes DEF TreeInv
  <2>2. 1 \in 1 .. Len(s)
    BY DEF IsMount
  <2> QED
    BY <2>1, <2>2
<1>11. ASSUME NEW p \in Seq(Names), ~ Below(p, path) PROVE VfsLookup(p)' = VfsLookup(p)
  <2>1. PICK h : Steps(h, p) /\ VfsLookup(p) = h[Len(p)]
    BY LookupSteps
  <2>2. PICK g : Steps(g, p)' /\ VfsLookup(p)' = g[Len(p)]
    BY LookupFactsNext DEF LookupFacts
  <2>3. Len(p) \in Nat /\ Len(p) \in 0 .. Len(p)
    OBVIOUS
  <2>4. ASSUME NEW k \in 1 .. Len(p), k = n, \A i \in 1 .. n : p[i] = path[i] PROVE FALSE
    <3>1. n <= Len(p)
      BY <2>3, <2>4
    <3>2. SubSeq(p, 1, n) = path
      <4>1. /\ SubSeq(p, 1, n) \in Seq(Names) /\ Len(SubSeq(p, 1, n)) = n
            /\ \A i \in 1 .. n : SubSeq(p, 1, n)[i] = p[i]
        BY <1>3, <2>3, <3>1
      <4> QED
        BY <1>2, <2>4, <4>1, SeqEqual
    <3> QED
      BY <1>2, <1>11, <3>1, <3>2 DEF Below
  <2>5. \A k \in 1 .. Len(p) : h[k - 1] # NULL => Redirect(Lookup(h[k - 1], p[k]))' = h[k]
    BY <1>8, <2>1, <2>4
  <2>6. PICK m : m = Len(p)
    OBVIOUS
  <2>7. \A k \in 0 .. m : g[k] = h[k]
    <3>1. m \in 0 .. Len(p)
      BY <2>3, <2>6
    <3>2. \A k \in 1 .. m : h[k - 1] # NULL => Redirect(Lookup(h[k - 1], p[k]))' = h[k]
      BY <2>5, <2>6
    <3> QED
      BY <2>1, <2>2, <3>1, <3>2, WayKept
  <2> QED
    BY <2>1, <2>2, <2>3, <2>6, <2>7
<1> QED
  BY <1>9, <1>10, <1>11

(* A mount takes effect at once, with the file system asked for, and       *)
(* changes no lookup but those through the mount point.                    *)
THEOREM MountsTakeEffect == Spec => MountTakesEffect
<1> DEFINE Effect ==
      \A path \in Paths, fs \in Filesystems :
        SysMount(path, fs) /\ path # <<>> /\ VfsLookup(path) = Lookup(VfsLookup(Parent(path)), Name(path)) =>
          /\ VfsLookup(path)' = Len(nodes) + 1
          /\ nodes'[Len(nodes) + 1].fs = fs
          /\ \A p \in Paths : ~ Below(p, path) => VfsLookup(p)' = VfsLookup(p)
<1>1. ASSUME VfsInv, VfsInv', NEW path \in Paths, NEW fs \in Filesystems, SysMount(path, fs),
             path # <<>>, VfsLookup(path) = Lookup(VfsLookup(Parent(path)), Name(path))
      PROVE  /\ VfsLookup(path)' = Len(nodes) + 1
             /\ nodes'[Len(nodes) + 1].fs = fs
             /\ \A p \in Paths : ~ Below(p, path) => VfsLookup(p)' = VfsLookup(p)
  <2>1. TreeInv /\ TreeInv' /\ path \in Seq(Names) /\ Paths \subseteq Seq(Names)
    BY <1>1, VfsAssumption DEF VfsInv
  <2>2. PICK target, s : target = VfsLookup(path) /\ s = SetupMount(fs, Len(nodes))
    OBVIOUS
  <2>3. target # NULL /\ nodes' = Mounted(target, s)
    BY <1>1, <2>2 DEF SysMount, VfsMount, Mounted
  <2>4. target \in DOMAIN nodes
    BY <2>1, <2>2, <2>3, LookupNode
  <2>5. Len(nodes) \in Nat
    BY <2>1 DEF TreeInv, NodesTyped
  <2>6. IsMount(s, Len(nodes)) /\ s[1].fs = fs
    BY <1>1, <2>2, <2>5, SetupIsMount, MountedFs
  <2>7. target = Lookup(VfsLookup(Parent(path)), Name(path))
    BY <1>1, <2>2
  <2>8. /\ VfsLookup(path)' = Len(nodes) + 1 /\ nodes'[Len(nodes) + 1] = s[1]
        /\ \A p \in Seq(Names) : ~ Below(p, path) => VfsLookup(p)' = VfsLookup(p)
    BY <1>1, <2>1, <2>2, <2>3, <2>4, <2>6, <2>7, MountMeetsLookup
  <2> QED
    BY <2>1, <2>6, <2>8
<1>2. VfsInv /\ VfsInv' /\ [Next]_vars => [Effect]_vars
  BY <1>1
<1>3. MountTakesEffect <=> [][Effect]_vars
  BY DEF MountTakesEffect
<1> QED
  BY <1>2, <1>3, VfsInvariance, PTL DEF Spec
==============================================================================
