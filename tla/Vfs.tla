-------------------------------- MODULE Vfs --------------------------------
(***************************************************************************)
(* The virtual file system (vfs.c) over tmpfs.c and initramfs.c, and the   *)
(* system calls on file descriptors (syscall.c).                           *)
(*                                                                         *)
(* A vnode with its inode is an element of nodes; its pointer is the index *)
(* and NULL is 0.  A path is absolute, the sequence of its components:     *)
(* get_absolute_path() has been applied to it.  A struct file is an        *)
(* element of Files, free when its node is 0: kmalloc() may return any     *)
(* free one.  System calls run with interrupts masked, one at a time.      *)
(***************************************************************************)
EXTENDS Integers, Sequences, FiniteSets

CONSTANTS
  Tasks, FirstTask, \* tasks, and the one that runs first
  Files,         \* struct file objects of the heap
  Names,         \* names of files and directories
  Paths,         \* paths the programs use
  Values,        \* contents of a byte
  Archive,       \* the files of the cpio archive: name and data
  FD_TABLE_SIZE, MAX_DIR_NUM,
  MaxData,       \* bound: bytes of a file (DEFAULT_INODE_SIZE)
  MaxNodes       \* bound: vnodes created in a behaviour

NULL == 0

ASSUME VfsAssumption ==
  /\ FirstTask \in Tasks /\ IsFiniteSet(Files) /\ NULL \notin Files
  /\ {FD_TABLE_SIZE, MAX_DIR_NUM, MaxData, MaxNodes} \subseteq Nat \ {0}
  /\ Paths \subseteq Seq(Names)
  /\ Archive \in Seq([name : Names, data : Seq(Values)])
  /\ Len(Archive) <= MAX_DIR_NUM
  /\ \A k \in DOMAIN Archive : Archive[k].data # <<>>

ASSUME NamesAssumption == "" \in Names /\ "i" \in Names

VARIABLES
  nodes,    \* the vnodes and inodes
  files,    \* struct file: vnode and f_pos
  fd_table, \* task_struct.fd_table
  running,  \* tasks in use
  wild      \* the kernel has used a pointer that nobody set, or a freed one

vars == <<nodes, files, fd_table, running, wild>>

Root == 1
Fds == 0 .. FD_TABLE_SIZE - 1
NoFile == [vnode |-> NULL, f_pos |-> 0]
-----------------------------------------------------------------------------
(* tmpfs_create_vnode(), initramfs_create_vnode()                          *)
TmpfsCreateVnode(type, name) ==
  [fs |-> "tmpfs", type |-> type, name |-> name, childs |-> <<>>, mount |-> NULL,
   data |-> <<>>]
InitramfsCreateVnode(type, name, data) ==
  [fs |-> "initramfs", type |-> type, name |-> name, childs |-> <<>>, mount |-> NULL,
   data |-> data]

(* The root vnodes that setup_mount() makes, with what hangs below them;   *)
(* n vnodes exist before.  initramfs_init() puts the archive's files in    *)
(* the directory.                                                          *)
TmpfsSetupMount(n) == <<TmpfsCreateVnode("dir", "")>>
InitramfsInit(n) == [k \in DOMAIN Archive |->
                       InitramfsCreateVnode("file", Archive[k].name, Archive[k].data)]
InitramfsSetupMount(n) ==
  <<[InitramfsCreateVnode("dir", "", <<>>)
       EXCEPT !.childs = [k \in DOMAIN Archive |-> n + 1 + k]]>> \o InitramfsInit(n)
Filesystems == {"tmpfs", "initramfs"}
SetupMount(fs, n) == IF fs = "tmpfs" THEN TmpfsSetupMount(n) ELSE InitramfsSetupMount(n)

(* Lookup of one component: the first child of that name.                  *)
FirstNamed(childs, name) ==
  LET at == {k \in DOMAIN childs : nodes[childs[k]].name = name} IN
  IF at = {} THEN NULL ELSE childs[CHOOSE k \in at : \A j \in at : k <= j]
TmpfsLookup(dir, name) == FirstNamed(nodes[dir].childs, name)
InitramfsLookup(dir, name) == FirstNamed(nodes[dir].childs, name)
Lookup(dir, name) ==
  IF nodes[dir].fs = "tmpfs" THEN TmpfsLookup(dir, name) ELSE InitramfsLookup(dir, name)

(* vfs_lookup(): a mount point found on the way, or at the end, stands for *)
(* the root mounted on it.  The root itself is returned as it is.          *)
NoRedirect(node) == node
Redirect(node) == IF node # NULL /\ nodes[node].mount # NULL THEN nodes[node].mount ELSE node
VfsLookup(path) ==
  LET dir[k \in 0 .. Len(path)] ==
        IF k = 0 THEN Root
        ELSE IF dir[k - 1] = NULL THEN NULL ELSE Redirect(Lookup(dir[k - 1], path[k]))
  IN  dir[Len(path)]
Parent(path) == SubSeq(path, 1, Len(path) - 1)
Name(path) == path[Len(path)]

(* What tmpfs_create() and tmpfs_mkdir() refuse: initramfs refuses all.    *)
TmpfsRoomAnyway(dir) == nodes[dir].type = "dir"
TmpfsRoom(dir) == nodes[dir].type = "dir" /\ Len(nodes[dir].childs) < MAX_DIR_NUM
TmpfsCreates(dir, name) ==
  TmpfsRoom(dir) /\ \A k \in DOMAIN nodes[dir].childs : nodes[nodes[dir].childs[k]].name # name
InitramfsCreates == FALSE
InitramfsMkdirs == FALSE
Creates(dir, name) == IF nodes[dir].fs = "tmpfs" THEN TmpfsCreates(dir, name) ELSE InitramfsCreates
Mkdirs(dir) == IF nodes[dir].fs = "tmpfs" THEN TmpfsRoom(dir) ELSE InitramfsMkdirs

(* A new last child of dir.                                                *)
NewChildMisnamed(dir, type, name) ==
  [Append(nodes, TmpfsCreateVnode(type, "")) EXCEPT ![dir].childs = Append(@, Len(nodes) + 1)]
NewChild(dir, type, name) ==
  [Append(nodes, TmpfsCreateVnode(type, name)) EXCEPT ![dir].childs = Append(@, Len(nodes) + 1)]

FreeFiles == {f \in Files : files[f].vnode = NULL}
FreeFd(t) == {i \in Fds : fd_table[t][i] = NULL}
FirstFreeFd(t) == CHOOSE i \in FreeFd(t) : \A j \in FreeFd(t) : i <= j
-----------------------------------------------------------------------------
(* rootfs_init(): a tmpfs at "/", the archive mounted on its first child.  *)
Init ==
  /\ nodes = <<[TmpfsCreateVnode("dir", "") EXCEPT !.childs = <<2>>],
               [TmpfsCreateVnode("dir", "i") EXCEPT !.mount = 3]>>
             \o InitramfsSetupMount(2)
  /\ files = [f \in Files |-> NoFile]
  /\ fd_table = [t \in Tasks |-> [i \in Fds |-> NULL]]
  /\ running = {FirstTask}
  /\ wild = FALSE

(* The open operation of a file system: the handle at the start of vnode.  *)
TmpfsOpen(f, node) == files' = [files EXCEPT ![f] = [vnode |-> node, f_pos |-> 0]]
InitramfsOpen(f, node) == files' = [files EXCEPT ![f] = [vnode |-> node, f_pos |-> 0]]
FileOpen(f, node) ==
  IF nodes'[node].fs = "tmpfs" THEN TmpfsOpen(f, node) ELSE InitramfsOpen(f, node)

(* vfs_open() of a path that exists.                                       *)
OpenExisting(f, path) ==
  /\ VfsLookup(path) # NULL
  /\ UNCHANGED <<nodes, wild>>
  /\ FileOpen(f, VfsLookup(path))

(* vfs_open() with O_CREAT.  The result of create is not looked at: when   *)
(* it refuses, the open operation is called through whatever target_node   *)
(* happens to hold.                                                        *)
OpenCreate(f, path) ==
  LET dir == VfsLookup(Parent(path)) IN
  /\ VfsLookup(path) = NULL /\ dir # NULL
  /\ Len(nodes) < MaxNodes
  /\ IF Creates(dir, Name(path))
     THEN nodes' = NewChild(dir, "file", Name(path)) /\ FileOpen(f, Len(nodes) + 1)
          /\ UNCHANGED wild
     ELSE wild' = TRUE /\ UNCHANGED <<nodes, files>>

(* sys_open(): the first free descriptor; a call that finds none, or that  *)
(* vfs_open() fails, changes nothing.                                      *)
SysOpen(t, path) ==
  /\ FreeFd(t) # {}
  /\ \E f \in FreeFiles :
       /\ OpenExisting(f, path) \/ OpenCreate(f, path)
       /\ fd_table' = IF wild' THEN fd_table
                      ELSE [fd_table EXCEPT ![t][FirstFreeFd(t)] = f]
  /\ UNCHANGED running

(* The descriptor is in use, and its struct file has not been freed.       *)
Held(t, i) == fd_table[t][i] # NULL /\ files[fd_table[t][i]].vnode # NULL

(* vfs_close() and the close operation: the struct file is freed.          *)
TmpfsClose(f) == files' = [files EXCEPT ![f] = NoFile]
InitramfsClose(f) == files' = [files EXCEPT ![f] = NoFile]
VfsClose(f) ==
  IF nodes[files[f].vnode].fs = "tmpfs" THEN TmpfsClose(f) ELSE InitramfsClose(f)
SysClose(t, i) ==
  /\ Held(t, i)
  /\ VfsClose(fd_table[t][i])
  /\ fd_table' = [fd_table EXCEPT ![t][i] = NULL]
  /\ UNCHANGED <<nodes, running, wild>>

(* vfs_write() and the write operation of a file system, len times value.  *)
TmpfsWrite(f, value, len) ==
  LET pos  == files[f].f_pos
      data == nodes[files[f].vnode].data
      top  == IF Len(data) < pos + len THEN pos + len ELSE Len(data)
  IN  /\ pos + len <= MaxData
      /\ nodes' = [nodes EXCEPT ![files[f].vnode].data =
                     [k \in 1 .. top |-> IF k > pos /\ k <= pos + len THEN value ELSE data[k]]]
      /\ files' = [files EXCEPT ![f].f_pos = pos + len]
InitramfsWrite(f) == UNCHANGED <<nodes, files>>
VfsWrite(f, value, len) ==
  IF nodes[files[f].vnode].fs = "tmpfs" THEN TmpfsWrite(f, value, len) ELSE InitramfsWrite(f)
SysWrite(t, i, value, len) ==
  /\ Held(t, i)
  /\ VfsWrite(fd_table[t][i], value, len)
  /\ UNCHANGED <<fd_table, running, wild>>

(* vfs_read() and the read operation: the position moves by len, but not   *)
(* past the end of the data.                                               *)
ReadUnclamped(f, len) == files[f].f_pos + len
TmpfsRead(f, len) ==
  LET size == Len(nodes[files[f].vnode].data) IN
  IF files[f].f_pos + len > size THEN size ELSE files[f].f_pos + len
InitramfsRead(f, len) == TmpfsRead(f, len)
VfsRead(f, len) ==
  files' = [files EXCEPT ![f].f_pos =
              IF nodes[files[f].vnode].fs = "tmpfs" THEN TmpfsRead(f, len)
              ELSE InitramfsRead(f, len)]
SysRead(t, i, len) ==
  /\ Held(t, i)
  /\ VfsRead(fd_table[t][i], len)
  /\ UNCHANGED <<nodes, fd_table, running, wild>>

(* sys_close(), sys_read() or sys_write() of a descriptor whose struct     *)
(* file another task has closed: kfree() a second time, or a vnode pointer *)
(* that the free list has overwritten.                                     *)
UseFreed(t, i) ==
  /\ fd_table[t][i] # NULL /\ ~ Held(t, i)
  /\ wild' = TRUE
  /\ UNCHANGED <<nodes, files, fd_table, running>>

(* vfs_mkdir(): what the file system answers is not looked at.  There is   *)
(* no check for the name.                                                  *)
TmpfsMkdir(dir, name) == nodes' = NewChild(dir, "dir", name)
VfsMkdir(path) ==
  LET dir == VfsLookup(Parent(path)) IN
  /\ path # <<>> /\ dir # NULL
  /\ Mkdirs(dir)
  /\ TmpfsMkdir(dir, Name(path))
SysMkdir(path) ==
  /\ Len(nodes) < MaxNodes
  /\ VfsMkdir(path)
  /\ UNCHANGED <<files, fd_table, running, wild>>

(* vfs_mount(): setup_mount() comes before the check, so that its vnodes   *)
(* exist, and are lost, when the vnode is a mount point already.           *)
VfsMount(path, fs) ==
  LET target == VfsLookup(path)
      fresh  == nodes \o SetupMount(fs, Len(nodes))
  IN  /\ target # NULL
      /\ nodes' = IF nodes[target].mount # NULL THEN fresh
                  ELSE [fresh EXCEPT ![target].mount = Len(nodes) + 1]
SysMount(path, fs) ==
  /\ Len(nodes) + Len(SetupMount(fs, 0)) <= MaxNodes
  /\ VfsMount(path, fs)
  /\ UNCHANGED <<files, fd_table, running, wild>>

(* sys_fork(): *child_task = *current copies the descriptors, over the     *)
(* ones the slot's last owner left, for sys_exit() closes nothing.         *)
SysFork(t, child) ==
  /\ child \notin running
  /\ running' = running \cup {child}
  /\ fd_table' = [fd_table EXCEPT ![child] = fd_table[t]]
  /\ UNCHANGED <<nodes, files, wild>>
SysExit(t) ==
  /\ running # {t}
  /\ running' = running \ {t}
  /\ UNCHANGED <<nodes, files, fd_table, wild>>

Next ==
  /\ ~ wild
  /\ \/ \E t \in running :
          \/ \E path \in Paths : SysOpen(t, path)
          \/ \E i \in Fds : SysClose(t, i) \/ UseFreed(t, i)
          \/ \E i \in Fds, v \in Values, len \in 1 .. MaxData : SysWrite(t, i, v, len)
          \/ \E i \in Fds, len \in 1 .. MaxData : SysRead(t, i, len)
          \/ \E child \in Tasks : SysFork(t, child)
          \/ SysExit(t)
     \/ \E path \in Paths : SysMkdir(path)
     \/ \E path \in Paths, fs \in Filesystems : SysMount(path, fs)

Spec == Init /\ [][Next]_vars
-----------------------------------------------------------------------------
NodeType == [fs : Filesystems, type : {"dir", "file"}, name : Names,
             childs : Seq(Nat), mount : Nat, data : Seq(Values)]
Uses(n) == {u \in (DOMAIN nodes) \X (1 .. MAX_DIR_NUM) :
              u[2] \in DOMAIN nodes[u[1]].childs /\ nodes[u[1]].childs[u[2]] = n}
           \cup {<<d, 0>> : d \in {m \in DOMAIN nodes : nodes[m].mount = n}}

(* The vnodes form a tree whatever is created and mounted in whatever      *)
(* order: no vnode but the root is without a name below one directory or a *)
(* place where it is mounted (or was lost by a refused mount), none has    *)
(* two, and no directory has more childs than its array.                   *)
TreeSound ==
  /\ \A n \in DOMAIN nodes :
       /\ nodes[n] \in NodeType
       /\ Len(nodes[n].childs) <= MAX_DIR_NUM
       /\ nodes[n].type = "file" => nodes[n].childs = <<>>
       /\ Cardinality(Uses(n)) <= 1
       /\ \A u \in Uses(n) : u[1] < n
  /\ Uses(Root) = {}

(* No handle is past the end of its data, however many handles write and   *)
(* read it and however many tasks share a handle: the length data_size -   *)
(* f_pos of tmpfs_read() and initramfs_read() is never negative (it is     *)
(* unsigned).                                                              *)
PosWithinSize ==
  \A f \in Files : files[f].vnode # NULL => files[f].f_pos <= Len(nodes[files[f].vnode].data)

(* The handle that sys_open() returns is the one of the vnode the path     *)
(* leads to from now on: the directory that vfs_open() cut off the path,   *)
(* the mounts on the way and the new name agree with what vfs_lookup()     *)
(* does next time.                                                         *)
OpenMeetsLookup ==
  [][\A t \in Tasks, path \in Paths :
       SysOpen(t, path) /\ ~ wild' =>
         files'[fd_table'[t][FirstFreeFd(t)]].vnode = VfsLookup(path)']_vars

Below(p, path) == Len(path) <= Len(p) /\ SubSeq(p, 1, Len(path)) = path

(* A mount on a directory that is not the root and has no mount on it:     *)
(* from then on the path leads to the root of the new file system, and no  *)
(* other path that was there leads elsewhere than before.                  *)
MountTakesEffect ==
  [][\A path \in Paths, fs \in Filesystems :
       SysMount(path, fs) /\ path # <<>> /\ VfsLookup(path) = Lookup(VfsLookup(Parent(path)), Name(path)) =>
         /\ VfsLookup(path)' = Len(nodes) + 1
         /\ nodes'[Len(nodes) + 1].fs = fs
         /\ \A p \in Paths : ~ Below(p, path) => VfsLookup(p)' = VfsLookup(p)]_vars
=============================================================================
