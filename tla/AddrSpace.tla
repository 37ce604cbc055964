----------------------------- MODULE AddrSpace -----------------------------
(***************************************************************************)
(* The address spaces of user tasks: page tables (mm.c), do_exec() and the *)
(* memory side of sys_fork().                                              *)
(*                                                                         *)
(* Addresses count words; a page table is a function of its index, kept    *)
(* apart from the words of RAM, and an entry is the frame it points to, 0  *)
(* when empty (frame 0 is the kernel's).  The loop of map_pages() and each *)
(* level of walk() are steps; between them nothing else runs, as system    *)
(* calls have interrupts masked.  kmalloc() of pages is taken              *)
(* from the page allocator: no block overlaps an earlier one, and nothing  *)
(* here is ever given back, so the next aligned block above the others is  *)
(* handed out.  Programs have at least a page; the smaller ones come from  *)
(* the slab allocator.                                                     *)
(***************************************************************************)
EXTENDS Integers, Sequences, FiniteSets

CONSTANTS
  NR_TASKS,
  PageSize,      \* words of a page
  Levels,        \* levels of a page table
  Fanout,        \* entries of a table
  NrFrames,      \* frames of RAM; the peripherals start above them
  StackSize,     \* USER_STACK_SIZE
  FileSizes,     \* sizes of the user programs in the archive
  FileAlign,     \* the archive pads files to this, 4 bytes in the code
  Values,        \* contents of a word, other than 0
  MaxStores      \* bound: stores by user programs

Tasks == 0 .. NR_TASKS - 1
Frames == 0 .. NrFrames - 1
PagesUnder[k \in 0 .. Levels] ==   \* pages that k levels of tables map
  IF k = 0 THEN 1 ELSE Fanout * PagesUnder[k - 1]
NrVPages == PagesUnder[Levels]
Words == 0 .. NrFrames * PageSize - 1
USER_PROG_START == 0

(* _initrd_usr_prog() hands the padded size to kmalloc() and do_exec().    *)
Align(size) == ((size + FileAlign - 1) \div FileAlign) * FileAlign
ProgSizes == {Align(size) : size \in FileSizes}
USER_STACK_ADDR == (NrVPages - 1) * PageSize - StackSize
PERIPHERAL_BASE == NrFrames * PageSize

ASSUME AddrSpaceAssumption ==
  /\ {NR_TASKS, PageSize, Levels, Fanout, NrFrames, StackSize} \subseteq Nat \ {0}
  /\ FileAlign \in Nat \ {0} /\ FileSizes \subseteq Nat
  /\ ProgSizes \subseteq {s \in Nat : s >= PageSize}
  /\ StackSize % PageSize = 0
  /\ \A s \in ProgSizes : s <= PERIPHERAL_BASE
  /\ PERIPHERAL_BASE + PageSize <= USER_STACK_ADDR
  /\ 0 \notin Values

VARIABLES
  state,    \* "stopped", "kernel" until it executes a program, then "user"
  pgd,      \* task_pool[t].tss.pgd, as a frame
  mm,       \* task_pool[t].mm
  tables,   \* the page tables, by frame
  mem,      \* the words of RAM
  brk,      \* frames below are handed out
  op,       \* the exec or fork under way
  stores    \* bound: stores so far

vars == <<state, pgd, mm, tables, mem, brk, op, stores>>
Idle == [kind |-> "idle"]
-----------------------------------------------------------------------------
(* kmalloc(): the loop that halves the size once for every order, and the  *)
(* frames of a block of that order.                                        *)
Halve(l) == IF l.size > PageSize THEN [size |-> l.size \div 2, len |-> 2 * l.len] ELSE l
BlockLen(size) ==
  LET loop[k \in 0 .. size] ==
        IF k = 0 THEN [size |-> size, len |-> 1] ELSE Halve(loop[k - 1])
  IN  loop[size].len

(* The page allocator: the next block for a size, above frame b.           *)
Block(b, size) == ((b + BlockLen(size) - 1) \div BlockLen(size)) * BlockLen(size)

(* create_empty_page_table(), at frame f.                                  *)
EmptyTable == [k \in 0 .. Fanout - 1 |-> 0]
WithTable(ts, f) == [g \in DOMAIN ts \cup {f} |-> IF g = f THEN EmptyTable ELSE ts[g]]

(* The index of an address in the table of a level.                        *)
IndexOf(va, level) == (va \div (PageSize * PagesUnder[Levels - 1 - level])) % Fanout

(* simulate_walk(), which is also how the MMU translates: the table of     *)
(* each level, 0 below an empty entry.                                     *)
Below(table, va, level) == IF table = 0 THEN 0 ELSE tables[table][IndexOf(va, level)]
SimulateWalk(table, va) ==
  LET table_p[level \in 0 .. Levels - 1] ==
        IF level = 0 THEN table ELSE Below(table_p[level - 1], va, level - 1)
      last == table_p[Levels - 1]
  IN  IF last = 0 THEN 0 ELSE Below(last, va, Levels - 1) * PageSize + (va % PageSize)

(* memcpy() of len words, over the memory m.                               *)
CopiedOne(m, to, from, len) == [m EXCEPT ![to] = m[from]]
Copied(m, to, from, len) ==
  [a \in Words |-> IF a \in to .. to + len - 1 THEN m[from + a - to] ELSE m[a]]
Filled(m, to, len, v) == [a \in Words |-> IF a \in to .. to + len - 1 THEN v ELSE m[a]]

(* The three calls of map_pages() that do_exec() makes, and sys_fork().    *)
Request(va, size, pa) == [va |-> va, size |-> size, pa |-> pa]
ExecRequests(prog, size, stack) ==
  << Request(USER_PROG_START, size, prog * PageSize),
     Request(USER_STACK_ADDR, StackSize, stack * PageSize),
     Request(PERIPHERAL_BASE, PageSize, PERIPHERAL_BASE) >>
ForkRequests(prog, size, stack) ==
  << Request(USER_STACK_ADDR, StackSize, stack * PageSize),
     Request(USER_PROG_START, size, prog * PageSize),
     Request(PERIPHERAL_BASE, PageSize, PERIPHERAL_BASE) >>
Launch(kind, task, parent, image, table, reqs) ==
  [kind |-> kind, task |-> task, parent |-> parent, image |-> image,
   pgd |-> table, reqs |-> reqs, i |-> 0, table |-> table, level |-> 0]

(* Bound: the frames that the tables of three regions take at most.        *)
RoomFor(b) == b + 3 * (Levels - 1) <= NrFrames
-----------------------------------------------------------------------------
Init ==
  /\ state = [t \in Tasks |-> IF t = 0 THEN "kernel" ELSE "stopped"]
  /\ pgd = [t \in Tasks |-> 0]
  /\ mm = [t \in Tasks |-> [prog_addr |-> 0, prog_sz |-> 0]]
  /\ tables = [f \in {} |-> EmptyTable]
  /\ mem = [w \in Words |-> 0]
  /\ brk = 1 /\ op = Idle /\ stores = 0

(* _initrd_usr_prog() copies the program, do_exec() gets a page table if   *)
(* the task has none and a stack; the mapping follows.                     *)
DoExec(t, size, image) ==
  LET prog  == Block(brk, size)
      top   == prog + BlockLen(size)
      table == IF pgd[t] = 0 THEN top ELSE pgd[t]
      stack == Block(IF pgd[t] = 0 THEN top + 1 ELSE top, StackSize)
  IN  /\ op = Idle /\ state[t] # "stopped"
      /\ RoomFor(stack + BlockLen(StackSize))
      /\ brk' = stack + BlockLen(StackSize)
      /\ pgd' = [pgd EXCEPT ![t] = table]
      /\ tables' = IF pgd[t] = 0 THEN WithTable(tables, table) ELSE tables
      /\ mem' = Filled(mem, prog * PageSize, size, image)
      /\ mm' = [mm EXCEPT ![t] = [prog_addr |-> prog * PageSize, prog_sz |-> size]]
      /\ op' = Launch("exec", t, t, image, table, ExecRequests(prog, size, stack))
      /\ UNCHANGED <<state, stores>>

(* sys_fork() from find_empty_task() to the copies.  The pgd that comes    *)
(* with *child_task = *current is left out: it is replaced before anything *)
(* else runs.                                                              *)
ParentStack(p) == SimulateWalk(pgd[p], USER_STACK_ADDR)
FirstStopped(c) == state[c] = "stopped" /\ \A d \in Tasks : d < c => state[d] # "stopped"
SysFork(p, c) ==
  LET size  == mm[p].prog_sz
      stack == Block(brk + 1, StackSize)
      prog  == Block(stack + BlockLen(StackSize), size)
  IN  /\ op = Idle /\ state[p] = "user" /\ FirstStopped(c)
      /\ RoomFor(prog + BlockLen(size))
      /\ brk' = prog + BlockLen(size)
      /\ tables' = WithTable(tables, brk)
      /\ mem' = Copied(Copied(mem, stack * PageSize, ParentStack(p), StackSize),
                       prog * PageSize, mm[p].prog_addr, size)
      /\ mm' = [mm EXCEPT ![c] = [prog_addr |-> prog * PageSize, prog_sz |-> size]]
      /\ op' = Launch("fork", c, p, 0, brk, ForkRequests(prog, size, stack))
      /\ UNCHANGED <<state, pgd, stores>>

(* walk(), for the page op.i of the first request: an inner level ...      *)
Mapping == op # Idle /\ op.reqs # <<>>
Req == op.reqs[1]
Idx == IndexOf(Req.va + op.i, op.level)
WalkNewTable ==
  /\ Mapping /\ op.level < Levels - 1 /\ tables[op.table][Idx] = 0
  /\ brk' = brk + 1
  /\ tables' = WithTable([tables EXCEPT ![op.table][Idx] = brk], brk)
  /\ op' = [op EXCEPT !.table = brk, !.level = @ + 1]
  /\ UNCHANGED <<state, pgd, mm, mem, stores>>
WalkDown ==
  /\ Mapping /\ op.level < Levels - 1 /\ tables[op.table][Idx] # 0
  /\ op' = [op EXCEPT !.table = tables[op.table][Idx], !.level = @ + 1]
  /\ UNCHANGED <<state, pgd, mm, tables, mem, brk, stores>>

(* ... and the last one, with the loop of map_pages() around it.           *)
NextPage == op.i + PageSize
WalkLeaf ==
  /\ Mapping /\ op.level = Levels - 1
  /\ tables' = [tables EXCEPT ![op.table][Idx] = (Req.pa + op.i) \div PageSize]
  /\ op' = IF op.i + PageSize < Req.size
           THEN [op EXCEPT !.i = NextPage, !.table = op.pgd, !.level = 0]
           ELSE [op EXCEPT !.reqs = Tail(@), !.i = 0, !.table = op.pgd, !.level = 0]
  /\ UNCHANGED <<state, pgd, mm, mem, brk, stores>>

(* All is mapped: the task of the exec enters its program, the child of    *)
(* the fork gets its page table and runs.                                  *)
ChildPgdParent == pgd[op.parent]
ChildPgd == op.pgd
LaunchEnds ==
  /\ op # Idle /\ op.reqs = <<>>
  /\ state' = [state EXCEPT ![op.task] = "user"]
  /\ pgd' = [pgd EXCEPT ![op.task] = ChildPgd]
  /\ op' = Idle
  /\ UNCHANGED <<mm, tables, mem, brk, stores>>

(* A user program stores to a page that its table maps to RAM.             *)
UserWords == {p * PageSize : p \in 0 .. 2} \cup {USER_STACK_ADDR}
Store(t, va, v) ==
  /\ op = Idle /\ state[t] = "user" /\ stores < MaxStores
  /\ SimulateWalk(pgd[t], va) \in Words \ 0 .. PageSize - 1
  /\ mem' = [mem EXCEPT ![SimulateWalk(pgd[t], va)] = v]
  /\ stores' = stores + 1
  /\ UNCHANGED <<state, pgd, mm, tables, brk, op>>

(* sys_exit() and sys_kill() free nothing.                                 *)
Exit(t) ==
  /\ op = Idle /\ state[t] = "user"
  /\ state' = [state EXCEPT ![t] = "stopped"]
  /\ UNCHANGED <<pgd, mm, tables, mem, brk, op, stores>>

Walk == WalkNewTable \/ WalkDown \/ WalkLeaf
Next ==
  \/ Walk \/ LaunchEnds
  \/ \E t \in Tasks :
       \/ \E size \in ProgSizes, image \in Values : DoExec(t, size, image)
       \/ \E c \in Tasks : SysFork(t, c)
       \/ \E va \in UserWords, v \in Values \cup {0} : Store(t, va, v)
       \/ Exit(t)

Spec == Init /\ [][Next]_vars
-----------------------------------------------------------------------------
(* The frames of RAM that a task can reach: those its tables map.          *)
Entries(fs) == {tables[f][k] : f \in fs, k \in 0 .. Fanout - 1} \ {0}
Mapped(t) ==
  LET reach[level \in 0 .. Levels] ==
        IF level = 0 THEN {pgd[t]} \ {0} ELSE Entries(reach[level - 1])
  IN  reach[Levels] \cap Frames
View(t, va) == mem[SimulateWalk(pgd[t], va)]

(* No two tasks reach the same frame, none reaches a page table, and what  *)
(* a task reaches has been handed out: also half way through an exec over  *)
(* an older program and in a slot that an earlier task has left.           *)
Isolation ==
  \A t \in Tasks :
    /\ \A u \in Tasks \ {t} : Mapped(t) \cap Mapped(u) = {}
    /\ Mapped(t) \cap DOMAIN tables = {}
    /\ \A f \in Mapped(t) : f < brk

(* When an exec ends, the task sees the whole program from address 0; when *)
(* a fork ends, the child sees at every address of program and stack what  *)
(* the parent sees.                                                        *)
ProgWords(t) == 0 .. mm[t].prog_sz - 1
StackWords == USER_STACK_ADDR .. USER_STACK_ADDR + StackSize - 1
LaunchSees ==
  [][\A t, p \in Tasks :
       LaunchEnds /\ op.task = t /\ op.parent = p =>
         IF op.kind = "exec" THEN \A va \in ProgWords(t) : View(t, va)' = op.image
         ELSE \A va \in ProgWords(t) \cup StackWords : View(t, va)' = View(p, va)]_vars
=============================================================================
