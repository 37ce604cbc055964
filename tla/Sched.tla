-------------------------------- MODULE Sched --------------------------------
(***************************************************************************)
(* Tasks, the scheduler and signals: src/src/sched.c, signal.c, do_timer() *)
(* of exception.c and the task system calls of syscall.c.                  *)
(*                                                                         *)
(* An exception masks interrupts, so a system call or a timer interrupt is *)
(* one action; between two actions the current task runs user code.  What  *)
(* matters of that code is which of its contexts it is in: its program, a  *)
(* handler it has registered, or one of the default handlers.  The kernel  *)
(* stack of a task is the sequence of the contexts whose trap frames it    *)
(* holds, its length stands for sp_el1, and a task is resumed by popping   *)
(* the last.                                                               *)
(***************************************************************************)
EXTENDS Integers, SequencesExt, FiniteSets

CONSTANTS
  NR_TASKS,           \* the size of task_pool
  Signals,            \* the signal numbers in use, of 1 .. NR_SIGNALS - 1
  KthreadPriorities,  \* what privilege_task_create() is called with
  MaxForks,           \* bound: tasks created in a behaviour
  MaxFrames           \* bound: trap frames on one kernel stack

(* Bound: how far the exits of a stopped task 0 may take num_running_task. *)
MinRunning == -1

Tasks == 0 .. NR_TASKS - 1

ASSUME TasksAssumption == NR_TASKS \in Nat \ {0}

ASSUME SignalAssumption == Signals \subseteq Nat \ {0}

ASSUME PriorityAssumption == KthreadPriorities \subseteq Nat \ {0}

ASSUME BoundAssumption == MaxForks \in Nat /\ MaxFrames \in Nat

VARIABLES
  state, priority, counter,         \* struct task_struct
  pending, process_sig, sighand,
  sp_backup,                        \* tss.sp_backup: <<task, depth>>
  fresh,                            \* tss.lr is exit_kernel: not run yet
  kstack,                           \* the trap frames on each kernel stack
  ctx,                              \* the user context a task is in
  current, num_running_task,
  fault,                            \* what stopped or broke the kernel
  sigsp,                            \* history: stack depth of each handler
  forks                             \* history: tasks created

sigvars == <<pending, process_sig, sighand, sp_backup, sigsp>>
vars == <<state, priority, counter, pending, process_sig, sighand, sp_backup,
          fresh, kstack, ctx, current, num_running_task, fault, sigsp,
          forks>>

Running(st) == {t \in Tasks : st[t] = "TASK_RUNNING"}

Contexts == {"main", "handler", "default"}

------------------------------------------------------------------------------
(* task_init(): task 0 is the kernel shell, all others are stopped.        *)
Init ==
  /\ state = [t \in Tasks |-> IF t = 0 THEN "TASK_RUNNING" ELSE "TASK_STOPPED"]
  /\ priority = [t \in Tasks |-> IF t = 0 THEN 1 ELSE 0]
  /\ counter = [t \in Tasks |-> IF t = 0 THEN 1 ELSE 0]
  /\ pending = [t \in Tasks |-> 0]
  /\ process_sig = [t \in Tasks |-> 0]
  /\ sighand = [t \in Tasks |-> [s \in Signals |-> "default"]]
  /\ sp_backup = [t \in Tasks |-> <<0, 0>>]
  /\ fresh = [t \in Tasks |-> FALSE]
  /\ kstack = [t \in Tasks |-> <<>>]
  /\ ctx = [t \in Tasks |-> "main"]
  /\ current = 0
  /\ num_running_task = 1
  /\ fault = "no"
  /\ sigsp = [t \in Tasks |-> <<>>]
  /\ forks = 0

------------------------------------------------------------------------------
(* schedule()                                                              *)

(* Mutant: one used up counter is enough.                                  *)
NeedsRefillAny(st, cnt) == \E t \in Running(st) : cnt[t] = 0

(* Every running task has used up its counter (the scan leaves c at 0).    *)
NeedsRefill(st, cnt) ==
  /\ \E t \in Running(st) : cnt[t] = 0
  /\ \A t \in Running(st) : cnt[t] <= 0

Refill(st, cnt) ==
  [t \in Tasks |-> IF st[t] = "TASK_RUNNING"
                     THEN (cnt[t] \div 2) + priority[t]
                     ELSE cnt[t]]

(* Mutants: the state of a task is not looked at; nor are the counters.    *)
ChosenAnyState(st, cnt, next) ==
  LET Cand == {t \in Tasks : cnt[t] > 0} IN
  IF Cand = {} THEN next = 0
  ELSE /\ next \in Cand
       /\ \A t \in Cand : cnt[t] < cnt[next] \/ (cnt[t] = cnt[next] /\ t <= next)

ChosenAnyCounter(st, cnt, next) ==
  IF Running(st) = {} THEN next = 0
  ELSE next \in Running(st) /\ \A t \in Running(st) : t <= next

(* The scan from the last task down to task 0 keeps the first of the       *)
(* largest counters above -1; with no running task it leaves next at 0.    *)
Chosen(st, cnt, next) ==
  LET Cand == {t \in Running(st) : cnt[t] > -1} IN
  IF Cand = {} THEN next = 0
  ELSE /\ next \in Cand
       /\ \A t \in Cand : cnt[t] < cnt[next] \/ (cnt[t] = cnt[next] /\ t <= next)

(* Mutants: sp_backup is not saved; the trap frame is popped as on a       *)
(* return to user code.                                                    *)
DeliverUnsaved(t, ks, sg) ==
  /\ process_sig' = [process_sig EXCEPT ![t] = pending[t]]
  /\ pending' = [pending EXCEPT ![t] = 0]
  /\ sigsp' = [sg EXCEPT ![t] = Append(@, Len(ks[t]))]
  /\ ctx' = [ctx EXCEPT ![t] = "handler"]
  /\ kstack' = ks
  /\ UNCHANGED sp_backup

DeliverPopped(t, ks, sg) ==
  /\ process_sig' = [process_sig EXCEPT ![t] = pending[t]]
  /\ pending' = [pending EXCEPT ![t] = 0]
  /\ sp_backup' = [sp_backup EXCEPT ![t] = <<t, Len(ks[t])>>]
  /\ sigsp' = [sg EXCEPT ![t] = Append(@, Len(ks[t]))]
  /\ ctx' = [ctx EXCEPT ![t] = "handler"]
  /\ kstack' = [ks EXCEPT ![t] = Front(@)]

(* context_switch() after switch_to(): deliver the pending signal on a new *)
(* user stack, the kernel stack left as it is.                             *)
Deliver(t, ks, sg) ==
  LET s == pending[t] IN
  /\ process_sig' = [process_sig EXCEPT ![t] = s]
  /\ pending' = [pending EXCEPT ![t] = 0]
  /\ sp_backup' = [sp_backup EXCEPT ![t] = <<t, Len(ks[t])>>]
  /\ sigsp' = [sg EXCEPT ![t] = Append(@, Len(ks[t]))]
  /\ ctx' = [ctx EXCEPT ![t] = IF sighand[t][s] = "default"
                                 THEN "default" ELSE "handler"]
  /\ kstack' = ks

(* Unwind to the trap frame on top of the kernel stack and eret.           *)
ReturnToUser(t, ks, sg) ==
  /\ ctx' = [ctx EXCEPT ![t] = Last(ks[t])]
  /\ kstack' = [ks EXCEPT ![t] = Front(@)]
  /\ sigsp' = sg
  /\ UNCHANGED <<pending, process_sig, sp_backup>>

(* Mutant: pending signals are not looked at after switch_to().            *)
ScheduleNoSignals(st, cnt, ks, sg) ==
  LET cnt2 == IF NeedsRefill(st, cnt) THEN Refill(st, cnt) ELSE cnt IN
  /\ counter' = cnt2
  /\ \E next \in Tasks :
       /\ Chosen(st, cnt2, next)
       /\ current' = next
       /\ fresh' = [fresh EXCEPT ![next] = FALSE]
       /\ ReturnToUser(next, ks, sg)

(* schedule() with the tasks' states st and counters cnt, ks being the     *)
(* kernel stacks with the current task's trap frame on its own.  A fresh   *)
(* task starts at exit_kernel; any other comes out of switch_to().  When   *)
(* task 0 is chosen although it is stopped, the schedule() at the end of   *)
(* context_switch() finds nothing else to run and returns.                 *)
Schedule(st, cnt, ks, sg) ==
  LET cnt2 == IF NeedsRefill(st, cnt) THEN Refill(st, cnt) ELSE cnt IN
  /\ counter' = cnt2
  /\ \E next \in Tasks :
       /\ Chosen(st, cnt2, next)
       /\ current' = next
       /\ fresh' = [fresh EXCEPT ![next] = FALSE]
       /\ IF next # current /\ ~ fresh[next] /\ pending[next] # 0
            THEN Deliver(next, ks, sg)
            ELSE ReturnToUser(next, ks, sg)

(* The current task enters the kernel: save_all.                           *)
Trapped == [kstack EXCEPT ![current] = Append(@, ctx[current])]

Alive == fault = "no"

(* The current task is in code of its own that may make system calls.      *)
InUser == Alive /\ ctx[current] \in {"main", "handler"}

------------------------------------------------------------------------------
(* The core timer interrupt                                                *)

(* --current->counter.  A counter below zero belongs to a stopped task and *)
(* is never read again: it is kept at -1.                                  *)
Less(n) == IF n > -1 THEN n - 1 ELSE n

(* core_timer_handler() and do_timer()                                     *)
DoTimer ==
  LET cnt == [counter EXCEPT ![current] = Less(@)] IN
  /\ Alive
  /\ IF cnt[current] > 0
       THEN /\ counter' = cnt
            /\ UNCHANGED <<fresh, kstack, ctx, current, pending, process_sig,
                           sp_backup, sigsp>>
       ELSE Schedule(state, cnt, Trapped, sigsp)
  /\ UNCHANGED <<state, priority, sighand, num_running_task, fault, forks>>

------------------------------------------------------------------------------
(* Creating and ending tasks                                               *)

(* find_empty_task() returns the first stopped slot after 0, or NR_TASKS.  *)
FindEmptyTask(t) ==
  /\ t \in 1 .. NR_TASKS
  /\ \A u \in 1 .. t - 1 : state[u] # "TASK_STOPPED"
  /\ t < NR_TASKS => state[t] = "TASK_STOPPED"

(* sys_fork(): the child is a copy of the parent, its kernel stack too;    *)
(* it starts at exit_kernel on the copied trap frame.                      *)
SysFork(child) ==
  /\ InUser
  /\ forks < MaxForks
  /\ FindEmptyTask(child)
  /\ child < NR_TASKS
  /\ state' = [state EXCEPT ![child] = state[current]]
  /\ priority' = [priority EXCEPT ![child] = priority[current]]
  /\ counter' = [counter EXCEPT ![child] = priority[current]]
  /\ pending' = [pending EXCEPT ![child] = pending[current]]
  /\ process_sig' = [process_sig EXCEPT ![child] = process_sig[current]]
  /\ sighand' = [sighand EXCEPT ![child] = sighand[current]]
  /\ sp_backup' = [sp_backup EXCEPT ![child] = sp_backup[current]]
  /\ sigsp' = [sigsp EXCEPT ![child] = sigsp[current]]
  /\ fresh' = [fresh EXCEPT ![child] = TRUE]
  /\ kstack' = [kstack EXCEPT ![child] = Trapped[current]]
  /\ ctx' = [ctx EXCEPT ![child] = ctx[current]]
  /\ num_running_task' = num_running_task + 1
  /\ forks' = forks + 1
  /\ UNCHANGED <<current, fault>>

(* sys_fork() with a full pool: the index NR_TASKS is not checked, and the *)
(* copy is written behind task_pool and kstack_pool.                       *)
SysForkFull ==
  /\ InUser
  /\ forks < MaxForks
  /\ FindEmptyTask(NR_TASKS)
  /\ fault' = "task_pool"
  /\ UNCHANGED <<state, priority, counter, fresh, kstack, ctx, current,
                 num_running_task, forks, sigvars>>

(* Hypothesis on the callers of privilege_task_create(), of which the      *)
(* repository has none: a running task, outside of its handlers.           *)
KernelCaller == Alive /\ state[current] = "TASK_RUNNING" /\ ctx[current] = "main"

(* privilege_task_create(func, prio), a kernel function: signals, handlers *)
(* and sp_backup of the slot's last owner are left as they are.            *)
PrivilegeTaskCreate(t, prio) ==
  /\ KernelCaller
  /\ forks < MaxForks
  /\ FindEmptyTask(t)
  /\ t < NR_TASKS
  /\ state' = [state EXCEPT ![t] = "TASK_RUNNING"]
  /\ priority' = [priority EXCEPT ![t] = prio]
  /\ counter' = [counter EXCEPT ![t] = prio]
  /\ fresh' = [fresh EXCEPT ![t] = TRUE]   \* tss.lr is func
  /\ kstack' = [kstack EXCEPT ![t] = <<"main">>]
  /\ num_running_task' = num_running_task + 1
  /\ forks' = forks + 1
  /\ sigsp' = [sigsp EXCEPT ![t] = <<>>]
  /\ UNCHANGED <<pending, process_sig, sighand, sp_backup, ctx, current,
                 fault>>

(* sys_exit()                                                              *)
SysExit ==
  LET st == [state EXCEPT ![current] = "TASK_STOPPED"] IN
  /\ InUser
  /\ num_running_task > MinRunning
  /\ state' = st
  /\ num_running_task' = num_running_task - 1
  /\ Schedule(st, counter, Trapped, sigsp)
  /\ UNCHANGED <<priority, sighand, fault, forks>>

(* Mutant: a victim that was stopped already is counted again.             *)
SysKillTwice(pid) ==
  /\ InUser
  /\ pid # current
  /\ num_running_task > MinRunning
  /\ state' = [state EXCEPT ![pid] = "TASK_STOPPED"]
  /\ num_running_task' = num_running_task - 1
  /\ UNCHANGED <<priority, counter, fresh, kstack, ctx, current, fault,
                 forks, sigvars>>

(* sys_kill(pid): an invalid or stopped pid is refused, no state changes.  *)
SysKill(pid) ==
  /\ InUser
  /\ pid # current
  /\ state[pid] = "TASK_RUNNING"
  /\ state' = [state EXCEPT ![pid] = "TASK_STOPPED"]
  /\ num_running_task' = num_running_task - 1
  /\ UNCHANGED <<priority, counter, fresh, kstack, ctx, current, fault,
                 forks, sigvars>>

(* sys_exec(): do_exec() leaves by eret, so the trap frame stays behind.   *)
SysExec ==
  /\ InUser
  /\ Len(kstack[current]) < MaxFrames
  /\ kstack' = Trapped
  /\ ctx' = [ctx EXCEPT ![current] = "main"]
  /\ sigsp' = [sigsp EXCEPT ![current] = <<>>]
  /\ UNCHANGED <<state, priority, counter, pending, process_sig, sighand,
                 sp_backup, fresh, current, num_running_task, fault, forks>>

------------------------------------------------------------------------------
(* Signals                                                                 *)

(* sys_signal(s, handler)                                                  *)
SysSignal(s) ==
  /\ InUser
  /\ sighand' = [sighand EXCEPT ![current][s] = "user"]
  /\ UNCHANGED <<state, priority, counter, pending, process_sig, sp_backup,
                 fresh, kstack, ctx, current, num_running_task, fault,
                 sigsp, forks>>

(* Mutant: the signal is stored as a bit mask.                             *)
SysSigkillMask(pid, s) ==
  /\ InUser
  /\ pid # current
  /\ pending' = [pending EXCEPT ![pid] = 2 ^ s]
  /\ UNCHANGED <<state, priority, counter, process_sig, sighand, sp_backup,
                 fresh, kstack, ctx, current, num_running_task, fault,
                 sigsp, forks>>

(* sys_sigkill(pid, s): the one pending slot is overwritten, whatever the  *)
(* state of the target; signal 0 empties it.                               *)
SysSigkill(pid, s) ==
  /\ InUser
  /\ pid # current
  /\ Len(kstack[pid]) < MaxFrames
  /\ pending' = [pending EXCEPT ![pid] = s]
  /\ UNCHANGED <<state, priority, counter, process_sig, sighand, sp_backup,
                 fresh, kstack, ctx, current, num_running_task, fault,
                 sigsp, forks>>

(* The stack a handler is given is kernel memory, out of reach at EL0: a   *)
(* default handler pushes to it, a registered one may.  The data abort     *)
(* ends in the endless loop of exc_handler(), with interrupts masked.      *)
HandlerFaults ==
  /\ Alive
  /\ ctx[current] \in {"handler", "default"}
  /\ fault' = "abort"
  /\ UNCHANGED <<state, priority, counter, fresh, kstack, ctx, current,
                 num_running_task, forks, sigvars>>

(* A registered handler is running, and has not touched its stack.         *)
InHandler == Alive /\ ctx[current] = "handler" /\ sigsp[current] # <<>>

(* sys_sigreturn(): sp_backup becomes the kernel stack pointer and control *)
(* is back after switch_to(), where a further signal is delivered, or a    *)
(* stopped task is switched away, or the interrupted context goes on.      *)
SysSigreturn ==
  LET t  == current
      ks == [kstack EXCEPT ![t] = SubSeq(@, 1, sp_backup[t][2])]
      sg == [sigsp EXCEPT ![t] = Front(@)] IN
  /\ InHandler
  /\ sp_backup[t] = <<t, Last(sigsp[t])>>
  /\ IF pending[t] # 0
       THEN Deliver(t, ks, sg) /\ UNCHANGED <<counter, current, fresh>>
       ELSE IF state[t] = "TASK_STOPPED"
              THEN Schedule(state, counter, ks, sg)
              ELSE /\ ReturnToUser(t, ks, sg)
                   /\ UNCHANGED <<counter, current, fresh>>
  /\ UNCHANGED <<state, priority, sighand, num_running_task, fault, forks>>

(* sys_sigreturn() checks nothing.  With a sp_backup that is not the       *)
(* handler's it resumes at its own trap frame, on frames that are gone or  *)
(* on another task's stack; outside of a handler it also frees the page    *)
(* the program's sp names.                                                 *)
SysSigreturnStale ==
  /\ InUser
  /\ InHandler => sp_backup[current] # <<current, Last(sigsp[current])>>
  /\ fault' = "kstack"
  /\ UNCHANGED <<state, priority, counter, fresh, kstack, ctx, current,
                 num_running_task, forks, sigvars>>

Syscall ==
  \/ \E t \in Tasks : SysFork(t) \/ SysKill(t)
  \/ \E t \in Tasks, prio \in KthreadPriorities : PrivilegeTaskCreate(t, prio)
  \/ \E t \in Tasks, s \in Signals \cup {0} : Signals # {} /\ SysSigkill(t, s)
  \/ \E s \in Signals : SysSignal(s)
  \/ SysForkFull \/ SysExit \/ SysExec \/ SysSigreturn \/ SysSigreturnStale

Next == DoTimer \/ HandlerFaults \/ Syscall

(* User code cannot mask the core timer, so it goes on interrupting.       *)
Spec == Init /\ [][Next]_vars /\ WF_vars(DoTimer)

------------------------------------------------------------------------------
(* Properties                                                              *)

(* The fields of the task structures and the stacks have their types, and  *)
(* schedule() leaves current an index of task_pool.                        *)
TypeOK ==
  /\ state \in [Tasks -> {"TASK_RUNNING", "TASK_STOPPED"}]
  /\ priority \in [Tasks -> Nat]
  /\ counter \in [Tasks -> Int]
  /\ pending \in [Tasks -> Signals \cup {0}]
  /\ process_sig \in [Tasks -> Signals \cup {0}]
  /\ sighand \in [Tasks -> [Signals -> {"default", "user"}]]
  /\ sp_backup \in [Tasks -> Tasks \X Nat]
  /\ fresh \in [Tasks -> BOOLEAN]
  /\ kstack \in [Tasks -> Seq(Contexts)]
  /\ ctx \in [Tasks -> Contexts]
  /\ current \in Tasks
  /\ num_running_task \in Int
  /\ fault \in {"no", "task_pool", "kstack", "abort"}
  /\ sigsp \in [Tasks -> Seq(Nat)]
  /\ forks \in Nat

(* num_running_task is the number of running tasks for as long as there is *)
(* one, whatever the order of forks, exits and kills, the exits of a task  *)
(* 0 that was stopped but is all there is to run included (sched.c:79,     *)
(* syscall.c:152, 190).                                                    *)
NumRunningExact ==
  Running(state) # {} => num_running_task = Cardinality(Running(state))

(* A running task's counter stays between 0 and its priority, and is not 0 *)
(* while it has the CPU: schedule() ends after at most one refill and the  *)
(* halved remainder it adds is always 0 (sched.c:112-124).                 *)
CountersBounded ==
  \A t \in Running(state) :
    /\ 0 <= counter[t] /\ counter[t] <= priority[t]
    /\ t = current => counter[t] > 0

(* The frames f on a kernel stack and the depths g at which its unfinished *)
(* handlers were entered fit together: each handler interrupted the frame  *)
(* at its depth, which is the program's or that of the handler below it.   *)
FramesFit(f, g) ==
  \A k \in 1 .. Len(g) :
    /\ g[k] \in 1 .. Len(f)
    /\ \A m \in 1 .. k - 1 : g[m] < g[k]
    /\ f[g[k]] # "main" => k > 1 /\ g[k - 1] = g[k] - 1

(* A task that waits for the CPU has a trap frame to resume from, above    *)
(* the frames of its handlers.                                             *)
Suspended(f, g) ==
  /\ FramesFit(f, g)
  /\ f # <<>>
  /\ \A k \in 1 .. Len(g) : g[k] < Len(f)
  /\ Last(f) # "main" => g # <<>> /\ Last(g) = Len(f) - 1

(* A task that runs in a handler runs at the depth it was entered with.    *)
OnCpu(f, g, c) ==
  /\ FramesFit(f, g)
  /\ c # "main" => g # <<>> /\ Last(g) = Len(f)

Resumable(st) == Running(st) \cup {0}

(* The frames of the code that signal handlers interrupted are intact      *)
(* until the handlers return, through preemption, nested signals, fork and *)
(* exec (sched.c:41-69, syscall.c:91-143, 235-247).                        *)
HandlerAboveItsFrame ==
  /\ OnCpu(kstack[current], sigsp[current], ctx[current])
  /\ \A t \in Resumable(state) \ {current} : Suspended(kstack[t], sigsp[t])

(* syscall.c:243, "Restore the previous stack (before signal handling)":   *)
(* the stack pointer sys_sigreturn() restores is the one the handler that  *)
(* returns was entered with, on the same task's stack.                     *)
SigreturnRestores ==
  InHandler => sp_backup[current] = <<current, Last(sigsp[current])>>

(* A sp_backup on the task's own stack that has become stale, by a nested  *)
(* signal or a fork inside a handler, is never below the frame that the    *)
(* innermost handler interrupted: sys_sigreturn() may find its own trap    *)
(* frame or one that is gone, but does not throw away a context that is    *)
(* still owed the CPU (sched.c:58, syscall.c:243-244).                     *)
NoFrameSkipped ==
  \A t \in Tasks :
    sigsp[t] # <<>> /\ sp_backup[t][1] = t => sp_backup[t][2] >= Last(sigsp[t])

(* The CPU is never switched to a stopped task while another could run.    *)
SwitchLands ==
  current' # current =>
    state'[current'] = "TASK_RUNNING" \/ Running(state') = {}

NeverSwitchToStopped == [][SwitchLands]_vars

(* No running task starves: with finitely many tasks created, each one     *)
(* gets the CPU or is stopped (sched.c:106-127, exception.c:206).          *)
NoStarvation ==
  \A t \in Tasks : (state[t] = "TASK_RUNNING")
    ~> (current = t \/ state[t] = "TASK_STOPPED" \/ ~ Alive)

(* A pending signal reaches its handler: the target is not the current     *)
(* task, so it is switched to again, and that it has only just been forked *)
(* or is itself interrupted in a handler does not lose the signal; only a  *)
(* task that is left alone with the CPU may never see it (sched.c:49-65).  *)
SignalDelivered ==
  \A t \in Tasks : (pending[t] # 0 /\ state[t] = "TASK_RUNNING")
    ~> (\/ pending[t] = 0 \/ state[t] = "TASK_STOPPED"
        \/ Running(state) = {t} \/ ~ Alive)

==============================================================================
