----------------------------- MODULE SchedProofs -----------------------------
(***************************************************************************)
(* Proofs about Sched, for any number of tasks, any signals and any bound. *)
(***************************************************************************)
EXTENDS Sched, FiniteSetTheorems, SequenceTheorems, TLAPS

(* A stopped task is current only as task 0 when no task is running.       *)
StoppedCurrent ==
  state[current] = "TASK_STOPPED" => Running(state) = {} /\ current = 0

PriorityPositive == \A t \in Running(state) : priority[t] > 0

SchedInv ==
  /\ TypeOK
  /\ HandlerAboveItsFrame
  /\ StoppedCurrent
  /\ PriorityPositive
  /\ CountersBounded
  /\ NumRunningExact

------------------------------------------------------------------------------
(* Facts about stacks of frames                                            *)

(* What Front and Last return.                                             *)
LEMMA FrontLast ==
  ASSUME NEW S, NEW s \in Seq(S), s # <<>>
  PROVE  /\ Front(s) \in Seq(S)
         /\ Len(Front(s)) = Len(s) - 1
         /\ \A j \in 1 .. Len(s) - 1 : Front(s)[j] = s[j]
         /\ Last(s) \in S
         /\ Len(s) \in Nat \ {0}
<1>1. Len(s) \in Nat \ {0}
  BY EmptySeq
<1>2. \A j \in 1 .. Len(s) : s[j] \in S
  BY ElementOfSeq
<1>3. /\ SubSeq(s, 1, Len(s) - 1) \in Seq(S)
      /\ Len(SubSeq(s, 1, Len(s) - 1)) = Len(s) - 1
      /\ \A j \in 1 .. Len(s) - 1 : SubSeq(s, 1, Len(s) - 1)[j] = s[j]
  <2>1. \A j \in 1 .. Len(s) - 1 : s[j] \in S
    BY <1>1, <1>2
  <2> HIDE <1>2
  <2> DEFINE n == Len(s) - 1
  <2>2. n \in Int /\ 1 \in Int /\ n - 1 + 1 = n /\ n >= 0
    BY <1>1
  <2>3. /\ SubSeq(s, 1, n) \in Seq(S)
        /\ Len(SubSeq(s, 1, n)) = IF 1 <= n THEN n - 1 + 1 ELSE 0
        /\ \A j \in 1 .. n - 1 + 1 : SubSeq(s, 1, n)[j] = s[1 + j - 1]
    <3> HIDE DEF n
    <3> QED
      BY <2>1, <2>2, SubSeqProperties DEF n
  <2> QED
    BY <2>2, <2>3
<1> QED
  BY <1>1, <1>2, <1>3 DEF Front, Last

(* save_all on the stack of the task that is on the CPU suspends it.       *)
LEMMA TrapSuspends ==
  ASSUME NEW f \in Seq(Contexts), NEW g \in Seq(Nat), NEW c \in Contexts,
         OnCpu(f, g, c)
  PROVE  /\ Append(f, c) \in Seq(Contexts)
         /\ Suspended(Append(f, c), g)
         /\ Last(Append(f, c)) = c
BY DEF OnCpu, Suspended, FramesFit, Last

(* Unwinding to the trap frame puts a suspended task back on the CPU.      *)
LEMMA UnwindResumes ==
  ASSUME NEW f \in Seq(Contexts), NEW g \in Seq(Nat), Suspended(f, g)
  PROVE  OnCpu(Front(f), g, Last(f))
<1>1. f # <<>>
  BY DEF Suspended
<1>2. /\ Front(f) \in Seq(Contexts)
      /\ Len(Front(f)) = Len(f) - 1
      /\ \A j \in 1 .. Len(f) - 1 : Front(f)[j] = f[j]
  BY <1>1, FrontLast
<1>3. FramesFit(Front(f), g)
  <2> SUFFICES ASSUME NEW k \in 1 .. Len(g)
               PROVE  /\ g[k] \in 1 .. Len(Front(f))
                      /\ \A m \in 1 .. k - 1 : g[m] < g[k]
                      /\ Front(f)[g[k]] # "main" =>
                           k > 1 /\ g[k - 1] = g[k] - 1
    BY DEF FramesFit
  <2>1. g[k] \in 1 .. Len(f) /\ g[k] < Len(f)
    BY DEF Suspended, FramesFit
  <2>2. g[k] \in 1 .. Len(f) - 1
    BY <2>1
  <2>3. Front(f)[g[k]] = f[g[k]]
    BY <2>2, <1>2
  <2> QED
    BY <2>2, <2>3, <1>2 DEF Suspended, FramesFit
<1> QED
  BY <1>2, <1>3 DEF Suspended, OnCpu

(* Delivering a signal to a suspended task puts it on the CPU, in the      *)
(* handler, at the depth of the frame it interrupted.                      *)
LEMMA DeliverResumes ==
  ASSUME NEW f \in Seq(Contexts), NEW g \in Seq(Nat), NEW c \in Contexts,
         Suspended(f, g)
  PROVE  /\ Append(g, Len(f)) \in Seq(Nat)
         /\ OnCpu(f, Append(g, Len(f)), c)
<1> DEFINE h == Append(g, Len(f))
<1>1. /\ h \in Seq(Nat) /\ Len(h) = Len(g) + 1
      /\ h[Len(g) + 1] = Len(f)
      /\ \A k \in 1 .. Len(g) : h[k] = g[k]
  OBVIOUS
<1>2. Len(f) \in Nat \ {0}
  BY DEF Suspended
<1>3. FramesFit(f, h)
  <2> SUFFICES ASSUME NEW k \in 1 .. Len(h)
               PROVE  /\ h[k] \in 1 .. Len(f)
                      /\ \A m \in 1 .. k - 1 : h[m] < h[k]
                      /\ f[h[k]] # "main" => k > 1 /\ h[k - 1] = h[k] - 1
    BY DEF FramesFit
  <2>1. CASE k \in 1 .. Len(g)
    <3>1. /\ g[k] \in 1 .. Len(f)
          /\ \A m \in 1 .. k - 1 : g[m] < g[k]
          /\ f[g[k]] # "main" => k > 1 /\ g[k - 1] = g[k] - 1
      BY <2>1 DEF Suspended, FramesFit
    <3>2. h[k] = g[k] /\ \A m \in 1 .. k - 1 : h[m] = g[m]
      BY <2>1, <1>1
    <3>3. k > 1 => h[k - 1] = g[k - 1]
      BY <3>2, <2>1
    <3> QED
      BY <3>1, <3>2, <3>3
  <2>2. CASE k = Len(g) + 1
    <3>1. h[k] = Len(f)
      BY <2>2, <1>1
    <3>2. \A m \in 1 .. k - 1 : h[m] = g[m] /\ g[m] < Len(f)
      BY <2>2, <1>1 DEF Suspended
    <3>3. f[Len(f)] # "main" => g # <<>> /\ g[Len(g)] = Len(f) - 1
      BY DEF Suspended, Last
    <3>4. f[Len(f)] # "main" => k > 1 /\ h[k - 1] = Len(f) - 1
      <4> SUFFICES ASSUME f[Len(f)] # "main"
                   PROVE  k > 1 /\ h[k - 1] = Len(f) - 1
        OBVIOUS
      <4>1. Len(g) \in Nat \ {0}
        BY <3>3, EmptySeq
      <4>2. k - 1 = Len(g) /\ k - 1 \in 1 .. k - 1
        BY <2>2, <4>1
      <4> QED
        BY <3>2, <3>3, <4>1, <4>2
    <3> QED
      BY <1>2, <3>1, <3>2, <3>4
  <2>3. k \in 1 .. Len(g) \/ k = Len(g) + 1
    BY <1>1
  <2> QED
    BY <2>1, <2>2, <2>3
<1>4. h # <<>> /\ Last(h) = Len(f)
  BY <1>1, SMTT(30) DEF Last
<1> QED
  BY <1>1, <1>3, <1>4 DEF OnCpu

(* When a handler returns to the depth it was entered with, the task is    *)
(* suspended at the frame the handler interrupted.                         *)
LEMMA SigreturnSuspends ==
  ASSUME NEW f \in Seq(Contexts), NEW g \in Seq(Nat), NEW c \in Contexts,
         OnCpu(f, g, c), c # "main"
  PROVE  /\ SubSeq(f, 1, Last(g)) = f
         /\ Front(g) \in Seq(Nat)
         /\ Suspended(f, Front(g))
<1>1. g # <<>> /\ Last(g) = Len(f) /\ FramesFit(f, g)
  BY DEF OnCpu
<1>2. /\ Front(g) \in Seq(Nat)
      /\ Len(Front(g)) = Len(g) - 1
      /\ \A j \in 1 .. Len(g) - 1 : Front(g)[j] = g[j]
      /\ Len(g) \in Nat \ {0}
  BY <1>1, FrontLast
<1>3. SubSeq(f, 1, Last(g)) = f
  BY <1>1
<1>4. g[Len(g)] = Len(f) /\ Len(f) \in Nat \ {0}
  BY <1>1, <1>2 DEF Last, FramesFit
<1>5. FramesFit(f, Front(g))
  <2> SUFFICES ASSUME NEW k \in 1 .. Len(g) - 1
               PROVE  /\ Front(g)[k] \in 1 .. Len(f)
                      /\ \A m \in 1 .. k - 1 : Front(g)[m] < Front(g)[k]
                      /\ f[Front(g)[k]] # "main" =>
                           k > 1 /\ Front(g)[k - 1] = Front(g)[k] - 1
    BY <1>2 DEF FramesFit
  <2>1. /\ g[k] \in 1 .. Len(f)
        /\ \A m \in 1 .. k - 1 : g[m] < g[k]
        /\ f[g[k]] # "main" => k > 1 /\ g[k - 1] = g[k] - 1
    BY <1>1, <1>2 DEF FramesFit
  <2>2. Front(g)[k] = g[k]
    BY <1>2
  <2>3. \A m \in 1 .. k - 1 : Front(g)[m] = g[m]
    BY <1>2
  <2>4. k > 1 => Front(g)[k - 1] = g[k - 1]
    BY <2>3
  <2> QED
    BY <2>1, <2>2, <2>3, <2>4
<1>6. \A k \in 1 .. Len(Front(g)) : Front(g)[k] < Len(f)
  <2> SUFFICES ASSUME NEW k \in 1 .. Len(g) - 1 PROVE Front(g)[k] < Len(f)
    BY <1>2
  <2>1. Len(g) \in 1 .. Len(g) /\ k \in 1 .. Len(g) - 1
    BY <1>2
  <2>2. g[k] < g[Len(g)]
    BY <1>1, <2>1 DEF FramesFit
  <2> QED
    BY <1>2, <1>4, <2>2
<1>7. Last(f) # "main" => Front(g) # <<>> /\ Last(Front(g)) = Len(f) - 1
  <2> SUFFICES ASSUME f[Len(f)] # "main"
               PROVE  Front(g) # <<>> /\ Last(Front(g)) = Len(f) - 1
    BY DEF Last
  <2>1. Len(g) > 1 /\ g[Len(g) - 1] = Len(f) - 1
    BY <1>1, <1>2, <1>4 DEF FramesFit
  <2>2. Len(g) - 1 \in 1 .. Len(g) - 1
    BY <2>1, <1>2
  <2>3. Front(g)[Len(g) - 1] = g[Len(g) - 1]
    BY <2>2, <1>2
  <2>4. Front(g) # <<>>
    BY <2>1, <1>2
  <2> QED
    BY <2>1, <2>3, <2>4, <1>2 DEF Last
<1> QED
  BY <1>2, <1>3, <1>4, <1>5, <1>6, <1>7 DEF Suspended

------------------------------------------------------------------------------
(* schedule() with states st, counters cnt, stacks ks and handlers sg      *)

(* What the callers of schedule() establish.                               *)
ScheduleReady(st, cnt, ks, sg) ==
  /\ st \in [Tasks -> {"TASK_RUNNING", "TASK_STOPPED"}]
  /\ cnt \in [Tasks -> Int]
  /\ ks \in [Tasks -> Seq(Contexts)]
  /\ sg \in [Tasks -> Seq(Nat)]
  /\ \A t \in Running(st) :
       0 <= cnt[t] /\ cnt[t] <= priority[t] /\ priority[t] > 0
  /\ \A t \in Resumable(st) \cup {current} : Suspended(ks[t], sg[t])

(* The counters schedule() leaves, and whom it chooses.                    *)
LEMMA ChoosesRunning ==
  ASSUME TypeOK,
         NEW st, NEW cnt, NEW ks, NEW sg, ScheduleReady(st, cnt, ks, sg),
         NEW cnt2, cnt2 = IF NeedsRefill(st, cnt) THEN Refill(st, cnt) ELSE cnt,
         NEW next \in Tasks, Chosen(st, cnt2, next)
  PROVE  /\ cnt2 \in [Tasks -> Int]
         /\ \A t \in Running(st) : 0 <= cnt2[t] /\ cnt2[t] <= priority[t]
         /\ next \in Running(st) \/ (Running(st) = {} /\ next = 0)
         /\ next \in Running(st) => cnt2[next] > 0
<1>1. /\ st \in [Tasks -> {"TASK_RUNNING", "TASK_STOPPED"}]
      /\ cnt \in [Tasks -> Int]
      /\ priority \in [Tasks -> Nat]
      /\ \A t \in Running(st) :
           0 <= cnt[t] /\ cnt[t] <= priority[t] /\ priority[t] > 0
  BY DEF ScheduleReady, TypeOK
<1>2. CASE NeedsRefill(st, cnt)
  <2>1. \A t \in Running(st) : cnt[t] = 0
    BY <1>1, <1>2 DEF NeedsRefill, Running
  <2>2. /\ cnt2 \in [Tasks -> Int]
        /\ \A t \in Running(st) : cnt2[t] = priority[t]
    BY <1>1, <1>2, <2>1 DEF Refill, Running
  <2>3. {t \in Running(st) : cnt2[t] > -1} = Running(st)
    BY <1>1, <2>2 DEF Running
  <2> QED
    BY <1>1, <2>2, <2>3 DEF Chosen, Running
<1>3. CASE ~ NeedsRefill(st, cnt)
  <2>1. cnt2 = cnt
    BY <1>3
  <2>2. {t \in Running(st) : cnt2[t] > -1} = Running(st)
    BY <1>1, <2>1 DEF Running
  <2>3. next \in Running(st) \/ (Running(st) = {} /\ next = 0)
    BY <2>2 DEF Chosen
  <2>4. ASSUME next \in Running(st) PROVE cnt2[next] > 0
    <3>1. \A t \in Running(st) : cnt2[t] <= cnt2[next]
      BY <1>1, <2>1, <2>2, <2>4 DEF Chosen, Running
    <3>2. next \in Tasks /\ cnt2[next] \in Int /\ cnt2[next] >= 0
      BY <1>1, <2>1, <2>4 DEF Running
    <3>3. ASSUME cnt2[next] = 0 PROVE FALSE
      BY <1>1, <1>3, <2>1, <2>4, <3>1, <3>3 DEF NeedsRefill, Running
    <3> QED
      BY <3>2, <3>3
  <2> QED
    BY <1>1, <2>1, <2>3, <2>4
<1> QED
  BY <1>2, <1>3

(* The whole of schedule(): the task that gets the CPU and the state it is *)
(* found in.                                                               *)
LEMMA ScheduleLands ==
  ASSUME TypeOK,
         NEW st, NEW cnt, NEW ks, NEW sg, ScheduleReady(st, cnt, ks, sg),
         Schedule(st, cnt, ks, sg)
  PROVE  /\ counter' \in [Tasks -> Int]
         /\ current' \in Tasks
         /\ fresh' \in [Tasks -> BOOLEAN]
         /\ ctx' \in [Tasks -> Contexts]
         /\ kstack' \in [Tasks -> Seq(Contexts)]
         /\ sigsp' \in [Tasks -> Seq(Nat)]
         /\ pending' \in [Tasks -> Signals \cup {0}]
         /\ process_sig' \in [Tasks -> Signals \cup {0}]
         /\ sp_backup' \in [Tasks -> Tasks \X Nat]
         /\ OnCpu(kstack'[current'], sigsp'[current'], ctx'[current'])
         /\ \A t \in Resumable(st) \ {current'} : Suspended(kstack'[t], sigsp'[t])
         /\ \A t \in Running(st) : 0 <= counter'[t] /\ counter'[t] <= priority[t]
         /\ current' \in Running(st) \/ (Running(st) = {} /\ current' = 0)
         /\ current' \in Running(st) => counter'[current'] > 0
<1> DEFINE cnt2 == IF NeedsRefill(st, cnt) THEN Refill(st, cnt) ELSE cnt
<1>1. PICK next \in Tasks :
        /\ Chosen(st, cnt2, next)
        /\ current' = next
        /\ fresh' = [fresh EXCEPT ![next] = FALSE]
        /\ IF next # current /\ ~ fresh[next] /\ pending[next] # 0
             THEN Deliver(next, ks, sg)
             ELSE ReturnToUser(next, ks, sg)
  BY DEF Schedule
<1>2. counter' = cnt2
  BY DEF Schedule
<1>3. /\ cnt2 \in [Tasks -> Int]
      /\ \A t \in Running(st) : 0 <= cnt2[t] /\ cnt2[t] <= priority[t]
      /\ next \in Running(st) \/ (Running(st) = {} /\ next = 0)
      /\ next \in Running(st) => cnt2[next] > 0
  <2> HIDE DEF cnt2
  <2> QED
    BY <1>1, ChoosesRunning DEF cnt2
<1> HIDE DEF cnt2
<1>4. /\ ks \in [Tasks -> Seq(Contexts)] /\ sg \in [Tasks -> Seq(Nat)]
      /\ ks[next] \in Seq(Contexts) /\ sg[next] \in Seq(Nat)
      /\ Suspended(ks[next], sg[next])
      /\ next \in Resumable(st)
  BY <1>3 DEF ScheduleReady, Resumable
<1>5. /\ \A t \in Resumable(st) : Suspended(ks[t], sg[t])
      /\ Resumable(st) \subseteq Tasks
  BY TasksAssumption DEF ScheduleReady, Resumable, Running, Tasks
<1>6. /\ fresh \in [Tasks -> BOOLEAN] /\ ctx \in [Tasks -> Contexts]
      /\ pending \in [Tasks -> Signals \cup {0}]
      /\ process_sig \in [Tasks -> Signals \cup {0}]
      /\ sp_backup \in [Tasks -> Tasks \X Nat]
  BY DEF TypeOK
<1>7. ks[next] # <<>>
  BY <1>4 DEF Suspended
<1>8. CASE next # current /\ ~ fresh[next] /\ pending[next] # 0
  <2>1. Deliver(next, ks, sg)
    BY <1>1, <1>8
  <2>2. /\ kstack' = ks
        /\ sigsp' = [sg EXCEPT ![next] = Append(sg[next], Len(ks[next]))]
        /\ pending' = [pending EXCEPT ![next] = 0]
        /\ process_sig' = [process_sig EXCEPT ![next] = pending[next]]
        /\ sp_backup' = [sp_backup EXCEPT ![next] = <<next, Len(ks[next])>>]
    BY <2>1 DEF Deliver
  <2>3. PICK c \in Contexts : ctx' = [ctx EXCEPT ![next] = c]
    BY <2>1 DEF Deliver, Contexts
  <2>4. /\ Append(sg[next], Len(ks[next])) \in Seq(Nat)
        /\ OnCpu(ks[next], Append(sg[next], Len(ks[next])), c)
    BY <1>4, DeliverResumes
  <2>5. /\ sigsp'[next] = Append(sg[next], Len(ks[next]))
        /\ kstack'[next] = ks[next]
        /\ ctx'[next] = c
        /\ pending'[next] = 0
        /\ \A t \in Tasks \ {next} : sigsp'[t] = sg[t] /\ kstack'[t] = ks[t]
    BY <1>4, <1>6, <2>2, <2>3
  <2>6. /\ sigsp' \in [Tasks -> Seq(Nat)]
        /\ pending' \in [Tasks -> Signals \cup {0}]
        /\ process_sig' \in [Tasks -> Signals \cup {0}]
        /\ sp_backup' \in [Tasks -> Tasks \X Nat]
        /\ ctx' \in [Tasks -> Contexts]
    BY <1>4, <1>6, <2>2, <2>3, <2>4
  <2>7. fresh' \in [Tasks -> BOOLEAN]
    BY <1>1, <1>6
  <2>8. \A t \in Resumable(st) \ {next} : Suspended(kstack'[t], sigsp'[t])
    BY <1>5, <2>5
  <2> QED
    BY <1>1, <1>2, <1>3, <1>4, <2>2, <2>4, <2>5, <2>6, <2>7, <2>8
<1>9. CASE ~ (next # current /\ ~ fresh[next] /\ pending[next] # 0)
  <2>1. ReturnToUser(next, ks, sg)
    BY <1>1, <1>9
  <2>2. /\ ctx' = [ctx EXCEPT ![next] = Last(ks[next])]
        /\ kstack' = [ks EXCEPT ![next] = Front(ks[next])]
        /\ sigsp' = sg
        /\ pending' = pending /\ process_sig' = process_sig
        /\ sp_backup' = sp_backup
    BY <2>1 DEF ReturnToUser
  <2>3. /\ Front(ks[next]) \in Seq(Contexts)
        /\ Last(ks[next]) \in Contexts
    BY <1>4, <1>7, FrontLast
  <2>4. OnCpu(Front(ks[next]), sg[next], Last(ks[next]))
    BY <1>4, UnwindResumes
  <2>5. /\ kstack'[next] = Front(ks[next])
        /\ ctx'[next] = Last(ks[next])
        /\ \A t \in Tasks \ {next} : kstack'[t] = ks[t]
        /\ kstack' \in [Tasks -> Seq(Contexts)]
        /\ ctx' \in [Tasks -> Contexts]
    BY <1>4, <1>6, <2>2, <2>3
  <2>6. fresh' \in [Tasks -> BOOLEAN]
    BY <1>1, <1>6
  <2>7. \A t \in Resumable(st) \ {next} : Suspended(kstack'[t], sigsp'[t])
    BY <1>5, <2>2, <2>5
  <2> QED
    BY <1>1, <1>2, <1>3, <1>4, <1>6, <2>2, <2>4, <2>5, <2>6, <2>7
<1> QED
  BY <1>8, <1>9

------------------------------------------------------------------------------
(* The number of running tasks                                             *)

(* Starting or stopping one task changes the number of running tasks by 1. *)
LEMMA RunningCount ==
  ASSUME NEW st \in [Tasks -> {"TASK_RUNNING", "TASK_STOPPED"}],
         NEW t \in Tasks
  PROVE  /\ IsFiniteSet(Running(st))
         /\ Cardinality(Running(st)) \in Nat
         /\ st[t] = "TASK_RUNNING" =>
              /\ Running([st EXCEPT ![t] = "TASK_STOPPED"]) = Running(st) \ {t}
              /\ Cardinality(Running(st) \ {t}) = Cardinality(Running(st)) - 1
         /\ st[t] = "TASK_STOPPED" =>
              /\ Running([st EXCEPT ![t] = "TASK_RUNNING"]) = Running(st) \cup {t}
              /\ Cardinality(Running(st) \cup {t}) = Cardinality(Running(st)) + 1
              /\ Running([st EXCEPT ![t] = "TASK_STOPPED"]) = Running(st)
<1>1. IsFiniteSet(Running(st)) /\ Cardinality(Running(st)) \in Nat
  <2>1. 0 \in Int /\ NR_TASKS - 1 \in Int
    BY TasksAssumption
  <2>2. IsFiniteSet(Tasks)
    BY <2>1, FS_Interval DEF Tasks
  <2>3. Running(st) \subseteq Tasks
    BY DEF Running
  <2>4. IsFiniteSet(Running(st))
    BY <2>2, <2>3, FS_Subset
  <2> QED
    BY <2>4, FS_CardinalityType
<1>2. ASSUME st[t] = "TASK_RUNNING"
      PROVE  /\ Running([st EXCEPT ![t] = "TASK_STOPPED"]) = Running(st) \ {t}
             /\ t \in Running(st)
  BY <1>2 DEF Running
<1>3. ASSUME st[t] = "TASK_STOPPED"
      PROVE  /\ Running([st EXCEPT ![t] = "TASK_RUNNING"]) = Running(st) \cup {t}
             /\ Running([st EXCEPT ![t] = "TASK_STOPPED"]) = Running(st)
             /\ t \notin Running(st)
  BY <1>3 DEF Running
<1>4. t \in Running(st) =>
        Cardinality(Running(st) \ {t}) = Cardinality(Running(st)) - 1
  BY <1>1, FS_RemoveElement
<1>5. t \notin Running(st) =>
        Cardinality(Running(st) \cup {t}) = Cardinality(Running(st)) + 1
  BY <1>1, FS_AddElement
<1> QED
  BY <1>1, <1>2, <1>3, <1>4, <1>5

------------------------------------------------------------------------------
(* Each action preserves the invariant                                     *)

(* The invariant holds after task_init().                                  *)
LEMMA InitInv == Init => SchedInv
<1> SUFFICES ASSUME Init PROVE SchedInv
  OBVIOUS
<1>1. TypeOK
  BY TasksAssumption, SignalAssumption DEF Init, TypeOK, Tasks, Contexts
<1>2. Running(state) = {0} /\ 0 \in Tasks
  BY TasksAssumption DEF Init, Running, Tasks
<1>3. HandlerAboveItsFrame
  BY <1>2 DEF Init, HandlerAboveItsFrame, OnCpu, FramesFit, Resumable
<1>4. StoppedCurrent
  BY <1>2 DEF Init, StoppedCurrent
<1>5. PriorityPositive /\ CountersBounded
  BY <1>2 DEF Init, PriorityPositive, CountersBounded
<1>6. NumRunningExact
  BY <1>2, FS_Singleton DEF Init, NumRunningExact
<1> QED
  BY <1>1, <1>3, <1>4, <1>5, <1>6 DEF SchedInv

(* save_all: the current task is suspended at its user context.            *)
LEMMA TrappedSuspends ==
  ASSUME SchedInv
  PROVE  /\ Trapped \in [Tasks -> Seq(Contexts)]
         /\ Suspended(Trapped[current], sigsp[current])
         /\ Last(Trapped[current]) = ctx[current]
         /\ \A t \in Tasks \ {current} : Trapped[t] = kstack[t]
         /\ \A t \in Resumable(state) \cup {current} : Suspended(Trapped[t], sigsp[t])
<1>1. /\ current \in Tasks /\ kstack \in [Tasks -> Seq(Contexts)]
      /\ kstack[current] \in Seq(Contexts) /\ sigsp[current] \in Seq(Nat)
      /\ ctx[current] \in Contexts
      /\ OnCpu(kstack[current], sigsp[current], ctx[current])
  BY DEF SchedInv, TypeOK, HandlerAboveItsFrame
<1>2. /\ Append(kstack[current], ctx[current]) \in Seq(Contexts)
      /\ Suspended(Append(kstack[current], ctx[current]), sigsp[current])
      /\ Last(Append(kstack[current], ctx[current])) = ctx[current]
  BY <1>1, TrapSuspends
<1>3. /\ Trapped \in [Tasks -> Seq(Contexts)]
      /\ Trapped[current] = Append(kstack[current], ctx[current])
      /\ \A t \in Tasks \ {current} : Trapped[t] = kstack[t]
  BY <1>1, <1>2 DEF Trapped
<1>4. Resumable(state) \subseteq Tasks
  BY TasksAssumption DEF Resumable, Running, Tasks
<1> QED
  BY <1>1, <1>2, <1>3, <1>4 DEF SchedInv, HandlerAboveItsFrame

(* What schedule() leaves is the invariant, if the tasks' states are st.   *)
LEMMA ScheduleKeepsInv ==
  ASSUME SchedInv,
         NEW st, NEW cnt, NEW ks, NEW sg, ScheduleReady(st, cnt, ks, sg),
         Schedule(st, cnt, ks, sg),
         state' = st,
         UNCHANGED <<priority, sighand, fault, forks>>,
         num_running_task' \in Int,
         Running(st) # {} => num_running_task' = Cardinality(Running(st))
  PROVE  SchedInv' /\ SwitchLands
<1>1. TypeOK
  BY DEF SchedInv
<1>2. TypeOK'
  BY <1>1, ScheduleLands DEF TypeOK, ScheduleReady
<1>3. HandlerAboveItsFrame'
  BY <1>1, ScheduleLands DEF HandlerAboveItsFrame
<1>5. StoppedCurrent'
  BY <1>1, ScheduleLands DEF StoppedCurrent, Running
<1>6. PriorityPositive'
  BY DEF PriorityPositive, ScheduleReady
<1>7. CountersBounded'
  BY <1>1, ScheduleLands DEF CountersBounded
<1>8. NumRunningExact'
  BY DEF NumRunningExact
<1>9. SwitchLands
  BY <1>1, ScheduleLands DEF SwitchLands, Running
<1> QED
  BY <1>2, <1>3, <1>5, <1>6, <1>7, <1>8, <1>9 DEF SchedInv

(* Stopping a running task keeps num_running_task exact when it is lowered *)
(* by one.                                                                 *)
LEMMA StopKeepsCount ==
  ASSUME SchedInv, NEW t \in Tasks, state[t] = "TASK_RUNNING",
         NEW st, st = [state EXCEPT ![t] = "TASK_STOPPED"]
  PROVE  /\ Running(st) = Running(state) \ {t}
         /\ num_running_task - 1 = Cardinality(Running(st))
<1>1. state \in [Tasks -> {"TASK_RUNNING", "TASK_STOPPED"}]
  BY DEF SchedInv, TypeOK
<1>2. /\ Running(st) = Running(state) \ {t}
      /\ Cardinality(Running(state) \ {t}) = Cardinality(Running(state)) - 1
  BY <1>1, RunningCount
<1>3. num_running_task = Cardinality(Running(state))
  BY DEF SchedInv, NumRunningExact, Running
<1> QED
  BY <1>2, <1>3

(* do_timer() keeps the invariant, with and without a switch.              *)
LEMMA DoTimerInv ==
  ASSUME SchedInv, DoTimer PROVE SchedInv' /\ SwitchLands
<1> DEFINE cnt == [counter EXCEPT ![current] = Less(counter[current])]
<1>1. /\ current \in Tasks /\ counter \in [Tasks -> Int]
      /\ priority \in [Tasks -> Nat]
  BY DEF SchedInv, TypeOK
<1>2. cnt \in [Tasks -> Int] /\ \A t \in Tasks \ {current} : cnt[t] = counter[t]
  BY <1>1 DEF Less
<1>3. \A t \in Running(state) :
        0 <= cnt[t] /\ cnt[t] <= priority[t] /\ priority[t] > 0
  BY <1>1 DEF SchedInv, CountersBounded, PriorityPositive, Less, Running
<1>4. CASE cnt[current] > 0
  <2>1. /\ counter' = cnt
        /\ UNCHANGED <<fresh, kstack, ctx, current, pending, process_sig,
                       sp_backup, sigsp, state, priority, sighand,
                       num_running_task, fault, forks>>
    BY <1>4 DEF DoTimer
  <2>2. TypeOK'
    BY <1>2, <2>1 DEF SchedInv, TypeOK
  <2>3. CountersBounded'
    BY <1>3, <1>4, <2>1 DEF CountersBounded
  <2> QED
    BY <2>1, <2>2, <2>3 DEF SchedInv, HandlerAboveItsFrame, StoppedCurrent, PriorityPositive, NumRunningExact,
         SwitchLands
<1>5. CASE ~ (cnt[current] > 0)
  <2>1. Schedule(state, cnt, Trapped, sigsp)
    BY <1>5 DEF DoTimer
  <2>2. UNCHANGED <<state, priority, sighand, num_running_task, fault, forks>>
    BY DEF DoTimer
  <2>3. ScheduleReady(state, cnt, Trapped, sigsp)
    <3> HIDE DEF cnt
    <3> QED
      BY <1>2, <1>3, TrappedSuspends
         DEF ScheduleReady, SchedInv, TypeOK
  <2>4. /\ num_running_task' \in Int
        /\ Running(state) # {} => num_running_task' = Cardinality(Running(state))
    BY <2>2 DEF SchedInv, TypeOK, NumRunningExact
  <2> HIDE DEF cnt
  <2> QED
    BY <2>1, <2>2, <2>3, <2>4, ScheduleKeepsInv
<1> QED
  BY <1>4, <1>5

(* sys_exit() keeps the invariant, also when task 0 exits as the last.     *)
LEMMA SysExitInv ==
  ASSUME SchedInv, SysExit PROVE SchedInv' /\ SwitchLands
<1> DEFINE st == [state EXCEPT ![current] = "TASK_STOPPED"]
<1>1. /\ current \in Tasks
      /\ state \in [Tasks -> {"TASK_RUNNING", "TASK_STOPPED"}]
      /\ num_running_task \in Int
  BY DEF SchedInv, TypeOK
<1>2. /\ state' = st /\ num_running_task' = num_running_task - 1
      /\ Schedule(st, counter, Trapped, sigsp)
      /\ UNCHANGED <<priority, sighand, fault, forks>>
  BY DEF SysExit, InUser
<1>3. /\ st \in [Tasks -> {"TASK_RUNNING", "TASK_STOPPED"}]
      /\ Running(st) \subseteq Running(state)
      /\ Resumable(st) \subseteq Resumable(state)
  BY <1>1 DEF Running, Resumable
<1>4. ScheduleReady(st, counter, Trapped, sigsp)
  <2> HIDE DEF st
  <2> QED
    BY <1>3, TrappedSuspends
       DEF ScheduleReady, SchedInv, TypeOK,
           CountersBounded, PriorityPositive
<1>5. Running(st) # {} => num_running_task' = Cardinality(Running(st))
  <2>1. CASE state[current] = "TASK_RUNNING"
    BY <1>1, <1>2, <2>1, StopKeepsCount
  <2>2. CASE state[current] = "TASK_STOPPED"
    BY <1>2, <1>3, <2>2 DEF SchedInv, StoppedCurrent
  <2> QED
    BY <1>1, <2>1, <2>2
<1>6. num_running_task' \in Int
  BY <1>1, <1>2
<1> HIDE DEF st
<1> QED
  BY <1>2, <1>4, <1>5, <1>6, ScheduleKeepsInv

(* sys_fork() keeps the invariant: the copied kernel stack and handlers    *)
(* leave the child suspended like its parent.                              *)
LEMMA SysForkInv ==
  ASSUME SchedInv, NEW child \in Tasks, SysFork(child) PROVE SchedInv'
<1>1. /\ current \in Tasks /\ TypeOK
      /\ state \in [Tasks -> {"TASK_RUNNING", "TASK_STOPPED"}]
      /\ kstack \in [Tasks -> Seq(Contexts)] /\ sigsp \in [Tasks -> Seq(Nat)]
  BY DEF SchedInv, TypeOK
<1>2. /\ state[child] = "TASK_STOPPED" /\ child # 0
      /\ ctx[current] \in {"main", "handler"}
  BY TasksAssumption DEF SysFork, InUser, FindEmptyTask, Tasks
<1>3. /\ child # current
      /\ state[current] = "TASK_STOPPED" => Running(state) = {}
  BY <1>2 DEF SchedInv, StoppedCurrent
<1>4. /\ state' = [state EXCEPT ![child] = state[current]]
      /\ priority' = [priority EXCEPT ![child] = priority[current]]
      /\ counter' = [counter EXCEPT ![child] = priority[current]]
      /\ pending' = [pending EXCEPT ![child] = pending[current]]
      /\ process_sig' = [process_sig EXCEPT ![child] = process_sig[current]]
      /\ sighand' = [sighand EXCEPT ![child] = sighand[current]]
      /\ sp_backup' = [sp_backup EXCEPT ![child] = sp_backup[current]]
      /\ sigsp' = [sigsp EXCEPT ![child] = sigsp[current]]
      /\ fresh' = [fresh EXCEPT ![child] = TRUE]
      /\ kstack' = [kstack EXCEPT ![child] = Trapped[current]]
      /\ ctx' = [ctx EXCEPT ![child] = ctx[current]]
      /\ num_running_task' = num_running_task + 1
      /\ forks' = forks + 1
      /\ current' = current /\ fault' = fault
  BY DEF SysFork
<1>5. /\ Trapped[current] \in Seq(Contexts)
      /\ Suspended(Trapped[current], sigsp[current])
      /\ Last(Trapped[current]) = ctx[current]
  BY <1>1, TrappedSuspends
<1>6. TypeOK'
  <2>1. /\ state' \in [Tasks -> {"TASK_RUNNING", "TASK_STOPPED"}]
        /\ priority' \in [Tasks -> Nat]
        /\ counter' \in [Tasks -> Int]
    BY <1>1, <1>4 DEF TypeOK
  <2>2. /\ pending' \in [Tasks -> Signals \cup {0}]
        /\ process_sig' \in [Tasks -> Signals \cup {0}]
        /\ sighand' \in [Tasks -> [Signals -> {"default", "user"}]]
    BY <1>1, <1>4 DEF TypeOK
  <2>3. sp_backup' \in [Tasks -> Tasks \X Nat]
    BY <1>1, <1>4 DEF TypeOK
  <2>4. /\ fresh' \in [Tasks -> BOOLEAN]
        /\ ctx' \in [Tasks -> Contexts]
        /\ sigsp' \in [Tasks -> Seq(Nat)]
    BY <1>1, <1>4 DEF TypeOK
  <2>5. kstack' \in [Tasks -> Seq(Contexts)]
    BY <1>1, <1>4, <1>5
  <2>6. /\ current' \in Tasks /\ num_running_task' \in Int
        /\ fault' \in {"no", "task_pool", "kstack", "abort"} /\ forks' \in Nat
    BY <1>1, <1>4 DEF TypeOK
  <2> QED
    BY <2>1, <2>2, <2>3, <2>4, <2>5, <2>6 DEF TypeOK
<1>7. /\ state[current] = "TASK_RUNNING" => Running(state') = Running(state) \cup {child}
      /\ state[current] = "TASK_STOPPED" => Running(state') = {}
  BY <1>1, <1>2, <1>3, <1>4 DEF Running
<1>8. state[current] \in {"TASK_RUNNING", "TASK_STOPPED"}
  BY <1>1
<1>9. /\ kstack'[child] = Trapped[current] /\ sigsp'[child] = sigsp[current]
      /\ \A t \in Tasks \ {child} : kstack'[t] = kstack[t] /\ sigsp'[t] = sigsp[t]
  BY <1>1, <1>4
<1>10. HandlerAboveItsFrame'
  <2>1. OnCpu(kstack'[current'], sigsp'[current'], ctx'[current'])
    BY <1>1, <1>3, <1>4, <1>9 DEF SchedInv, HandlerAboveItsFrame, TypeOK
  <2>2. \A t \in Resumable(state') \ {current'} :
          t = child \/ (t \in Resumable(state) \ {current} /\ t \in Tasks \ {child})
    BY <1>2, <1>4, <1>7, <1>8, TasksAssumption DEF Resumable, Running, Tasks
  <2>3. \A t \in Resumable(state') \ {current'} : Suspended(kstack'[t], sigsp'[t])
    BY <1>5, <1>9, <2>2 DEF SchedInv, HandlerAboveItsFrame
  <2> QED
    BY <2>1, <2>3 DEF HandlerAboveItsFrame
<1>12. StoppedCurrent'
  BY <1>1, <1>2, <1>3, <1>4, <1>7 DEF SchedInv, StoppedCurrent, TypeOK
<1>13. PriorityPositive' /\ CountersBounded'
  <2>1. /\ priority \in [Tasks -> Nat] /\ counter \in [Tasks -> Int]
    BY <1>1 DEF TypeOK
  <2>2. CASE state[current] = "TASK_STOPPED"
    BY <1>7, <2>2 DEF PriorityPositive, CountersBounded
  <2>3. CASE state[current] = "TASK_RUNNING"
    <3>1. /\ current \in Running(state)
          /\ priority[current] \in Nat /\ priority[current] > 0
      BY <1>1, <2>1, <2>3 DEF SchedInv, PriorityPositive, Running
    <3>2. priority'[child] = priority[current] /\ counter'[child] = priority[current]
      BY <1>4, <2>1
    <3>3. \A u \in Tasks \ {child} :
            priority'[u] = priority[u] /\ counter'[u] = counter[u]
      BY <1>4, <2>1
    <3>4. \A u \in Running(state') :
            u = child \/ (u \in Running(state) /\ u \in Tasks \ {child})
      BY <1>2, <1>7, <2>3 DEF Running
    <3>5. \A u \in Running(state) :
            /\ priority[u] \in Nat /\ priority[u] > 0
            /\ 0 <= counter[u] /\ counter[u] <= priority[u]
            /\ u = current => counter[u] > 0
      BY <2>1 DEF SchedInv, PriorityPositive, CountersBounded, Running
    <3>6. \A u \in Running(state') : priority'[u] > 0
      BY <3>1, <3>2, <3>3, <3>4, <3>5
    <3>7. \A u \in Running(state') :
            0 <= counter'[u] /\ counter'[u] <= priority'[u]
      BY <3>1, <3>2, <3>3, <3>4, <3>5
    <3>8. \A u \in Running(state') : u = current' => counter'[u] > 0
      BY <1>3, <1>4, <3>3, <3>4, <3>5
    <3> QED
      BY <3>6, <3>7, <3>8 DEF PriorityPositive, CountersBounded
  <2> QED
    BY <1>8, <2>2, <2>3
<1>14. NumRunningExact'
  <2>1. CASE state[current] = "TASK_RUNNING"
    <3>1. current \in Running(state)
      BY <1>1, <2>1 DEF Running
    <3>2. num_running_task = Cardinality(Running(state))
      BY <3>1 DEF SchedInv, NumRunningExact
    <3>3. Cardinality(Running(state) \cup {child}) = Cardinality(Running(state)) + 1
      BY <1>1, <1>2, RunningCount
    <3> QED
      BY <1>4, <1>7, <2>1, <3>2, <3>3 DEF NumRunningExact
  <2>2. CASE state[current] = "TASK_STOPPED"
    BY <1>7, <2>2 DEF NumRunningExact
  <2> QED
    BY <1>8, <2>1, <2>2
<1> QED
  BY <1>6, <1>10, <1>12, <1>13, <1>14 DEF SchedInv

(* privilege_task_create() keeps the invariant.                            *)
LEMMA PrivilegeTaskCreateInv ==
  ASSUME SchedInv, NEW t \in Tasks, NEW prio \in KthreadPriorities,
         PrivilegeTaskCreate(t, prio)
  PROVE  SchedInv'
<1>1. /\ current \in Tasks /\ TypeOK
      /\ state \in [Tasks -> {"TASK_RUNNING", "TASK_STOPPED"}]
      /\ kstack \in [Tasks -> Seq(Contexts)] /\ sigsp \in [Tasks -> Seq(Nat)]
      /\ priority \in [Tasks -> Nat] /\ counter \in [Tasks -> Int]
  BY DEF SchedInv, TypeOK
<1>0. prio \in Nat /\ prio > 0
  BY PriorityAssumption
<1>2. /\ state[t] = "TASK_STOPPED" /\ state[current] = "TASK_RUNNING"
      /\ t # current /\ t # 0
  BY TasksAssumption DEF PrivilegeTaskCreate, KernelCaller, FindEmptyTask, Tasks
<1>3. /\ state' = [state EXCEPT ![t] = "TASK_RUNNING"]
      /\ priority' = [priority EXCEPT ![t] = prio]
      /\ counter' = [counter EXCEPT ![t] = prio]
      /\ fresh' = [fresh EXCEPT ![t] = TRUE]
      /\ kstack' = [kstack EXCEPT ![t] = <<"main">>]
      /\ num_running_task' = num_running_task + 1
      /\ forks' = forks + 1
      /\ sigsp' = [sigsp EXCEPT ![t] = <<>>]
      /\ UNCHANGED <<pending, process_sig, sighand, sp_backup, ctx, current,
                     fault>>
  BY DEF PrivilegeTaskCreate
<1>4. /\ <<"main">> \in Seq(Contexts) /\ <<>> \in Seq(Nat)
      /\ <<"main">> # <<>> /\ Last(<<"main">>) = "main"
      /\ Suspended(<<"main">>, <<>>)
  BY DEF Contexts, Suspended, FramesFit, Last
<1>5. TypeOK'
  <2>1. /\ state' \in [Tasks -> {"TASK_RUNNING", "TASK_STOPPED"}]
        /\ priority' \in [Tasks -> Nat]
        /\ counter' \in [Tasks -> Int]
    BY <1>0, <1>1, <1>3
  <2>2. /\ kstack' \in [Tasks -> Seq(Contexts)]
        /\ sigsp' \in [Tasks -> Seq(Nat)]
    BY <1>1, <1>3, <1>4
  <2>3. /\ fresh' \in [Tasks -> BOOLEAN]
        /\ num_running_task' \in Int /\ forks' \in Nat
    BY <1>1, <1>3 DEF TypeOK
  <2> QED
    BY <1>1, <1>3, <2>1, <2>2, <2>3 DEF TypeOK
<1>6. Running(state') = Running(state) \cup {t}
  BY <1>1, <1>3 DEF Running
<1>7. /\ kstack'[t] = <<"main">> /\ sigsp'[t] = <<>>
      /\ \A u \in Tasks \ {t} : kstack'[u] = kstack[u] /\ sigsp'[u] = sigsp[u]
  BY <1>1, <1>3
<1>8. HandlerAboveItsFrame'
  <2>1. \A u \in Resumable(state') \ {current'} :
          u = t \/ (u \in Resumable(state) \ {current} /\ u \in Tasks \ {t})
    BY <1>2, <1>3, <1>6, TasksAssumption DEF Resumable, Running, Tasks
  <2> QED
    BY <1>1, <1>2, <1>3, <1>4, <1>7, <2>1, ZenonT(30) DEF SchedInv, HandlerAboveItsFrame
<1>9. StoppedCurrent'
  BY <1>1, <1>2, <1>3 DEF SchedInv, StoppedCurrent, TypeOK
<1>10. PriorityPositive' /\ CountersBounded'
  <2>1. priority'[t] = prio /\ counter'[t] = prio
    BY <1>1, <1>3
  <2>2. \A u \in Tasks \ {t} : priority'[u] = priority[u] /\ counter'[u] = counter[u]
    BY <1>1, <1>3
  <2>3. \A u \in Running(state') :
          u = t \/ (u \in Running(state) /\ u \in Tasks \ {t})
    BY <1>2, <1>6 DEF Running
  <2>4. \A u \in Running(state) :
          /\ priority[u] \in Nat /\ priority[u] > 0
          /\ 0 <= counter[u] /\ counter[u] <= priority[u]
          /\ u = current => counter[u] > 0
    BY <1>1 DEF SchedInv, PriorityPositive, CountersBounded, Running
  <2>5. \A u \in Running(state') : priority'[u] > 0
    BY <1>0, <2>1, <2>2, <2>3, <2>4
  <2>6. \A u \in Running(state') :
          0 <= counter'[u] /\ counter'[u] <= priority'[u]
    BY <1>0, <2>1, <2>2, <2>3, <2>4
  <2>7. \A u \in Running(state') : u = current' => counter'[u] > 0
    BY <1>2, <1>3, <2>2, <2>3, <2>4
  <2> QED
    BY <2>5, <2>6, <2>7 DEF PriorityPositive, CountersBounded
<1>11. NumRunningExact'
  <2>1. num_running_task = Cardinality(Running(state))
    BY <1>1, <1>2 DEF SchedInv, NumRunningExact, Running
  <2>2. Cardinality(Running(state) \cup {t}) = Cardinality(Running(state)) + 1
    BY <1>1, <1>2, RunningCount
  <2> QED
    BY <1>3, <1>6, <2>1, <2>2 DEF NumRunningExact
<1> QED
  BY <1>5, <1>8, <1>9, <1>10, <1>11 DEF SchedInv
(* sys_kill() keeps the invariant: the victim is not the current task.     *)
LEMMA SysKillInv ==
  ASSUME SchedInv, NEW pid \in Tasks, SysKill(pid) PROVE SchedInv'
<1>1. /\ pid # current /\ state[pid] = "TASK_RUNNING"
      /\ state' = [state EXCEPT ![pid] = "TASK_STOPPED"]
      /\ num_running_task' = num_running_task - 1
      /\ UNCHANGED <<priority, counter, fresh, kstack, ctx, current, fault,
                     forks, pending, process_sig, sighand, sp_backup, sigsp>>
  BY DEF SysKill, sigvars
<1>2. TypeOK
  BY DEF SchedInv
<1>3. /\ state' \in [Tasks -> {"TASK_RUNNING", "TASK_STOPPED"}]
      /\ current \in Tasks /\ state'[current] = state[current]
      /\ num_running_task' \in Int
  BY <1>1, <1>2 DEF TypeOK
<1>4. TypeOK'
  BY <1>1, <1>2, <1>3 DEF TypeOK
<1>5. /\ Running(state') = Running(state) \ {pid}
      /\ num_running_task' = Cardinality(Running(state'))
  BY <1>1, StopKeepsCount
<1>6. HandlerAboveItsFrame'
  <2>1. Resumable(state') \subseteq Resumable(state)
    BY <1>5 DEF Resumable
  <2> QED
    BY <1>1, <2>1 DEF SchedInv, HandlerAboveItsFrame
<1>8. StoppedCurrent'
  BY <1>1, <1>3, <1>5 DEF SchedInv, StoppedCurrent
<1>9. PriorityPositive' /\ CountersBounded'
  BY <1>1, <1>5 DEF SchedInv, PriorityPositive, CountersBounded
<1> QED
  BY <1>4, <1>5, <1>6, <1>8, <1>9 DEF SchedInv, NumRunningExact

(* sys_exec() keeps the invariant: the frame it leaves behind is below     *)
(* every frame that will still be used.                                    *)
LEMMA SysExecInv == ASSUME SchedInv, SysExec PROVE SchedInv'
<1>1. /\ kstack' = Trapped
      /\ ctx' = [ctx EXCEPT ![current] = "main"]
      /\ sigsp' = [sigsp EXCEPT ![current] = <<>>]
      /\ ctx[current] \in {"main", "handler"}
      /\ UNCHANGED <<state, priority, counter, pending, process_sig, sighand,
                     sp_backup, fresh, current, num_running_task, fault,
                     forks>>
  BY DEF SysExec, InUser
<1>2. /\ TypeOK /\ current \in Tasks
      /\ sigsp \in [Tasks -> Seq(Nat)] /\ ctx \in [Tasks -> Contexts]
  BY DEF SchedInv, TypeOK
<1>3. /\ Trapped \in [Tasks -> Seq(Contexts)]
      /\ \A t \in Tasks \ {current} : Trapped[t] = kstack[t]
  BY TrappedSuspends
<1>4. /\ sigsp' \in [Tasks -> Seq(Nat)] /\ sigsp'[current] = <<>>
      /\ \A t \in Tasks \ {current} : sigsp'[t] = sigsp[t]
  BY <1>1, <1>2
<1>5. ctx' \in [Tasks -> Contexts] /\ ctx'[current] = "main"
  BY <1>1, <1>2 DEF Contexts
<1>6. TypeOK'
  BY <1>1, <1>2, <1>3, <1>4, <1>5 DEF TypeOK
<1>7. HandlerAboveItsFrame'
  <2>1. OnCpu(Trapped[current], <<>>, "main")
    BY DEF OnCpu, FramesFit
  <2>2. Resumable(state) \subseteq Tasks
    BY TasksAssumption DEF Resumable, Running, Tasks
  <2> QED
    BY <1>1, <1>3, <1>4, <1>5, <2>1, <2>2 DEF SchedInv, HandlerAboveItsFrame
<1>8. StoppedCurrent'
  BY <1>1 DEF SchedInv, StoppedCurrent
<1>9. PriorityPositive' /\ CountersBounded' /\ NumRunningExact'
  BY <1>1 DEF SchedInv, PriorityPositive, CountersBounded, NumRunningExact
<1> QED
  BY <1>6, <1>7, <1>8, <1>9 DEF SchedInv

(* sys_signal() keeps the invariant.                                       *)
LEMMA SysSignalInv ==
  ASSUME SchedInv, NEW s \in Signals, SysSignal(s) PROVE SchedInv'
<1>1. /\ sighand' = [sighand EXCEPT ![current][s] = "user"]
      /\ UNCHANGED <<state, priority, counter, pending, process_sig, sp_backup,
                     fresh, kstack, ctx, current, num_running_task, fault,
                     sigsp, forks>>
  BY DEF SysSignal
<1>2. TypeOK'
  BY <1>1 DEF SchedInv, TypeOK
<1> QED
  BY <1>1, <1>2 DEF SchedInv, HandlerAboveItsFrame, StoppedCurrent, PriorityPositive, CountersBounded,
       NumRunningExact

(* sys_sigkill() keeps the invariant: the signal is for another task.      *)
LEMMA SysSigkillInv ==
  ASSUME SchedInv, NEW pid \in Tasks, NEW s \in Signals \cup {0},
         SysSigkill(pid, s)
  PROVE  SchedInv'
<1>1. /\ pid # current
      /\ pending' = [pending EXCEPT ![pid] = s]
      /\ UNCHANGED <<state, priority, counter, process_sig, sighand, sp_backup,
                     fresh, kstack, ctx, current, num_running_task, fault,
                     sigsp, forks>>
  BY DEF SysSigkill
<1>2. TypeOK'
  BY <1>1 DEF SchedInv, TypeOK
<1> QED
  BY <1>1, <1>2 DEF SchedInv, HandlerAboveItsFrame,
       StoppedCurrent, PriorityPositive, CountersBounded, NumRunningExact

(* The steps that stop or break the kernel leave the tasks as they are.    *)
LEMMA FaultInv ==
  ASSUME SchedInv, SysForkFull \/ SysSigreturnStale \/ HandlerFaults
  PROVE  SchedInv'
<1>1. /\ fault' \in {"no", "task_pool", "kstack", "abort"}
      /\ UNCHANGED <<state, priority, counter, fresh, kstack, ctx, current,
                     num_running_task, forks, pending, process_sig, sighand,
                     sp_backup, sigsp>>
  BY DEF SysForkFull, SysSigreturnStale, HandlerFaults, sigvars
<1>2. TypeOK'
  BY <1>1 DEF SchedInv, TypeOK
<1> QED
  BY <1>1, <1>2 DEF SchedInv, HandlerAboveItsFrame, StoppedCurrent, PriorityPositive, CountersBounded,
       NumRunningExact

(* sys_sigreturn() keeps the invariant, whether it delivers the next       *)
(* signal, finds task 0 stopped or resumes the interrupted code.           *)
LEMMA SysSigreturnInv ==
  ASSUME SchedInv, SysSigreturn PROVE SchedInv' /\ SwitchLands
<1> DEFINE f == kstack[current]
           g == sigsp[current]
           sg == [sigsp EXCEPT ![current] = Front(sigsp[current])]
<1>1. /\ TypeOK /\ current \in Tasks
      /\ state \in [Tasks -> {"TASK_RUNNING", "TASK_STOPPED"}]
      /\ counter \in [Tasks -> Int]
      /\ kstack \in [Tasks -> Seq(Contexts)] /\ sigsp \in [Tasks -> Seq(Nat)]
      /\ ctx \in [Tasks -> Contexts] /\ pending \in [Tasks -> Signals \cup {0}]
      /\ OnCpu(f, g, ctx[current])
  BY DEF SchedInv, TypeOK, HandlerAboveItsFrame
<1>2. /\ ctx[current] = "handler"
      /\ sp_backup[current] = <<current, Last(g)>>
  BY DEF SysSigreturn, InHandler
<1>3. /\ SubSeq(f, 1, Last(g)) = f
      /\ Front(g) \in Seq(Nat)
      /\ Suspended(f, Front(g))
      /\ f \in Seq(Contexts)
  <2>1. f \in Seq(Contexts) /\ g \in Seq(Nat) /\ ctx[current] \in Contexts
    BY <1>1
  <2> QED
    BY <1>1, <1>2, <2>1, SigreturnSuspends
<1>4. [kstack EXCEPT ![current] = SubSeq(kstack[current], 1, sp_backup[current][2])]
        = kstack
  BY <1>1, <1>2, <1>3
<1>5. /\ UNCHANGED <<state, priority, sighand, num_running_task, fault, forks>>
      /\ \/ /\ pending[current] # 0
            /\ Deliver(current, kstack, sg)
            /\ UNCHANGED <<counter, current, fresh>>
         \/ /\ pending[current] = 0 /\ state[current] = "TASK_STOPPED"
            /\ Schedule(state, counter, kstack, sg)
         \/ /\ pending[current] = 0 /\ state[current] # "TASK_STOPPED"
            /\ ReturnToUser(current, kstack, sg)
            /\ UNCHANGED <<counter, current, fresh>>
  BY <1>4 DEF SysSigreturn
<1>6. /\ sg \in [Tasks -> Seq(Nat)] /\ sg[current] = Front(g)
      /\ \A u \in Tasks \ {current} : sg[u] = sigsp[u]
  BY <1>1, <1>3
<1>7. Resumable(state) \subseteq Tasks
  BY TasksAssumption DEF Resumable, Running, Tasks
<1>8. CASE /\ pending[current] # 0
           /\ Deliver(current, kstack, sg)
           /\ UNCHANGED <<counter, current, fresh>>
  <2>1. /\ process_sig' = [process_sig EXCEPT ![current] = pending[current]]
        /\ pending' = [pending EXCEPT ![current] = 0]
        /\ sp_backup' = [sp_backup EXCEPT ![current] = <<current, Len(f)>>]
        /\ sigsp' = [sg EXCEPT ![current] = Append(sg[current], Len(f))]
        /\ kstack' = kstack
    BY <1>8 DEF Deliver
  <2>2. PICK c \in {"default", "handler"} : ctx' = [ctx EXCEPT ![current] = c]
    BY <1>8 DEF Deliver
  <2>3. c \in Contexts
    BY DEF Contexts
  <2>4. /\ Append(Front(g), Len(f)) \in Seq(Nat)
        /\ OnCpu(f, Append(Front(g), Len(f)), c)
    BY <1>3, <2>3, DeliverResumes
  <2>5. /\ sigsp' \in [Tasks -> Seq(Nat)]
        /\ sigsp'[current] = Append(Front(g), Len(f))
        /\ \A u \in Tasks \ {current} : sigsp'[u] = sigsp[u]
    BY <1>1, <1>6, <2>1, <2>4
  <2>6. /\ ctx' \in [Tasks -> Contexts] /\ ctx'[current] = c
        /\ pending' \in [Tasks -> Signals \cup {0}] /\ pending'[current] = 0
    BY <1>1, <2>1, <2>2, <2>3
  <2>7. Len(f) \in Nat
    BY <1>3
  <2>8. /\ process_sig' \in [Tasks -> Signals \cup {0}]
        /\ sp_backup' \in [Tasks -> Tasks \X Nat]
    BY <1>1, <2>1, <2>7 DEF TypeOK
  <2>9. TypeOK'
    BY <1>1, <1>5, <1>8, <2>1, <2>5, <2>6, <2>8 DEF TypeOK
  <2>10. HandlerAboveItsFrame'
    BY <1>5, <1>7, <1>8, <2>1, <2>4, <2>5, <2>6
       DEF SchedInv, HandlerAboveItsFrame
  <2>12. StoppedCurrent'
    BY <1>5, <1>8 DEF SchedInv, StoppedCurrent
  <2>13. PriorityPositive' /\ CountersBounded' /\ NumRunningExact'
    BY <1>5, <1>8 DEF SchedInv, PriorityPositive, CountersBounded, NumRunningExact
  <2> QED
    BY <1>8, <2>9, <2>10, <2>12, <2>13 DEF SchedInv, SwitchLands
<1>9. CASE /\ pending[current] = 0 /\ state[current] = "TASK_STOPPED"
           /\ Schedule(state, counter, kstack, sg)
  <2>1. \A u \in Resumable(state) \cup {current} : Suspended(kstack[u], sg[u])
    BY <1>3, <1>6, <1>7 DEF SchedInv, HandlerAboveItsFrame
  <2>2. \A u \in Running(state) :
          0 <= counter[u] /\ counter[u] <= priority[u] /\ priority[u] > 0
    BY DEF SchedInv, CountersBounded, PriorityPositive
  <2> HIDE DEF sg
  <2>4. ScheduleReady(state, counter, kstack, sg)
    BY <1>1, <1>6, <1>9, <2>1, <2>2 DEF ScheduleReady
  <2>5. /\ num_running_task' \in Int
        /\ Running(state) # {} => num_running_task' = Cardinality(Running(state))
    BY <1>1, <1>5 DEF SchedInv, TypeOK, NumRunningExact
  <2> QED
    BY <1>5, <1>9, <2>4, <2>5, ScheduleKeepsInv
<1>10. CASE /\ pending[current] = 0 /\ state[current] # "TASK_STOPPED"
            /\ ReturnToUser(current, kstack, sg)
            /\ UNCHANGED <<counter, current, fresh>>
  <2>1. /\ ctx' = [ctx EXCEPT ![current] = Last(f)]
        /\ kstack' = [kstack EXCEPT ![current] = Front(f)]
        /\ sigsp' = sg
        /\ UNCHANGED <<pending, process_sig, sp_backup>>
    BY <1>10 DEF ReturnToUser
  <2>2. f # <<>>
    BY <1>3 DEF Suspended
  <2>3. Front(f) \in Seq(Contexts) /\ Last(f) \in Contexts
    BY <1>3, <2>2, FrontLast
  <2>4. OnCpu(Front(f), Front(g), Last(f))
    BY <1>3, UnwindResumes
  <2>5. /\ ctx' \in [Tasks -> Contexts] /\ ctx'[current] = Last(f)
        /\ kstack' \in [Tasks -> Seq(Contexts)] /\ kstack'[current] = Front(f)
        /\ \A u \in Tasks \ {current} : kstack'[u] = kstack[u]
    BY <1>1, <2>1, <2>3
  <2> HIDE DEF sg
  <2>6. TypeOK'
    BY <1>1, <1>5, <1>6, <1>10, <2>1, <2>5 DEF TypeOK
  <2>7. HandlerAboveItsFrame'
    BY <1>5, <1>6, <1>7, <1>10, <2>1, <2>4, <2>5
       DEF SchedInv, HandlerAboveItsFrame
  <2>9. StoppedCurrent'
    BY <1>5, <1>10 DEF StoppedCurrent
  <2>10. PriorityPositive' /\ CountersBounded' /\ NumRunningExact'
    BY <1>5, <1>10 DEF SchedInv, PriorityPositive, CountersBounded, NumRunningExact
  <2> QED
    BY <1>10, <2>6, <2>7, <2>9, <2>10 DEF SchedInv, SwitchLands
<1> QED
  BY <1>5, <1>8, <1>9, <1>10

(* Every step of the kernel keeps the invariant.                           *)
LEMMA NextInv == ASSUME SchedInv, [Next]_vars PROVE SchedInv'
<1>1. CASE DoTimer
  BY <1>1, DoTimerInv
<1>2. CASE HandlerFaults
  BY <1>2, FaultInv
<1>3. ASSUME NEW t \in Tasks, SysFork(t) PROVE SchedInv'
  BY <1>3, SysForkInv
<1>4. ASSUME NEW t \in Tasks, SysKill(t) PROVE SchedInv'
  BY <1>4, SysKillInv
<1>5. ASSUME NEW t \in Tasks, NEW prio \in KthreadPriorities,
             PrivilegeTaskCreate(t, prio)
      PROVE  SchedInv'
  BY <1>5, PrivilegeTaskCreateInv
<1>6. ASSUME NEW t \in Tasks, NEW s \in Signals \cup {0}, SysSigkill(t, s)
      PROVE  SchedInv'
  BY <1>6, SysSigkillInv
<1>7. ASSUME NEW s \in Signals, SysSignal(s) PROVE SchedInv'
  BY <1>7, SysSignalInv
<1>8. CASE SysForkFull \/ SysSigreturnStale
  BY <1>8, FaultInv
<1>9. CASE SysExit
  BY <1>9, SysExitInv
<1>10. CASE SysExec
  BY <1>10, SysExecInv
<1>11. CASE SysSigreturn
  BY <1>11, SysSigreturnInv
<1>12. CASE UNCHANGED vars
  BY <1>12 DEF vars, SchedInv, TypeOK, HandlerAboveItsFrame, StoppedCurrent, PriorityPositive, CountersBounded,
       NumRunningExact
<1> QED
  BY <1>1, <1>2, <1>3, <1>4, <1>5, <1>6, <1>7, <1>8, <1>9, <1>10, <1>11,
     <1>12 DEF Next, Syscall

(* Every step that moves the CPU moves it to a running task.               *)
LEMMA NextSwitches == ASSUME SchedInv, [Next]_vars PROVE SwitchLands
<1>1. CASE DoTimer
  BY <1>1, DoTimerInv
<1>2. CASE SysExit
  BY <1>2, SysExitInv
<1>3. CASE SysSigreturn
  BY <1>3, SysSigreturnInv
<1>4. CASE current' = current
  BY <1>4 DEF SwitchLands
<1>5. current' = current \/ DoTimer \/ SysExit \/ SysSigreturn
  BY DEF Next, Syscall, HandlerFaults, SysFork, SysKill, PrivilegeTaskCreate,
         SysSigkill, SysSignal, SysForkFull, SysExec, SysSigreturnStale, vars
<1> QED
  BY <1>1, <1>2, <1>3, <1>4, <1>5

------------------------------------------------------------------------------
(* Stale values of sp_backup                                               *)

(* sp_backup of a task, whosever stack it points at, is not below the      *)
(* depth of the innermost handler: it was saved for that handler or for    *)
(* one that was entered later.                                             *)
BackupAbove(sp, sg) ==
  \A t \in Tasks : sg[t] # <<>> => sp[t][2] >= Last(sg[t])

(* A delivery and a return to user code keep sp_backup above the handlers. *)
LEMMA ResumeKeepsBackup ==
  ASSUME TypeOK, NEW t \in Tasks, NEW ks, NEW sg,
         ks \in [Tasks -> Seq(Contexts)], sg \in [Tasks -> Seq(Nat)],
         BackupAbove(sp_backup, sg),
         Deliver(t, ks, sg) \/ ReturnToUser(t, ks, sg)
  PROVE  BackupAbove(sp_backup', sigsp')
<1>1. CASE Deliver(t, ks, sg)
  <2>1. /\ sp_backup' = [sp_backup EXCEPT ![t] = <<t, Len(ks[t])>>]
        /\ sigsp' = [sg EXCEPT ![t] = Append(sg[t], Len(ks[t]))]
    BY <1>1 DEF Deliver
  <2>2. sp_backup \in [Tasks -> Tasks \X Nat] /\ Len(ks[t]) \in Nat
    <3>1. ks[t] \in Seq(Contexts)
      OBVIOUS
    <3> QED
      BY <3>1, LenProperties DEF TypeOK
  <2>3. sp_backup'[t][2] = Len(ks[t]) /\ sigsp'[t] = Append(sg[t], Len(ks[t]))
    BY <2>1, <2>2
  <2>4. Last(sigsp'[t]) = Len(ks[t])
    BY <2>2, <2>3 DEF Last
  <2>5. \A u \in Tasks \ {t} : sp_backup'[u] = sp_backup[u] /\ sigsp'[u] = sg[u]
    BY <2>1, <2>2
  <2>6. Len(ks[t]) >= Len(ks[t])
    BY <2>2
  <2>7. ASSUME NEW u \in Tasks, sigsp'[u] # <<>>
        PROVE  sp_backup'[u][2] >= Last(sigsp'[u])
    <3>1. CASE u = t
      BY <3>1, <2>3, <2>4, <2>6
    <3>2. CASE u # t
      <4>1. sp_backup'[u] = sp_backup[u] /\ sigsp'[u] = sg[u]
        BY <2>5, <3>2
      <4> QED
        BY <2>7, <4>1 DEF BackupAbove
    <3> QED
      BY <3>1, <3>2
  <2> QED
    BY <2>7 DEF BackupAbove
<1>2. CASE ReturnToUser(t, ks, sg)
  BY <1>2 DEF ReturnToUser
<1> QED
  BY <1>1, <1>2

(* schedule() keeps sp_backup above the handlers, whomever it chooses.     *)
LEMMA ScheduleKeepsBackup ==
  ASSUME TypeOK, NEW st, NEW cnt, NEW ks, NEW sg,
         ks \in [Tasks -> Seq(Contexts)], sg \in [Tasks -> Seq(Nat)],
         BackupAbove(sp_backup, sg), Schedule(st, cnt, ks, sg)
  PROVE  BackupAbove(sp_backup', sigsp')
<1>1. PICK next \in Tasks : Deliver(next, ks, sg) \/ ReturnToUser(next, ks, sg)
  BY DEF Schedule
<1> QED
  BY <1>1, ResumeKeepsBackup

(* sys_sigreturn() leaves the innermost handler: the one below it was      *)
(* entered at a smaller depth.                                             *)
LEMMA SysSigreturnKeepsBackup ==
  ASSUME SchedInv, BackupAbove(sp_backup, sigsp), SysSigreturn
  PROVE  BackupAbove(sp_backup', sigsp')
<1> DEFINE ks == [kstack EXCEPT ![current] = SubSeq(@, 1, sp_backup[current][2])]
           g == sigsp[current]
           sg == [sigsp EXCEPT ![current] = Front(@)]
<1>1. /\ TypeOK /\ current \in Tasks
      /\ kstack \in [Tasks -> Seq(Contexts)] /\ sigsp \in [Tasks -> Seq(Nat)]
      /\ g \in Seq(Nat)
      /\ OnCpu(kstack[current], g, ctx[current])
  BY DEF SchedInv, TypeOK, HandlerAboveItsFrame
<1>2. g # <<>> /\ sp_backup[current] = <<current, Last(g)>>
      /\ ctx[current] # "main"
  BY DEF SysSigreturn, InHandler
<1>3. /\ Front(g) \in Seq(Nat)
      /\ Len(Front(g)) = Len(g) - 1
      /\ \A j \in 1 .. Len(g) - 1 : Front(g)[j] = g[j]
      /\ Len(g) \in Nat \ {0}
  BY <1>1, <1>2, FrontLast
<1>4. SubSeq(kstack[current], 1, Last(g)) = kstack[current]
  <2>1. kstack[current] \in Seq(Contexts) /\ ctx[current] \in Contexts
    BY <1>1 DEF TypeOK
  <2> QED
    BY <1>1, <1>2, <2>1, SigreturnSuspends
<1>5. ks \in [Tasks -> Seq(Contexts)] /\ sg \in [Tasks -> Seq(Nat)]
  <2>1. sp_backup[current][2] = Last(g)
    BY <1>2
  <2>2. ks = kstack
    BY <1>1, <1>4, <2>1
  <2> QED
    BY <1>1, <1>3, <2>2
<1>6. Front(g) # <<>> => Last(Front(g)) < Last(g)
  <2> SUFFICES ASSUME Front(g) # <<>> PROVE Last(Front(g)) < Last(g)
    OBVIOUS
  <2>1. Len(g) - 1 \in 1 .. Len(g) - 1 /\ Len(g) \in 1 .. Len(g)
    BY <1>3
  <2>2. g[Len(g) - 1] < g[Len(g)]
    BY <1>1, <2>1 DEF OnCpu, FramesFit
  <2> QED
    BY <1>3, <2>1, <2>2 DEF Last
<1>7. BackupAbove(sp_backup, sg)
  <2>1. sg[current] = Front(g) /\ \A u \in Tasks \ {current} : sg[u] = sigsp[u]
    BY <1>1
  <2>2. sp_backup[current][2] = Last(g)
    BY <1>2
  <2> Last(g) \in Nat
    <3> HIDE DEF g
    <3> QED
      BY <1>1, <1>2, FrontLast
  <2>3. Front(g) # <<>> => Last(Front(g)) \in Nat
    BY <1>3, FrontLast
  <2>4. Front(g) # <<>> => sp_backup[current][2] >= Last(Front(g))
    BY <1>6, <2>2, <2>3
  <2> QED
    BY <2>1, <2>4 DEF BackupAbove
<1>8. \/ Deliver(current, ks, sg)
      \/ Schedule(state, counter, ks, sg)
      \/ ReturnToUser(current, ks, sg)
  BY DEF SysSigreturn
<1> HIDE DEF ks, sg
<1> QED
  BY <1>1, <1>5, <1>7, <1>8, ResumeKeepsBackup, ScheduleKeepsBackup

(* Every step keeps sp_backup above the depth of the innermost handler.    *)
LEMMA NextKeepsBackup ==
  ASSUME SchedInv, BackupAbove(sp_backup, sigsp), [Next]_vars
  PROVE  BackupAbove(sp_backup', sigsp')
<1>1. /\ TypeOK /\ current \in Tasks
      /\ sp_backup \in [Tasks -> Tasks \X Nat] /\ sigsp \in [Tasks -> Seq(Nat)]
  BY DEF SchedInv, TypeOK
<1>2. ASSUME NEW st, NEW cnt, Schedule(st, cnt, Trapped, sigsp)
      PROVE  BackupAbove(sp_backup', sigsp')
  BY <1>1, <1>2, ScheduleKeepsBackup, TrappedSuspends
<1>3. CASE DoTimer
  <2>1. \/ UNCHANGED <<sp_backup, sigsp>>
        \/ \E cnt : Schedule(state, cnt, Trapped, sigsp)
    BY <1>3 DEF DoTimer
  <2> QED
    BY <1>2, <2>1
<1>4. CASE SysExit
  BY <1>2, <1>4 DEF SysExit
<1>5. ASSUME NEW child \in Tasks, SysFork(child)
      PROVE  BackupAbove(sp_backup', sigsp')
  BY <1>1, <1>5 DEF SysFork, BackupAbove
<1>6. ASSUME NEW t \in Tasks, NEW prio \in KthreadPriorities,
             PrivilegeTaskCreate(t, prio)
      PROVE  BackupAbove(sp_backup', sigsp')
  BY <1>1, <1>6 DEF PrivilegeTaskCreate, BackupAbove
<1>7. CASE SysExec
  BY <1>1, <1>7 DEF SysExec, BackupAbove
<1>8. CASE SysSigreturn
  BY <1>8, SysSigreturnKeepsBackup
<1>9. CASE UNCHANGED <<sp_backup, sigsp>>
  BY <1>9
<1>10. \/ UNCHANGED <<sp_backup, sigsp>>
       \/ DoTimer \/ SysExit \/ SysExec \/ SysSigreturn
       \/ \E t \in Tasks : SysFork(t)
       \/ \E t \in Tasks, prio \in KthreadPriorities :
            PrivilegeTaskCreate(t, prio)
  BY DEF Next, Syscall, HandlerFaults, SysKill, SysSigkill, SysSignal,
         SysForkFull, SysSigreturnStale, vars, sigvars
<1> QED
  BY <1>3, <1>4, <1>5, <1>6, <1>7, <1>8, <1>9, <1>10

------------------------------------------------------------------------------
(* Theorems                                                                *)

(* The invariant holds throughout every behaviour of the scheduler.        *)
THEOREM Invariance == Spec => []SchedInv
<1>1. Init => SchedInv
  BY InitInv
<1>2. SchedInv /\ [Next]_vars => SchedInv'
  BY NextInv
<1> QED
  BY <1>1, <1>2, PTL DEF Spec

(* The fields of struct task_struct and the kernel stacks keep their types *)
(* for any number of tasks, signals and trap frames.                       *)
THEOREM TypeCorrect == Spec => []TypeOK
<1>1. SchedInv => TypeOK
  BY DEF SchedInv
<1> QED
  BY <1>1, Invariance, PTL

(* num_running_task is exact for as long as a task is running, whatever    *)
(* the order of forks, exits and kills.                                    *)
THEOREM CountIsExact == Spec => []NumRunningExact
<1>1. SchedInv => NumRunningExact
  BY DEF SchedInv
<1> QED
  BY <1>1, Invariance, PTL

(* The counters of running tasks stay between 0 and the task's priority    *)
(* for any priorities.                                                     *)
THEOREM CountersStayBounded == Spec => []CountersBounded
<1>1. SchedInv => CountersBounded
  BY DEF SchedInv
<1> QED
  BY <1>1, Invariance, PTL

(* The trap frames that signal handlers interrupted survive, at any depth  *)
(* of nesting and through preemption, fork and exec.                       *)
THEOREM FramesSurvive == Spec => []HandlerAboveItsFrame
<1>1. SchedInv => HandlerAboveItsFrame
  BY DEF SchedInv
<1> QED
  BY <1>1, Invariance, PTL

(* schedule() never hands the CPU to a stopped task while a task is        *)
(* running, for any number of tasks.                                       *)
THEOREM SwitchesToRunning == Spec => NeverSwitchToStopped
<1>1. SchedInv /\ [Next]_vars => [SwitchLands]_vars
  BY NextSwitches
<1> QED
  BY <1>1, Invariance, PTL DEF Spec, NeverSwitchToStopped

(* However stale sp_backup is, after any nesting of signals and forks in   *)
(* handlers, sys_sigreturn() does not cut its task's stack below the frame *)
(* that the returning handler interrupted.                                 *)
THEOREM NeverSkipsFrame == Spec => []NoFrameSkipped
<1> DEFINE Above == BackupAbove(sp_backup, sigsp)
<1>1. Init => Above
  BY DEF Init, BackupAbove
<1>2. SchedInv /\ Above /\ [Next]_vars => Above'
  BY NextKeepsBackup
<1>3. Above => NoFrameSkipped
  BY DEF BackupAbove, NoFrameSkipped
<1> HIDE DEF Above
<1> QED
  BY <1>1, <1>2, <1>3, Invariance, PTL DEF Spec
==============================================================================
