-------------------------- MODULE ThreadPoolProofs --------------------------
(***************************************************************************)
(* Theorems about ThreadPool, for any number of threads, tasks and starts, *)
(* whether pthread_create fails or not: a task runs once, the queue keeps  *)
(* its bound, no wakeup is lost, a destroyed pool has no thread left, and  *)
(* the pool implements TaskQueue.                                          *)
(***************************************************************************)
EXTENDS ThreadPool, SequenceTheorems, FiniteSetTheorems, TLAPS

USE NoTaskAssumption, PoolSizeAssumption, LimitAssumption, StartsAssumption

(***************************************************************************)
(* The inductive invariant.                                                *)
(***************************************************************************)

\* The threads are numbered as they are created, and there is room in Thread
\* for those that a start has still to create.
ThreadsInv ==
    /\ \A n \in 1..Len(m_threads) : m_threads[n] = n
    /\ \A t \in Thread : pc[t] = "none" <=> t > Len(m_threads)
    /\ Len(m_threads) <= m_pool_size * starts
    /\ main = "create" => Len(m_threads) + (m_pool_size - i) <= m_pool_size * starts

\* The queue holds accepted tasks that nobody has taken, none of them twice.
QueueInv ==
    /\ taken \subseteq accepted
    /\ \A n \in 1..Len(m_tasks) : m_tasks[n] \in accepted \ taken
    /\ \A m, n \in 1..Len(m_tasks) : m_tasks[m] = m_tasks[n] => m = n

\* A worker holds a task while it runs it, and a task that was taken is held
\* by one worker or has run once.
HeldInv == \A t \in Thread : task[t] # NoTask <=> pc[t] = "run"

OnceInv ==
    \A k \in Task :
        /\ k \notin taken => ran[k] = 0 /\ \A t \in Thread : task[t] # k
        /\ k \in taken =>
              \/ ran[k] = 1 /\ \A t \in Thread : task[t] # k
              \/ ran[k] = 0 /\ \E t \in Thread : \A s \in Thread : task[s] = k <=> s = t

\* After the first broadcast of a stop nobody waits, for a worker that finds
\* the pool stopped exits; and the flag of the mutex stays clear.
StopInv ==
    /\ main \in {"broadcast", "join"} => m_pool_state = "STOPPED"
    /\ main = "create" => m_pool_state = "STARTED"
    /\ m_pool_state = "STOPPED" => ~is_locked
    /\ m_pool_state = "STOPPED" /\ main # "broadcast" => \A t \in Thread : pc[t] # "waiting"

\* In the life of the first start, the threads joined are the first i.
JoinInv ==
    /\ starts = 0 => m_pool_state = "NEW"
    /\ starts <= 1 =>
          /\ m_pool_state # "STOPPED" \/ main = "broadcast" => joined = {}
          /\ main = "join" => joined = 1..i /\ \A t \in Thread : t <= i => pc[t] = "exited"
          /\ Destroyed => \A t \in Thread : t <= m_pool_size => pc[t] = "exited"

IInv ==
    /\ TypeOK /\ ThreadsInv /\ QueueInv /\ HeldInv /\ OnceInv /\ StopInv /\ JoinInv
    /\ QueueBounded /\ NoLostWakeup

-----------------------------------------------------------------------------
(***************************************************************************)
(* Types, and the threads that exist.                                      *)
(***************************************************************************)

LEMMA Products ==
    ASSUME NEW s \in Nat, s < MaxStarts
    PROVE  /\ m_pool_size * s \in Nat
           /\ m_pool_size * (s + 1) = m_pool_size * s + m_pool_size
           /\ m_pool_size * (s + 1) <= m_pool_size * MaxStarts
<1>1. m_pool_size * s \in Nat /\ m_pool_size * (s + 1) = m_pool_size * s + m_pool_size
  OBVIOUS
<1>2. PICK d \in Nat : MaxStarts = (s + 1) + d
  <2>1. MaxStarts - (s + 1) \in Nat
    OBVIOUS
  <2> QED
    BY <2>1
<1>3. m_pool_size * ((s + 1) + d) = m_pool_size * (s + 1) + m_pool_size * d /\ m_pool_size * d >= 0
  OBVIOUS
<1> QED
  BY <1>1, <1>2, <1>3

LEMMA ThreadIsNat == m_pool_size * MaxStarts \in Nat /\ Thread \subseteq Nat \ {0}
<1>1. m_pool_size * MaxStarts \in Nat
  OBVIOUS
<1> QED
  BY <1>1 DEF Thread

\* The next thread to be created is one of Thread, and does not exist yet.
LEMMA NextThread ==
    ASSUME TypeOK, ThreadsInv, main = "create", i < m_pool_size
    PROVE  /\ Len(m_threads) + 1 \in Thread
           /\ pc[Len(m_threads) + 1] = "none"
<1>1. Len(m_threads) \in Nat /\ i \in Nat /\ starts \in Nat
  BY DEF TypeOK
<1>2. Len(m_threads) + 1 <= m_pool_size * starts
  BY <1>1 DEF ThreadsInv
<1>3. starts # 0
  BY <1>1, <1>2
<1>4. PICK s \in Nat : starts = s + 1 /\ s < MaxStarts
  <2>1. starts - 1 \in Nat /\ starts <= MaxStarts
    BY <1>1, <1>3 DEF TypeOK
  <2> QED
    BY <1>1, <2>1
<1>5. m_pool_size * starts <= m_pool_size * MaxStarts
  BY <1>4, Products
<1>6. Len(m_threads) + 1 \in Thread
  BY <1>1, <1>2, <1>5, <1>4, ThreadIsNat DEF Thread
<1> QED
  BY <1>1, <1>6 DEF ThreadsInv

LEMMA TypeInit == Init => TypeOK
<1> SUFFICES ASSUME Init
             PROVE  TypeOK
  OBVIOUS
<1>1. <<>> \in Seq(Thread) /\ <<>> \in Seq(Task)
  BY EmptySeq
<1>2. m_threads \in Seq(Thread) /\ m_tasks \in Seq(Task)
  BY <1>1 DEF Init
<1>3. is_locked \in BOOLEAN /\ joined \subseteq Thread
      /\ accepted \subseteq Task /\ taken \subseteq Task /\ rejected \subseteq Task
  BY DEF Init
<1>4. i \in 0..m_pool_size /\ starts \in 0..MaxStarts
  BY DEF Init
<1>5. /\ pc \in [Thread -> {"none", "lock", "waiting", "woken", "run", "exited"}]
      /\ task \in [Thread -> Task \cup {NoTask}]
      /\ ran \in [Task -> Nat]
  BY DEF Init
<1> QED
  BY <1>2, <1>3, <1>4, <1>5 DEF Init, TypeOK

LEMMA MainType ==
    ASSUME TypeOK, ThreadsInv, Main
    PROVE  TypeOK'
<1>1. CASE start_threadpool
  BY <1>1 DEF start_threadpool, TypeOK, worker, hist
<1>2. CASE PthreadCreate
  <2>1. Len(m_threads) + 1 \in Thread
    BY <1>2, NextThread DEF PthreadCreate
  <2>2. Append(m_threads, Len(m_threads) + 1) \in Seq(Thread)
    BY <2>1, AppendProperties DEF TypeOK
  <2> QED
    BY <1>2, <2>1, <2>2 DEF PthreadCreate, TypeOK, hist
<1>3. CASE PthreadCreateFails \/ StartReturns \/ DestroyReturns
  BY <1>3 DEF PthreadCreateFails, StartReturns, DestroyReturns, TypeOK, pool, worker, hist
<1>4. CASE destroy_threadpool
  BY <1>4 DEF destroy_threadpool, TypeOK, worker, hist
<1>5. CASE Broadcast
  BY <1>5 DEF Broadcast, WakeAll, TypeOK, pool, hist
<1>6. CASE PthreadJoin
  <2>1. m_threads[i + 1] \in Thread
    BY <1>6, ElementOfSeq DEF PthreadJoin, Joinable, TypeOK
  <2> QED
    BY <1>6, <2>1 DEF PthreadJoin, WakeAll, TypeOK, pool, hist
<1>7. CASE PthreadJoinUndefined
  BY <1>7 DEF PthreadJoinUndefined, WakeAll, TypeOK, pool, hist
<1> QED
  BY <1>1, <1>2, <1>3, <1>4, <1>5, <1>6, <1>7 DEF Main

LEMMA WorkerType ==
    ASSUME TypeOK, HeldInv, NEW t \in Thread, execute_thread(t) \/ SpuriousWakeup(t)
    PROVE  TypeOK'
<1>1. CASE Wait(t)
  BY <1>1 DEF Wait, TypeOK, mainVars, hist
<1>2. CASE Exit(t)
  BY <1>2 DEF Exit, TypeOK, mainVars, hist
<1>3. CASE TakeTask(t)
  <2>1. Head(m_tasks) \in Task /\ Tail(m_tasks) \in Seq(Task)
    BY <1>3, HeadTailProperties DEF TakeTask, TypeOK
  <2> QED
    BY <1>3, <2>1 DEF TakeTask, TypeOK, mainVars
<1>4. CASE RunTask(t)
  <2>1. task[t] \in Task
    BY <1>4 DEF RunTask, HeldInv, TypeOK
  <2> QED
    BY <1>4, <2>1 DEF RunTask, TypeOK, pool, mainVars
<1>5. CASE SpuriousWakeup(t)
  BY <1>5 DEF SpuriousWakeup, TypeOK, pool, mainVars, hist
<1> QED
  BY <1>1, <1>2, <1>3, <1>4, <1>5 DEF execute_thread

\* A signal wakes one of those who wait, if there is one.
LEMMA SignalFacts ==
    ASSUME TypeOK, Signal
    PROVE  /\ pc' \in [Thread -> {"none", "lock", "waiting", "woken", "run", "exited"}]
           /\ \A t \in Thread : pc'[t] = pc[t] \/ (pc[t] = "waiting" /\ pc'[t] = "woken")
BY DEF Signal, Waiting, TypeOK

LEMMA AddType ==
    ASSUME TypeOK, NEW k \in Task, add_task(k)
    PROVE  TypeOK'
<1>1. CASE Refuse(k)
  BY <1>1 DEF Refuse, add_task, TypeOK, mainVars
<1>2. CASE Accept(k)
  <2>1. Append(m_tasks, k) \in Seq(Task)
    BY AppendProperties DEF TypeOK
  <2>2. pc' \in [Thread -> {"none", "lock", "waiting", "woken", "run", "exited"}]
    BY <1>2, SignalFacts DEF Accept
  <2> QED
    BY <1>2, <2>1, <2>2 DEF Accept, add_task, TypeOK, mainVars
<1> QED
  BY <1>1, <1>2 DEF add_task

LEMMA TypeStep ==
    ASSUME TypeOK, ThreadsInv, HeldInv, [Next]_vars
    PROVE  TypeOK'
<1>1. CASE UNCHANGED vars
  BY <1>1 DEF TypeOK, vars, pool, worker, mainVars, hist
<1> QED
  BY <1>1, MainType, WorkerType, AddType DEF Next, AtRest

LEMMA ThreadsStep ==
    ASSUME TypeOK, ThreadsInv, [Next]_vars
    PROVE  ThreadsInv'
<1>0. Len(m_threads) \in Nat /\ i \in Nat /\ starts \in Nat /\ pc \in [Thread -> {"none", "lock", "waiting", "woken", "run", "exited"}]
  BY DEF TypeOK
<1>1. CASE start_threadpool
  <2>1. starts < MaxStarts
    BY <1>1 DEF start_threadpool
  <2>2. m_pool_size * (starts + 1) = m_pool_size * starts + m_pool_size
    BY <1>0, <2>1, Products
  <2>3. m_pool_size * starts \in Nat
    BY <1>0, <2>1, Products
  <2>4. /\ m_threads' = m_threads /\ pc' = pc /\ i' = 0 /\ starts' = starts + 1
    BY <1>1 DEF start_threadpool, worker
  <2>5. Len(m_threads) <= m_pool_size * starts
    BY DEF ThreadsInv
  <2>6. Len(m_threads) + m_pool_size <= m_pool_size * (starts + 1)
    BY <1>0, <2>2, <2>3, <2>5
  <2>7. /\ Len(m_threads)' <= (m_pool_size * starts)'
        /\ (Len(m_threads) + (m_pool_size - i))' <= (m_pool_size * starts)'
    BY <1>0, <2>2, <2>3, <2>4, <2>6
  <2> QED
    BY <2>4, <2>7 DEF ThreadsInv
<1>2. CASE PthreadCreate
  <2> DEFINE tid == Len(m_threads) + 1
  <2>1. /\ main = "create" /\ i < m_pool_size /\ main' = main /\ i' = i + 1 /\ starts' = starts
        /\ m_threads' = Append(m_threads, tid)
        /\ pc' = [pc EXCEPT ![tid] = "lock"]
    BY <1>2 DEF PthreadCreate
  <2>2. tid \in Thread
    BY <2>1, NextThread
  <2>3. /\ Len(m_threads') = tid
        /\ \A n \in 1..Len(m_threads) : m_threads'[n] = m_threads[n]
        /\ m_threads'[tid] = tid
    BY <2>1, <2>2, AppendProperties DEF TypeOK
  <2>4. \A n \in 1..Len(m_threads') : m_threads'[n] = n
    BY <1>0, <2>3 DEF ThreadsInv
  <2>5. \A t \in Thread : pc'[t] = "none" <=> t > Len(m_threads')
    <3> SUFFICES ASSUME NEW t \in Thread
                 PROVE  pc'[t] = "none" <=> t > tid
      BY <2>3
    <3>1. t \in Nat /\ (pc[t] = "none" <=> t > Len(m_threads))
      BY ThreadIsNat DEF ThreadsInv
    <3>2. pc'[t] = IF t = tid THEN "lock" ELSE pc[t]
      BY <1>0, <2>1
    <3> QED
      BY <1>0, <3>1, <3>2
  <2>6. /\ Len(m_threads') <= m_pool_size * starts
        /\ Len(m_threads') + (m_pool_size - (i + 1)) <= m_pool_size * starts
    <3>1. Len(m_threads) + (m_pool_size - i) <= m_pool_size * starts
      BY <2>1 DEF ThreadsInv
    <3>2. m_pool_size * starts \in Nat
      BY <1>0
    <3> HIDE DEF tid
    <3>3. tid = Len(m_threads) + 1
      BY DEF tid
    <3> QED
      BY <1>0, <2>1, <2>3, <3>1, <3>2, <3>3
  <2> QED
    BY <2>1, <2>4, <2>5, <2>6 DEF ThreadsInv
<1>3. ASSUME m_threads' = m_threads, starts' = starts,
             main' = "create" => main = "create" /\ i' = i,
             \A t \in Thread : pc'[t] = "none" <=> pc[t] = "none"
      PROVE  ThreadsInv'
  BY <1>3 DEF ThreadsInv
<1>4. CASE PthreadCreateFails \/ StartReturns \/ DestroyReturns \/ destroy_threadpool
  <2>1. /\ m_threads' = m_threads /\ starts' = starts /\ pc' = pc /\ main' # "create"
    BY <1>4 DEF PthreadCreateFails, StartReturns, DestroyReturns, destroy_threadpool, pool, worker
  <2> QED
    BY <1>3, <2>1
<1>5. CASE Broadcast \/ PthreadJoin \/ PthreadJoinUndefined
  <2>1. m_threads' = m_threads /\ starts' = starts /\ main' # "create" /\ (pc' = pc \/ pc' = WakeAll)
    BY <1>5 DEF Broadcast, PthreadJoin, PthreadJoinUndefined, pool
  <2>2. \A t \in Thread : pc'[t] = "none" <=> pc[t] = "none"
    BY <2>1 DEF WakeAll
  <2> QED
    BY <1>3, <2>1, <2>2
<1>6. ASSUME NEW t \in Thread, execute_thread(t) \/ SpuriousWakeup(t)
      PROVE  ThreadsInv'
  <2>1. /\ m_threads' = m_threads /\ starts' = starts /\ main' = main /\ i' = i
        /\ pc[t] # "none" /\ \E p \in {"waiting", "exited", "run", "lock", "woken"} : pc' = [pc EXCEPT ![t] = p]
    BY <1>6 DEF execute_thread, Wait, Exit, TakeTask, RunTask, SpuriousWakeup, HasMutex, pool, mainVars
  <2>2. \A s \in Thread : pc'[s] = "none" <=> pc[s] = "none"
    BY <1>0, <2>1
  <2> QED
    BY <1>3, <2>1, <2>2
<1>7. ASSUME NEW k \in Task, add_task(k)
      PROVE  ThreadsInv'
  <2>1. /\ m_threads' = m_threads /\ starts' = starts /\ main' = main /\ i' = i
        /\ pc' = pc \/ Signal
    BY <1>7 DEF add_task, Refuse, Accept, mainVars
  <2>2. \A s \in Thread : pc'[s] = "none" <=> pc[s] = "none"
    BY <2>1, SignalFacts
  <2> QED
    BY <1>3, <2>1, <2>2
<1>8. CASE UNCHANGED vars
  BY <1>8, <1>3 DEF vars, pool, worker, mainVars
<1> QED
  BY <1>1, <1>2, <1>4, <1>5, <1>6, <1>7, <1>8 DEF Next, Main, AtRest

-----------------------------------------------------------------------------
(***************************************************************************)
(* Tasks: the queue, who holds what, and how often a task has run.         *)
(***************************************************************************)

\* Neither the main thread nor a wakeup touches tasks.
LEMMA TasksUntouched ==
    ASSUME TypeOK, Main \/ (\E t \in Thread : Wait(t) \/ Exit(t) \/ SpuriousWakeup(t)) \/ UNCHANGED vars
    PROVE  /\ UNCHANGED <<m_tasks, task, accepted, rejected, taken, ran>>
           /\ ThreadsInv => \A t \in Thread : pc'[t] = "run" <=> pc[t] = "run"
<1>0. pc \in [Thread -> {"none", "lock", "waiting", "woken", "run", "exited"}]
  BY DEF TypeOK
<1>1. CASE PthreadCreate
  <2> SUFFICES ASSUME ThreadsInv
               PROVE  \A t \in Thread : pc'[t] = "run" <=> pc[t] = "run"
    BY <1>1 DEF PthreadCreate, hist
  <2>1. pc' = [pc EXCEPT ![Len(m_threads) + 1] = "lock"] /\ pc[Len(m_threads) + 1] = "none"
    BY <1>1, NextThread DEF PthreadCreate
  <2> QED
    BY <1>0, <2>1
<1>2. CASE start_threadpool \/ PthreadCreateFails \/ StartReturns \/ destroy_threadpool \/ DestroyReturns
  BY <1>2 DEF start_threadpool, PthreadCreateFails, StartReturns, destroy_threadpool, DestroyReturns, pool, worker, hist
<1>3. CASE Broadcast \/ PthreadJoin \/ PthreadJoinUndefined
  BY <1>0, <1>3 DEF Broadcast, PthreadJoin, PthreadJoinUndefined, WakeAll, pool, hist
<1>4. ASSUME NEW t \in Thread, Wait(t) \/ Exit(t) \/ SpuriousWakeup(t)
      PROVE  /\ UNCHANGED <<m_tasks, task, accepted, rejected, taken, ran>>
             /\ \A s \in Thread : pc'[s] = "run" <=> pc[s] = "run"
  BY <1>0, <1>4 DEF Wait, Exit, SpuriousWakeup, HasMutex, pool, hist
<1>5. CASE UNCHANGED vars
  BY <1>5 DEF vars, pool, worker, hist
<1> QED
  BY <1>1, <1>2, <1>3, <1>4, <1>5 DEF Main

LEMMA QueueStep ==
    ASSUME TypeOK, QueueInv, [Next]_vars
    PROVE  QueueInv'
<1>0. m_tasks \in Seq(Task) /\ Len(m_tasks) \in Nat
  BY DEF TypeOK
<1>1. CASE Main \/ (\E t \in Thread : Wait(t) \/ Exit(t) \/ SpuriousWakeup(t)) \/ UNCHANGED vars
  BY <1>1, TasksUntouched DEF QueueInv
<1>2. ASSUME NEW t \in Thread, TakeTask(t)
      PROVE  QueueInv'
  <2>1. /\ m_tasks # <<>> /\ m_tasks' = Tail(m_tasks) /\ accepted' = accepted
        /\ taken' = taken \cup {m_tasks[1]}
    BY <1>2 DEF TakeTask
  <2>2. /\ Len(m_tasks') = Len(m_tasks) - 1
        /\ \A n \in 1..Len(m_tasks') : m_tasks'[n] = m_tasks[n + 1]
        /\ Len(m_tasks) # 0
    BY <1>0, <2>1, HeadTailProperties, EmptySeq
  <2>3. taken' \subseteq accepted
    BY <1>0, <2>1, <2>2 DEF QueueInv
  <2>4. \A n \in 1..Len(m_tasks') : m_tasks'[n] \in accepted \ taken'
    BY <1>0, <2>1, <2>2 DEF QueueInv
  <2>5. \A m, n \in 1..Len(m_tasks') : m_tasks'[m] = m_tasks'[n] => m = n
    BY <1>0, <2>2 DEF QueueInv
  <2> QED
    BY <2>1, <2>3, <2>4, <2>5 DEF QueueInv
<1>3. ASSUME NEW t \in Thread, RunTask(t)
      PROVE  QueueInv'
  BY <1>3 DEF RunTask, QueueInv, pool
<1>4. ASSUME NEW k \in Task, add_task(k)
      PROVE  QueueInv'
  <2>1. CASE Refuse(k)
    BY <1>4, <2>1 DEF add_task, Refuse, QueueInv
  <2>2. CASE Accept(k)
    <3>1. /\ k \notin accepted /\ accepted' = accepted \cup {k} /\ taken' = taken
          /\ m_tasks' = Append(m_tasks, k)
      BY <1>4, <2>2 DEF add_task, Accept, Fresh
    <3>2. /\ Len(m_tasks') = Len(m_tasks) + 1
          /\ \A n \in 1..Len(m_tasks) : m_tasks'[n] = m_tasks[n]
          /\ m_tasks'[Len(m_tasks) + 1] = k
      BY <1>0, <3>1, AppendProperties
    <3>3. \A n \in 1..Len(m_tasks) : m_tasks[n] # k
      BY <3>1 DEF QueueInv
    <3>4. \A n \in 1..Len(m_tasks') : m_tasks'[n] = IF n = Len(m_tasks) + 1 THEN k ELSE m_tasks[n]
      BY <1>0, <3>2
    <3>5. \A n \in 1..Len(m_tasks') : m_tasks'[n] \in accepted' \ taken'
      BY <1>0, <3>1, <3>2, <3>4 DEF QueueInv
    <3>6. \A m, n \in 1..Len(m_tasks') : m_tasks'[m] = m_tasks'[n] => m = n
      BY <1>0, <3>2, <3>3, <3>4 DEF QueueInv
    <3> QED
      BY <3>1, <3>5, <3>6 DEF QueueInv
  <2> QED
    BY <1>4, <2>1, <2>2 DEF add_task
<1> QED
  BY <1>1, <1>2, <1>3, <1>4 DEF Next, execute_thread, AtRest

LEMMA HeldStep ==
    ASSUME TypeOK, ThreadsInv, HeldInv, [Next]_vars
    PROVE  HeldInv'
<1>0. /\ pc \in [Thread -> {"none", "lock", "waiting", "woken", "run", "exited"}]
      /\ task \in [Thread -> Task \cup {NoTask}] /\ m_tasks \in Seq(Task)
  BY DEF TypeOK
<1>1. CASE Main \/ (\E t \in Thread : Wait(t) \/ Exit(t) \/ SpuriousWakeup(t)) \/ UNCHANGED vars
  BY <1>1, TasksUntouched DEF HeldInv
<1>2. ASSUME NEW t \in Thread, TakeTask(t)
      PROVE  HeldInv'
  <2>1. Head(m_tasks) \in Task
    BY <1>0, <1>2, HeadTailProperties DEF TakeTask
  <2>2. task' = [task EXCEPT ![t] = Head(m_tasks)] /\ pc' = [pc EXCEPT ![t] = "run"]
    BY <1>2 DEF TakeTask
  <2> QED
    BY <1>0, <2>1, <2>2 DEF HeldInv
<1>3. ASSUME NEW t \in Thread, RunTask(t)
      PROVE  HeldInv'
  BY <1>0, <1>3 DEF RunTask, HeldInv
<1>4. ASSUME NEW k \in Task, add_task(k)
      PROVE  HeldInv'
  <2>1. task' = task /\ (pc' = pc \/ Signal)
    BY <1>4 DEF add_task, Refuse, Accept
  <2> QED
    BY <2>1, SignalFacts DEF HeldInv
<1> QED
  BY <1>1, <1>2, <1>3, <1>4 DEF Next, execute_thread, AtRest

LEMMA OnceStep ==
    ASSUME TypeOK, QueueInv, HeldInv, OnceInv, [Next]_vars
    PROVE  OnceInv'
<1>0. /\ task \in [Thread -> Task \cup {NoTask}] /\ m_tasks \in Seq(Task)
      /\ ran \in [Task -> Nat] /\ taken \subseteq Task
  BY DEF TypeOK
<1>1. CASE Main \/ (\E t \in Thread : Wait(t) \/ Exit(t) \/ SpuriousWakeup(t)) \/ UNCHANGED vars
  BY <1>1, TasksUntouched DEF OnceInv
<1>2. ASSUME NEW t \in Thread, TakeTask(t)
      PROVE  OnceInv'
  <2> DEFINE h == m_tasks[1]
  <2>1. /\ taken' = taken \cup {h} /\ task' = [task EXCEPT ![t] = h] /\ ran' = ran
        /\ m_tasks # <<>> /\ pc[t] # "run"
    BY <1>2 DEF TakeTask, HasMutex
  <2>2. h \in Task /\ h \notin taken
    <3>1. Len(m_tasks) \in Nat \ {0}
      BY <1>0, <2>1, EmptySeq
    <3>2. 1 \in 1..Len(m_tasks)
      BY <3>1
    <3> QED
      BY <1>0, <3>2, ElementOfSeq DEF QueueInv
  <2>3. task[t] = NoTask
    BY <2>1 DEF HeldInv
  <2> HIDE DEF h
  <2>4. ASSUME NEW k \in Task
        PROVE  /\ k \notin taken' => ran'[k] = 0 /\ \A s \in Thread : task'[s] # k
               /\ k \in taken' =>
                     \/ ran'[k] = 1 /\ \A s \in Thread : task'[s] # k
                     \/ ran'[k] = 0 /\ \E u \in Thread : \A s \in Thread : task'[s] = k <=> s = u
    <3>1. CASE k = h
      <4>1. ran[k] = 0 /\ \A s \in Thread : task[s] # k
        BY <2>2, <3>1 DEF OnceInv
      <4>2. \A s \in Thread : task'[s] = k <=> s = t
        BY <1>0, <2>1, <3>1, <4>1
      <4> QED
        BY <2>1, <3>1, <4>1, <4>2
    <3>2. CASE k # h
      <4>1. \A s \in Thread : task'[s] = k <=> task[s] = k
        BY <1>0, <2>1, <2>3, <3>2
      <4> QED
        BY <2>1, <3>2, <4>1 DEF OnceInv
    <3> QED
      BY <3>1, <3>2
  <2> QED
    BY <2>4 DEF OnceInv
<1>3. ASSUME NEW t \in Thread, RunTask(t)
      PROVE  OnceInv'
  <2> DEFINE r == task[t]
  <2>1. /\ taken' = taken /\ task' = [task EXCEPT ![t] = NoTask] /\ ran' = [ran EXCEPT ![r] = @ + 1]
        /\ r \in Task
    BY <1>0, <1>3 DEF RunTask, HeldInv
  <2>2. ASSUME NEW k \in Task
        PROVE  /\ k \notin taken' => ran'[k] = 0 /\ \A s \in Thread : task'[s] # k
               /\ k \in taken' =>
                     \/ ran'[k] = 1 /\ \A s \in Thread : task'[s] # k
                     \/ ran'[k] = 0 /\ \E u \in Thread : \A s \in Thread : task'[s] = k <=> s = u
    <3>1. CASE k = r
      <4>1. k \in taken /\ ran[k] = 0
        BY <3>1 DEF OnceInv
      <4>2. \A s \in Thread : task[s] = k => s = t
        BY <3>1, <4>1 DEF OnceInv
      <4>3. \A s \in Thread : task'[s] # k
        BY <1>0, <2>1, <4>2
      <4>4. ran'[k] = 1
        BY <1>0, <2>1, <3>1, <4>1
      <4> QED
        BY <2>1, <4>1, <4>3, <4>4
    <3>2. CASE k # r
      <4>1. ran'[k] = ran[k] /\ \A s \in Thread : task'[s] = k <=> task[s] = k
        BY <1>0, <2>1, <3>2
      <4> QED
        BY <2>1, <4>1 DEF OnceInv
    <3> QED
      BY <3>1, <3>2
  <2> QED
    BY <2>2 DEF OnceInv
<1>4. ASSUME NEW k \in Task, add_task(k)
      PROVE  OnceInv'
  BY <1>4 DEF add_task, OnceInv
<1> QED
  BY <1>1, <1>2, <1>3, <1>4 DEF Next, execute_thread, AtRest

\* The queue grows by one task, and only when it is not longer than the limit.
LEMMA BoundStep ==
    ASSUME TypeOK, QueueBounded, [Next]_vars
    PROVE  QueueBounded'
<1>0. m_tasks \in Seq(Task) /\ Len(m_tasks) \in Nat
  BY DEF TypeOK
<1>1. CASE Main \/ (\E t \in Thread : Wait(t) \/ Exit(t) \/ SpuriousWakeup(t)) \/ UNCHANGED vars
  BY <1>1, TasksUntouched DEF QueueBounded
<1>2. ASSUME NEW t \in Thread, TakeTask(t)
      PROVE  QueueBounded'
  <2>1. Len(m_tasks') = Len(m_tasks) - 1
    BY <1>0, <1>2, HeadTailProperties DEF TakeTask
  <2> QED
    BY <1>0, <2>1 DEF QueueBounded
<1>3. ASSUME NEW t \in Thread, RunTask(t)
      PROVE  QueueBounded'
  BY <1>3 DEF RunTask, QueueBounded, pool
<1>4. ASSUME NEW k \in Task, add_task(k)
      PROVE  QueueBounded'
  <2>1. CASE Refuse(k)
    BY <2>1 DEF Refuse, QueueBounded
  <2>2. CASE Accept(k)
    <3>1. Len(m_tasks') = Len(m_tasks) + 1 /\ ~Full
      BY <1>0, <2>2, AppendProperties DEF Accept
    <3> QED
      BY <1>0, <3>1 DEF Full, QueueBounded
  <2> QED
    BY <1>4, <2>1, <2>2 DEF add_task
<1> QED
  BY <1>1, <1>2, <1>3, <1>4 DEF Next, execute_thread, AtRest

-----------------------------------------------------------------------------
(***************************************************************************)
(* Stopping: who may still wait, and who has been joined.                  *)
(***************************************************************************)

LEMMA StopStep ==
    ASSUME TypeOK, StopInv, [Next]_vars
    PROVE  StopInv'
<1>0. pc \in [Thread -> {"none", "lock", "waiting", "woken", "run", "exited"}]
  BY DEF TypeOK
<1>1. CASE start_threadpool \/ PthreadCreate \/ PthreadCreateFails \/ StartReturns \/ destroy_threadpool \/ DestroyReturns
  BY <1>0, <1>1 DEF start_threadpool, PthreadCreate, PthreadCreateFails, StartReturns, destroy_threadpool,
                    DestroyReturns, StopInv, pool, worker
<1>2. CASE Broadcast \/ PthreadJoin \/ PthreadJoinUndefined
  BY <1>0, <1>2 DEF Broadcast, PthreadJoin, PthreadJoinUndefined, WakeAll, StopInv, pool
<1>3. ASSUME NEW t \in Thread, execute_thread(t) \/ SpuriousWakeup(t)
      PROVE  StopInv'
  BY <1>0, <1>3 DEF execute_thread, Wait, Exit, TakeTask, RunTask, SpuriousWakeup, StopInv, pool, mainVars
<1>4. ASSUME NEW k \in Task, add_task(k)
      PROVE  StopInv'
  <2>1. /\ m_pool_state' = m_pool_state /\ main' = main /\ is_locked' = FALSE /\ (pc' = pc \/ Signal)
    BY <1>4 DEF add_task, Refuse, Accept, mainVars
  <2>2. \A t \in Thread : pc'[t] = "waiting" => pc[t] = "waiting"
    BY <2>1, SignalFacts
  <2> QED
    BY <2>1, <2>2 DEF StopInv
<1>5. CASE UNCHANGED vars
  BY <1>5 DEF StopInv, vars, pool, worker, mainVars
<1> QED
  BY <1>1, <1>2, <1>3, <1>4, <1>5 DEF Next, Main, AtRest

LEMMA JoinStep ==
    ASSUME TypeOK, ThreadsInv, StopInv, JoinInv, [Next]_vars
    PROVE  JoinInv'
<1>0. /\ pc \in [Thread -> {"none", "lock", "waiting", "woken", "run", "exited"}]
      /\ starts \in Nat /\ i \in Nat /\ Len(m_threads) \in Nat
  BY DEF TypeOK
<1>1. CASE start_threadpool
  <2>1. /\ starts' = starts + 1 /\ joined' = joined /\ m_pool_state' = "STARTED" /\ main' = "create"
    BY <1>1 DEF start_threadpool
  <2>2. CASE starts = 0
    BY <1>0, <2>1, <2>2 DEF JoinInv, Destroyed
  <2>3. CASE starts # 0
    BY <1>0, <2>1, <2>3 DEF JoinInv
  <2> QED
    BY <2>2, <2>3
<1>2. CASE PthreadCreate \/ PthreadCreateFails \/ StartReturns
  <2>1. /\ main = "create" /\ main' \in {"create", "idle"}
        /\ UNCHANGED <<m_pool_state, starts, joined>>
    BY <1>2 DEF PthreadCreate, PthreadCreateFails, StartReturns, pool
  <2> QED
    BY <2>1 DEF StopInv, JoinInv, Destroyed
<1>3. CASE destroy_threadpool
  <2>1. /\ m_pool_state = "STARTED" /\ main' = "broadcast" /\ UNCHANGED <<starts, joined>>
    BY <1>3 DEF destroy_threadpool
  <2> QED
    BY <2>1 DEF JoinInv, Destroyed
<1>4. CASE Broadcast
  <2>1. /\ main = "broadcast" /\ main' = "join" /\ i' = 0 /\ UNCHANGED <<m_pool_state, starts, joined>>
    BY <1>4 DEF Broadcast, pool
  <2>2. \A t \in Thread : ~(t <= 0)
    BY ThreadIsNat
  <2>3. 1..0 = {}
    OBVIOUS
  <2> QED
    BY <2>1, <2>2, <2>3 DEF JoinInv, Destroyed, StopInv
<1>5. CASE PthreadJoin
  <2>1. /\ main = "join" /\ main' = "join" /\ i' = i + 1 /\ UNCHANGED <<m_pool_state, starts>>
        /\ i < Len(m_threads) /\ pc[m_threads[i + 1]] = "exited" /\ pc' = WakeAll
        /\ joined' = joined \cup {m_threads[i + 1]}
    BY <1>5 DEF PthreadJoin, Joinable, pool
  <2>2. m_threads[i + 1] = i + 1
    BY <1>0, <2>1 DEF ThreadsInv
  <2>3. \A t \in Thread : pc[t] = "exited" => pc'[t] = "exited"
    BY <2>1 DEF WakeAll
  <2>4. starts <= 1 => joined' = 1..(i + 1)
    <3> SUFFICES ASSUME starts <= 1
                 PROVE  joined' = 1..(i + 1)
      OBVIOUS
    <3>1. joined = 1..i
      BY <2>1 DEF JoinInv
    <3> QED
      BY <1>0, <2>1, <2>2, <3>1
  <2>5. starts <= 1 => \A t \in Thread : t <= i + 1 => pc'[t] = "exited"
    <3> SUFFICES ASSUME starts <= 1, NEW t \in Thread, t <= i + 1
                 PROVE  pc'[t] = "exited"
      OBVIOUS
    <3>1. t <= i => pc[t] = "exited"
      BY <2>1 DEF JoinInv
    <3>2. t \in Nat
      BY ThreadIsNat
    <3>3. pc[t] = "exited"
      BY <1>0, <2>1, <2>2, <3>1, <3>2
    <3> QED
      BY <2>3, <3>3
  <2> QED
    BY <2>1, <2>4, <2>5 DEF JoinInv, Destroyed, StopInv
<1>6. CASE PthreadJoinUndefined
  <2>1. /\ main = "join" /\ UNCHANGED <<m_pool_state, starts, joined>>
        /\ main' = "undefined" \/ (i < Len(m_threads) /\ m_threads[i + 1] \in joined)
        /\ main' # "idle" /\ main' # "broadcast"
    BY <1>6 DEF PthreadJoinUndefined, Joinable, pool
  <2>2. CASE starts <= 1
    <3>1. joined = 1..i
      BY <2>1, <2>2 DEF JoinInv
    <3>2. main' = "undefined"
      BY <1>0, <2>1, <3>1 DEF ThreadsInv
    <3> QED
      BY <2>1, <3>2 DEF JoinInv, Destroyed, StopInv
  <2>3. CASE ~(starts <= 1)
    BY <1>0, <2>1, <2>3 DEF JoinInv
  <2> QED
    BY <2>2, <2>3
<1>7. CASE DestroyReturns
  <2>1. /\ main = "join" /\ main' = "idle" /\ i = m_pool_size /\ UNCHANGED <<m_pool_state, starts, joined, pc>>
    BY <1>7 DEF DestroyReturns, pool, worker
  <2> QED
    BY <2>1 DEF JoinInv, Destroyed, StopInv
<1>8. ASSUME UNCHANGED <<m_pool_state, main, i, starts, joined>>,
             \A t \in Thread : pc[t] = "exited" => pc'[t] = "exited"
      PROVE  JoinInv'
  BY <1>8 DEF JoinInv, Destroyed
<1>9. ASSUME NEW t \in Thread, execute_thread(t) \/ SpuriousWakeup(t)
      PROVE  JoinInv'
  <2>1. /\ UNCHANGED <<m_pool_state, main, i, starts, joined>>
        /\ pc[t] # "exited" /\ \E p \in {"waiting", "exited", "run", "lock", "woken"} : pc' = [pc EXCEPT ![t] = p]
    BY <1>9 DEF execute_thread, Wait, Exit, TakeTask, RunTask, SpuriousWakeup, HasMutex, pool, mainVars
  <2>2. \A s \in Thread : pc[s] = "exited" => pc'[s] = "exited"
    BY <1>0, <2>1
  <2> QED
    BY <1>8, <2>1, <2>2
<1>10. ASSUME NEW k \in Task, add_task(k)
       PROVE  JoinInv'
  <2>1. UNCHANGED <<m_pool_state, main, i, starts, joined>> /\ (pc' = pc \/ Signal)
    BY <1>10 DEF add_task, Refuse, Accept, mainVars
  <2>2. \A s \in Thread : pc[s] = "exited" => pc'[s] = "exited"
    BY <2>1, SignalFacts
  <2> QED
    BY <1>8, <2>1, <2>2
<1>11. CASE UNCHANGED vars
  BY <1>8, <1>11 DEF vars, pool, worker, mainVars
<1> QED
  BY <1>1, <1>2, <1>3, <1>4, <1>5, <1>6, <1>7, <1>9, <1>10, <1>11 DEF Next, Main, AtRest

-----------------------------------------------------------------------------
(***************************************************************************)
(* Wakeups.                                                                *)
(***************************************************************************)

LEMMA ThreadSetsFinite ==
    ASSUME NEW S \in SUBSET Thread
    PROVE  IsFiniteSet(S) /\ Cardinality(S) \in Nat
<1>1. IsFiniteSet(Thread)
  BY ThreadIsNat, FS_Interval DEF Thread
<1>2. IsFiniteSet(S)
  BY <1>1, FS_Subset
<1> QED
  BY <1>2, FS_CardinalityType

\* A thread that leaves its wait, its task or its creation is on the way.
LEMMA OneMoreOnTheWay ==
    ASSUME TypeOK, NEW t \in Thread, ~HasMutex(t), NEW p \in {"lock", "woken"}, pc' = [pc EXCEPT ![t] = p]
    PROVE  /\ Cardinality(OnTheWay') = Cardinality(OnTheWay) + 1
           /\ Waiting' \subseteq Waiting
<1>1. pc \in [Thread -> {"none", "lock", "waiting", "woken", "run", "exited"}]
  BY DEF TypeOK
<1>2. OnTheWay' = OnTheWay \cup {t} /\ t \notin OnTheWay
  BY <1>1 DEF OnTheWay, HasMutex
<1>3. Waiting' \subseteq Waiting
  BY <1>1 DEF Waiting
<1>4. IsFiniteSet(OnTheWay)
  BY ThreadSetsFinite DEF OnTheWay
<1> QED
  BY <1>2, <1>3, <1>4, FS_AddElement

LEMMA WakeupStep ==
    ASSUME TypeOK, ThreadsInv, StopInv, NoLostWakeup, [Next]_vars
    PROVE  NoLostWakeup'
<1>0. /\ pc \in [Thread -> {"none", "lock", "waiting", "woken", "run", "exited"}]
      /\ m_tasks \in Seq(Task) /\ Len(m_tasks) \in Nat
      /\ Cardinality(OnTheWay) \in Nat /\ Cardinality(OnTheWay') \in Nat
  BY ThreadSetsFinite DEF TypeOK, OnTheWay
<1>1. ASSUME UNCHANGED <<m_tasks, pc>>, m_pool_state = "STOPPED" => Waiting = {} \/ m_pool_state' = "STOPPED"
      PROVE  NoLostWakeup'
  BY <1>1 DEF NoLostWakeup, Waiting, OnTheWay, HasMutex
<1>2. ASSUME m_tasks' = m_tasks, m_pool_state' = m_pool_state,
             NEW t \in Thread, ~HasMutex(t), NEW p \in {"lock", "woken"}, pc' = [pc EXCEPT ![t] = p]
      PROVE  NoLostWakeup'
  <2>1. Cardinality(OnTheWay') = Cardinality(OnTheWay) + 1 /\ Waiting' \subseteq Waiting
    BY <1>2, OneMoreOnTheWay
  <2> QED
    BY <1>0, <1>2, <2>1 DEF NoLostWakeup
<1>3. CASE start_threadpool
  <2>1. main = "idle" /\ UNCHANGED <<m_tasks, pc>>
    BY <1>3 DEF start_threadpool, worker
  <2>2. m_pool_state = "STOPPED" => Waiting = {}
    BY <2>1 DEF StopInv, Waiting
  <2> QED
    BY <1>1, <2>1, <2>2
<1>4. CASE PthreadCreate
  <2>1. /\ Len(m_threads) + 1 \in Thread /\ pc[Len(m_threads) + 1] = "none"
        /\ pc' = [pc EXCEPT ![Len(m_threads) + 1] = "lock"]
        /\ m_tasks' = m_tasks /\ m_pool_state' = m_pool_state
    BY <1>4, NextThread DEF PthreadCreate
  <2>2. ~HasMutex(Len(m_threads) + 1)
    BY <2>1 DEF HasMutex
  <2> QED
    BY <1>2, <2>1, <2>2
<1>5. CASE PthreadCreateFails \/ StartReturns \/ destroy_threadpool \/ DestroyReturns \/ UNCHANGED vars
  <2>1. /\ UNCHANGED <<m_tasks, pc>>
        /\ m_pool_state' = m_pool_state \/ m_pool_state' = "STOPPED"
    BY <1>5 DEF PthreadCreateFails, StartReturns, destroy_threadpool, DestroyReturns, vars, pool, worker
  <2> QED
    BY <1>1, <2>1
<1>6. CASE Broadcast \/ PthreadJoin \/ PthreadJoinUndefined
  <2>1. m_tasks' = m_tasks /\ m_pool_state' = m_pool_state /\ (pc' = pc \/ pc' = WakeAll)
    BY <1>6 DEF Broadcast, PthreadJoin, PthreadJoinUndefined, pool
  <2>2. CASE pc' = WakeAll
    <3>1. Waiting' = {}
      BY <2>2 DEF WakeAll, Waiting
    <3> QED
      BY <3>1 DEF NoLostWakeup
  <2> QED
    BY <1>1, <2>1, <2>2
<1>7. ASSUME NEW t \in Thread, execute_thread(t) \/ SpuriousWakeup(t)
      PROVE  NoLostWakeup'
  <2>1. CASE Wait(t)
    <3>1. Len(m_tasks') = 0
      BY <2>1, EmptySeq DEF Wait
    <3> QED
      BY <1>0, <3>1 DEF NoLostWakeup
  <2>2. CASE Exit(t)
    BY <2>2 DEF Exit, NoLostWakeup
  <2>3. CASE TakeTask(t)
    <3>1. /\ Len(m_tasks') = Len(m_tasks) - 1 /\ m_pool_state' = m_pool_state
          /\ HasMutex(t) /\ pc' = [pc EXCEPT ![t] = "run"]
      BY <1>0, <2>3, HeadTailProperties DEF TakeTask
    <3>2. OnTheWay' = OnTheWay \ {t} /\ t \in OnTheWay /\ Waiting' = Waiting
      BY <1>0, <3>1 DEF OnTheWay, HasMutex, Waiting
    <3>3. IsFiniteSet(OnTheWay)
      BY ThreadSetsFinite DEF OnTheWay
    <3>4. Cardinality(OnTheWay') = Cardinality(OnTheWay) - 1
      BY <3>2, <3>3, FS_RemoveElement
    <3> QED
      BY <1>0, <3>1, <3>2, <3>4 DEF NoLostWakeup
  <2>4. CASE RunTask(t)
    <3>1. m_tasks' = m_tasks /\ m_pool_state' = m_pool_state /\ ~HasMutex(t) /\ pc' = [pc EXCEPT ![t] = "lock"]
      BY <2>4 DEF RunTask, HasMutex, pool
    <3> QED
      BY <1>2, <3>1
  <2>5. CASE SpuriousWakeup(t)
    <3>1. m_tasks' = m_tasks /\ m_pool_state' = m_pool_state /\ ~HasMutex(t) /\ pc' = [pc EXCEPT ![t] = "woken"]
      BY <2>5 DEF SpuriousWakeup, HasMutex, pool
    <3> QED
      BY <1>2, <3>1
  <2> QED
    BY <1>7, <2>1, <2>2, <2>3, <2>4, <2>5 DEF execute_thread
<1>8. ASSUME NEW k \in Task, add_task(k)
      PROVE  NoLostWakeup'
  <2>1. CASE Refuse(k)
    BY <1>1, <1>8, <2>1 DEF add_task, Refuse
  <2>2. CASE Accept(k)
    <3>1. Len(m_tasks') = Len(m_tasks) + 1 /\ m_pool_state' = m_pool_state
      BY <1>0, <1>8, <2>2, AppendProperties DEF add_task, Accept
    <3>2. CASE Waiting = {} /\ pc' = pc
      BY <3>2 DEF NoLostWakeup, Waiting
    <3>3. ASSUME NEW t \in Waiting, pc' = [pc EXCEPT ![t] = "woken"]
          PROVE  NoLostWakeup'
      <4>1. t \in Thread /\ ~HasMutex(t) /\ Waiting # {}
        BY <3>3 DEF Waiting, HasMutex
      <4>2. Cardinality(OnTheWay') = Cardinality(OnTheWay) + 1
        BY <3>3, <4>1, OneMoreOnTheWay
      <4> QED
        BY <1>0, <3>1, <4>1, <4>2 DEF NoLostWakeup
    <3> QED
      BY <2>2, <3>2, <3>3 DEF Accept, Signal
  <2> QED
    BY <1>8, <2>1, <2>2 DEF add_task
<1> QED
  BY <1>3, <1>4, <1>5, <1>6, <1>7, <1>8 DEF Next, Main, AtRest

-----------------------------------------------------------------------------
(***************************************************************************)
(* The invariant, and what it implies.                                     *)
(***************************************************************************)

LEMMA PoolInit == Init => IInv
<1> SUFFICES ASSUME Init
             PROVE  IInv
  OBVIOUS
<1>1. TypeOK
  BY TypeInit
<1>2. Len(m_threads) = 0 /\ Len(m_tasks) = 0
  BY EmptySeq DEF Init
<1>3. ThreadsInv
  <2>1. \A t \in Thread : pc[t] = "none" /\ t > 0
    BY ThreadIsNat DEF Init
  <2>2. m_pool_size * starts = 0
    BY DEF Init
  <2> QED
    BY <1>2, <2>1, <2>2 DEF Init, ThreadsInv
<1>4. QueueInv /\ QueueBounded
  BY <1>2 DEF Init, QueueInv, QueueBounded
<1>5. HeldInv /\ OnceInv
  BY DEF Init, HeldInv, OnceInv
<1>6. StopInv /\ JoinInv
  BY DEF Init, StopInv, JoinInv, Destroyed
<1>7. NoLostWakeup
  <2>1. Waiting = {}
    BY DEF Init, Waiting
  <2> QED
    BY <2>1 DEF NoLostWakeup
<1> QED
  BY <1>1, <1>3, <1>4, <1>5, <1>6, <1>7 DEF IInv

LEMMA PoolStep == IInv /\ [Next]_vars => IInv'
BY TypeStep, ThreadsStep, QueueStep, HeldStep, OnceStep, BoundStep, StopStep, JoinStep, WakeupStep DEF IInv

LEMMA PoolInv == Spec => []IInv
BY PoolInit, PoolStep, PTL DEF Spec

(***************************************************************************)
(* The values have their kinds, in every state: started, stopped or half   *)
(* created.                                                                *)
(***************************************************************************)
THEOREM TypeCorrect == Spec => []TypeOK
<1>1. IInv => TypeOK
  BY DEF IInv
<1> QED
  BY <1>1, PoolInv, PTL

(***************************************************************************)
(* No task is run twice, and none is lost by the worker that took it: what *)
(* was taken is held by exactly one worker or has run once.  The queue is  *)
(* never more than one over the limit of add_task.                         *)
(***************************************************************************)
THEOREM EachTaskRunsOnce == Spec => []Safe
<1>1. IInv => RunsOnce
  <2> SUFFICES ASSUME IInv, NEW k \in Task
               PROVE  ran[k] + Cardinality(Holders(k)) = IF k \in taken THEN 1 ELSE 0
    BY DEF RunsOnce
  <2>1. ASSUME \A t \in Thread : task[t] # k
        PROVE  Cardinality(Holders(k)) = 0
    <3>1. Holders(k) = {}
      BY <2>1 DEF Holders
    <3> QED
      BY <3>1, FS_EmptySet
  <2>2. ASSUME NEW t \in Thread, \A s \in Thread : task[s] = k <=> s = t
        PROVE  Cardinality(Holders(k)) = 1
    <3>1. Holders(k) = {t}
      BY <2>2 DEF Holders
    <3> QED
      BY <3>1, FS_Singleton
  <2> QED
    BY <2>1, <2>2 DEF IInv, OnceInv
<1>2. IInv => Safe
  BY <1>1 DEF IInv, Safe
<1> QED
  BY <1>2, PoolInv, PTL

(***************************************************************************)
(* add_task signals once for each task, and that is enough: a worker only  *)
(* waits while each queued task has another worker on its way to the       *)
(* queue, whatever the order of signals, spurious wakeups and new tasks.   *)
(***************************************************************************)
THEOREM NoWakeupIsLost == Spec => []NoLostWakeup
<1>1. IInv => NoLostWakeup
  BY DEF IInv
<1> QED
  BY <1>1, PoolInv, PTL

(***************************************************************************)
(* When destroy_threadpool of a pool that was started once and completely  *)
(* returns, every thread has exited and the flag of the mutex is clear, so *)
(* that the members may be destroyed.                                      *)
(***************************************************************************)
THEOREM AllThreadsExited == Spec => []AllExited
<1>1. IInv => AllExited
  <2> SUFFICES ASSUME IInv, Destroyed, Intact, NEW t \in Thread
               PROVE  ~is_locked /\ pc[t] \in {"none", "exited"}
    <3>1. IInv /\ Destroyed => ~is_locked
      BY DEF IInv, StopInv, Destroyed
    <3> QED
      BY <3>1 DEF AllExited
  <2>1. ~is_locked
    BY DEF IInv, StopInv, Destroyed
  <2>2. t \in Nat /\ starts = 1 /\ Len(m_threads) = m_pool_size
    BY ThreadIsNat DEF Intact
  <2>3. pc[t] = "none" <=> t > m_pool_size
    BY <2>2 DEF IInv, ThreadsInv
  <2>4. t <= m_pool_size => pc[t] = "exited"
    BY <2>2 DEF IInv, JoinInv
  <2>5. t <= m_pool_size \/ t > m_pool_size
    BY <2>2
  <2> QED
    BY <2>1, <2>3, <2>4, <2>5
<1> QED
  BY <1>1, PoolInv, PTL

-----------------------------------------------------------------------------
(***************************************************************************)
(* ThreadPool implements TaskQueue.  A worker takes and finishes a task as *)
(* TaskQueue says, add_task adds one, and no other step touches the queue  *)
(* or what a worker holds.                                                 *)
(***************************************************************************)

LEMMA PoolInitRefines == Init => TQ!Init
BY DEF Init, TQ!Init

LEMMA PoolStepRefines == IInv /\ [Next]_vars => [TQ!Next]_<<m_tasks, task>>
<1> SUFFICES ASSUME IInv, [Next]_vars
             PROVE  TQ!Next \/ UNCHANGED <<m_tasks, task>>
  OBVIOUS
<1>0. TypeOK /\ HeldInv
  BY DEF IInv
<1>1. CASE Main \/ (\E t \in Thread : Wait(t) \/ Exit(t) \/ SpuriousWakeup(t)) \/ UNCHANGED vars
  BY <1>0, <1>1, TasksUntouched
<1>2. ASSUME NEW t \in Thread, TakeTask(t)
      PROVE  TQ!Next
  <2>1. task[t] = NoTask
    BY <1>0, <1>2 DEF TakeTask, HasMutex, HeldInv
  <2>2. TQ!Take(t)
    BY <1>2, <2>1 DEF TakeTask, TQ!Take
  <2> QED
    BY <2>2 DEF TQ!Next
<1>3. ASSUME NEW t \in Thread, RunTask(t)
      PROVE  TQ!Next
  <2>1. task[t] # NoTask
    BY <1>0, <1>3 DEF RunTask, HeldInv
  <2>2. TQ!Finish(t)
    BY <1>3, <2>1 DEF RunTask, TQ!Finish, pool
  <2> QED
    BY <2>2 DEF TQ!Next
<1>4. ASSUME NEW k \in Task, add_task(k)
      PROVE  TQ!Next \/ UNCHANGED <<m_tasks, task>>
  <2>1. CASE Refuse(k)
    BY <1>4, <2>1 DEF add_task, Refuse
  <2>2. CASE Accept(k)
    <3>1. TQ!Add(k)
      BY <1>4, <2>2 DEF add_task, Accept, Full, TQ!Add, TQ!Full
    <3> QED
      BY <3>1 DEF TQ!Next
  <2> QED
    BY <1>4, <2>1, <2>2 DEF add_task
<1> QED
  BY <1>1, <1>2, <1>3, <1>4 DEF Next, execute_thread, AtRest

(***************************************************************************)
(* A pool is first come, first served, and gives each task to one worker   *)
(* that holds no other; starting, stopping, waiting and waking never show. *)
(***************************************************************************)
THEOREM PoolIsTaskQueue == Spec => IsTaskQueue
BY PoolInitRefines, PoolStepRefines, PoolInv, PTL DEF Spec, IsTaskQueue, TQ!Spec

=============================================================================
