----------------------------- MODULE ThreadPool -----------------------------
(***************************************************************************)
(* ThreadPool (src/dependency/ehttp/src/threadpool.{h,cpp}): the workers   *)
(* of EpollSocket.  A main thread starts and destroys the pool, anyone     *)
(* adds tasks, and each worker runs execute_thread.                        *)
(*                                                                         *)
(* m_tasks and m_pool_state are touched under m_task_mutex, so a critical  *)
(* section is one step; what interleaves is what lies between them.  A     *)
(* worker in pthread_cond_wait is "waiting" until a signal, a broadcast or *)
(* a spurious wakeup makes it "woken": it then has to take the mutex again *)
(* and look again.                                                         *)
(***************************************************************************)
EXTENDS Integers, Sequences, FiniteSets

CONSTANTS
    Task,               \* the tasks that may be added, each once
    NoTask,             \* what a worker without a task holds
    m_pool_size,        \* set_pool_size
    m_task_size_limit,  \* set_task_size_limit, -1 unless set
    CreateFails,        \* may pthread_create fail?
    MaxStarts           \* bound: successful starts of the pool

ASSUME NoTaskAssumption == NoTask \notin Task
ASSUME PoolSizeAssumption == m_pool_size \in Nat \ {0}
ASSUME LimitAssumption == m_task_size_limit \in Int
ASSUME StartsAssumption == CreateFails \in BOOLEAN /\ MaxStarts \in Nat \ {0}

VARIABLES
    m_pool_state,   \* "NEW" (-1), "STARTED", "STOPPED"
    m_threads,      \* the threads created, in order
    m_tasks,        \* the queue
    is_locked,      \* the Mutex wrapper's flag, which its destructor waits for
    pc,             \* where each worker is in execute_thread
    task,           \* the task each worker holds
    main,           \* where the main thread is
    i,              \* local: the loop counter of start and destroy
    starts,         \* history: the number of starts
    joined,         \* history: the threads that have been joined
    accepted,       \* history: the tasks add_task has accepted
    rejected,       \* history: the tasks it has refused
    taken,          \* history: the tasks workers have taken
    ran             \* history: how often each task has run

pool == <<m_pool_state, m_threads, m_tasks, is_locked>>
worker == <<pc, task>>
mainVars == <<main, i, starts, joined>>
hist == <<accepted, rejected, taken, ran>>
vars == <<pool, worker, mainVars, hist>>

Thread == 1..(m_pool_size * MaxStarts)

Waiting == {t \in Thread : pc[t] = "waiting"}

\* pthread_cond_broadcast
WakeAll == [t \in Thread |-> IF pc[t] = "waiting" THEN "woken" ELSE pc[t]]

Init ==
    /\ m_pool_state = "NEW"
    /\ m_threads = <<>>
    /\ m_tasks = <<>>
    /\ is_locked = FALSE
    /\ pc = [t \in Thread |-> "none"]
    /\ task = [t \in Thread |-> NoTask]
    /\ main = "idle"
    /\ i = 0
    /\ starts = 0
    /\ joined = {}
    /\ accepted = {} /\ rejected = {} /\ taken = {}
    /\ ran = [k \in Task |-> 0]

-----------------------------------------------------------------------------
(***************************************************************************)
(* start_threadpool: a pool that is running already is left alone (no      *)
(* change of state); the threads of an earlier start stay in m_threads.    *)
(***************************************************************************)
start_threadpool ==
    /\ main = "idle"
    /\ m_pool_state # "STARTED" /\ starts < MaxStarts
    /\ m_pool_state' = "STARTED"
    /\ starts' = starts + 1
    /\ i' = 0
    /\ main' = "create"
    /\ UNCHANGED <<m_threads, m_tasks, is_locked, worker, joined, hist>>

PthreadCreate ==
    /\ main = "create" /\ i < m_pool_size
    /\ LET tid == Len(m_threads) + 1
       IN  /\ m_threads' = Append(m_threads, tid)
           /\ pc' = [pc EXCEPT ![tid] = "lock"]
    /\ i' = i + 1
    /\ UNCHANGED <<m_pool_state, m_tasks, is_locked, task, main, starts, joined, hist>>

\* start_threadpool returns -1 and leaves the state STARTED.
PthreadCreateFails ==
    /\ CreateFails
    /\ main = "create" /\ i < m_pool_size
    /\ main' = "idle"
    /\ UNCHANGED <<pool, worker, i, starts, joined, hist>>

StartReturns ==
    /\ main = "create" /\ i = m_pool_size
    /\ main' = "idle"
    /\ UNCHANGED <<pool, worker, i, starts, joined, hist>>

(***************************************************************************)
(* destroy_threadpool, of a started pool as in the destructor: the state   *)
(* is set under the mutex, then a broadcast, then one join after the other *)
(* with a broadcast after each.                                            *)
(***************************************************************************)
destroy_threadpool ==
    /\ main = "idle"
    /\ m_pool_state = "STARTED"
    /\ m_pool_state' = "STOPPED"
    /\ is_locked' = FALSE
    /\ main' = "broadcast"
    /\ UNCHANGED <<m_threads, m_tasks, worker, i, starts, joined, hist>>

\* Mutant: nobody is woken before the first join.
Broadcast_Silent ==
    /\ main = "broadcast"
    /\ i' = 0
    /\ main' = "join"
    /\ UNCHANGED <<pool, worker, starts, joined, hist>>

Broadcast ==
    /\ main = "broadcast"
    /\ pc' = WakeAll
    /\ i' = 0
    /\ main' = "join"
    /\ UNCHANGED <<pool, task, starts, joined, hist>>

(***************************************************************************)
(* pthread_join(m_threads[i]): there may be no such element, or its thread *)
(* may have been joined before.  Both are undefined; in the second case    *)
(* the usual outcome is an error, which is only logged.                    *)
(***************************************************************************)
Joinable == i < Len(m_threads) /\ m_threads[i + 1] \notin joined

PthreadJoin ==
    /\ main = "join" /\ i < m_pool_size
    /\ Joinable
    /\ pc[m_threads[i + 1]] = "exited"
    /\ joined' = joined \cup {m_threads[i + 1]}
    /\ pc' = WakeAll
    /\ i' = i + 1
    /\ UNCHANGED <<pool, task, main, starts, hist>>

PthreadJoinUndefined ==
    /\ main = "join" /\ i < m_pool_size
    /\ ~Joinable
    /\ \/ /\ i < Len(m_threads)
          /\ pc' = WakeAll
          /\ i' = i + 1
          /\ UNCHANGED main
       \/ /\ main' = "undefined"
          /\ UNCHANGED <<pc, i>>
    /\ UNCHANGED <<pool, task, starts, joined, hist>>

\* Mutant: the loop leaves out the last thread.
DestroyReturns_OffByOne ==
    /\ main = "join" /\ i = m_pool_size - 1
    /\ main' = "idle"
    /\ UNCHANGED <<pool, worker, i, starts, joined, hist>>

DestroyReturns ==
    /\ main = "join" /\ i = m_pool_size
    /\ main' = "idle"
    /\ UNCHANGED <<pool, worker, i, starts, joined, hist>>

Main ==
    \/ start_threadpool \/ PthreadCreate \/ PthreadCreateFails \/ StartReturns
    \/ destroy_threadpool \/ Broadcast
    \/ PthreadJoin \/ PthreadJoinUndefined \/ DestroyReturns

-----------------------------------------------------------------------------
(***************************************************************************)
(* execute_thread.  A worker with the mutex waits, exits or takes a task.  *)
(* A wait gives the mutex back behind the wrapper's back: is_locked stays  *)
(* TRUE after lock(), and is not set again by the wakeup.                  *)
(***************************************************************************)
HasMutex(t) == pc[t] \in {"lock", "woken"}

Wait(t) ==
    /\ HasMutex(t)
    /\ m_pool_state # "STOPPED" /\ m_tasks = <<>>
    /\ pc' = [pc EXCEPT ![t] = "waiting"]
    /\ is_locked' = (is_locked \/ pc[t] = "lock")
    /\ UNCHANGED <<m_pool_state, m_threads, m_tasks, task, mainVars, hist>>

Exit(t) ==
    /\ HasMutex(t)
    /\ m_pool_state = "STOPPED"
    /\ pc' = [pc EXCEPT ![t] = "exited"]
    /\ is_locked' = FALSE
    /\ UNCHANGED <<m_pool_state, m_threads, m_tasks, task, mainVars, hist>>

\* Mutant: pop_back.
TakeTask_Back(t) ==
    /\ HasMutex(t)
    /\ m_pool_state # "STOPPED" /\ m_tasks # <<>>
    /\ task' = [task EXCEPT ![t] = m_tasks[Len(m_tasks)]]
    /\ taken' = taken \cup {m_tasks[Len(m_tasks)]}
    /\ m_tasks' = SubSeq(m_tasks, 1, Len(m_tasks) - 1)
    /\ pc' = [pc EXCEPT ![t] = "run"]
    /\ is_locked' = FALSE
    /\ UNCHANGED <<m_pool_state, m_threads, mainVars, accepted, rejected, ran>>

TakeTask(t) ==
    /\ HasMutex(t)
    /\ m_pool_state # "STOPPED" /\ m_tasks # <<>>
    /\ task' = [task EXCEPT ![t] = Head(m_tasks)]
    /\ taken' = taken \cup {Head(m_tasks)}
    /\ m_tasks' = Tail(m_tasks)
    /\ pc' = [pc EXCEPT ![t] = "run"]
    /\ is_locked' = FALSE
    /\ UNCHANGED <<m_pool_state, m_threads, mainVars, accepted, rejected, ran>>

\* Mutant: the worker keeps its task and runs it again.
RunTask_Keeps(t) ==
    /\ pc[t] = "run"
    /\ ran' = [ran EXCEPT ![task[t]] = @ + 1]
    /\ pc' = [pc EXCEPT ![t] = "lock"]
    /\ UNCHANGED <<pool, task, mainVars, accepted, rejected, taken>>

RunTask(t) ==
    /\ pc[t] = "run"
    /\ ran' = [ran EXCEPT ![task[t]] = @ + 1]
    /\ task' = [task EXCEPT ![t] = NoTask]
    /\ pc' = [pc EXCEPT ![t] = "lock"]
    /\ UNCHANGED <<pool, mainVars, accepted, rejected, taken>>

\* A wakeup that nobody caused.
SpuriousWakeup(t) ==
    /\ pc[t] = "waiting"
    /\ pc' = [pc EXCEPT ![t] = "woken"]
    /\ UNCHANGED <<pool, task, mainVars, hist>>

execute_thread(t) == Wait(t) \/ Exit(t) \/ TakeTask(t) \/ RunTask(t)

(***************************************************************************)
(* add_task: refused over the limit; otherwise queued, and a waiting       *)
(* worker is signalled, if there is one.  A pool that is stopped, or not   *)
(* yet started, takes tasks too.                                           *)
(***************************************************************************)
Full == m_task_size_limit > 0 /\ Len(m_tasks) > m_task_size_limit

Fresh(k) == k \notin accepted \cup rejected

Refuse(k) ==
    /\ Full
    /\ rejected' = rejected \cup {k}
    /\ UNCHANGED <<m_tasks, pc, accepted>>

\* Mutant: a signal only when the queue was empty.
Signal_IfWasEmpty ==
    \/ /\ Waiting = {} \/ m_tasks # <<>>
       /\ UNCHANGED pc
    \/ /\ m_tasks = <<>>
       /\ \E t \in Waiting : pc' = [pc EXCEPT ![t] = "woken"]

\* Mutant: no signal.
Signal_Never == UNCHANGED pc

\* pthread_cond_signal
Signal ==
    \/ /\ Waiting = {}
       /\ UNCHANGED pc
    \/ \E t \in Waiting : pc' = [pc EXCEPT ![t] = "woken"]

Accept(k) ==
    /\ ~Full
    /\ m_tasks' = Append(m_tasks, k)
    /\ accepted' = accepted \cup {k}
    /\ Signal
    /\ UNCHANGED rejected

add_task(k) ==
    /\ Fresh(k)
    /\ Refuse(k) \/ Accept(k)
    /\ is_locked' = FALSE
    /\ UNCHANGED <<m_pool_state, m_threads, task, mainVars, taken, ran>>

(***************************************************************************)
(* Nothing moves: main is not inside a call, and every worker waits or is  *)
(* gone.                                                                   *)
(***************************************************************************)
AtRest ==
    /\ main \in {"idle", "undefined"}
    /\ \A t \in Thread : pc[t] \in {"none", "waiting", "exited"}
    /\ UNCHANGED vars

Next ==
    \/ Main
    \/ \E t \in Thread : execute_thread(t) \/ SpuriousWakeup(t)
    \/ \E k \in Task : add_task(k)
    \/ AtRest

Spec == Init /\ [][Next]_vars

(***************************************************************************)
(* The threads are scheduled and tasks return.  Nobody has to add a task,  *)
(* to start the pool or to destroy it, and no wakeup comes for nothing.    *)
(***************************************************************************)
MainInCall == main \notin {"idle", "undefined"} /\ Main

FairSpec ==
    /\ Spec
    /\ WF_vars(MainInCall)
    /\ \A t \in Thread : WF_vars(execute_thread(t))

-----------------------------------------------------------------------------

(***************************************************************************)
(* The variables hold values of their kinds.                               *)
(***************************************************************************)
TypeOK ==
    /\ m_pool_state \in {"NEW", "STARTED", "STOPPED"}
    /\ m_threads \in Seq(Thread)
    /\ m_tasks \in Seq(Task)
    /\ is_locked \in BOOLEAN
    /\ pc \in [Thread -> {"none", "lock", "waiting", "woken", "run", "exited"}]
    /\ task \in [Thread -> Task \cup {NoTask}]
    /\ main \in {"idle", "create", "broadcast", "join", "undefined"}
    /\ i \in 0..m_pool_size
    /\ starts \in 0..MaxStarts
    /\ joined \subseteq Thread
    /\ accepted \subseteq Task /\ taken \subseteq Task /\ rejected \subseteq Task
    /\ ran \in [Task -> Nat]

Holders(k) == {t \in Thread : task[t] = k}

(***************************************************************************)
(* A task that was taken is held by one worker or has run, once; any other *)
(* has not run and nobody holds it.  (execute_thread deletes it after the  *)
(* run, so a second holder would use a dead task.)                         *)
(***************************************************************************)
RunsOnce ==
    \A k \in Task :
        ran[k] + Cardinality(Holders(k)) = IF k \in taken THEN 1 ELSE 0

OnTheWay == {t \in Thread : HasMutex(t)}

(***************************************************************************)
(* No wakeup is lost: when a worker waits, each queued task has a worker   *)
(* that will look at the queue before it waits.                            *)
(***************************************************************************)
NoLostWakeup ==
    Waiting # {} => Len(m_tasks) <= Cardinality(OnTheWay) \/ m_pool_state = "STOPPED"

(***************************************************************************)
(* The queue is never more than one over the limit: add_task compares      *)
(* before it pushes, and with >.                                           *)
(***************************************************************************)
QueueBounded == m_task_size_limit > 0 => Len(m_tasks) <= m_task_size_limit + 1

(***************************************************************************)
(* In every state, started, stopped or half created: the values have their *)
(* kinds, no task is run twice or lost from a worker, and the queue keeps  *)
(* its bound.                                                              *)
(***************************************************************************)
Safe == TypeOK /\ RunsOnce /\ QueueBounded

\* The pool was started once, and all threads were created.
Intact == starts = 1 /\ Len(m_threads) = m_pool_size

Destroyed == main = "idle" /\ m_pool_state = "STOPPED"

(***************************************************************************)
(* When destroy_threadpool of an intact pool has returned, no thread of it *)
(* is left that could touch it, and ~Mutex does not spin: is_locked is     *)
(* FALSE, although threads that waited left it TRUE (threadpool.h:20-25).  *)
(***************************************************************************)
AllExited ==
    Destroyed /\ Intact => ~is_locked /\ \A t \in Thread : pc[t] \in {"none", "exited"}

(***************************************************************************)
(* A task accepted by a running pool with a thread runs, unless the pool   *)
(* is destroyed before.                                                    *)
(***************************************************************************)
AcceptedRuns ==
    \A k \in Task :
        /\ k \in accepted /\ m_pool_state = "STARTED"
        /\ \E t \in Thread : pc[t] \notin {"none", "exited"}
        ~> ran[k] = 1 \/ m_pool_state = "STOPPED"

(***************************************************************************)
(* destroy_threadpool returns: no worker sleeps through the stop.          *)
(***************************************************************************)
DestroyEnds == main \in {"broadcast", "join"} ~> main \in {"idle", "undefined"}

(***************************************************************************)
(* A pool is a TaskQueue: its queue is first come, first served, and each  *)
(* task goes to one worker; starting, stopping and waiting do not show.    *)
(***************************************************************************)
TQ == INSTANCE TaskQueue WITH
    Worker <- Thread, Limit <- m_task_size_limit, queue <- m_tasks, held <- task

IsTaskQueue == TQ!Spec

=============================================================================
