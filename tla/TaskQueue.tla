------------------------------ MODULE TaskQueue ------------------------------
(***************************************************************************)
(* What a ThreadPool promises to who adds tasks: one queue, first come,    *)
(* first served; each worker holds at most one task, and a task leaves the *)
(* queue for one worker only.  Nothing is promised once the pool stops.    *)
(* ThreadPool implements this, and EpollSocket relies on no more.          *)
(***************************************************************************)
EXTENDS Integers, Sequences

CONSTANTS
    Task,
    NoTask,
    Worker,
    Limit       \* Full when longer than this; no limit if not positive

VARIABLES
    queue,
    held        \* the task each worker is running

Full == Limit > 0 /\ Len(queue) > Limit

Init ==
    /\ queue = <<>>
    /\ held = [w \in Worker |-> NoTask]

Add(k) ==
    /\ ~Full
    /\ queue' = Append(queue, k)
    /\ UNCHANGED held

Take(w) ==
    /\ queue # <<>> /\ held[w] = NoTask
    /\ held' = [held EXCEPT ![w] = Head(queue)]
    /\ queue' = Tail(queue)

Finish(w) ==
    /\ held[w] # NoTask
    /\ held' = [held EXCEPT ![w] = NoTask]
    /\ UNCHANGED queue

Next ==
    \/ \E k \in Task : Add(k)
    \/ \E w \in Worker : Take(w) \/ Finish(w)

Spec == Init /\ [][Next]_<<queue, held>>

=============================================================================
