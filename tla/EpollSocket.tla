----------------------------- MODULE EpollSocket -----------------------------
(***************************************************************************)
(* EpollSocket (src/dependency/ehttp/src/epoll_socket.{h,cpp}): the main   *)
(* thread accepts, writes, sweeps idle clients and hands read events to a  *)
(* thread pool; the workers read.  All of them may close a client.         *)
(*                                                                         *)
(* A client's registration is ONESHOT: reporting an event disarms it, and  *)
(* whoever has handled the event arms it again.  That, not a lock, is what *)
(* keeps two threads from one EpollContext.  A step here ends where other  *)
(* threads can tell: at epoll_ctl, at _client_lock, at a read or write of  *)
(* _status, _clients or _ctx_status, at a callback's return.               *)
(*                                                                         *)
(* The pool is its queue and its workers, as TaskQueue describes it.  The  *)
(* watcher's callbacks are the user's: their results are constants.        *)
(***************************************************************************)
EXTENDS Integers, Sequences, FiniteSets, SequencesExt

CONSTANTS
    MaxClients,         \* bound: the connections made; ids count from 1
    Worker, Main,       \* the threads
    NoCtx,
    _max_events,        \* set_max_events
    _max_idle_sec,      \* set_client_max_idle_time, 0 unless set
    m_task_size_limit,  \* the pool's, -1 for the default pool
    ReadResults,        \* what on_readable may return on data
    WriteResults,       \* what on_writeable may return
    Fails,              \* may accept and epoll_ctl(ADD) fail?
    Hangs,              \* may the peers close?
    MaxSends,           \* bound: the chunks a peer sends
    MaxStops            \* bound: the calls of stop_epoll

ASSUME ThreadAssumption == Main \notin Worker
ASSUME ResultAssumption ==
    /\ ReadResults \subseteq {"READ_OVER", "READ_CONTINUE", "READ_CLOSE", "unknown"}
    /\ WriteResults \subseteq {"ALIVE", "CLOSE", "CONTINUE", "unknown"}
ASSUME NumberAssumption ==
    /\ {MaxClients, _max_events} \subseteq Nat \ {0}
    /\ {_max_idle_sec, MaxSends, MaxStops} \subseteq Nat
    /\ m_task_size_limit \in Int
ASSUME FlagAssumption == Fails \in BOOLEAN /\ Hangs \in BOOLEAN

Client == 1..MaxClients
Listen == 0     \* the listening socket, as a source of events
Thread == Worker \cup {Main}

ASSUME NoCtxAssumption == NoCtx \notin Client

VARIABLES
    \* the EpollSocket
    _status, _clients, _eclients, g_client_id,
    m_tasks,        \* the pool's queue: the contexts to read
    \* the EpollContexts
    _ctx_status,
    idle_sec,       \* time(NULL) - _last_interact_time, capped at _max_idle_sec
    released,       \* the contexts deleted
    \* the threads
    phase,          \* where start_event_loop is
    events,         \* the array of epoll_wait: what is left to handle
    remove_evs,     \* clear_idle_clients: what is left to close
    pc,             \* where each thread is in a handler
    ctx,            \* the context that handler works on
    \* the kernel and the peers
    armed,          \* each client's registration; all but "level" are ONESHOT, and
                    \* "off" and "lost", after an unknown result, are none
    inbox,          \* the chunks each peer has sent that are not yet read
    hung,           \* the peers that have closed: an end of stream follows
    connects, sends, stops

server == <<_status, _clients, _eclients, g_client_id>>
context == <<_ctx_status, idle_sec, released>>
loop == <<phase, events, remove_evs>>
thread == <<pc, ctx>>
peers == <<inbox, hung, connects, sends, stops>>
vars == <<server, m_tasks, context, loop, thread, armed, peers>>

Init ==
    /\ _status = "S_RUN" /\ _clients = 0 /\ _eclients = {} /\ g_client_id = 0
    /\ m_tasks = <<>>
    /\ _ctx_status = [c \in Client |-> "none"]
    /\ idle_sec = [c \in Client |-> 0]
    /\ released = {}
    /\ phase = "wait" /\ events = {} /\ remove_evs = {}
    /\ pc = [t \in Thread |-> "idle"]
    /\ ctx = [t \in Thread |-> NoCtx]
    /\ armed = [c \in Client |-> "none"]
    /\ inbox = [c \in Client |-> 0] /\ hung = {}
    /\ connects = 0 /\ sends = [c \in Client |-> 0] /\ stops = 0

\* Thread t goes to step p with context c.
Go(t, p, c) ==
    /\ pc' = [pc EXCEPT ![t] = p]
    /\ ctx' = [ctx EXCEPT ![t] = c]

Arm(c, e) == armed' = [armed EXCEPT ![c] = e]

-----------------------------------------------------------------------------
(***************************************************************************)
(* The outside: peers connect, send and close, seconds pass, and some      *)
(* thread calls stop_epoll.                                                *)
(***************************************************************************)
Connect ==
    /\ connects < MaxClients
    /\ connects' = connects + 1
    /\ UNCHANGED <<server, m_tasks, context, loop, thread, armed, inbox, hung, sends, stops>>

Send(c) ==
    /\ c <= connects /\ c \notin released \cup hung
    /\ sends[c] < MaxSends
    /\ inbox' = [inbox EXCEPT ![c] = @ + 1]
    /\ sends' = [sends EXCEPT ![c] = @ + 1]
    /\ UNCHANGED <<server, m_tasks, context, loop, thread, armed, hung, connects, stops>>

Hang(c) ==
    /\ Hangs
    /\ c <= connects /\ c \notin released \cup hung
    /\ hung' = hung \cup {c}
    /\ UNCHANGED <<server, m_tasks, context, loop, thread, armed, inbox, connects, sends, stops>>

Tick ==
    /\ \E c \in _eclients : idle_sec[c] < _max_idle_sec
    /\ idle_sec' = [c \in Client |->
           IF c \in _eclients /\ idle_sec[c] < _max_idle_sec THEN idle_sec[c] + 1
           ELSE idle_sec[c]]
    /\ UNCHANGED <<server, m_tasks, _ctx_status, released, loop, thread, armed, peers>>

stop_epoll ==
    /\ stops < MaxStops
    /\ stops' = stops + 1
    /\ _status' = "S_REJECT_CONN"
    /\ UNCHANGED <<_clients, _eclients, g_client_id, m_tasks, context, loop, thread,
                   armed, inbox, hung, connects, sends>>

-----------------------------------------------------------------------------
(***************************************************************************)
(* close_and_release, by any thread: on_close, epoll_ctl(DEL) and          *)
(* remove_client under the lock; then, without it, the look at _clients    *)
(* and _status, the write of _status, and the end of the context.          *)
(***************************************************************************)
remove_client(t) ==
    /\ pc[t] = "remove"
    /\ _clients' = _clients - 1
    /\ _eclients' = _eclients \ {ctx[t]}
    /\ Arm(ctx[t], "none")
    /\ Go(t, "check", ctx[t])
    /\ UNCHANGED <<_status, g_client_id, m_tasks, context, loop, peers>>

\* Mutant: the look at _clients comes before remove_client.
CheckEmpty_Early(t) ==
    /\ pc[t] = "check"
    /\ Go(t, IF _clients + 1 = 0 /\ _status = "S_REJECT_CONN" THEN "stop" ELSE "delete", ctx[t])
    /\ UNCHANGED <<server, m_tasks, context, loop, armed, peers>>

CheckEmpty(t) ==
    /\ pc[t] = "check"
    /\ Go(t, IF _clients = 0 /\ _status = "S_REJECT_CONN" THEN "stop" ELSE "delete", ctx[t])
    /\ UNCHANGED <<server, m_tasks, context, loop, armed, peers>>

SetStop(t) ==
    /\ pc[t] = "stop"
    /\ _status' = "S_STOP"
    /\ Go(t, "delete", ctx[t])
    /\ UNCHANGED <<_clients, _eclients, g_client_id, m_tasks, context, loop, armed, peers>>

Delete(t) ==
    /\ pc[t] = "delete"
    /\ released' = released \cup {ctx[t]}
    /\ Go(t, "idle", NoCtx)
    /\ UNCHANGED <<server, m_tasks, _ctx_status, idle_sec, loop, armed, peers>>

close_and_release(t) == remove_client(t) \/ CheckEmpty(t) \/ SetStop(t) \/ Delete(t)

-----------------------------------------------------------------------------
(***************************************************************************)
(* A worker: read_func runs handle_readable_event, then marks the context  *)
(* unless it was released in there.  The mark comes after the arming.      *)
(***************************************************************************)
read_func(w) ==
    /\ pc[w] = "idle" /\ m_tasks # <<>>
    /\ Go(w, "read", Head(m_tasks))
    /\ m_tasks' = Tail(m_tasks)
    /\ UNCHANGED <<server, context, loop, armed, peers>>

\* One recv; what is more than its buffer stays.
Received(c) == \E n \in 0..(inbox[c] - 1) : inbox' = [inbox EXCEPT ![c] = n]

\* At the end of the stream, and on EAGAIN, the watchers close.
ReadClose(w) ==
    /\ pc[w] = "read"
    /\ \/ inbox[ctx[w]] = 0 /\ UNCHANGED inbox
       \/ "READ_CLOSE" \in ReadResults /\ Received(ctx[w])
    /\ Go(w, "remove", ctx[w])
    /\ UNCHANGED <<server, m_tasks, context, loop, armed, hung, connects, sends, stops>>

\* Mutant: not armed again after READ_CONTINUE.
ReadGoesOn_NotArmed(w) ==
    /\ pc[w] = "read"
    /\ Received(ctx[w])
    /\ \/ "READ_CONTINUE" \in ReadResults /\ UNCHANGED armed
       \/ "READ_OVER" \in ReadResults /\ Arm(ctx[w], "out")
       \/ "unknown" \in ReadResults /\ Arm(ctx[w], "lost")
    /\ Go(w, "mark", ctx[w])
    /\ UNCHANGED <<server, m_tasks, context, loop, hung, connects, sends, stops>>

\* An unknown result leaves the client as it was reported, without registration.
ReadGoesOn(w) ==
    /\ pc[w] = "read"
    /\ Received(ctx[w])
    /\ \/ "READ_CONTINUE" \in ReadResults /\ Arm(ctx[w], "in")
       \/ "READ_OVER" \in ReadResults /\ Arm(ctx[w], "out")
       \/ "unknown" \in ReadResults /\ Arm(ctx[w], "lost")
    /\ Go(w, "mark", ctx[w])
    /\ UNCHANGED <<server, m_tasks, context, loop, hung, connects, sends, stops>>

\* Mutant: the mark is forgotten.
MarkReadOver_Not(w) ==
    /\ pc[w] = "mark"
    /\ Go(w, "idle", NoCtx)
    /\ UNCHANGED <<server, m_tasks, context, loop, armed, peers>>

MarkReadOver(w) ==
    /\ pc[w] = "mark"
    /\ _ctx_status' = [_ctx_status EXCEPT ![ctx[w]] = "CONTEXT_READ_OVER"]
    /\ Go(w, "idle", NoCtx)
    /\ UNCHANGED <<server, m_tasks, idle_sec, released, loop, armed, peers>>

WorkerStep(w) ==
    read_func(w) \/ ReadClose(w) \/ ReadGoesOn(w) \/ MarkReadOver(w) \/ close_and_release(w)

-----------------------------------------------------------------------------
(***************************************************************************)
(* The main thread: epoll_wait reports up to _max_events ready sources and *)
(* disarms them; they are handled one after the other; then idle clients   *)
(* are closed.  A timeout reports none.                                    *)
(***************************************************************************)
Ready ==
    (IF connects > g_client_id THEN {<<Listen, "in">>} ELSE {}) \cup
    {<<c, "in">> : c \in {d \in Client : armed[d] = "in" /\ (inbox[d] > 0 \/ d \in hung)}} \cup
    {<<c, "out">> : c \in {d \in Client : armed[d] \in {"out", "level"}}}

AtMost(n, m) == IF n < m THEN n ELSE m

epoll_wait ==
    /\ phase = "wait" /\ pc[Main] = "idle" /\ _status # "S_STOP"
    /\ events' \in {E \in SUBSET Ready : Cardinality(E) = AtMost(Cardinality(Ready), _max_events)}
    /\ armed' = [c \in Client |->
           IF armed[c] # "level" /\ \E e \in events' : e[1] = c THEN "off" ELSE armed[c]]
    /\ phase' = "handle"
    /\ UNCHANGED <<server, m_tasks, context, remove_evs, thread, peers>>

Handling(e) ==
    /\ phase = "handle" /\ pc[Main] = "idle"
    /\ e \in events
    /\ events' = events \ {e}
    /\ UNCHANGED <<phase, remove_evs>>

(***************************************************************************)
(* The listening socket: when the server rejects connections and has no    *)
(* client it is stopped here; the connection is accepted all the same.     *)
(***************************************************************************)
StatusAtAccept ==
    IF _status = "S_REJECT_CONN" /\ _clients = 0 THEN "S_STOP" ELSE _status

handle_accept_event ==
    /\ Handling(<<Listen, "in">>)
    /\ LET c == g_client_id + 1
       IN  /\ _status' = StatusAtAccept
           /\ g_client_id' = c
           /\ _clients' = _clients + 1
           /\ _eclients' = _eclients \cup {c}
           /\ \/ Arm(c, "in") /\ UNCHANGED thread
              \/ Fails /\ Go(Main, "remove", c) /\ UNCHANGED armed
    /\ UNCHANGED <<m_tasks, context, peers>>

accept_fails ==
    /\ Fails
    /\ Handling(<<Listen, "in">>)
    /\ _status' = StatusAtAccept
    /\ UNCHANGED <<_clients, _eclients, g_client_id, m_tasks, context, thread, armed, peers>>

Full == m_task_size_limit > 0 /\ Len(m_tasks) > m_task_size_limit

\* Mutant: a refused task is in the queue all the same.
multi_thread_handle_read_event_Queued(c) ==
    /\ Handling(<<c, "in">>)
    /\ _ctx_status' = [_ctx_status EXCEPT ![c] = "CONTEXT_READING"]
    /\ idle_sec' = [idle_sec EXCEPT ![c] = 0]
    /\ m_tasks' = Append(m_tasks, c)
    /\ \/ ~Full /\ UNCHANGED thread
       \/ Full /\ Go(Main, "remove", c)
    /\ UNCHANGED <<server, released, armed, peers>>

multi_thread_handle_read_event(c) ==
    /\ Handling(<<c, "in">>)
    /\ _ctx_status' = [_ctx_status EXCEPT ![c] = "CONTEXT_READING"]
    /\ idle_sec' = [idle_sec EXCEPT ![c] = 0]
    /\ \/ ~Full /\ m_tasks' = Append(m_tasks, c) /\ UNCHANGED thread
       \/ Full /\ Go(Main, "remove", c) /\ UNCHANGED m_tasks
    /\ UNCHANGED <<server, released, armed, peers>>

handle_writeable_event(c) ==
    /\ Handling(<<c, "out">>)
    /\ idle_sec' = [idle_sec EXCEPT ![c] = 0]
    /\ Go(Main, "write", c)
    /\ UNCHANGED <<server, m_tasks, _ctx_status, released, armed, peers>>

WriteClose ==
    /\ pc[Main] = "write"
    /\ \/ "CLOSE" \in WriteResults
       \/ "ALIVE" \in WriteResults /\ _status = "S_REJECT_CONN"
    /\ Go(Main, "remove", ctx[Main])
    /\ UNCHANGED <<server, m_tasks, context, loop, armed, peers>>

\* Mutant: armed for writing after the last write too.
WriteGoesOn_Out ==
    /\ pc[Main] = "write"
    /\ \/ "CONTINUE" \in WriteResults /\ Arm(ctx[Main], "out")
       \/ "ALIVE" \in WriteResults /\ _status # "S_REJECT_CONN" /\ Arm(ctx[Main], "out")
       \/ "unknown" \in WriteResults /\ Arm(ctx[Main], "level")
    /\ Go(Main, "idle", NoCtx)
    /\ UNCHANGED <<server, m_tasks, context, loop, peers>>

\* After an unknown result event.events is still the reported EPOLLOUT, without
\* ONESHOT: it is reported again and again.
WriteGoesOn ==
    /\ pc[Main] = "write"
    /\ \/ "CONTINUE" \in WriteResults /\ Arm(ctx[Main], "out")
       \/ "ALIVE" \in WriteResults /\ _status # "S_REJECT_CONN" /\ Arm(ctx[Main], "in")
       \/ "unknown" \in WriteResults /\ Arm(ctx[Main], "level")
    /\ Go(Main, "idle", NoCtx)
    /\ UNCHANGED <<server, m_tasks, context, loop, peers>>

\* Mutant: a client is idle even if it is being read.
IdleClients_Reading ==
    {c \in _eclients : _max_idle_sec > 0 /\ idle_sec[c] = _max_idle_sec}

\* clear_idle_clients: what it finds under the lock, ...
IdleClients ==
    {c \in _eclients : /\ _max_idle_sec > 0 /\ idle_sec[c] = _max_idle_sec
                       /\ _ctx_status[c] # "CONTEXT_READING"}

clear_idle_clients ==
    /\ phase = "handle" /\ pc[Main] = "idle" /\ events = {}
    /\ remove_evs' = IdleClients
    /\ phase' = "sweep"
    /\ UNCHANGED <<server, m_tasks, context, events, thread, armed, peers>>

\* ... and closes, in the order of the ids, without it.
CloseIdle ==
    /\ phase = "sweep" /\ pc[Main] = "idle" /\ remove_evs # {}
    /\ LET c == CHOOSE d \in remove_evs : \A o \in remove_evs : d <= o
       IN  /\ remove_evs' = remove_evs \ {c}
           /\ Go(Main, "remove", c)
    /\ UNCHANGED <<server, m_tasks, context, phase, events, armed, peers>>

NextRound ==
    /\ phase = "sweep" /\ pc[Main] = "idle" /\ remove_evs = {}
    /\ phase' = "wait"
    /\ UNCHANGED <<server, m_tasks, context, events, remove_evs, thread, armed, peers>>

LoopEnds ==
    /\ phase = "wait" /\ _status = "S_STOP"
    /\ phase' = "ended"
    /\ UNCHANGED <<server, m_tasks, context, events, remove_evs, thread, armed, peers>>

MainStep ==
    \/ epoll_wait \/ handle_accept_event \/ accept_fails
    \/ \E c \in Client : multi_thread_handle_read_event(c) \/ handle_writeable_event(c)
    \/ WriteClose \/ WriteGoesOn
    \/ clear_idle_clients \/ CloseIdle \/ NextRound \/ LoopEnds
    \/ close_and_release(Main)

Ended ==
    /\ phase = "ended" /\ m_tasks = <<>> /\ \A w \in Worker : pc[w] = "idle"
    /\ UNCHANGED vars

Next ==
    \/ Connect \/ Tick \/ stop_epoll
    \/ \E c \in Client : Send(c) \/ Hang(c)
    \/ MainStep
    \/ \E w \in Worker : WorkerStep(w)
    \/ Ended

Spec == Init /\ [][Next]_vars

(***************************************************************************)
(* The threads run, callbacks return and time passes.  Nothing is asked of *)
(* the peers, nor of who may call stop_epoll.                              *)
(***************************************************************************)
FairSpec ==
    /\ Spec
    /\ WF_vars(MainStep) /\ WF_vars(Tick)
    /\ \A w \in Worker : WF_vars(WorkerStep(w))

-----------------------------------------------------------------------------

(***************************************************************************)
(* The variables hold values of their kinds.                               *)
(***************************************************************************)
TypeOK ==
    /\ _status \in {"S_RUN", "S_REJECT_CONN", "S_STOP"}
    /\ _clients \in 0..MaxClients /\ _eclients \subseteq Client
    /\ g_client_id \in 0..MaxClients
    /\ m_tasks \in Seq(Client)
    /\ _ctx_status \in [Client -> {"none", "CONTEXT_READING", "CONTEXT_READ_OVER"}]
    /\ idle_sec \in [Client -> 0.._max_idle_sec]
    /\ released \subseteq Client
    /\ phase \in {"wait", "handle", "sweep", "ended"}
    /\ events \subseteq (0..MaxClients) \X {"in", "out"}
    /\ remove_evs \subseteq Client
    /\ pc \in [Thread -> {"idle", "read", "mark", "write", "remove", "check", "stop", "delete"}]
    /\ ctx \in [Thread -> Client \cup {NoCtx}]
    /\ armed \in [Client -> {"none", "in", "out", "level", "lost", "off"}]
    /\ inbox \in [Client -> 0..MaxSends] /\ hung \subseteq Client
    /\ connects \in 0..MaxClients
    /\ sends \in [Client -> 0..MaxSends] /\ stops \in 0..MaxStops

\* The threads that work on c, the last mark of a read apart.
Owners(c) == {t \in Thread : ctx[t] = c /\ pc[t] # "mark"}

Events(c) == {e \in events : e[1] = c}

Queued(c) == {n \in DOMAIN m_tasks : m_tasks[n] = c}

Registered(c) == IF armed[c] \in {"in", "out", "level"} THEN 1 ELSE 0

(***************************************************************************)
(* A client is in exactly one place: registered, reported, queued for      *)
(* reading or in the hands of one thread.  Twice, and two threads would    *)
(* work on its context; nowhere, and it would never be served again.       *)
(* (Without the idle sweep; and but for clients that an unknown result has *)
(* left without registration, or with one that is no ONESHOT.)             *)
(***************************************************************************)
OnePlace ==
    \A c \in _eclients : armed[c] \notin {"level", "lost"} =>
        Registered(c) + Cardinality(Events(c)) + Cardinality(Queued(c))
            + Cardinality(Owners(c)) = 1

(***************************************************************************)
(* No registration, no reported event, no queued task and no thread that   *)
(* serves or closes a client refers to a context that is gone.  The mark   *)
(* of a read (epoll_socket.cpp:185-190) is not among these: it comes when  *)
(* the client may be anybody's, and does meet contexts that are gone.      *)
(***************************************************************************)
HeldAreAlive ==
    \A c \in released :
        Registered(c) + Cardinality(Events(c)) + Cardinality(Queued(c))
            + Cardinality(Owners(c)) = 0

(***************************************************************************)
(* on_readable runs only when recv has something to return: on EAGAIN both *)
(* watchers of the repository close the connection (flow_server.cpp:42).   *)
(***************************************************************************)
ReadHasData == \A w \in Worker : pc[w] = "read" => inbox[ctx[w]] > 0 \/ ctx[w] \in hung

(***************************************************************************)
(* What the threads and the kernel hold is sound: of the right kind, alive,*)
(* and with something to read where a read is under way.                   *)
(***************************************************************************)
Safe == TypeOK /\ HeldAreAlive /\ ReadHasData

(***************************************************************************)
(* "find idle client but is reading, skip it!" (epoll_socket.cpp:400): the *)
(* sweep does not close a client that waits for a worker or is read by one.*)
(***************************************************************************)
SweepSparesReading ==
    phase = "sweep" =>
        \A c \in remove_evs \cup (IF pc[Main] = "idle" THEN {} ELSE {ctx[Main]}) :
            Queued(c) = {} /\ \A w \in Worker : ~(pc[w] = "read" /\ ctx[w] = c)

(***************************************************************************)
(* What has arrived is read, unless the client is closed.                  *)
(***************************************************************************)
DataIsRead ==
    \A c \in Client : inbox[c] > 0 ~> inbox[c] = 0 \/ c \in released

(***************************************************************************)
(* A client that nobody talks to any more is closed by the sweep, as long  *)
(* as the server runs.                                                     *)
(***************************************************************************)
IdleIsClosed == \A c \in Client : c \in _eclients ~> c \in released \/ phase = "ended"

(***************************************************************************)
(* After stop_epoll the loop ends once the clients there were have gone.   *)
(***************************************************************************)
StopEnds == _status = "S_REJECT_CONN" /\ _eclients # {} ~> phase = "ended"

=============================================================================
