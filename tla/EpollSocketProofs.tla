------------------------- MODULE EpollSocketProofs --------------------------
(***************************************************************************)
(* Theorems about EpollSocket without an idle limit (its default), for any *)
(* number of clients and workers, any watcher and any failures: a client   *)
(* is in one place only, no thread and no event refers to a context that   *)
(* is gone, and a read finds data.  With an idle limit: the sweep skips    *)
(* what is being read, while a client is read once.                        *)
(*                                                                         *)
(* The argument is the life of the ONESHOT registration: it is armed, then *)
(* an event, then a queued task, then in the hands of a worker, who arms   *)
(* it again or closes; each step takes the client from one place and puts  *)
(* it into the next.  The mark of a read lies outside of it.               *)
(***************************************************************************)
EXTENDS EpollSocket, SequenceTheorems, FiniteSetTheorems, WellFoundedInduction, TLAPS

USE ThreadAssumption, ResultAssumption, NumberAssumption, FlagAssumption, NoCtxAssumption

\* The default of set_client_max_idle_time: nobody is swept.
NoSweep == _max_idle_sec = 0

\* The watcher returns what handle_readable_event and handle_writeable_event know.
KnownResults == "unknown" \notin ReadResults \cup WriteResults

\* The places of a client: armed, reported, queued, or with a thread that
\* serves it or closes it.
IsArmed(c) == armed[c] \in {"in", "out"}
InEvents(c) == \E e \in events : e[1] = c
InQueue(c) == \E n \in 1..Len(m_tasks) : m_tasks[n] = c
Serving(t, c) == ctx[t] = c /\ pc[t] \in {"read", "write", "remove"}
Closing(t, c) == ctx[t] = c /\ pc[t] \in {"check", "stop", "delete"}
Holds(t, c) == Serving(t, c) \/ Closing(t, c)
InHand(c) == \E t \in Thread : Holds(t, c)

(***************************************************************************)
(* The inductive invariant.                                                *)
(***************************************************************************)

\* A thread has a context while it is in a handler, workers do not write and
\* the main thread does not read.
ThreadsInv ==
    /\ \A t \in Thread : ctx[t] = NoCtx <=> pc[t] = "idle"
    /\ \A w \in Worker : pc[w] # "write"
    /\ pc[Main] \notin {"read", "mark"}

\* The main loop: events are left only while they are handled, that of the
\* listening socket stands for a connection, and none is swept.
LoopInv ==
    /\ remove_evs = {}
    /\ phase # "handle" => events = {}
    /\ \A e \in events : e[1] = Listen => e = <<Listen, "in">> /\ g_client_id < connects
    /\ g_client_id <= connects

\* No client is in two places.
ExclusiveInv ==
    /\ \A c \in Client :
          /\ IsArmed(c) => ~InEvents(c) /\ ~InQueue(c) /\ ~InHand(c)
          /\ InEvents(c) => ~InQueue(c) /\ ~InHand(c)
          /\ InQueue(c) => ~InHand(c)
    /\ \A c \in Client : \A t, u \in Thread : Holds(t, c) /\ Holds(u, c) => t = u

\* Nor is it twice in one.
OnceInv ==
    /\ \A e, f \in events : e[1] = f[1] => e = f
    /\ \A m, n \in 1..Len(m_tasks) : m_tasks[m] = m_tasks[n] => m = n

\* The clients are those accepted and not removed, and _clients counts them.
ClientsInv ==
    /\ _eclients \subseteq 1..g_client_id /\ released \subseteq 1..g_client_id
    /\ _eclients \cap released = {}
    /\ _clients = Cardinality(_eclients)

\* A place holds a client, and a closing thread one that is removed but not gone.
ServiceInv ==
    \A c \in Client :
        /\ IsArmed(c) \/ InEvents(c) \/ InQueue(c) => c \in _eclients
        /\ \A t \in Thread : Serving(t, c) => c \in _eclients
        /\ \A t \in Thread : Closing(t, c) => c <= g_client_id /\ c \notin _eclients /\ c \notin released

\* No client is nowhere.
PlacedInv ==
    KnownResults =>
        \A c \in Client : c \in _eclients => IsArmed(c) \/ InEvents(c) \/ InQueue(c) \/ InHand(c)

\* From the report of a read event to the recv there is something to read, for
\* nobody else can read it; and a peer's unread chunks are some of its chunks.
DataInv ==
    /\ \A c \in Client :
          <<c, "in">> \in events \/ InQueue(c) \/ (\E w \in Worker : pc[w] = "read" /\ ctx[w] = c)
              => inbox[c] > 0 \/ c \in hung
    /\ \A c \in Client : inbox[c] <= sends[c]

\* A registration without ONESHOT is left by an unknown result; such a client is
\* only written to, and by the main thread.
LevelInv ==
    \A c \in Client : armed[c] = "level" =>
        /\ ~KnownResults /\ c \in _eclients
        /\ <<c, "in">> \notin events /\ ~InQueue(c)
        /\ \A w \in Worker : ~Holds(w, c)

\* Together with LevelInv this is inductive.
IInv ==
    /\ TypeOK /\ ThreadsInv /\ LoopInv /\ ClientsInv /\ DataInv
    /\ ExclusiveInv /\ OnceInv /\ ServiceInv /\ PlacedInv

-----------------------------------------------------------------------------
(***************************************************************************)
(* Helpers.                                                                *)
(***************************************************************************)

LEMMA Numbers ==
    /\ MaxClients \in Nat \ {0} /\ _max_idle_sec \in Nat /\ MaxSends \in Nat /\ MaxStops \in Nat
    /\ Client \subseteq Nat \ {0} /\ Listen \notin Client
    /\ Main \in Thread /\ Worker \subseteq Thread /\ \A t \in Thread : t # Main => t \in Worker
<1>1. MaxClients \in Nat \ {0} /\ _max_idle_sec \in Nat /\ MaxSends \in Nat /\ MaxStops \in Nat
  OBVIOUS
<1> QED
  BY <1>1 DEF Client, Listen, Thread

\* The kind of a thread's state, and of its context.
Steps == {"idle", "read", "mark", "write", "remove", "check", "stop", "delete"}

LEMMA GoFacts ==
    ASSUME TypeOK, NEW t \in Thread, NEW p \in Steps, NEW c \in Client \cup {NoCtx}, Go(t, p, c)
    PROVE  /\ pc' \in [Thread -> Steps] /\ ctx' \in [Thread -> Client \cup {NoCtx}]
           /\ pc'[t] = p /\ ctx'[t] = c
           /\ \A u \in Thread : u # t => pc'[u] = pc[u] /\ ctx'[u] = ctx[u]
<1>1. pc \in [Thread -> Steps] /\ ctx \in [Thread -> Client \cup {NoCtx}]
  BY DEF TypeOK, Steps
<1> QED
  BY <1>1 DEF Go

\* How a thread's step moves clients into its hands and out of them.
LEMMA GoPlaces ==
    ASSUME TypeOK, NEW t \in Thread, NEW p \in Steps, NEW c \in Client \cup {NoCtx}, Go(t, p, c)
    PROVE  \A u \in Thread : \A d \in Client :
               /\ Serving(u, d)' <=> IF u = t THEN d = c /\ p \in {"read", "write", "remove"} ELSE Serving(u, d)
               /\ Closing(u, d)' <=> IF u = t THEN d = c /\ p \in {"check", "stop", "delete"} ELSE Closing(u, d)
BY GoFacts DEF Serving, Closing

LEMMA ArmFacts ==
    ASSUME TypeOK, NEW c \in Client, NEW e \in {"none", "in", "out", "level", "lost", "off"}, Arm(c, e)
    PROVE  /\ armed' \in [Client -> {"none", "in", "out", "level", "lost", "off"}]
           /\ armed'[c] = e
           /\ \A d \in Client : d # c => armed'[d] = armed[d]
BY DEF Arm, TypeOK

LEMMA ArmPlaces ==
    ASSUME TypeOK, NEW c \in Client, NEW e \in {"none", "in", "out", "level", "lost", "off"}, Arm(c, e)
    PROVE  \A d \in Client : IsArmed(d)' <=> IF d = c THEN e \in {"in", "out"} ELSE IsArmed(d)
BY ArmFacts DEF IsArmed

\* A thread in a handler has a client.
LEMMA HandlerHasClient ==
    ASSUME TypeOK, ThreadsInv, NEW t \in Thread, pc[t] # "idle"
    PROVE  ctx[t] \in Client
BY DEF TypeOK, ThreadsInv

LEMMA ClientsFinite ==
    ASSUME NEW S \in SUBSET Client
    PROVE  IsFiniteSet(S) /\ Cardinality(S) \in 0..MaxClients
<1>1. IsFiniteSet(Client) /\ Cardinality(Client) = MaxClients
  BY Numbers, FS_Interval DEF Client
<1>2. IsFiniteSet(S) /\ Cardinality(S) <= MaxClients
  BY <1>1, FS_Subset
<1>3. Cardinality(S) \in Nat
  BY <1>2, FS_CardinalityType
<1> QED
  BY <1>2, <1>3, Numbers

-----------------------------------------------------------------------------
(***************************************************************************)
(* Steps that leave every client where it is.                              *)
(***************************************************************************)

PlacesInv == ClientsInv /\ ExclusiveInv /\ OnceInv /\ ServiceInv /\ PlacedInv

LEMMA PlacesKept ==
    ASSUME PlacesInv,
           UNCHANGED <<armed, events, m_tasks, _eclients, _clients, g_client_id, released>>,
           \A u \in Thread : \A d \in Client :
               (Serving(u, d)' <=> Serving(u, d)) /\ (Closing(u, d)' <=> Closing(u, d))
    PROVE  PlacesInv'
<1>1. \A d \in Client :
          (IsArmed(d)' <=> IsArmed(d)) /\ (InEvents(d)' <=> InEvents(d)) /\ (InQueue(d)' <=> InQueue(d))
  BY DEF IsArmed, InEvents, InQueue
<1>2. ClientsInv' /\ OnceInv'
  BY DEF PlacesInv, ClientsInv, OnceInv
<1>3. ExclusiveInv'
  BY <1>1 DEF PlacesInv, ExclusiveInv, InHand, Holds
<1>4. ServiceInv'
  BY <1>1 DEF PlacesInv, ServiceInv
<1>5. PlacedInv'
  BY <1>1 DEF PlacesInv, PlacedInv, InHand, Holds
<1> QED
  BY <1>2, <1>3, <1>4, <1>5 DEF PlacesInv

\* No thread moves.
LEMMA OutsideKeeps ==
    ASSUME IInv,
           UNCHANGED <<thread, armed, events, m_tasks, _eclients, _clients, g_client_id, released>>,
           TypeOK', LoopInv', DataInv'
    PROVE  IInv'
<1>1. \A u \in Thread : \A d \in Client :
               (Serving(u, d)' <=> Serving(u, d)) /\ (Closing(u, d)' <=> Closing(u, d))
  BY DEF thread, Serving, Closing
<1>2. PlacesInv'
  BY <1>1, PlacesKept DEF IInv, PlacesInv
<1>3. ThreadsInv'
  BY DEF IInv, ThreadsInv, thread
<1> QED
  BY <1>2, <1>3 DEF IInv, PlacesInv

\* A thread goes on with the client it serves, or closes.
LEMMA HandlerKeeps ==
    ASSUME IInv, NEW t \in Thread, NEW p \in {"remove", "stop", "delete"}, Go(t, p, ctx[t]),
           p = "remove" => pc[t] \in {"read", "write"},
           p # "remove" => pc[t] \in {"check", "stop"},
           UNCHANGED <<armed, events, m_tasks, _eclients, _clients, g_client_id, released>>,
           TypeOK', LoopInv', DataInv'
    PROVE  IInv'
<1>0. TypeOK /\ ThreadsInv /\ p \in Steps /\ ctx[t] \in Client
  BY HandlerHasClient DEF IInv, Steps
<1>1. \A u \in Thread : \A d \in Client :
               (Serving(u, d)' <=> Serving(u, d)) /\ (Closing(u, d)' <=> Closing(u, d))
  <2> SUFFICES ASSUME NEW u \in Thread, NEW d \in Client
               PROVE  (Serving(u, d)' <=> Serving(u, d)) /\ (Closing(u, d)' <=> Closing(u, d))
    OBVIOUS
  <2>1. /\ Serving(u, d)' <=> IF u = t THEN d = ctx[t] /\ p \in {"read", "write", "remove"} ELSE Serving(u, d)
        /\ Closing(u, d)' <=> IF u = t THEN d = ctx[t] /\ p \in {"check", "stop", "delete"} ELSE Closing(u, d)
    BY <1>0, GoPlaces
  <2> QED
    BY <2>1 DEF Serving, Closing
<1>2. PlacesInv'
  BY <1>1, PlacesKept DEF IInv, PlacesInv
<1>3. ThreadsInv'
  <2>1. /\ pc'[t] = p /\ ctx'[t] = ctx[t]
        /\ \A u \in Thread : u # t => pc'[u] = pc[u] /\ ctx'[u] = ctx[u]
    BY <1>0, GoFacts
  <2> QED
    BY <1>0, <2>1, Numbers DEF ThreadsInv
<1> QED
  BY <1>2, <1>3 DEF IInv, PlacesInv

\* What is reported, queued or being read is not touched.
LEMMA DataKept ==
    ASSUME DataInv, UNCHANGED <<events, m_tasks, inbox, hung, sends>>,
           \A w \in Worker : pc'[w] = "read" => pc[w] = "read" /\ ctx'[w] = ctx[w]
    PROVE  DataInv'
BY DEF DataInv, InQueue

(***************************************************************************)
(* Peers, time and stop_epoll.                                             *)
(***************************************************************************)
LEMMA OutsideStep ==
    ASSUME IInv,
           \/ Connect \/ Tick \/ stop_epoll \/ UNCHANGED vars
           \/ \E c \in Client : Send(c) \/ Hang(c)
    PROVE  IInv'
<1>0. TypeOK /\ LoopInv /\ DataInv
  BY DEF IInv
<1>1. CASE Connect
  <2>1. /\ connects < MaxClients /\ connects' = connects + 1
        /\ UNCHANGED <<server, m_tasks, context, loop, thread, armed, inbox, hung, sends, stops>>
    BY <1>1 DEF Connect
  <2>2. TypeOK'
    <3>1. connects \in 0..MaxClients
      BY <1>0 DEF TypeOK
    <3>2. connects' \in 0..MaxClients
      BY <2>1, <3>1, Numbers
    <3> QED
      BY <1>0, <2>1, <3>2 DEF TypeOK, server, context, loop, thread
  <2>3. LoopInv'
    <3>1. connects \in Nat /\ g_client_id \in Nat
      BY <1>0 DEF TypeOK
    <3>2. g_client_id <= connects => g_client_id < connects'
      BY <2>1, <3>1
    <3>3. g_client_id < connects'
      BY <1>0, <3>2 DEF LoopInv
    <3>4. g_client_id <= connects'
      BY <2>1, <3>1, <3>3
    <3> QED
      BY <1>0, <2>1, <3>3, <3>4 DEF LoopInv, loop, server
  <2>4. DataInv'
    BY <1>0, <2>1, DataKept DEF loop, thread
  <2> QED
    BY <2>1, <2>2, <2>3, <2>4, OutsideKeeps DEF server, context, loop
<1>2. CASE Tick
  <2>1. /\ idle_sec' = [c \in Client |->
               IF c \in _eclients /\ idle_sec[c] < _max_idle_sec THEN idle_sec[c] + 1 ELSE idle_sec[c]]
        /\ UNCHANGED <<server, m_tasks, _ctx_status, released, loop, thread, armed, peers>>
    BY <1>2 DEF Tick
  <2>2. TypeOK'
    <3>1. idle_sec' \in [Client -> 0.._max_idle_sec]
      <4>1. idle_sec \in [Client -> 0.._max_idle_sec]
        BY <1>0 DEF TypeOK
      <4> QED
        BY <2>1, <4>1, Numbers
    <3> QED
      BY <1>0, <2>1, <3>1 DEF TypeOK, server, loop, thread, peers
  <2>3. LoopInv'
    BY <1>0, <2>1 DEF LoopInv, loop, server, peers
  <2>4. DataInv'
    BY <1>0, <2>1, DataKept DEF loop, thread, peers
  <2> QED
    BY <2>1, <2>2, <2>3, <2>4, OutsideKeeps DEF server, loop
<1>3. CASE stop_epoll
  <2>1. /\ stops < MaxStops /\ stops' = stops + 1 /\ _status' = "S_REJECT_CONN"
        /\ UNCHANGED <<_clients, _eclients, g_client_id, m_tasks, context, loop, thread,
                       armed, inbox, hung, connects, sends>>
    BY <1>3 DEF stop_epoll
  <2>2. TypeOK'
    <3>1. stops \in 0..MaxStops
      BY <1>0 DEF TypeOK
    <3>2. stops' \in 0..MaxStops
      BY <2>1, <3>1, Numbers
    <3> QED
      BY <1>0, <2>1, <3>2 DEF TypeOK, context, loop, thread
  <2>3. LoopInv'
    BY <1>0, <2>1 DEF LoopInv, loop
  <2>4. DataInv'
    BY <1>0, <2>1, DataKept DEF loop, thread
  <2> QED
    BY <2>1, <2>2, <2>3, <2>4, OutsideKeeps DEF context, loop
<1>4. CASE UNCHANGED vars
  <2>1. UNCHANGED <<server, m_tasks, context, loop, thread, armed, peers>>
    BY <1>4 DEF vars
  <2>2. TypeOK'
    BY <1>0, <2>1 DEF TypeOK, server, context, loop, thread, peers
  <2>3. LoopInv'
    BY <1>0, <2>1 DEF LoopInv, loop, server, peers
  <2>4. DataInv'
    BY <1>0, <2>1, DataKept DEF loop, thread, peers
  <2> QED
    BY <2>1, <2>2, <2>3, <2>4, OutsideKeeps DEF server, context, loop
<1>5. ASSUME NEW c \in Client, Send(c)
      PROVE  IInv'
  <2>1. /\ sends[c] < MaxSends
        /\ inbox' = [inbox EXCEPT ![c] = @ + 1] /\ sends' = [sends EXCEPT ![c] = @ + 1]
        /\ UNCHANGED <<server, m_tasks, context, loop, thread, armed, hung, connects, stops>>
    BY <1>5 DEF Send
  <2>2. /\ inbox \in [Client -> 0..MaxSends] /\ sends \in [Client -> 0..MaxSends]
        /\ inbox[c] <= sends[c]
    BY <1>0 DEF TypeOK, DataInv
  <2>3. TypeOK'
    <3>1. inbox' \in [Client -> 0..MaxSends] /\ sends' \in [Client -> 0..MaxSends]
      BY <2>1, <2>2, Numbers
    <3> QED
      BY <1>0, <2>1, <3>1 DEF TypeOK, server, context, loop, thread
  <2>4. LoopInv'
    BY <1>0, <2>1 DEF LoopInv, loop, server
  <2>5. DataInv'
    <3>1. \A d \in Client : inbox'[d] >= inbox[d] /\ inbox'[d] <= sends'[d]
      BY <1>0, <2>1, <2>2, Numbers DEF DataInv
    <3>2. \A d \in Client : inbox[d] > 0 => inbox'[d] > 0
      BY <2>1, <2>2, Numbers
    <3> QED
      BY <1>0, <2>1, <3>1, <3>2 DEF DataInv, InQueue, loop, thread
  <2> QED
    BY <2>1, <2>3, <2>4, <2>5, OutsideKeeps DEF server, context, loop
<1>6. ASSUME NEW c \in Client, Hang(c)
      PROVE  IInv'
  <2>1. /\ hung' = hung \cup {c}
        /\ UNCHANGED <<server, m_tasks, context, loop, thread, armed, inbox, connects, sends, stops>>
    BY <1>6 DEF Hang
  <2>2. TypeOK'
    BY <1>0, <2>1 DEF TypeOK, server, context, loop, thread
  <2>3. LoopInv'
    BY <1>0, <2>1 DEF LoopInv, loop, server
  <2>4. DataInv'
    BY <1>0, <2>1 DEF DataInv, InQueue, loop, thread
  <2> QED
    BY <2>1, <2>2, <2>3, <2>4, OutsideKeeps DEF server, context, loop
<1> QED
  BY <1>1, <1>2, <1>3, <1>4, <1>5, <1>6

-----------------------------------------------------------------------------
(***************************************************************************)
(* close_and_release.                                                      *)
(***************************************************************************)

LEMMA RemoveStep ==
    ASSUME IInv, NEW t \in Thread, remove_client(t)
    PROVE  IInv'
<1>0. /\ TypeOK /\ ThreadsInv /\ LoopInv /\ ClientsInv /\ DataInv
      /\ ExclusiveInv /\ OnceInv /\ ServiceInv /\ PlacedInv
  BY DEF IInv
<1>1. PICK c \in Client : c = ctx[t]
  BY <1>0, HandlerHasClient DEF remove_client
<1>2. /\ pc[t] = "remove" /\ _clients' = _clients - 1 /\ _eclients' = _eclients \ {c}
      /\ Arm(c, "none") /\ Go(t, "check", c)
      /\ UNCHANGED <<_status, g_client_id, m_tasks, context, loop, peers>>
  BY <1>1 DEF remove_client
<1>3. Serving(t, c) /\ \A d \in Client : Holds(t, d) => d = c
  BY <1>1, <1>2 DEF Serving, Closing, Holds
<1>4. c \in _eclients /\ c \notin released /\ c <= g_client_id
  <2>1. c \in _eclients
    BY <1>0, <1>3 DEF ServiceInv
  <2> QED
    BY <1>0, <2>1 DEF ClientsInv, TypeOK
<1>5. /\ pc' \in [Thread -> Steps] /\ ctx' \in [Thread -> Client \cup {NoCtx}]
      /\ pc'[t] = "check" /\ ctx'[t] = c
      /\ \A u \in Thread : u # t => pc'[u] = pc[u] /\ ctx'[u] = ctx[u]
      /\ armed' \in [Client -> {"none", "in", "out", "level", "lost", "off"}]
  BY <1>0, <1>2, GoFacts, ArmFacts DEF Steps
<1>6. \A u \in Thread : \A d \in Client :
               /\ Serving(u, d)' <=> IF u = t THEN FALSE ELSE Serving(u, d)
               /\ Closing(u, d)' <=> IF u = t THEN d = c ELSE Closing(u, d)
  BY <1>0, <1>2, GoPlaces DEF Steps
<1>7. \A d \in Client :
          /\ IsArmed(d)' <=> IF d = c THEN FALSE ELSE IsArmed(d)
          /\ InEvents(d)' <=> InEvents(d)
          /\ InQueue(d)' <=> InQueue(d)
  BY <1>0, <1>2, ArmPlaces DEF InEvents, InQueue, loop
<1>8. Cardinality(_eclients') = Cardinality(_eclients) - 1
  <2>1. _eclients \in SUBSET Client
    BY <1>0 DEF TypeOK
  <2> QED
    BY <1>2, <1>4, <2>1, ClientsFinite, FS_RemoveElement
<1>9. TypeOK'
  <2>1. _clients' \in 0..MaxClients
    <3>1. _eclients' \in SUBSET Client
      BY <1>0, <1>2 DEF TypeOK
    <3> QED
      BY <1>0, <1>2, <1>8, <3>1, ClientsFinite DEF ClientsInv
  <2> QED
    BY <1>0, <1>2, <1>5, <2>1 DEF TypeOK, Steps, context, loop, peers
<1>10. ThreadsInv'
  BY <1>0, <1>5, Numbers DEF ThreadsInv
<1>11. LoopInv' /\ OnceInv'
  BY <1>0, <1>2 DEF LoopInv, OnceInv, loop, peers
<1>12. DataInv'
  BY <1>0, <1>2, <1>5, Numbers DEF DataInv, InQueue, loop, peers
<1>13. ClientsInv'
  BY <1>0, <1>2, <1>8 DEF ClientsInv, context
<1>14. ExclusiveInv'
  BY <1>0, <1>3, <1>6, <1>7 DEF ExclusiveInv, Holds, InHand
<1>15. ServiceInv'
  BY <1>0, <1>2, <1>3, <1>4, <1>6, <1>7 DEF ServiceInv, ExclusiveInv, Holds, InHand, context
<1>16. PlacedInv'
  BY <1>0, <1>2, <1>3, <1>6, <1>7 DEF PlacedInv, Holds, InHand
<1> QED
  BY <1>9, <1>10, <1>11, <1>12, <1>13, <1>14, <1>15, <1>16 DEF IInv


LEMMA CheckAndStopStep ==
    ASSUME IInv, NEW t \in Thread, CheckEmpty(t) \/ SetStop(t)
    PROVE  IInv'
<1>0. TypeOK /\ ThreadsInv /\ LoopInv /\ DataInv
  BY DEF IInv
<1>1. PICK p \in {"stop", "delete"} :
          /\ pc[t] \in {"check", "stop"} /\ Go(t, p, ctx[t]) /\ _status' \in {_status, "S_STOP"}
          /\ UNCHANGED <<_clients, _eclients, g_client_id, m_tasks, context, loop, armed, peers>>
  BY DEF CheckEmpty, SetStop, server
<1>2. ctx[t] \in Client /\ p \in Steps
  BY <1>0, <1>1, HandlerHasClient DEF Steps
<1>3. /\ pc' \in [Thread -> Steps] /\ ctx' \in [Thread -> Client \cup {NoCtx}]
      /\ pc'[t] = p /\ ctx'[t] = ctx[t]
      /\ \A u \in Thread : u # t => pc'[u] = pc[u] /\ ctx'[u] = ctx[u]
  BY <1>0, <1>1, <1>2, GoFacts
<1>4. TypeOK'
  BY <1>0, <1>1, <1>3 DEF TypeOK, Steps, context, loop, peers
<1>5. LoopInv'
  BY <1>0, <1>1 DEF LoopInv, loop, peers
<1>6. DataInv'
  <2>1. \A w \in Worker : pc'[w] = "read" => pc[w] = "read" /\ ctx'[w] = ctx[w]
    BY <1>3, Numbers
  <2> QED
    BY <1>0, <1>1, <2>1, DataKept DEF loop, peers
<1> QED
  BY <1>1, <1>4, <1>5, <1>6, HandlerKeeps DEF context, loop

LEMMA DeleteStep ==
    ASSUME IInv, NEW t \in Thread, Delete(t)
    PROVE  IInv'
<1>0. /\ TypeOK /\ ThreadsInv /\ LoopInv /\ ClientsInv /\ DataInv
      /\ ExclusiveInv /\ OnceInv /\ ServiceInv /\ PlacedInv
  BY DEF IInv
<1>1. PICK c \in Client : c = ctx[t]
  BY <1>0, HandlerHasClient DEF Delete
<1>2. /\ pc[t] = "delete" /\ released' = released \cup {c} /\ Go(t, "idle", NoCtx)
      /\ UNCHANGED <<server, m_tasks, _ctx_status, idle_sec, loop, armed, peers>>
  BY <1>1 DEF Delete
<1>3. Closing(t, c) /\ \A d \in Client : Holds(t, d) => d = c
  BY <1>1, <1>2 DEF Serving, Closing, Holds
<1>4. c \notin _eclients /\ c <= g_client_id /\ c \in Nat \ {0}
  BY <1>0, <1>3, Numbers DEF ServiceInv
<1>5. /\ pc' \in [Thread -> Steps] /\ ctx' \in [Thread -> Client \cup {NoCtx}]
      /\ pc'[t] = "idle" /\ ctx'[t] = NoCtx
      /\ \A u \in Thread : u # t => pc'[u] = pc[u] /\ ctx'[u] = ctx[u]
  BY <1>0, <1>2, GoFacts DEF Steps
<1>6. \A u \in Thread : \A d \in Client :
               /\ Serving(u, d)' <=> IF u = t THEN FALSE ELSE Serving(u, d)
               /\ Closing(u, d)' <=> IF u = t THEN FALSE ELSE Closing(u, d)
  BY <1>0, <1>2, GoPlaces DEF Steps
<1>7. \A d \in Client :
          /\ IsArmed(d)' <=> IsArmed(d)
          /\ InEvents(d)' <=> InEvents(d)
          /\ InQueue(d)' <=> InQueue(d)
  BY <1>2 DEF IsArmed, InEvents, InQueue, loop
<1>8. TypeOK'
  BY <1>0, <1>2, <1>5 DEF TypeOK, Steps, server, loop, peers
<1>9. ThreadsInv'
  BY <1>0, <1>5, Numbers DEF ThreadsInv
<1>10. LoopInv' /\ OnceInv'
  BY <1>0, <1>2 DEF LoopInv, OnceInv, server, loop, peers
<1>11. DataInv'
  <2>1. \A w \in Worker : pc'[w] = "read" => pc[w] = "read" /\ ctx'[w] = ctx[w]
    BY <1>5, Numbers
  <2> QED
    BY <1>0, <1>2, <2>1, DataKept DEF loop, peers
<1>12. ClientsInv'
  <2>1. g_client_id \in 0..MaxClients
    BY <1>0 DEF TypeOK
  <2>2. c \in 1..g_client_id
    BY <1>4, <2>1
  <2> QED
    BY <1>0, <1>2, <1>4, <2>2 DEF ClientsInv, server
<1>13. ExclusiveInv'
  BY <1>0, <1>6, <1>7 DEF ExclusiveInv, Holds, InHand
<1>14. ServiceInv'
  BY <1>0, <1>2, <1>3, <1>6, <1>7 DEF ServiceInv, ExclusiveInv, Holds, server
<1>15. PlacedInv'
  BY <1>0, <1>2, <1>3, <1>4, <1>6, <1>7 DEF PlacedInv, Holds, InHand, server
<1> QED
  BY <1>8, <1>9, <1>10, <1>11, <1>12, <1>13, <1>14, <1>15 DEF IInv

LEMMA CloseStep ==
    ASSUME IInv, NEW t \in Thread, close_and_release(t)
    PROVE  IInv'
BY RemoveStep, CheckAndStopStep, DeleteStep DEF close_and_release

-----------------------------------------------------------------------------
(***************************************************************************)
(* The workers.                                                            *)
(***************************************************************************)

LEMMA TailPlaces ==
    ASSUME m_tasks \in Seq(Client), \A m, n \in 1..Len(m_tasks) : m_tasks[m] = m_tasks[n] => m = n,
           m_tasks # <<>>, m_tasks' = Tail(m_tasks)
    PROVE  /\ m_tasks' \in Seq(Client)
           /\ Head(m_tasks) \in Client /\ InQueue(Head(m_tasks))
           /\ \A d \in Client : InQueue(d)' <=> InQueue(d) /\ d # Head(m_tasks)
           /\ \A m, n \in 1..Len(m_tasks') : m_tasks'[m] = m_tasks'[n] => m = n
<1>1. /\ m_tasks' \in Seq(Client) /\ Head(m_tasks) \in Client /\ Head(m_tasks) = m_tasks[1]
      /\ Len(m_tasks) \in Nat \ {0} /\ Len(m_tasks') = Len(m_tasks) - 1
      /\ \A n \in 1..Len(m_tasks') : m_tasks'[n] = m_tasks[n + 1]
  BY HeadTailProperties, EmptySeq
<1>2. InQueue(Head(m_tasks))
  <2>1. 1 \in 1..Len(m_tasks)
    BY <1>1
  <2> QED
    BY <1>1, <2>1 DEF InQueue
<1>3. \A n \in 2..Len(m_tasks) : n - 1 \in 1..Len(m_tasks') /\ m_tasks'[n - 1] = m_tasks[n] /\ m_tasks[n] # m_tasks[1]
  <2> SUFFICES ASSUME NEW n \in 2..Len(m_tasks)
               PROVE  n - 1 \in 1..Len(m_tasks') /\ m_tasks'[n - 1] = m_tasks[n] /\ m_tasks[n] # m_tasks[1]
    OBVIOUS
  <2>1. n - 1 \in 1..Len(m_tasks') /\ (n - 1) + 1 = n
    BY <1>1
  <2>2. m_tasks'[n - 1] = m_tasks[n]
    BY <1>1, <2>1
  <2>3. n \in 1..Len(m_tasks) /\ 1 \in 1..Len(m_tasks) /\ n # 1
    BY <1>1
  <2>4. m_tasks[n] # m_tasks[1]
    BY <2>3
  <2> QED
    BY <2>1, <2>2, <2>4
<1>4. \A d \in Client : InQueue(d)' <=> InQueue(d) /\ d # Head(m_tasks)
  <2> SUFFICES ASSUME NEW d \in Client
               PROVE  InQueue(d)' <=> InQueue(d) /\ d # Head(m_tasks)
    OBVIOUS
  <2>1. ASSUME NEW n \in 1..Len(m_tasks), m_tasks[n] = d, d # m_tasks[1]
        PROVE  \E m \in 1..Len(m_tasks') : m_tasks'[m] = d
    <3>1. n \in 2..Len(m_tasks)
      BY <1>1, <2>1
    <3> QED
      BY <1>3, <2>1, <3>1
  <2>2. ASSUME NEW n \in 1..Len(m_tasks'), m_tasks'[n] = d
        PROVE  (\E m \in 1..Len(m_tasks) : m_tasks[m] = d) /\ d # m_tasks[1]
    <3>1. n + 1 \in 2..Len(m_tasks) /\ n + 1 \in 1..Len(m_tasks) /\ m_tasks[n + 1] = d
      BY <1>1, <2>2
    <3> QED
      BY <1>3, <3>1
  <2> QED
    BY <1>1, <2>1, <2>2 DEF InQueue
<1>5. \A m, n \in 1..Len(m_tasks') : m_tasks'[m] = m_tasks'[n] => m = n
  BY <1>1
<1> QED
  BY <1>1, <1>2, <1>4, <1>5

LEMMA ReadFuncStep ==
    ASSUME IInv, NEW w \in Worker, read_func(w)
    PROVE  IInv'
<1>0. /\ TypeOK /\ ThreadsInv /\ LoopInv /\ ClientsInv /\ DataInv
      /\ ExclusiveInv /\ OnceInv /\ ServiceInv /\ PlacedInv /\ w \in Thread
  BY Numbers DEF IInv
<1>1. /\ m_tasks' \in Seq(Client)
      /\ \A m, n \in 1..Len(m_tasks') : m_tasks'[m] = m_tasks'[n] => m = n
  BY <1>0, TailPlaces DEF read_func, TypeOK, OnceInv
<1>2. PICK c \in Client :
          /\ c = Head(m_tasks) /\ InQueue(c)
          /\ \A d \in Client : InQueue(d)' <=> InQueue(d) /\ d # c
  BY <1>0, TailPlaces DEF read_func, TypeOK, OnceInv
<1>3. /\ pc[w] = "idle" /\ Go(w, "read", c)
      /\ UNCHANGED <<server, context, loop, armed, peers>>
  BY <1>2 DEF read_func
<1>4. /\ pc' \in [Thread -> Steps] /\ ctx' \in [Thread -> Client \cup {NoCtx}]
      /\ pc'[w] = "read" /\ ctx'[w] = c
      /\ \A u \in Thread : u # w => pc'[u] = pc[u] /\ ctx'[u] = ctx[u]
  BY <1>0, <1>3, GoFacts DEF Steps
<1>5. /\ \A d \in Client : ~Holds(w, d)
      /\ \A u \in Thread : \A d \in Client :
             /\ Serving(u, d)' <=> IF u = w THEN d = c ELSE Serving(u, d)
             /\ Closing(u, d)' <=> IF u = w THEN FALSE ELSE Closing(u, d)
  <2>1. \A d \in Client : ~Holds(w, d)
    BY <1>3 DEF Holds, Serving, Closing
  <2> QED
    BY <1>0, <1>3, <2>1, GoPlaces DEF Steps
<1>6. \A d \in Client : (IsArmed(d)' <=> IsArmed(d)) /\ (InEvents(d)' <=> InEvents(d))
  BY <1>3 DEF IsArmed, InEvents, loop
<1>7. TypeOK'
  BY <1>0, <1>1, <1>3, <1>4 DEF TypeOK, Steps, server, context, loop, peers
<1>8. ThreadsInv'
  BY <1>0, <1>4, Numbers DEF ThreadsInv
<1>9. LoopInv' /\ ClientsInv' /\ OnceInv'
  BY <1>0, <1>1, <1>3 DEF LoopInv, ClientsInv, OnceInv, server, context, loop, peers
<1>10. DataInv'
  <2>1. inbox[c] > 0 \/ c \in hung
    BY <1>0, <1>2 DEF DataInv
  <2>2. \A d \in Client : inbox[d] <= sends[d]
    BY <1>0 DEF DataInv
  <2>3. ASSUME NEW d \in Client, <<d, "in">> \in events \/ InQueue(d)' \/ (\E v \in Worker : pc'[v] = "read" /\ ctx'[v] = d)
        PROVE  inbox[d] > 0 \/ d \in hung
    <3>1. d = c \/ <<d, "in">> \in events \/ InQueue(d) \/ (\E v \in Worker : pc[v] = "read" /\ ctx[v] = d)
      BY <1>2, <1>4, <2>3, Numbers
    <3> QED
      BY <1>0, <2>1, <3>1 DEF DataInv
  <2> QED
    BY <1>3, <2>2, <2>3 DEF DataInv, loop, peers
<1>11. ExclusiveInv'
  BY <1>0, <1>2, <1>5, <1>6 DEF ExclusiveInv, Holds, InHand
<1>12. ServiceInv'
  BY <1>0, <1>2, <1>3, <1>5, <1>6 DEF ServiceInv, server, context
<1>13. PlacedInv'
  BY <1>0, <1>2, <1>3, <1>5, <1>6 DEF PlacedInv, Holds, InHand, server
<1> QED
  BY <1>7, <1>8, <1>9, <1>10, <1>11, <1>12, <1>13 DEF IInv

\* What a worker reads is not reported and not queued, and nobody else reads it.
LEMMA ReadAlone ==
    ASSUME IInv, NEW w \in Worker, pc[w] = "read"
    PROVE  /\ ctx[w] \in Client /\ Serving(w, ctx[w])
           /\ ~InEvents(ctx[w]) /\ ~InQueue(ctx[w])
           /\ \A v \in Worker : pc[v] = "read" /\ ctx[v] = ctx[w] => v = w
<1>0. TypeOK /\ ThreadsInv /\ ExclusiveInv
  BY DEF IInv
<1>1. PICK c \in Client : c = ctx[w]
  BY <1>0, Numbers, HandlerHasClient
<1>2. Serving(w, c) /\ Holds(w, c) /\ w \in Thread
  BY <1>1, Numbers DEF Serving, Holds
<1>3. InHand(c)
  BY <1>2 DEF InHand
<1>4. ASSUME NEW v \in Worker, pc[v] = "read", ctx[v] = c
      PROVE  v = w
  <2>1. Holds(v, c) /\ v \in Thread
    BY <1>4, Numbers DEF Serving, Holds
  <2> QED
    BY <1>0, <1>2, <2>1 DEF ExclusiveInv
<1> QED
  BY <1>0, <1>1, <1>2, <1>3, <1>4 DEF ExclusiveInv

\* A recv takes from one inbox, that of a client nobody else is about to read.
LEMMA ReceivedData ==
    ASSUME IInv, NEW w \in Worker, pc[w] = "read",
           Received(ctx[w]) \/ UNCHANGED inbox,
           UNCHANGED <<events, m_tasks, hung, sends>>,
           \A v \in Worker : pc'[v] = "read" => v # w /\ pc[v] = "read" /\ ctx'[v] = ctx[v]
    PROVE  DataInv' /\ inbox' \in [Client -> 0..MaxSends]
<1>0. DataInv /\ inbox \in [Client -> 0..MaxSends] /\ sends \in [Client -> 0..MaxSends]
  BY DEF IInv, TypeOK
<1>1. PICK c \in Client :
          /\ c = ctx[w] /\ ~InEvents(c) /\ ~InQueue(c)
          /\ \A v \in Worker : pc[v] = "read" /\ ctx[v] = c => v = w
  BY ReadAlone
<1>2. /\ inbox' \in [Client -> 0..MaxSends] /\ inbox'[c] <= inbox[c]
      /\ \A d \in Client : d # c => inbox'[d] = inbox[d]
  <2>1. CASE UNCHANGED inbox
    BY <1>0, <2>1, Numbers
  <2>2. ASSUME NEW n \in 0..(inbox[c] - 1), inbox' = [inbox EXCEPT ![c] = n]
        PROVE  /\ inbox' \in [Client -> 0..MaxSends] /\ inbox'[c] <= inbox[c]
               /\ \A d \in Client : d # c => inbox'[d] = inbox[d]
    <3>1. n \in 0..MaxSends /\ n <= inbox[c]
      BY <1>0, Numbers
    <3> QED
      BY <1>0, <2>2, <3>1
  <2> QED
    BY <1>1, <2>1, <2>2 DEF Received
<1>3. \A d \in Client : inbox'[d] <= sends'[d]
  <2> SUFFICES ASSUME NEW d \in Client
               PROVE  inbox'[d] <= sends[d]
    OBVIOUS
  <2>1. inbox[d] <= sends[d] /\ inbox'[d] <= inbox[d] /\ inbox'[d] \in Nat /\ inbox[d] \in Nat /\ sends[d] \in Nat
    BY <1>0, <1>2, Numbers DEF DataInv
  <2> QED
    BY <2>1
<1>4. ASSUME NEW d \in Client, <<d, "in">> \in events \/ InQueue(d) \/ (\E v \in Worker : pc'[v] = "read" /\ ctx'[v] = d)
      PROVE  inbox'[d] > 0 \/ d \in hung
  <2>1. <<d, "in">> \in events \/ InQueue(d) \/ (\E v \in Worker \ {w} : pc[v] = "read" /\ ctx[v] = d)
    BY <1>4
  <2>2. d # c
    BY <1>1, <2>1 DEF InEvents
  <2>3. inbox[d] > 0 \/ d \in hung
    BY <1>0, <2>1 DEF DataInv
  <2> QED
    BY <1>2, <2>2, <2>3
<1>5. \A d \in Client : InQueue(d)' <=> InQueue(d)
  BY DEF InQueue
<1> QED
  BY <1>2, <1>3, <1>4, <1>5 DEF DataInv

LEMMA ReadCloseStep ==
    ASSUME IInv, NEW w \in Worker, ReadClose(w)
    PROVE  IInv'
<1>0. TypeOK /\ ThreadsInv /\ LoopInv /\ w \in Thread
  BY Numbers DEF IInv
<1>1. /\ pc[w] = "read" /\ (Received(ctx[w]) \/ UNCHANGED inbox) /\ Go(w, "remove", ctx[w])
      /\ UNCHANGED <<server, m_tasks, context, loop, armed, hung, connects, sends, stops>>
  BY DEF ReadClose
<1>2. ctx[w] \in Client
  BY <1>0, <1>1, HandlerHasClient
<1>3. /\ pc' \in [Thread -> Steps] /\ ctx' \in [Thread -> Client \cup {NoCtx}]
      /\ pc'[w] = "remove"
      /\ \A u \in Thread : u # w => pc'[u] = pc[u] /\ ctx'[u] = ctx[u]
  BY <1>0, <1>1, <1>2, GoFacts DEF Steps
<1>4. DataInv' /\ inbox' \in [Client -> 0..MaxSends]
  BY <1>1, <1>3, Numbers, ReceivedData DEF loop
<1>5. TypeOK'
  BY <1>0, <1>1, <1>3, <1>4 DEF TypeOK, Steps, server, context, loop
<1>6. LoopInv'
  BY <1>0, <1>1 DEF LoopInv, server, loop
<1> QED
  BY <1>0, <1>1, <1>4, <1>5, <1>6, HandlerKeeps DEF server, context, loop

LEMMA ReadGoesOnStep ==
    ASSUME IInv, NEW w \in Worker, ReadGoesOn(w)
    PROVE  IInv'
<1>0. /\ TypeOK /\ ThreadsInv /\ LoopInv /\ ClientsInv /\ DataInv
      /\ ExclusiveInv /\ OnceInv /\ ServiceInv /\ PlacedInv /\ w \in Thread
  BY Numbers DEF IInv
<1>1. PICK c \in Client : c = ctx[w]
  BY <1>0, HandlerHasClient DEF ReadGoesOn
<1>2. /\ pc[w] = "read" /\ Received(ctx[w]) /\ Go(w, "mark", c)
      /\ (\E e \in {"in", "out"} : Arm(c, e)) \/ ("unknown" \in ReadResults /\ Arm(c, "lost"))
      /\ UNCHANGED <<server, m_tasks, context, loop, hung, connects, sends, stops>>
  BY <1>1 DEF ReadGoesOn
<1>3. Serving(w, c) /\ c \in _eclients /\ \A d \in Client : Holds(w, d) => d = c
  <2>1. Serving(w, c) /\ \A d \in Client : Holds(w, d) => d = c
    BY <1>1, <1>2 DEF Serving, Closing, Holds
  <2> QED
    BY <1>0, <2>1 DEF ServiceInv
<1>4. /\ pc' \in [Thread -> Steps] /\ ctx' \in [Thread -> Client \cup {NoCtx}]
      /\ pc'[w] = "mark" /\ ctx'[w] = c
      /\ \A u \in Thread : u # w => pc'[u] = pc[u] /\ ctx'[u] = ctx[u]
  BY <1>0, <1>2, GoFacts DEF Steps
<1>5. armed' \in [Client -> {"none", "in", "out", "level", "lost", "off"}]
  <2>1. CASE Arm(c, "lost")
    BY <1>0, <2>1, ArmFacts
  <2>2. ASSUME NEW e \in {"in", "out"}, Arm(c, e)
        PROVE  armed' \in [Client -> {"none", "in", "out", "level", "lost", "off"}]
    BY <1>0, <2>2, ArmFacts
  <2> QED
    BY <1>2, <2>1, <2>2
<1>6. \A u \in Thread : \A d \in Client :
          /\ Serving(u, d)' <=> IF u = w THEN FALSE ELSE Serving(u, d)
          /\ Closing(u, d)' <=> IF u = w THEN FALSE ELSE Closing(u, d)
  BY <1>0, <1>2, GoPlaces DEF Steps
<1>7. /\ \A d \in Client : d # c => (IsArmed(d)' <=> IsArmed(d))
      /\ IsArmed(c)' \/ "unknown" \in ReadResults
  <2>1. ASSUME NEW e \in {"in", "out"}, Arm(c, e)
        PROVE  \A d \in Client : IsArmed(d)' <=> IF d = c THEN TRUE ELSE IsArmed(d)
    BY <1>0, <2>1, ArmPlaces
  <2>2. CASE "unknown" \in ReadResults /\ Arm(c, "lost")
    BY <1>0, <2>2, ArmPlaces
  <2> QED
    BY <1>2, <2>1, <2>2
<1>8. \A d \in Client : (InEvents(d)' <=> InEvents(d)) /\ (InQueue(d)' <=> InQueue(d))
  BY <1>2 DEF InEvents, InQueue, loop
<1>9. DataInv' /\ inbox' \in [Client -> 0..MaxSends]
  BY <1>2, <1>4, Numbers, ReceivedData DEF loop
<1>10. TypeOK'
  BY <1>0, <1>2, <1>4, <1>5, <1>9 DEF TypeOK, Steps, server, context, loop
<1>11. ThreadsInv'
  BY <1>0, <1>4, Numbers DEF ThreadsInv
<1>12. LoopInv' /\ ClientsInv' /\ OnceInv'
  BY <1>0, <1>2 DEF LoopInv, ClientsInv, OnceInv, server, context, loop
<1>13. ExclusiveInv'
  BY <1>0, <1>3, <1>6, <1>7, <1>8 DEF ExclusiveInv, Holds, InHand
<1>14. ServiceInv'
  BY <1>0, <1>2, <1>3, <1>6, <1>7, <1>8 DEF ServiceInv, server, context
<1>15. PlacedInv'
  BY <1>0, <1>2, <1>3, <1>6, <1>7, <1>8 DEF PlacedInv, KnownResults, Holds, InHand, server
<1> QED
  BY <1>9, <1>10, <1>11, <1>12, <1>13, <1>14, <1>15 DEF IInv

LEMMA MarkStep ==
    ASSUME IInv, NEW w \in Worker, MarkReadOver(w)
    PROVE  IInv'
<1>0. TypeOK /\ ThreadsInv /\ LoopInv /\ DataInv /\ w \in Thread
  BY Numbers DEF IInv
<1>1. /\ pc[w] = "mark" /\ Go(w, "idle", NoCtx)
      /\ _ctx_status' = [_ctx_status EXCEPT ![ctx[w]] = "CONTEXT_READ_OVER"]
      /\ UNCHANGED <<server, m_tasks, idle_sec, released, loop, armed, peers>>
  BY DEF MarkReadOver
<1>2. /\ pc' \in [Thread -> Steps] /\ ctx' \in [Thread -> Client \cup {NoCtx}]
      /\ pc'[w] = "idle" /\ ctx'[w] = NoCtx
      /\ \A u \in Thread : u # w => pc'[u] = pc[u] /\ ctx'[u] = ctx[u]
  BY <1>0, <1>1, GoFacts DEF Steps
<1>3. \A u \in Thread : \A d \in Client :
          (Serving(u, d)' <=> Serving(u, d)) /\ (Closing(u, d)' <=> Closing(u, d))
  BY <1>1, <1>2 DEF Serving, Closing
<1>4. PlacesInv'
  BY <1>1, <1>3, PlacesKept DEF IInv, PlacesInv, server, loop
<1>5. TypeOK'
  BY <1>0, <1>1, <1>2 DEF TypeOK, Steps, server, loop, peers
<1>6. ThreadsInv'
  BY <1>0, <1>2, Numbers DEF ThreadsInv
<1>7. LoopInv'
  BY <1>0, <1>1 DEF LoopInv, server, loop, peers
<1>8. DataInv'
  <2>1. \A v \in Worker : pc'[v] = "read" => pc[v] = "read" /\ ctx'[v] = ctx[v]
    BY <1>2, Numbers
  <2> QED
    BY <1>0, <1>1, <2>1, DataKept DEF loop, peers
<1> QED
  BY <1>4, <1>5, <1>6, <1>7, <1>8 DEF IInv, PlacesInv

LEMMA WorkerStepKeeps ==
    ASSUME IInv, NEW w \in Worker, WorkerStep(w)
    PROVE  IInv'
BY ReadFuncStep, ReadCloseStep, ReadGoesOnStep, MarkStep, CloseStep, Numbers DEF WorkerStep

-----------------------------------------------------------------------------
(***************************************************************************)
(* The main thread.                                                        *)
(***************************************************************************)

\* The main thread has no client between two events.
LEMMA MainIdle ==
    ASSUME pc[Main] = "idle"
    PROVE  \A d \in Client : ~Holds(Main, d)
BY DEF Holds, Serving, Closing

LEMMA HandledPlaces ==
    ASSUME OnceInv, NEW e \in events, events' = events \ {e}
    PROVE  /\ InEvents(e[1])
           /\ \A d : InEvents(d)' <=> InEvents(d) /\ d # e[1]
           /\ \A f, g \in events' : f[1] = g[1] => f = g
BY DEF OnceInv, InEvents

\* What epoll_wait reports was armed, and is so no more, or is armed for good.
LEMMA ReportedPlaces ==
    ASSUME IInv, epoll_wait
    PROVE  /\ \A d \in Client : InEvents(d)' => (IsArmed(d) \/ armed[d] = "level") /\ ~IsArmed(d)'
           /\ \A d \in Client : ~InEvents(d)' => (IsArmed(d)' <=> IsArmed(d))
           /\ \A d \in Client : ~InEvents(d)
           /\ armed' \in [Client -> {"none", "in", "out", "level", "lost", "off"}]
           /\ \A e \in events' :
                 \/ e = <<Listen, "in">> /\ g_client_id < connects
                 \/ \E c \in Client :
                       \/ e = <<c, "in">> /\ armed[c] = "in" /\ (inbox[c] > 0 \/ c \in hung)
                       \/ e = <<c, "out">> /\ armed[c] \in {"out", "level"}
<1>0. TypeOK /\ LoopInv
  BY DEF IInv
<1>1. /\ events' \subseteq Ready /\ events = {}
      /\ armed' = [c \in Client |->
             IF armed[c] # "level" /\ \E e \in events' : e[1] = c THEN "off" ELSE armed[c]]
  BY <1>0 DEF epoll_wait, LoopInv
<1>2. \A e \in events' :
          \/ e = <<Listen, "in">> /\ g_client_id < connects
          \/ \E c \in Client :
                \/ e = <<c, "in">> /\ armed[c] = "in" /\ (inbox[c] > 0 \/ c \in hung)
                \/ e = <<c, "out">> /\ armed[c] \in {"out", "level"}
  BY <1>0, <1>1 DEF Ready, TypeOK
<1>3. armed' \in [Client -> {"none", "in", "out", "level", "lost", "off"}]
  BY <1>0, <1>1 DEF TypeOK
<1>4. \A d \in Client : InEvents(d)' => IsArmed(d) \/ armed[d] = "level"
  BY <1>2, Numbers DEF InEvents, IsArmed
<1>5. \A d \in Client : IF InEvents(d)' THEN ~IsArmed(d)' ELSE IsArmed(d)' <=> IsArmed(d)
  BY <1>1 DEF InEvents, IsArmed
<1>6. \A d \in Client : ~InEvents(d)
  BY <1>1 DEF InEvents
<1> QED
  BY <1>2, <1>3, <1>4, <1>5, <1>6

LEMMA WaitStep ==
    ASSUME IInv, LevelInv, epoll_wait
    PROVE  IInv'
<1>0. /\ TypeOK /\ ThreadsInv /\ LoopInv /\ ClientsInv /\ DataInv
      /\ ExclusiveInv /\ OnceInv /\ ServiceInv /\ PlacedInv
  BY DEF IInv
<1>1. /\ phase' = "handle" /\ pc[Main] = "idle"
      /\ UNCHANGED <<server, m_tasks, context, remove_evs, thread, peers>>
  BY DEF epoll_wait
<1>2. /\ \A d \in Client : InEvents(d)' => (IsArmed(d) \/ armed[d] = "level") /\ ~IsArmed(d)'
      /\ \A d \in Client : ~InEvents(d)' => (IsArmed(d)' <=> IsArmed(d))
      /\ \A d \in Client : ~InEvents(d)
      /\ armed' \in [Client -> {"none", "in", "out", "level", "lost", "off"}]
  BY ReportedPlaces
<1>3. \A e \in events' :
          \/ e = <<Listen, "in">> /\ g_client_id < connects
          \/ \E c \in Client :
                \/ e = <<c, "in">> /\ armed[c] = "in" /\ (inbox[c] > 0 \/ c \in hung)
                \/ e = <<c, "out">> /\ armed[c] \in {"out", "level"}
  BY ReportedPlaces
<1>4. /\ \A d \in Client : InQueue(d)' <=> InQueue(d)
      /\ \A u \in Thread : \A d \in Client :
             (Serving(u, d)' <=> Serving(u, d)) /\ (Closing(u, d)' <=> Closing(u, d))
  BY <1>1 DEF InQueue, Serving, Closing, thread
<1>13. \A d \in Client : armed[d] = "level" => d \in _eclients /\ ~InQueue(d) /\ ~InHand(d) /\ ~KnownResults
  BY <1>1, MainIdle, Numbers DEF LevelInv, InHand
<1>5. TypeOK'
  <2>1. events' \subseteq (0..MaxClients) \X {"in", "out"}
    BY <1>3, Numbers DEF Client, Listen
  <2> QED
    BY <1>0, <1>1, <1>2, <2>1 DEF TypeOK, server, context, thread, peers
<1>6. ThreadsInv' /\ ClientsInv'
  BY <1>0, <1>1 DEF ThreadsInv, ClientsInv, thread, server, context
<1>7. LoopInv'
  <2>1. \A e \in events' : e[1] = Listen => e = <<Listen, "in">> /\ g_client_id < connects
    BY <1>3, Numbers
  <2> QED
    BY <1>0, <1>1, <2>1 DEF LoopInv, server, peers
<1>8. OnceInv'
  <2>1. \A e, f \in events' : e[1] = f[1] => e = f
    BY <1>3, Numbers
  <2> QED
    BY <1>0, <1>1, <2>1 DEF OnceInv
<1>9. DataInv'
  <2>1. \A d \in Client : <<d, "in">> \in events' => inbox[d] > 0 \/ d \in hung
    BY <1>3, Numbers
  <2> QED
    BY <1>0, <1>1, <2>1 DEF DataInv, InQueue, thread, peers
<1>10. ExclusiveInv'
  BY <1>0, <1>2, <1>4, <1>13 DEF ExclusiveInv, Holds, InHand
<1>11. ServiceInv'
  BY <1>0, <1>1, <1>2, <1>4, <1>13 DEF ServiceInv, server, context
<1>12. PlacedInv'
  BY <1>0, <1>1, <1>2, <1>4 DEF PlacedInv, Holds, InHand, server
<1> QED
  BY <1>5, <1>6, <1>7, <1>8, <1>9, <1>10, <1>11, <1>12 DEF IInv

LEMMA AcceptStep ==
    ASSUME IInv, handle_accept_event
    PROVE  IInv'
<1>0. /\ TypeOK /\ ThreadsInv /\ LoopInv /\ ClientsInv /\ DataInv
      /\ ExclusiveInv /\ OnceInv /\ ServiceInv /\ PlacedInv
      /\ g_client_id \in Nat /\ connects \in 0..MaxClients
  <2>1. TypeOK
    BY DEF IInv
  <2>2. g_client_id \in 0..MaxClients /\ connects \in 0..MaxClients
    BY <2>1 DEF TypeOK
  <2> QED
    BY <2>2, Numbers DEF IInv
<1>1. /\ <<Listen, "in">> \in events /\ events' = events \ {<<Listen, "in">>}
      /\ phase = "handle" /\ pc[Main] = "idle" /\ UNCHANGED <<phase, remove_evs>>
  BY DEF handle_accept_event, Handling
<1>2. g_client_id < connects
  <2>1. <<Listen, "in">>[1] = Listen
    OBVIOUS
  <2> QED
    BY <1>0, <1>1, <2>1 DEF LoopInv
<1>3. PICK c \in Client : c = g_client_id + 1
  BY <1>0, <1>2, Numbers DEF Client
<1>4. /\ g_client_id' = c /\ _clients' = _clients + 1 /\ _eclients' = _eclients \cup {c}
      /\ (Arm(c, "in") /\ UNCHANGED thread) \/ (Go(Main, "remove", c) /\ UNCHANGED armed)
      /\ _status' \in {_status, "S_STOP"}
      /\ UNCHANGED <<m_tasks, context, peers>>
  BY <1>3 DEF handle_accept_event, StatusAtAccept
<1>5. c \notin _eclients /\ c \notin released
  BY <1>0, <1>3 DEF ClientsInv
<1>6. /\ ~IsArmed(c) /\ ~InEvents(c) /\ ~InQueue(c)
      /\ \A t \in Thread : ~Holds(t, c)
      /\ \A d \in Client : ~Holds(Main, d)
  <2>1. ~IsArmed(c) /\ ~InEvents(c) /\ ~InQueue(c)
    BY <1>0, <1>5 DEF ServiceInv
  <2>2. \A t \in Thread : ~Holds(t, c)
    BY <1>0, <1>3, <1>5 DEF ServiceInv, Holds
  <2> QED
    BY <1>1, <2>1, <2>2, MainIdle
<1>7. /\ \A d \in Client : InEvents(d)' <=> InEvents(d)
      /\ \A f, g \in events' : f[1] = g[1] => f = g
  <2>1. /\ \A d : InEvents(d)' <=> InEvents(d) /\ d # Listen
        /\ \A f, g \in events' : f[1] = g[1] => f = g
    BY <1>0, <1>1, HandledPlaces
  <2> QED
    BY <2>1, Numbers
<1>8. \A d \in Client : InQueue(d)' <=> InQueue(d)
  BY <1>4 DEF InQueue
<1>9. Cardinality(_eclients') = Cardinality(_eclients) + 1
  <2>1. _eclients \in SUBSET Client
    BY <1>0 DEF TypeOK
  <2> QED
    BY <1>4, <1>5, <2>1, ClientsFinite, FS_AddElement
<1>10. _clients' \in 0..MaxClients /\ _eclients' \subseteq Client
  <2>1. _eclients' \in SUBSET Client
    BY <1>0, <1>4 DEF TypeOK
  <2>2. Cardinality(_eclients') \in 0..MaxClients
    BY <2>1, ClientsFinite
  <2> QED
    BY <1>0, <1>4, <1>9, <2>1, <2>2 DEF ClientsInv
<1>11. OnceInv' /\ ClientsInv'
  <2>1. OnceInv'
    BY <1>0, <1>4, <1>7 DEF OnceInv
  <2>2. _eclients' \subseteq 1..c /\ released \subseteq 1..c
    BY <1>0, <1>3, <1>4 DEF ClientsInv
  <2> QED
    BY <1>0, <1>4, <1>5, <1>9, <2>1, <2>2 DEF ClientsInv, context
<1>12. LoopInv'
  <2>1. \A e \in events' : e[1] # Listen
    BY <1>0, <1>1 DEF LoopInv
  <2> QED
    BY <1>0, <1>1, <1>2, <1>3, <1>4, <2>1 DEF LoopInv, peers
\* The client is registered.
<1>13. ASSUME Arm(c, "in"), UNCHANGED thread
       PROVE  IInv'
  <2>1. \A d \in Client : IsArmed(d)' <=> IF d = c THEN TRUE ELSE IsArmed(d)
    BY <1>0, <1>13, ArmPlaces
  <2>2. \A u \in Thread : \A d \in Client :
            (Serving(u, d)' <=> Serving(u, d)) /\ (Closing(u, d)' <=> Closing(u, d))
    BY <1>13 DEF Serving, Closing, thread
  <2>3. TypeOK'
    <3>1. armed' \in [Client -> {"none", "in", "out", "level", "lost", "off"}]
      BY <1>0, <1>13, ArmFacts
    <3>2. c \in 0..MaxClients
      BY Numbers DEF Client
    <3> QED
      BY <1>0, <1>1, <1>4, <1>10, <1>13, <3>1, <3>2 DEF TypeOK, context, thread, peers
  <2>4. ThreadsInv'
    BY <1>0, <1>13 DEF ThreadsInv, thread
  <2>5. DataInv'
    BY <1>0, <1>1, <1>4, <1>13 DEF DataInv, InQueue, thread, peers
  <2>6. ExclusiveInv'
    BY <1>0, <1>6, <1>7, <1>8, <2>1, <2>2 DEF ExclusiveInv, Holds, InHand
  <2>7. ServiceInv'
    BY <1>0, <1>3, <1>4, <1>6, <1>7, <1>8, <2>1, <2>2 DEF ServiceInv, Holds, context
  <2>8. PlacedInv'
    BY <1>0, <1>4, <1>6, <1>7, <1>8, <2>1, <2>2 DEF PlacedInv, Holds, InHand
  <2> QED
    BY <1>11, <1>12, <2>3, <2>4, <2>5, <2>6, <2>7, <2>8 DEF IInv
\* epoll_ctl fails, and it is closed.
<1>14. ASSUME Go(Main, "remove", c), UNCHANGED armed
       PROVE  IInv'
  <2>1. /\ pc' \in [Thread -> Steps] /\ ctx' \in [Thread -> Client \cup {NoCtx}]
        /\ pc'[Main] = "remove" /\ ctx'[Main] = c
        /\ \A u \in Thread : u # Main => pc'[u] = pc[u] /\ ctx'[u] = ctx[u]
    BY <1>0, <1>14, Numbers, GoFacts DEF Steps
  <2>2. \A u \in Thread : \A d \in Client :
            /\ Serving(u, d)' <=> IF u = Main THEN d = c ELSE Serving(u, d)
            /\ Closing(u, d)' <=> IF u = Main THEN FALSE ELSE Closing(u, d)
    BY <1>0, <1>14, Numbers, GoPlaces DEF Steps
  <2>3. \A d \in Client : IsArmed(d)' <=> IsArmed(d)
    BY <1>14 DEF IsArmed
  <2>4. TypeOK'
    <3>1. c \in 0..MaxClients
      BY Numbers DEF Client
    <3> QED
      BY <1>0, <1>1, <1>4, <1>10, <1>14, <2>1, <3>1 DEF TypeOK, Steps, context, peers
  <2>5. ThreadsInv'
    BY <1>0, <2>1, Numbers DEF ThreadsInv
  <2>6. DataInv'
    BY <1>0, <1>1, <1>4, <2>1, Numbers DEF DataInv, InQueue, peers
  <2>7. ExclusiveInv'
    BY <1>0, <1>6, <1>7, <1>8, <2>2, <2>3 DEF ExclusiveInv, Holds, InHand
  <2>8. ServiceInv'
    BY <1>0, <1>3, <1>4, <1>6, <1>7, <1>8, <2>2, <2>3 DEF ServiceInv, Holds, context
  <2>9. PlacedInv'
    <3>1. InHand(c)'
      BY <2>2, Numbers DEF InHand, Holds
    <3> QED
      BY <1>0, <1>4, <1>6, <1>7, <1>8, <2>2, <2>3, <3>1 DEF PlacedInv, Holds, InHand
  <2> QED
    BY <1>11, <1>12, <2>4, <2>5, <2>6, <2>7, <2>8, <2>9 DEF IInv
<1> QED
  BY <1>4, <1>13, <1>14

LEMMA AcceptFailsStep ==
    ASSUME IInv, accept_fails
    PROVE  IInv'
<1>0. /\ TypeOK /\ ThreadsInv /\ LoopInv /\ ClientsInv /\ DataInv
      /\ ExclusiveInv /\ OnceInv /\ ServiceInv /\ PlacedInv
  BY DEF IInv
<1>1. /\ <<Listen, "in">> \in events /\ events' = events \ {<<Listen, "in">>}
      /\ phase = "handle" /\ UNCHANGED <<phase, remove_evs>>
      /\ _status' \in {_status, "S_STOP"}
      /\ UNCHANGED <<_clients, _eclients, g_client_id, m_tasks, context, thread, armed, peers>>
  BY DEF accept_fails, Handling, StatusAtAccept
<1>2. /\ \A d \in Client : InEvents(d)' <=> InEvents(d)
      /\ \A f, g \in events' : f[1] = g[1] => f = g
  <2>1. /\ \A d : InEvents(d)' <=> InEvents(d) /\ d # Listen
        /\ \A f, g \in events' : f[1] = g[1] => f = g
    BY <1>0, <1>1, HandledPlaces
  <2> QED
    BY <2>1, Numbers
<1>3. /\ \A d \in Client : (IsArmed(d)' <=> IsArmed(d)) /\ (InQueue(d)' <=> InQueue(d))
      /\ \A u \in Thread : \A d \in Client :
             (Serving(u, d)' <=> Serving(u, d)) /\ (Closing(u, d)' <=> Closing(u, d))
  BY <1>1 DEF IsArmed, InQueue, Serving, Closing, thread
<1>4. TypeOK'
  BY <1>0, <1>1 DEF TypeOK, context, thread, peers
<1>5. ThreadsInv' /\ ClientsInv'
  BY <1>0, <1>1 DEF ThreadsInv, ClientsInv, context, thread
<1>6. LoopInv'
  BY <1>0, <1>1 DEF LoopInv, peers
<1>7. OnceInv'
  BY <1>0, <1>1, <1>2 DEF OnceInv
<1>8. DataInv'
  BY <1>0, <1>1 DEF DataInv, InQueue, thread, peers
<1>9. ExclusiveInv'
  BY <1>0, <1>2, <1>3 DEF ExclusiveInv, Holds, InHand
<1>10. ServiceInv'
  BY <1>0, <1>1, <1>2, <1>3 DEF ServiceInv, context
<1>11. PlacedInv'
  BY <1>0, <1>1, <1>2, <1>3 DEF PlacedInv, Holds, InHand
<1> QED
  BY <1>4, <1>5, <1>6, <1>7, <1>8, <1>9, <1>10, <1>11 DEF IInv

LEMMA AppendPlaces ==
    ASSUME m_tasks \in Seq(Client), \A m, n \in 1..Len(m_tasks) : m_tasks[m] = m_tasks[n] => m = n,
           NEW c \in Client, ~InQueue(c), m_tasks' = Append(m_tasks, c)
    PROVE  /\ m_tasks' \in Seq(Client)
           /\ \A d \in Client : InQueue(d)' <=> InQueue(d) \/ d = c
           /\ \A m, n \in 1..Len(m_tasks') : m_tasks'[m] = m_tasks'[n] => m = n
<1>1. /\ m_tasks' \in Seq(Client) /\ Len(m_tasks) \in Nat /\ Len(m_tasks') = Len(m_tasks) + 1
      /\ \A n \in 1..Len(m_tasks) : m_tasks'[n] = m_tasks[n]
      /\ m_tasks'[Len(m_tasks) + 1] = c
  BY AppendProperties
<1>2. \A n \in 1..Len(m_tasks') : n \in 1..Len(m_tasks) \/ n = Len(m_tasks) + 1
  BY <1>1
<1>3. \A n \in 1..Len(m_tasks) : n \in 1..Len(m_tasks') /\ m_tasks[n] # c
  BY <1>1 DEF InQueue
<1>4. Len(m_tasks) + 1 \in 1..Len(m_tasks')
  BY <1>1
<1>5. \A d \in Client : InQueue(d)' <=> InQueue(d) \/ d = c
  BY <1>1, <1>2, <1>3, <1>4 DEF InQueue
<1>6. \A m, n \in 1..Len(m_tasks') : m_tasks'[m] = m_tasks'[n] => m = n
  BY <1>1, <1>2, <1>3
<1> QED
  BY <1>1, <1>5, <1>6

\* A reported read is queued, or closed when the queue is full.
LEMMA ReadEventStep ==
    ASSUME IInv, NEW c \in Client, multi_thread_handle_read_event(c)
    PROVE  IInv'
<1>0. /\ TypeOK /\ ThreadsInv /\ LoopInv /\ ClientsInv /\ DataInv
      /\ ExclusiveInv /\ OnceInv /\ ServiceInv /\ PlacedInv
  BY DEF IInv
<1>1. /\ <<c, "in">> \in events /\ events' = events \ {<<c, "in">>}
      /\ phase = "handle" /\ pc[Main] = "idle" /\ UNCHANGED <<phase, remove_evs>>
      /\ _ctx_status' = [_ctx_status EXCEPT ![c] = "CONTEXT_READING"]
      /\ idle_sec' = [idle_sec EXCEPT ![c] = 0]
      /\ \/ m_tasks' = Append(m_tasks, c) /\ UNCHANGED thread
         \/ Go(Main, "remove", c) /\ UNCHANGED m_tasks
      /\ UNCHANGED <<server, released, armed, peers>>
  BY DEF multi_thread_handle_read_event, Handling
<1>2. /\ InEvents(c)
      /\ \A d \in Client : InEvents(d)' <=> InEvents(d) /\ d # c
      /\ \A f, g \in events' : f[1] = g[1] => f = g
  <2>1. <<c, "in">>[1] = c
    OBVIOUS
  <2> QED
    BY <1>0, <1>1, <2>1, HandledPlaces
<1>3. /\ ~IsArmed(c) /\ ~InQueue(c) /\ c \in _eclients
      /\ \A t \in Thread : ~Holds(t, c)
      /\ \A d \in Client : ~Holds(Main, d)
  BY <1>0, <1>1, <1>2, MainIdle DEF ExclusiveInv, ServiceInv, InHand
<1>4. \A d \in Client : IsArmed(d)' <=> IsArmed(d)
  BY <1>1 DEF IsArmed
<1>5. ClientsInv' /\ LoopInv'
  BY <1>0, <1>1 DEF ClientsInv, LoopInv, server, peers
<1>6. _ctx_status' \in [Client -> {"none", "CONTEXT_READING", "CONTEXT_READ_OVER"}]
      /\ idle_sec' \in [Client -> 0.._max_idle_sec]
  BY <1>0, <1>1, Numbers DEF TypeOK
<1>7. ASSUME m_tasks' = Append(m_tasks, c), UNCHANGED thread
      PROVE  IInv'
  <2>1. /\ m_tasks' \in Seq(Client)
        /\ \A d \in Client : InQueue(d)' <=> InQueue(d) \/ d = c
        /\ \A m, n \in 1..Len(m_tasks') : m_tasks'[m] = m_tasks'[n] => m = n
    BY <1>0, <1>3, <1>7, AppendPlaces DEF TypeOK, OnceInv
  <2>2. \A u \in Thread : \A d \in Client :
            (Serving(u, d)' <=> Serving(u, d)) /\ (Closing(u, d)' <=> Closing(u, d))
    BY <1>7 DEF Serving, Closing, thread
  <2>3. TypeOK'
    BY <1>0, <1>1, <1>6, <1>7, <2>1 DEF TypeOK, server, thread, peers
  <2>4. ThreadsInv' /\ OnceInv'
    BY <1>0, <1>2, <1>7, <2>1 DEF ThreadsInv, OnceInv, thread
  <2>5. DataInv'
    <3>1. inbox[c] > 0 \/ c \in hung
      BY <1>0, <1>1 DEF DataInv
    <3>2. ASSUME NEW d \in Client, <<d, "in">> \in events' \/ InQueue(d)' \/ (\E v \in Worker : pc[v] = "read" /\ ctx[v] = d)
          PROVE  inbox[d] > 0 \/ d \in hung
      BY <1>0, <1>1, <2>1, <3>1, <3>2 DEF DataInv
    <3> QED
      BY <1>0, <1>1, <1>7, <3>2 DEF DataInv, thread, peers
  <2>6. ExclusiveInv'
    BY <1>0, <1>2, <1>3, <1>4, <2>1, <2>2 DEF ExclusiveInv, Holds, InHand
  <2>7. ServiceInv'
    BY <1>0, <1>1, <1>2, <1>3, <1>4, <2>1, <2>2 DEF ServiceInv, server
  <2>8. PlacedInv'
    BY <1>0, <1>1, <1>2, <1>4, <2>1, <2>2 DEF PlacedInv, Holds, InHand, server
  <2> QED
    BY <1>5, <2>3, <2>4, <2>5, <2>6, <2>7, <2>8 DEF IInv
<1>8. ASSUME Go(Main, "remove", c), UNCHANGED m_tasks
      PROVE  IInv'
  <2>1. /\ pc' \in [Thread -> Steps] /\ ctx' \in [Thread -> Client \cup {NoCtx}]
        /\ pc'[Main] = "remove" /\ ctx'[Main] = c
        /\ \A u \in Thread : u # Main => pc'[u] = pc[u] /\ ctx'[u] = ctx[u]
    BY <1>0, <1>8, Numbers, GoFacts DEF Steps
  <2>2. \A u \in Thread : \A d \in Client :
            /\ Serving(u, d)' <=> IF u = Main THEN d = c ELSE Serving(u, d)
            /\ Closing(u, d)' <=> IF u = Main THEN FALSE ELSE Closing(u, d)
    BY <1>0, <1>8, Numbers, GoPlaces DEF Steps
  <2>3. \A d \in Client : InQueue(d)' <=> InQueue(d)
    BY <1>8 DEF InQueue
  <2>4. TypeOK'
    BY <1>0, <1>1, <1>6, <1>8, <2>1 DEF TypeOK, Steps, server, peers
  <2>5. ThreadsInv' /\ OnceInv'
    BY <1>0, <1>2, <1>8, <2>1, Numbers DEF ThreadsInv, OnceInv
  <2>6. DataInv'
    BY <1>0, <1>1, <1>8, <2>1, Numbers DEF DataInv, InQueue, peers
  <2>7. ExclusiveInv'
    BY <1>0, <1>2, <1>3, <1>4, <2>2, <2>3 DEF ExclusiveInv, Holds, InHand
  <2>8. ServiceInv'
    BY <1>0, <1>1, <1>2, <1>3, <1>4, <2>2, <2>3 DEF ServiceInv, server
  <2>9. PlacedInv'
    <3>1. InHand(c)'
      BY <2>2, Numbers DEF InHand, Holds
    <3> QED
      BY <1>0, <1>1, <1>2, <1>3, <1>4, <2>2, <2>3, <3>1 DEF PlacedInv, Holds, InHand, server
  <2> QED
    BY <1>5, <2>4, <2>5, <2>6, <2>7, <2>8, <2>9 DEF IInv
<1> QED
  BY <1>1, <1>7, <1>8

LEMMA WriteEventStep ==
    ASSUME IInv, NEW c \in Client, handle_writeable_event(c)
    PROVE  IInv'
<1>0. /\ TypeOK /\ ThreadsInv /\ LoopInv /\ ClientsInv /\ DataInv
      /\ ExclusiveInv /\ OnceInv /\ ServiceInv /\ PlacedInv
  BY DEF IInv
<1>1. /\ <<c, "out">> \in events /\ events' = events \ {<<c, "out">>}
      /\ phase = "handle" /\ pc[Main] = "idle" /\ UNCHANGED <<phase, remove_evs>>
      /\ idle_sec' = [idle_sec EXCEPT ![c] = 0]
      /\ Go(Main, "write", c)
      /\ UNCHANGED <<server, m_tasks, _ctx_status, released, armed, peers>>
  BY DEF handle_writeable_event, Handling
<1>2. /\ InEvents(c)
      /\ \A d \in Client : InEvents(d)' <=> InEvents(d) /\ d # c
      /\ \A f, g \in events' : f[1] = g[1] => f = g
  <2>1. <<c, "out">>[1] = c
    OBVIOUS
  <2> QED
    BY <1>0, <1>1, <2>1, HandledPlaces
<1>3. /\ ~IsArmed(c) /\ ~InQueue(c) /\ c \in _eclients
      /\ \A t \in Thread : ~Holds(t, c)
      /\ \A d \in Client : ~Holds(Main, d)
  BY <1>0, <1>1, <1>2, MainIdle DEF ExclusiveInv, ServiceInv, InHand
<1>4. \A d \in Client : (IsArmed(d)' <=> IsArmed(d)) /\ (InQueue(d)' <=> InQueue(d))
  BY <1>1 DEF IsArmed, InQueue
<1>5. /\ pc' \in [Thread -> Steps] /\ ctx' \in [Thread -> Client \cup {NoCtx}]
      /\ pc'[Main] = "write" /\ ctx'[Main] = c
      /\ \A u \in Thread : u # Main => pc'[u] = pc[u] /\ ctx'[u] = ctx[u]
  BY <1>0, <1>1, Numbers, GoFacts DEF Steps
<1>6. \A u \in Thread : \A d \in Client :
          /\ Serving(u, d)' <=> IF u = Main THEN d = c ELSE Serving(u, d)
          /\ Closing(u, d)' <=> IF u = Main THEN FALSE ELSE Closing(u, d)
  BY <1>0, <1>1, Numbers, GoPlaces DEF Steps
<1>7. TypeOK'
  <2>1. idle_sec' \in [Client -> 0.._max_idle_sec]
    BY <1>0, <1>1, Numbers DEF TypeOK
  <2> QED
    BY <1>0, <1>1, <1>5, <2>1 DEF TypeOK, Steps, server, peers
<1>8. ThreadsInv' /\ OnceInv'
  BY <1>0, <1>1, <1>2, <1>5, Numbers, ThreadAssumption DEF ThreadsInv, OnceInv
<1>9. ClientsInv' /\ LoopInv'
  BY <1>0, <1>1 DEF ClientsInv, LoopInv, server, peers
<1>10. DataInv'
  BY <1>0, <1>1, <1>5, Numbers DEF DataInv, InQueue, peers
<1>11. ExclusiveInv'
  BY <1>0, <1>2, <1>3, <1>4, <1>6 DEF ExclusiveInv, Holds, InHand
<1>12. ServiceInv'
  BY <1>0, <1>1, <1>2, <1>3, <1>4, <1>6 DEF ServiceInv, server
<1>13. PlacedInv'
  <2>1. InHand(c)'
    BY <1>6, Numbers DEF InHand, Holds
  <2> QED
    BY <1>0, <1>1, <1>2, <1>3, <1>4, <1>6, <2>1 DEF PlacedInv, Holds, InHand, server
<1> QED
  BY <1>7, <1>8, <1>9, <1>10, <1>11, <1>12, <1>13 DEF IInv

LEMMA WriteCloseStep ==
    ASSUME IInv, WriteClose
    PROVE  IInv'
<1>0. TypeOK /\ ThreadsInv /\ LoopInv /\ DataInv
  BY DEF IInv
<1>1. /\ pc[Main] = "write" /\ Go(Main, "remove", ctx[Main])
      /\ UNCHANGED <<server, m_tasks, context, loop, armed, peers>>
  BY DEF WriteClose
<1>2. ctx[Main] \in Client
  BY <1>0, <1>1, HandlerHasClient, Numbers
<1>3. /\ pc' \in [Thread -> Steps] /\ ctx' \in [Thread -> Client \cup {NoCtx}]
      /\ pc'[Main] = "remove"
      /\ \A u \in Thread : u # Main => pc'[u] = pc[u] /\ ctx'[u] = ctx[u]
  BY <1>0, <1>1, <1>2, GoFacts, Numbers DEF Steps
<1>4. TypeOK'
  BY <1>0, <1>1, <1>3 DEF TypeOK, Steps, server, context, loop, peers
<1>5. LoopInv'
  BY <1>0, <1>1 DEF LoopInv, server, loop, peers
<1>6. DataInv'
  <2>1. \A w \in Worker : pc'[w] = "read" => pc[w] = "read" /\ ctx'[w] = ctx[w]
    BY <1>3, Numbers
  <2> QED
    BY <1>0, <1>1, <2>1, DataKept DEF loop, peers
<1> QED
  BY <1>1, <1>4, <1>5, <1>6, HandlerKeeps, Numbers DEF server, context, loop

\* What was written on is armed again, without ONESHOT after an unknown result.
LEMMA WriteGoesOnStep ==
    ASSUME IInv, WriteGoesOn
    PROVE  IInv'
<1>0. /\ TypeOK /\ ThreadsInv /\ LoopInv /\ ClientsInv /\ DataInv
      /\ ExclusiveInv /\ OnceInv /\ ServiceInv /\ PlacedInv
  BY DEF IInv
<1>1. PICK c \in Client : c = ctx[Main]
  BY <1>0, HandlerHasClient, Numbers DEF WriteGoesOn
<1>2. PICK e \in {"in", "out", "level"} :
          /\ pc[Main] = "write" /\ (e = "level" => "unknown" \in WriteResults)
          /\ Arm(c, e) /\ Go(Main, "idle", NoCtx)
          /\ UNCHANGED <<server, m_tasks, context, loop, peers>>
  BY <1>1 DEF WriteGoesOn
<1>3. Serving(Main, c) /\ c \in _eclients /\ \A d \in Client : Holds(Main, d) => d = c
  <2>1. Serving(Main, c) /\ \A d \in Client : Holds(Main, d) => d = c
    BY <1>1, <1>2 DEF Serving, Closing, Holds
  <2> QED
    BY <1>0, <2>1, Numbers DEF ServiceInv
<1>4. /\ pc' \in [Thread -> Steps] /\ ctx' \in [Thread -> Client \cup {NoCtx}]
      /\ pc'[Main] = "idle" /\ ctx'[Main] = NoCtx
      /\ \A u \in Thread : u # Main => pc'[u] = pc[u] /\ ctx'[u] = ctx[u]
  BY <1>0, <1>2, GoFacts, Numbers DEF Steps
<1>5. armed' \in [Client -> {"none", "in", "out", "level", "lost", "off"}]
  BY <1>0, <1>2, ArmFacts
<1>6. \A u \in Thread : \A d \in Client :
          /\ Serving(u, d)' <=> IF u = Main THEN FALSE ELSE Serving(u, d)
          /\ Closing(u, d)' <=> IF u = Main THEN FALSE ELSE Closing(u, d)
  <2>1. Main \in Thread /\ "idle" \in Steps /\ NoCtx \in Client \cup {NoCtx}
    BY Numbers DEF Steps
  <2> QED
    BY <1>0, <1>2, <2>1, GoPlaces
<1>7. \A d \in Client :
          /\ IsArmed(d)' <=> IF d = c THEN e \in {"in", "out"} ELSE IsArmed(d)
          /\ InEvents(d)' <=> InEvents(d)
          /\ InQueue(d)' <=> InQueue(d)
  <2>1. \A d \in Client : IsArmed(d)' <=> IF d = c THEN e \in {"in", "out"} ELSE IsArmed(d)
    BY <1>0, <1>2, ArmPlaces
  <2> QED
    BY <1>2, <2>1 DEF InEvents, InQueue, loop
<1>8. TypeOK'
  BY <1>0, <1>2, <1>4, <1>5 DEF TypeOK, Steps, server, context, loop, peers
<1>9. ThreadsInv'
  BY <1>0, <1>4, Numbers DEF ThreadsInv
<1>10. LoopInv' /\ ClientsInv' /\ OnceInv'
  BY <1>0, <1>2 DEF LoopInv, ClientsInv, OnceInv, server, context, loop, peers
<1>11. DataInv'
  <2>1. \A w \in Worker : pc'[w] = "read" => pc[w] = "read" /\ ctx'[w] = ctx[w]
    BY <1>4, Numbers
  <2> QED
    BY <1>0, <1>2, <2>1, DataKept DEF loop, peers
<1>12. ExclusiveInv'
  BY <1>0, <1>3, <1>6, <1>7, Numbers DEF ExclusiveInv, Holds, InHand
<1>13. ServiceInv'
  BY <1>0, <1>2, <1>3, <1>6, <1>7 DEF ServiceInv, server, context
<1>14. PlacedInv'
  BY <1>0, <1>2, <1>3, <1>6, <1>7 DEF PlacedInv, KnownResults, Holds, InHand, server
<1> QED
  BY <1>8, <1>9, <1>10, <1>11, <1>12, <1>13, <1>14 DEF IInv

\* Without an idle limit the sweep finds nobody.
LEMMA SweepStep ==
    ASSUME NoSweep, IInv, clear_idle_clients \/ CloseIdle \/ NextRound \/ LoopEnds
    PROVE  IInv'
<1>0. TypeOK /\ LoopInv /\ DataInv
  BY DEF IInv
<1>1. ~CloseIdle
  BY <1>0 DEF CloseIdle, LoopInv
<1>2. /\ remove_evs' = {} /\ phase' \in {"sweep", "wait", "ended"} /\ events = {}
      /\ UNCHANGED <<server, m_tasks, context, events, thread, armed, peers>>
  BY <1>0, <1>1 DEF clear_idle_clients, IdleClients, NextRound, LoopEnds, NoSweep, LoopInv
<1>3. TypeOK'
  BY <1>0, <1>2 DEF TypeOK, server, context, thread, peers
<1>4. LoopInv'
  BY <1>0, <1>2 DEF LoopInv, server, peers
<1>5. DataInv'
  BY <1>0, <1>2, DataKept DEF thread, peers
<1> QED
  BY <1>2, <1>3, <1>4, <1>5, OutsideKeeps DEF server, context

LEMMA MainStepKeeps ==
    ASSUME NoSweep, IInv, LevelInv, MainStep
    PROVE  IInv'
BY WaitStep, AcceptStep, AcceptFailsStep, ReadEventStep, WriteEventStep, WriteCloseStep, WriteGoesOnStep,
   SweepStep, CloseStep, Numbers DEF MainStep

-----------------------------------------------------------------------------
(***************************************************************************)
(* Who is armed without ONESHOT: only the main thread ever has such a      *)
(* client, so it stays out of the queue and of the workers' hands.         *)
(***************************************************************************)

\* No client is armed this way but by WriteGoesOn, and none that is becomes due.
LEMMA LevelKept ==
    ASSUME LevelInv,
           \A d \in Client : armed'[d] = "level" =>
               /\ armed[d] = "level" /\ (d \in _eclients => d \in _eclients')
               /\ <<d, "in">> \in events' => <<d, "in">> \in events
               /\ InQueue(d)' => InQueue(d) \/ <<d, "in">> \in events
               /\ \A w \in Worker : Holds(w, d)' => Holds(w, d) \/ InQueue(d)
    PROVE  LevelInv'
<1> SUFFICES ASSUME NEW d \in Client, armed'[d] = "level"
             PROVE  /\ ~KnownResults /\ d \in _eclients'
                    /\ <<d, "in">> \notin events' /\ ~InQueue(d)'
                    /\ \A w \in Worker : ~Holds(w, d)'
  BY DEF LevelInv, KnownResults
<1>1. /\ ~KnownResults /\ d \in _eclients /\ <<d, "in">> \notin events /\ ~InQueue(d)
      /\ \A w \in Worker : ~Holds(w, d)
  BY DEF LevelInv
<1> QED
  BY <1>1

\* What a thread holds after a step.
LEMMA GoHolds ==
    ASSUME TypeOK, NEW t \in Thread, NEW p \in Steps, NEW c \in Client \cup {NoCtx}, Go(t, p, c)
    PROVE  \A u \in Thread : \A d \in Client :
               Holds(u, d)' => (u # t /\ Holds(u, d)) \/ (u = t /\ d = c /\ p \notin {"idle", "mark"})
BY GoPlaces DEF Holds

\* No worker moves.
LEMMA LevelMain ==
    ASSUME IInv, LevelInv, UNCHANGED m_tasks, events' \subseteq events, _eclients \subseteq _eclients',
           UNCHANGED thread \/ \E p \in Steps : \E c \in Client \cup {NoCtx} : Go(Main, p, c),
           \A d \in Client : armed'[d] = "level" => armed[d] = "level"
    PROVE  LevelInv'
<1>1. \A w \in Worker : \A d \in Client : Holds(w, d)' => Holds(w, d)
  <2>1. CASE UNCHANGED thread
    BY <2>1 DEF Holds, Serving, Closing, thread
  <2>2. CASE \E p \in Steps : \E c \in Client \cup {NoCtx} : Go(Main, p, c)
    BY <2>2, GoHolds, Numbers, ThreadAssumption DEF IInv
  <2> QED
    BY <2>1, <2>2
<1>2. \A d \in Client : InQueue(d)' <=> InQueue(d)
  BY DEF InQueue
<1> QED
  BY <1>1, <1>2, LevelKept

\* A thread closes a client, or a worker goes on with it.
LEMMA LevelThread ==
    ASSUME IInv, LevelInv, NEW t \in Thread,
           \/ close_and_release(t)
           \/ t \in Worker /\ (ReadClose(t) \/ ReadGoesOn(t) \/ MarkReadOver(t))
    PROVE  LevelInv'
<1>0. TypeOK /\ ThreadsInv
  BY DEF IInv
<1>1. PICK c \in Client : c = ctx[t]
  BY <1>0, HandlerHasClient
     DEF close_and_release, remove_client, CheckEmpty, SetStop, Delete, ReadClose, ReadGoesOn, MarkReadOver
<1>2. /\ UNCHANGED <<m_tasks, events>>
      /\ \/ armed' = armed /\ _eclients' = _eclients
         \/ Arm(c, "none") /\ _eclients' = _eclients \ {c}
         \/ (Arm(c, "in") \/ Arm(c, "out") \/ Arm(c, "lost")) /\ _eclients' = _eclients
      /\ \/ pc[t] \in {"read", "remove", "check", "stop"} /\ \E p \in {"remove", "check", "stop", "delete", "mark"} : Go(t, p, c)
         \/ Go(t, "idle", NoCtx)
  BY <1>1 DEF close_and_release, remove_client, CheckEmpty, SetStop, Delete, ReadClose, ReadGoesOn, MarkReadOver,
     server, loop
<1>3. \A w \in Worker : \A d \in Client : Holds(w, d)' => Holds(w, d)
  <2>1. CASE Go(t, "idle", NoCtx)
    BY <1>0, <2>1, GoHolds, Numbers DEF Steps
  <2>2. CASE pc[t] \in {"read", "remove", "check", "stop"} /\ \E p \in {"remove", "check", "stop", "delete", "mark"} : Go(t, p, c)
    <3>1. Holds(t, c)
      BY <1>1, <2>2 DEF Holds, Serving, Closing
    <3> QED
      BY <1>0, <2>2, <3>1, GoHolds, Numbers DEF Steps
  <2> QED
    BY <1>2, <2>1, <2>2
<1>4. \A d \in Client : armed'[d] = "level" => armed[d] = "level" /\ (d \in _eclients => d \in _eclients')
  BY <1>0, <1>2, ArmFacts
<1>5. \A d \in Client : InQueue(d)' <=> InQueue(d)
  BY <1>2 DEF InQueue
<1> QED
  BY <1>2, <1>3, <1>4, <1>5, LevelKept

\* The main thread arms what it holds, alone, and has not closed.
LEMMA LevelWritten ==
    ASSUME IInv, LevelInv, WriteGoesOn
    PROVE  LevelInv'
<1>0. TypeOK /\ ThreadsInv /\ ExclusiveInv /\ ServiceInv
  BY DEF IInv
<1>1. PICK c \in Client : c = ctx[Main]
  BY <1>0, HandlerHasClient, Numbers DEF WriteGoesOn
<1>2. PICK e \in {"in", "out", "level"} :
          /\ pc[Main] = "write" /\ (e = "level" => "unknown" \in WriteResults)
          /\ Arm(c, e) /\ Go(Main, "idle", NoCtx)
          /\ UNCHANGED <<server, m_tasks, context, loop, peers>>
  BY <1>1 DEF WriteGoesOn
<1>3. Serving(Main, c) /\ Holds(Main, c) /\ InHand(c)
  BY <1>1, <1>2, Numbers DEF Serving, Holds, InHand
<1>4. /\ c \in _eclients /\ ~InEvents(c) /\ ~InQueue(c)
      /\ \A w \in Worker : ~Holds(w, c)
  BY <1>0, <1>3, Numbers, ThreadAssumption DEF ServiceInv, ExclusiveInv
<1>5. <<c, "in">> \notin events
  BY <1>4, Zenon DEF InEvents
<1>6. \A w \in Worker : \A d \in Client : Holds(w, d)' => Holds(w, d)
  BY <1>0, <1>2, GoHolds, Numbers, ThreadAssumption DEF Steps
<1>7. /\ \A d \in Client : InQueue(d)' <=> InQueue(d)
      /\ events' = events /\ _eclients' = _eclients
  BY <1>2 DEF InQueue, loop, server
<1>8. armed'[c] = e /\ \A d \in Client : d # c => armed'[d] = armed[d]
  BY <1>0, <1>2, ArmFacts
<1> SUFFICES ASSUME NEW d \in Client, armed'[d] = "level"
             PROVE  /\ ~KnownResults /\ d \in _eclients'
                    /\ <<d, "in">> \notin events' /\ ~InQueue(d)'
                    /\ \A w \in Worker : ~Holds(w, d)'
  BY DEF LevelInv, KnownResults
<1>9. CASE d = c
  BY <1>2, <1>4, <1>5, <1>6, <1>7, <1>8, <1>9 DEF KnownResults
<1>10. CASE d # c
  BY <1>6, <1>7, <1>8, <1>10 DEF LevelInv
<1> QED
  BY <1>9, <1>10

LEMMA LevelStep ==
    ASSUME NoSweep, IInv, LevelInv, [Next]_vars
    PROVE  LevelInv'
<1>0. TypeOK /\ OnceInv /\ LoopInv /\ Main \in Thread /\ Worker \subseteq Thread
  BY Numbers DEF IInv
<1>1. CASE \/ Connect \/ Tick \/ stop_epoll \/ UNCHANGED vars \/ (\E c \in Client : Send(c) \/ Hang(c))
           \/ accept_fails \/ clear_idle_clients \/ NextRound \/ LoopEnds
  <2>1. UNCHANGED <<m_tasks, _eclients, thread, armed>> /\ events' \subseteq events
    BY <1>1 DEF Connect, Tick, stop_epoll, Send, Hang, vars, server, loop,
       accept_fails, clear_idle_clients, NextRound, LoopEnds, Handling
  <2> QED
    BY <2>1, LevelMain
<1>2. ASSUME NEW w \in Worker, read_func(w)
      PROVE  LevelInv'
  <2>1. PICK c \in Client : c = Head(m_tasks) /\ InQueue(c) /\ \A d \in Client : InQueue(d)' <=> InQueue(d) /\ d # c
    BY <1>0, <1>2, TailPlaces DEF read_func, TypeOK, OnceInv
  <2>2. Go(w, "read", c) /\ UNCHANGED <<_eclients, events, armed>>
    BY <1>2, <2>1 DEF read_func, server, loop
  <2>3. \A v \in Worker : \A d \in Client : Holds(v, d)' => Holds(v, d) \/ InQueue(d)
    BY <1>0, <2>1, <2>2, GoHolds DEF Steps
  <2> QED
    BY <2>1, <2>2, <2>3, LevelKept
<1>3. CASE epoll_wait
  <2>1. /\ UNCHANGED <<_eclients, m_tasks, thread>>
        /\ events' \subseteq Ready
        /\ armed' = [c \in Client |->
               IF armed[c] # "level" /\ \E e \in events' : e[1] = c THEN "off" ELSE armed[c]]
    BY <1>3 DEF epoll_wait, server
  <2>2. \A d \in Client : armed'[d] = "level" => armed[d] = "level"
    BY <2>1
  <2>3. \A d \in Client : <<d, "in">> \in events' => armed[d] = "in"
    BY <2>1, Numbers DEF Ready
  <2>4. \A d \in Client : (InQueue(d)' <=> InQueue(d)) /\ \A w \in Worker : Holds(w, d)' <=> Holds(w, d)
    BY <2>1 DEF InQueue, Holds, Serving, Closing, thread
  <2>5. \A d \in Client : armed'[d] = "level" => <<d, "in">> \notin events'
    BY <2>2, <2>3
  <2> QED
    BY <2>1, <2>2, <2>4, <2>5, LevelKept
<1>4. CASE handle_accept_event
  <2>1. g_client_id + 1 \in Client
    <3>1. <<Listen, "in">> \in events /\ <<Listen, "in">>[1] = Listen
      BY <1>4 DEF handle_accept_event, Handling
    <3>2. g_client_id < connects /\ g_client_id \in Nat /\ connects \in 0..MaxClients
      BY <1>0, <3>1, Numbers DEF LoopInv, TypeOK
    <3> QED
      BY <3>2, Numbers DEF Client
  <2>2. /\ UNCHANGED m_tasks /\ events' \subseteq events /\ _eclients \subseteq _eclients'
        /\ \/ Arm(g_client_id + 1, "in") /\ UNCHANGED thread
           \/ Go(Main, "remove", g_client_id + 1) /\ UNCHANGED armed
    BY <1>4 DEF handle_accept_event, Handling
  <2>3. \A d \in Client : armed'[d] = "level" => armed[d] = "level"
    BY <1>0, <2>1, <2>2, ArmFacts
  <2> QED
    BY <2>1, <2>2, <2>3, LevelMain DEF Steps
<1>5. ASSUME NEW c \in Client, multi_thread_handle_read_event(c)
      PROVE  LevelInv'
  <2>1. /\ <<c, "in">> \in events /\ events' \subseteq events /\ UNCHANGED <<_eclients, armed>>
        /\ \/ m_tasks' = Append(m_tasks, c) /\ UNCHANGED thread
           \/ Go(Main, "remove", c) /\ UNCHANGED m_tasks
    BY <1>5 DEF multi_thread_handle_read_event, Handling, server
  <2>2. CASE Go(Main, "remove", c) /\ UNCHANGED m_tasks
    BY <2>1, <2>2, LevelMain DEF Steps
  <2>3. CASE m_tasks' = Append(m_tasks, c) /\ UNCHANGED thread
    <3>1. armed[c] # "level" /\ ~InQueue(c)
      <4>1. InEvents(c)
        BY <2>1, Zenon DEF InEvents
      <4> QED
        BY <2>1, <4>1 DEF LevelInv, IInv, ExclusiveInv
    <3>2. \A d \in Client : InQueue(d)' <=> InQueue(d) \/ d = c
      BY <1>0, <2>3, <3>1, AppendPlaces DEF TypeOK, OnceInv
    <3>3. \A d \in Client : \A w \in Worker : Holds(w, d)' <=> Holds(w, d)
      BY <2>3 DEF Holds, Serving, Closing, thread
    <3> QED
      BY <2>1, <3>1, <3>2, <3>3, LevelKept
  <2> QED
    BY <2>1, <2>2, <2>3
<1>6. CASE (\E c \in Client : handle_writeable_event(c)) \/ WriteClose
  <2>1. /\ UNCHANGED <<m_tasks, _eclients, armed>> /\ events' \subseteq events
        /\ (\E c \in Client : Go(Main, "write", c)) \/ Go(Main, "remove", ctx[Main])
    BY <1>6 DEF handle_writeable_event, WriteClose, Handling, server, loop
  <2>2. ctx[Main] \in Client \cup {NoCtx}
    BY <1>0 DEF TypeOK
  <2> QED
    BY <2>1, <2>2, LevelMain DEF Steps
<1>7. ~CloseIdle
  BY <1>0 DEF CloseIdle, LoopInv
<1> QED
  BY <1>0, <1>1, <1>2, <1>3, <1>4, <1>5, <1>6, <1>7, LevelThread, LevelWritten
     DEF Next, MainStep, WorkerStep, Ended

-----------------------------------------------------------------------------
(***************************************************************************)
(* The invariant, and what it implies.                                     *)
(***************************************************************************)

LEMMA SocketInit == Init => IInv
<1> SUFFICES ASSUME Init
             PROVE  IInv
  OBVIOUS
<1>1. TypeOK
  <2>1. m_tasks \in Seq(Client)
    BY EmptySeq DEF Init
  <2> QED
    BY <2>1, Numbers DEF Init, TypeOK
<1>2. ThreadsInv /\ LoopInv
  BY Numbers DEF Init, ThreadsInv, LoopInv
<1>3. \A c \in Client : ~IsArmed(c) /\ ~InEvents(c) /\ ~InQueue(c) /\ \A t \in Thread : ~Serving(t, c) /\ ~Closing(t, c)
  <2>1. Len(m_tasks) = 0
    BY EmptySeq DEF Init
  <2> QED
    BY <2>1 DEF Init, IsArmed, InEvents, InQueue, Serving, Closing
<1>4. ClientsInv
  BY FS_EmptySet DEF Init, ClientsInv
<1>5. ExclusiveInv /\ ServiceInv
  BY <1>3 DEF ExclusiveInv, ServiceInv, Holds
<1>6. OnceInv /\ PlacedInv
  <2>1. Len(m_tasks) = 0
    BY EmptySeq DEF Init
  <2> QED
    BY <2>1 DEF Init, OnceInv, PlacedInv
<1>7. DataInv
  BY <1>3, Numbers DEF Init, DataInv
<1> QED
  BY <1>1, <1>2, <1>4, <1>5, <1>6, <1>7 DEF IInv

LEMMA LevelInit == Init => LevelInv
BY DEF Init, LevelInv

LEMMA SocketStep ==
    ASSUME NoSweep
    PROVE  IInv /\ LevelInv /\ [Next]_vars => IInv' /\ LevelInv'
<1>1. IInv /\ LevelInv /\ [Next]_vars => IInv'
  BY OutsideStep, MainStepKeeps, WorkerStepKeeps DEF Next, Ended
<1>2. IInv /\ LevelInv /\ [Next]_vars => LevelInv'
  BY LevelStep
<1> QED
  BY <1>1, <1>2

LEMMA SocketInv ==
    ASSUME NoSweep
    PROVE  Spec => [](IInv /\ LevelInv)
<1>1. IInv /\ LevelInv /\ [Next]_vars => IInv' /\ LevelInv'
  BY SocketStep
<1> QED
  BY <1>1, SocketInit, LevelInit, PTL DEF Spec

\* The sets of OnePlace and HeldAreAlive, as places.
LEMMA PlaceSets ==
    ASSUME IInv, NEW c \in Client
    PROVE  /\ Events(c) = {} <=> ~InEvents(c)
           /\ Queued(c) = {} <=> ~InQueue(c)
           /\ Owners(c) = {t \in Thread : Holds(t, c)}
           /\ Registered(c) = IF IsArmed(c) \/ armed[c] = "level" THEN 1 ELSE 0
           /\ InEvents(c) => \E e : Events(c) = {e}
           /\ InQueue(c) => \E n : Queued(c) = {n}
           /\ InHand(c) => \E t : Owners(c) = {t}
<1>0. TypeOK /\ ThreadsInv /\ ExclusiveInv /\ OnceInv
  BY DEF IInv
<1>1. DOMAIN m_tasks = 1..Len(m_tasks)
  BY <1>0, LenProperties DEF TypeOK
<1>2. (Events(c) = {} <=> ~InEvents(c)) /\ (InEvents(c) => \E e : Events(c) = {e})
  <2>1. Events(c) = {} <=> ~InEvents(c)
    BY DEF Events, InEvents
  <2>2. ASSUME NEW e \in events, e[1] = c
        PROVE  Events(c) = {e}
    BY <1>0, <2>2 DEF OnceInv, Events
  <2> QED
    BY <2>1, <2>2 DEF InEvents
<1>3. (Queued(c) = {} <=> ~InQueue(c)) /\ (InQueue(c) => \E n : Queued(c) = {n})
  <2>1. Queued(c) = {} <=> ~InQueue(c)
    BY <1>1 DEF Queued, InQueue
  <2>2. ASSUME NEW n \in 1..Len(m_tasks), m_tasks[n] = c
        PROVE  Queued(c) = {n}
    BY <1>0, <1>1, <2>2 DEF OnceInv, Queued
  <2> QED
    BY <2>1, <2>2 DEF InQueue
<1>4. Owners(c) = {t \in Thread : Holds(t, c)}
  <2>1. ASSUME NEW t \in Thread
        PROVE  (ctx[t] = c /\ pc[t] # "mark") <=> Holds(t, c)
    <3>1. c # NoCtx
      OBVIOUS
    <3>2. pc[t] \in {"idle", "read", "mark", "write", "remove", "check", "stop", "delete"}
      BY <1>0 DEF TypeOK
    <3> QED
      BY <1>0, <3>1, <3>2 DEF ThreadsInv, Holds, Serving, Closing
  <2> QED
    BY <2>1 DEF Owners
<1>5. InHand(c) => \E t : Owners(c) = {t}
  BY <1>0, <1>4 DEF InHand, ExclusiveInv
<1>6. Registered(c) = IF IsArmed(c) \/ armed[c] = "level" THEN 1 ELSE 0
  BY DEF Registered, IsArmed
<1> QED
  BY <1>2, <1>3, <1>4, <1>5, <1>6

(***************************************************************************)
(* Without an idle limit, whatever the watcher returns and whatever fails: *)
(* no registration, no reported event, no queued task and no thread that   *)
(* serves or closes a client refers to a context that was deleted; and a   *)
(* worker that reads finds data or the end of the stream, so that EAGAIN   *)
(* never closes a client.  A thread is here in a handler or in             *)
(* close_and_release.  The worker's mark after a handler that did not      *)
(* close (epoll_socket.cpp:185-190) is not covered: by then the client may *)
(* be with another thread, and its context gone.                           *)
(***************************************************************************)
THEOREM ServedContextsAreAlive ==
    ASSUME NoSweep
    PROVE  Spec => []Safe
<1>1. IInv /\ LevelInv => HeldAreAlive
  <2> SUFFICES ASSUME IInv, LevelInv, NEW c \in released
               PROVE  Registered(c) + Cardinality(Events(c)) + Cardinality(Queued(c)) + Cardinality(Owners(c)) = 0
    BY DEF HeldAreAlive
  <2>1. c \in Client /\ c \notin _eclients
    BY DEF IInv, TypeOK, ClientsInv
  <2>2. /\ ~IsArmed(c) /\ armed[c] # "level" /\ ~InEvents(c) /\ ~InQueue(c)
        /\ \A t \in Thread : ~Holds(t, c)
    BY <2>1 DEF IInv, ServiceInv, LevelInv, Holds
  <2>3. Registered(c) = 0 /\ Events(c) = {} /\ Queued(c) = {} /\ Owners(c) = {}
    BY <2>1, <2>2, PlaceSets
  <2> QED
    BY <2>3, FS_EmptySet
<1>2. IInv => ReadHasData
  <2> SUFFICES ASSUME IInv, NEW w \in Worker, pc[w] = "read"
               PROVE  inbox[ctx[w]] > 0 \/ ctx[w] \in hung
    BY DEF ReadHasData
  <2>1. ctx[w] \in Client
    BY ReadAlone
  <2> QED
    BY <2>1 DEF IInv, DataInv
<1>3. IInv /\ LevelInv => Safe
  BY <1>1, <1>2 DEF IInv, Safe
<1> QED
  BY <1>3, SocketInv, PTL

(***************************************************************************)
(* Without an idle limit, and with results the code knows: every client is *)
(* registered, reported, queued or in the hands of one thread, and only    *)
(* one of these, once.  So no two threads work on a context, and none is   *)
(* forgotten.                                                              *)
(***************************************************************************)
THEOREM ClientIsInOnePlace ==
    ASSUME NoSweep, KnownResults
    PROVE  Spec => []OnePlace
<1>1. IInv /\ LevelInv => OnePlace
  <2> SUFFICES ASSUME IInv, LevelInv, NEW c \in _eclients
               PROVE  Registered(c) + Cardinality(Events(c)) + Cardinality(Queued(c)) + Cardinality(Owners(c)) = 1
    BY DEF OnePlace
  <2>1. c \in Client /\ (IsArmed(c) \/ InEvents(c) \/ InQueue(c) \/ InHand(c))
    BY DEF IInv, TypeOK, PlacedInv
  <2>2. /\ IsArmed(c) => ~InEvents(c) /\ ~InQueue(c) /\ ~InHand(c)
        /\ InEvents(c) => ~InQueue(c) /\ ~InHand(c)
        /\ InQueue(c) => ~InHand(c)
    BY <2>1 DEF IInv, ExclusiveInv
  <2>3. Registered(c) = IF IsArmed(c) THEN 1 ELSE 0
    <3>1. armed[c] # "level"
      BY <2>1 DEF LevelInv
    <3> QED
      BY <2>1, <3>1, PlaceSets
  <2>4. Cardinality(Events(c)) = IF InEvents(c) THEN 1 ELSE 0
    <3>1. CASE InEvents(c)
      BY <2>1, <3>1, PlaceSets, FS_Singleton
    <3>2. CASE ~InEvents(c)
      BY <2>1, <3>2, PlaceSets, FS_EmptySet
    <3> QED
      BY <3>1, <3>2
  <2>5. Cardinality(Queued(c)) = IF InQueue(c) THEN 1 ELSE 0
    <3>1. CASE InQueue(c)
      BY <2>1, <3>1, PlaceSets, FS_Singleton
    <3>2. CASE ~InQueue(c)
      BY <2>1, <3>2, PlaceSets, FS_EmptySet
    <3> QED
      BY <3>1, <3>2
  <2>6. Cardinality(Owners(c)) = IF InHand(c) THEN 1 ELSE 0
    <3>1. CASE InHand(c)
      <4>1. PICK t : Owners(c) = {t}
        BY <2>1, <3>1, PlaceSets
      <4> QED
        BY <3>1, <4>1, FS_Singleton
    <3>2. CASE ~InHand(c)
      <4>1. Owners(c) = {}
        BY <2>1, <3>2, PlaceSets DEF InHand
      <4> QED
        BY <3>2, <4>1, FS_EmptySet
    <3> QED
      BY <3>1, <3>2
  <2> QED
    BY <2>1, <2>2, <2>3, <2>4, <2>5, <2>6
<1> QED
  BY <1>1, SocketInv, PTL

-----------------------------------------------------------------------------
(***************************************************************************)
(* The idle sweep.  It spares a client that waits for a worker or is read  *)
(* while no client is reported for reading twice: the mark of one read may *)
(* come after the report of the next.                                      *)
(***************************************************************************)

\* Every peer sends at most once, and none closes.
OneChunk == MaxSends <= 1 /\ ~Hangs

\* A client on its way from the report of a read event to the recv.
Reading(c) == \E w \in Worker : pc[w] = "read" /\ ctx[w] = c
Due(c) == <<c, "in">> \in events \/ InQueue(c) \/ Reading(c)

\* The kinds of what the sweep depends on.
SweepKinds ==
    /\ m_tasks \in Seq(Client)
    /\ _ctx_status \in [Client -> {"none", "CONTEXT_READING", "CONTEXT_READ_OVER"}]
    /\ pc \in [Thread -> Steps] /\ pc[Main] \notin {"read", "mark"}
    /\ ctx \in [Thread -> Client \cup {NoCtx}]
    /\ \A t \in Thread : pc[t] # "idle" => ctx[t] \in Client
    /\ armed \in [Client -> {"none", "in", "out", "level", "lost", "off"}]
    /\ inbox \in [Client -> {0, 1}] /\ sends \in [Client -> {0, 1}] /\ hung = {}

\* The clients are those accepted.
AcceptedInv ==
    /\ g_client_id \in Nat /\ connects \in 0..MaxClients /\ g_client_id <= connects
    /\ <<Listen, "in">> \in events => g_client_id < connects
    /\ _eclients \subseteq 1..g_client_id /\ remove_evs \subseteq 1..g_client_id
    /\ \A c \in Client : c > g_client_id =>
          /\ armed[c] = "none" /\ ~InEvents(c) /\ ~InQueue(c)
          /\ \A t \in Thread : pc[t] # "idle" => ctx[t] # c

\* What is due is a peer's only chunk, not yet read.
ChunkInv == \A c \in Client : inbox[c] <= sends[c] /\ (Due(c) => inbox[c] = 1)

\* Nothing is written to a client and no read of it is over before its chunk is read.
BeforeReadInv ==
    \A c \in Client : inbox[c] = sends[c] =>
        /\ armed[c] \notin {"out", "level"} /\ <<c, "out">> \notin events
        /\ \A t \in Thread : ctx[t] = c => pc[t] \notin {"mark", "write"}

\* A client is due in one place.
DueOnceInv ==
    /\ \A c \in Client :
          /\ armed[c] = "in" => ~Due(c)
          /\ <<c, "in">> \in events => ~InQueue(c) /\ ~Reading(c)
          /\ InQueue(c) => ~Reading(c)
    /\ \A w, v \in Worker : pc[w] = "read" /\ pc[v] = "read" /\ ctx[w] = ctx[v] => w = v
    /\ \A m, n \in 1..Len(m_tasks) : m_tasks[m] = m_tasks[n] => m = n

\* The context of a client in the queue or being read says so.
MarkedInv == \A c \in Client : InQueue(c) \/ Reading(c) => _ctx_status[c] = "CONTEXT_READING"

\* The sweep is about to close, or closes, clients that are neither.
SparedInv ==
    /\ remove_evs \subseteq Client
    /\ phase = "sweep" =>
          /\ \A c \in remove_evs : ~InQueue(c) /\ ~Reading(c)
          /\ pc[Main] # "idle" => ~InQueue(ctx[Main]) /\ ~Reading(ctx[Main])

SweepInv ==
    /\ SweepKinds /\ AcceptedInv /\ ChunkInv /\ BeforeReadInv
    /\ DueOnceInv /\ MarkedInv /\ SparedInv

\* Where the due clients are after a step that queues and reads none.
LEMMA DueKept ==
    ASSUME m_tasks' = m_tasks, events' \subseteq events,
           \A w \in Worker : pc'[w] = "read" => pc[w] = "read" /\ ctx'[w] = ctx[w]
    PROVE  \A c : /\ InQueue(c)' <=> InQueue(c)
                  /\ Reading(c)' => Reading(c)
                  /\ Due(c)' => Due(c)
<1>1. \A c : (InQueue(c)' <=> InQueue(c)) /\ (Reading(c)' => Reading(c))
  BY DEF InQueue, Reading
<1> QED
  BY <1>1 DEF Due

\* A step that queues and reads none, and that arms only what is not due.
LEMMA QuietStep ==
    ASSUME SweepInv, SweepKinds', AcceptedInv', SparedInv',
           UNCHANGED <<m_tasks, inbox, sends>>, events' \subseteq events,
           \A w \in Worker : pc'[w] = "read" => pc[w] = "read" /\ ctx'[w] = ctx[w],
           \A t \in Thread : pc'[t] \in {"mark", "write"} =>
               (pc'[t] = pc[t] /\ ctx'[t] = ctx[t]) \/ inbox[ctx'[t]] # sends[ctx'[t]],
           \A c \in Client : \/ armed'[c] \in {armed[c], "none", "off"}
                             \/ armed'[c] = "in" /\ ~Due(c)
                             \/ inbox[c] # sends[c],
           \A c \in Client : InQueue(c) \/ Reading(c) => _ctx_status'[c] \in {_ctx_status[c], "CONTEXT_READING"}
    PROVE  SweepInv'
<1>0. SweepKinds /\ AcceptedInv /\ ChunkInv /\ BeforeReadInv /\ DueOnceInv /\ MarkedInv
  BY DEF SweepInv
<1>1. \A c : (InQueue(c)' <=> InQueue(c)) /\ (Reading(c)' => Reading(c)) /\ (Due(c)' => Due(c))
  BY DueKept
<1>2. \A c \in Client : inbox[c] # sends[c] => ~Due(c)
  BY <1>0 DEF SweepKinds, ChunkInv
<1>3. ChunkInv'
  BY <1>0, <1>1 DEF ChunkInv
<1>4. BeforeReadInv'
  BY <1>0 DEF BeforeReadInv
<1>5. DueOnceInv'
  BY <1>0, <1>1, <1>2 DEF DueOnceInv
<1>6. MarkedInv'
  BY <1>0, <1>1 DEF MarkedInv
<1> QED
  BY <1>3, <1>4, <1>5, <1>6 DEF SweepInv

\* The main thread stays where it is in the sweep, or has done with a client.
LEMMA SparedKept ==
    ASSUME SparedInv, UNCHANGED <<phase, remove_evs>>,
           \A c : (InQueue(c)' => InQueue(c)) /\ (Reading(c)' => Reading(c) \/ InQueue(c)),
           phase = "sweep" /\ pc'[Main] # "idle" => pc[Main] # "idle" /\ ctx'[Main] = ctx[Main]
    PROVE  SparedInv'
BY DEF SparedInv

\* A thread's step, in the kinds of the sweep.
LEMMA SweepGo ==
    ASSUME SweepKinds, NEW t \in Thread, NEW p \in Steps, NEW c \in Client \cup {NoCtx}, Go(t, p, c),
           p # "idle" => c \in Client,
           t = Main => p \notin {"read", "mark"}
    PROVE  /\ pc' \in [Thread -> Steps] /\ pc'[Main] \notin {"read", "mark"}
           /\ ctx' \in [Thread -> Client \cup {NoCtx}]
           /\ \A u \in Thread : pc'[u] # "idle" => ctx'[u] \in Client
           /\ pc'[t] = p /\ ctx'[t] = c
           /\ \A u \in Thread : u # t => pc'[u] = pc[u] /\ ctx'[u] = ctx[u]
<1>1. /\ pc' \in [Thread -> Steps] /\ ctx' \in [Thread -> Client \cup {NoCtx}]
      /\ pc'[t] = p /\ ctx'[t] = c
      /\ \A u \in Thread : u # t => pc'[u] = pc[u] /\ ctx'[u] = ctx[u]
  BY DEF SweepKinds, Go
<1>2. pc'[Main] \notin {"read", "mark"}
  BY <1>1, Numbers DEF SweepKinds
<1>3. \A u \in Thread : pc'[u] # "idle" => ctx'[u] \in Client
  BY <1>1 DEF SweepKinds
<1> QED
  BY <1>1, <1>2, <1>3

\* Peers, time and stop_epoll.
LEMMA SweepOutside ==
    ASSUME OneChunk, SweepInv,
           \/ Connect \/ Tick \/ stop_epoll \/ UNCHANGED vars
           \/ \E c \in Client : Send(c) \/ Hang(c)
    PROVE  SweepInv'
<1>0. SweepKinds /\ AcceptedInv /\ SparedInv /\ ChunkInv /\ BeforeReadInv /\ DueOnceInv /\ MarkedInv
  BY DEF SweepInv
<1>1. ~(\E c \in Client : Hang(c))
  BY DEF OneChunk, Hang
<1>2. CASE Connect \/ Tick \/ stop_epoll \/ UNCHANGED vars
  <2>1. /\ UNCHANGED <<m_tasks, _ctx_status, loop, thread, armed, inbox, sends, hung, _eclients, g_client_id>>
        /\ connects' = connects \/ (connects < MaxClients /\ connects' = connects + 1)
    BY <1>2 DEF Connect, Tick, stop_epoll, vars, server, context, peers
  <2>2. SweepKinds'
    BY <1>0, <2>1 DEF SweepKinds, thread
  <2>3. \A c : (InQueue(c)' <=> InQueue(c)) /\ (Reading(c)' <=> Reading(c)) /\ (InEvents(c)' <=> InEvents(c))
    BY <2>1 DEF InQueue, Reading, InEvents, loop, thread
  <2>4. AcceptedInv'
    <3>1. connects' \in 0..MaxClients /\ g_client_id <= connects' /\ (<<Listen, "in">> \in events => g_client_id < connects')
      BY <1>0, <2>1, Numbers DEF AcceptedInv
    <3> QED
      BY <1>0, <2>1, <2>3, <3>1 DEF AcceptedInv, loop, thread
  <2>5. SparedInv'
    BY <1>0, <2>1, <2>3, SparedKept DEF loop, thread
  <2> QED
    BY <2>1, <2>2, <2>4, <2>5, QuietStep DEF loop, thread
<1>3. CASE \E c \in Client : Send(c)
  <2>1. PICK c \in Client : Send(c)
    BY <1>3
  <2>2. /\ sends[c] < MaxSends
        /\ inbox' = [inbox EXCEPT ![c] = @ + 1] /\ sends' = [sends EXCEPT ![c] = @ + 1]
        /\ UNCHANGED <<server, m_tasks, context, loop, thread, armed, hung, connects, stops>>
    BY <2>1 DEF Send
  <2>3. sends[c] = 0 /\ inbox[c] = 0 /\ ~Due(c)
    BY <1>0, <2>2, Numbers DEF OneChunk, SweepKinds, ChunkInv
  <2>4. /\ inbox' \in [Client -> {0, 1}] /\ sends' \in [Client -> {0, 1}]
        /\ inbox'[c] = 1 /\ sends'[c] = 1
        /\ \A d \in Client : d # c => inbox'[d] = inbox[d] /\ sends'[d] = sends[d]
    BY <1>0, <2>2, <2>3 DEF SweepKinds
  <2>5. \A d : (InQueue(d)' <=> InQueue(d)) /\ (Reading(d)' <=> Reading(d)) /\ (InEvents(d)' <=> InEvents(d)) /\ (Due(d)' <=> Due(d))
    BY <2>2 DEF InQueue, Reading, InEvents, Due, loop, thread
  <2>6. SweepKinds'
    BY <1>0, <2>2, <2>4 DEF SweepKinds, context, thread
  <2>7. AcceptedInv' /\ SparedInv' /\ MarkedInv'
    BY <1>0, <2>2, <2>5 DEF AcceptedInv, SparedInv, MarkedInv, server, context, loop, thread
  <2>8. ChunkInv'
    BY <1>0, <2>3, <2>4, <2>5 DEF ChunkInv
  <2>9. BeforeReadInv'
    BY <1>0, <2>2, <2>3, <2>4 DEF BeforeReadInv, loop, thread
  <2>10. DueOnceInv'
    BY <1>0, <2>2, <2>5 DEF DueOnceInv, loop, thread
  <2> QED
    BY <2>6, <2>7, <2>8, <2>9, <2>10 DEF SweepInv
<1> QED
  BY <1>1, <1>2, <1>3

\* A thread closes a client: it is armed no more.
LEMMA SweepClose ==
    ASSUME SweepInv, NEW t \in Thread, close_and_release(t)
    PROVE  SweepInv'
<1>0. SweepKinds /\ AcceptedInv /\ SparedInv
  BY DEF SweepInv
<1>1. PICK c \in Client : c = ctx[t] /\ pc[t] \in {"remove", "check", "stop", "delete"}
  BY <1>0 DEF SweepKinds, close_and_release, remove_client, CheckEmpty, SetStop, Delete
<1>2. /\ \E p \in {"idle", "check", "stop", "delete"} : \E d \in Client \cup {NoCtx} :
             Go(t, p, d) /\ (p # "idle" => d = c)
      /\ armed' = armed \/ Arm(c, "none")
      /\ _eclients' \subseteq _eclients
      /\ UNCHANGED <<g_client_id, m_tasks, _ctx_status, loop, peers>>
  BY <1>1 DEF close_and_release, remove_client, CheckEmpty, SetStop, Delete, server, context
<1>3. /\ pc' \in [Thread -> Steps] /\ pc'[Main] \notin {"read", "mark"}
      /\ ctx' \in [Thread -> Client \cup {NoCtx}]
      /\ \A u \in Thread : pc'[u] # "idle" => ctx'[u] \in Client
      /\ pc'[t] \in {"idle", "check", "stop", "delete"} /\ (pc'[t] # "idle" => ctx'[t] = c)
      /\ \A u \in Thread : u # t => pc'[u] = pc[u] /\ ctx'[u] = ctx[u]
  <2>1. PICK p \in {"idle", "check", "stop", "delete"}, d \in Client \cup {NoCtx} :
            Go(t, p, d) /\ (p # "idle" => d = c)
    BY <1>2
  <2>2. p \in Steps /\ p \notin {"read", "mark"} /\ (p # "idle" => d \in Client)
    BY <2>1 DEF Steps
  <2> QED
    BY <1>0, <2>1, <2>2, SweepGo
<1>4. /\ armed' \in [Client -> {"none", "in", "out", "level", "lost", "off"}]
      /\ \A d \in Client : armed'[d] \in {armed[d], "none"}
  BY <1>0, <1>2 DEF SweepKinds, Arm
<1>5. SweepKinds'
  BY <1>0, <1>2, <1>3, <1>4 DEF SweepKinds, peers
<1>6. \A w \in Worker : pc'[w] = "read" => pc[w] = "read" /\ ctx'[w] = ctx[w]
  BY <1>3, Numbers
<1>7. \A d : (InQueue(d)' <=> InQueue(d)) /\ (Reading(d)' => Reading(d)) /\ (InEvents(d)' <=> InEvents(d))
  BY <1>2, <1>6, DueKept DEF loop, InEvents
<1>8. AcceptedInv'
  <2>1. \A d \in Client : d > g_client_id => \A u \in Thread : pc'[u] # "idle" => ctx'[u] # d
    BY <1>0, <1>1, <1>3 DEF AcceptedInv
  <2>2. \A d \in Client : d > g_client_id => armed'[d] = "none"
    BY <1>0, <1>4 DEF AcceptedInv
  <2> QED
    BY <1>0, <1>2, <1>7, <2>1, <2>2 DEF AcceptedInv, loop, peers
<1>9. SparedInv'
  <2>1. pc'[Main] # "idle" => pc[Main] # "idle" /\ ctx'[Main] = ctx[Main]
    BY <1>1, <1>3, Numbers
  <2> QED
    BY <1>0, <1>2, <1>7, <2>1, SparedKept DEF loop
<1> QED
  BY <1>2, <1>3, <1>4, <1>5, <1>6, <1>8, <1>9, QuietStep DEF loop, peers

-----------------------------------------------------------------------------
\* A worker takes the oldest task: its client is read now.
LEMMA SweepReadFunc ==
    ASSUME SweepInv, NEW w \in Worker, read_func(w)
    PROVE  SweepInv'
<1>0. /\ SweepKinds /\ AcceptedInv /\ ChunkInv /\ BeforeReadInv /\ DueOnceInv /\ MarkedInv /\ SparedInv
      /\ w \in Thread /\ w # Main
  BY Numbers DEF SweepInv
<1>1. PICK c \in Client :
          /\ c = Head(m_tasks) /\ InQueue(c) /\ m_tasks' \in Seq(Client)
          /\ \A d \in Client : InQueue(d)' <=> InQueue(d) /\ d # c
          /\ \A m, n \in 1..Len(m_tasks') : m_tasks'[m] = m_tasks'[n] => m = n
  BY <1>0, TailPlaces DEF SweepKinds, DueOnceInv, read_func
<1>2. /\ pc[w] = "idle" /\ Go(w, "read", c)
      /\ UNCHANGED <<server, context, loop, armed, peers>>
  BY <1>1 DEF read_func
<1>3. /\ pc' \in [Thread -> Steps] /\ pc'[Main] \notin {"read", "mark"}
      /\ ctx' \in [Thread -> Client \cup {NoCtx}]
      /\ \A u \in Thread : pc'[u] # "idle" => ctx'[u] \in Client
      /\ pc'[w] = "read" /\ ctx'[w] = c
      /\ \A u \in Thread : u # w => pc'[u] = pc[u] /\ ctx'[u] = ctx[u]
  BY <1>0, <1>2, SweepGo DEF Steps
<1>4. /\ \A d \in Client : InEvents(d)' <=> InEvents(d)
      /\ \A d \in Client : Reading(d)' <=> Reading(d) \/ d = c
      /\ \A d \in Client : Due(d)' <=> Due(d)
  <2>1. \A d \in Client : Reading(d)' <=> Reading(d) \/ d = c
    BY <1>2, <1>3, Numbers DEF Reading
  <2> QED
    BY <1>1, <1>2, <2>1 DEF Due, InEvents, loop
<1>5. SweepKinds'
  BY <1>0, <1>1, <1>2, <1>3 DEF SweepKinds, context, peers
<1>6. AcceptedInv'
  <2>1. c <= g_client_id
    BY <1>0, <1>1, Numbers DEF AcceptedInv
  <2>2. \A d \in Client : d > g_client_id => \A u \in Thread : pc'[u] # "idle" => ctx'[u] # d
    BY <1>0, <1>3, <2>1, Numbers DEF AcceptedInv
  <2> QED
    BY <1>0, <1>1, <1>2, <1>4, <2>2 DEF AcceptedInv, server, loop, peers
<1>7. ChunkInv'
  BY <1>0, <1>2, <1>4 DEF ChunkInv, peers
<1>8. BeforeReadInv'
  <2>1. \A u \in Thread : pc'[u] \in {"mark", "write"} => pc[u] = pc'[u] /\ ctx[u] = ctx'[u]
    BY <1>3
  <2> QED
    BY <1>0, <1>2, <2>1 DEF BeforeReadInv, loop, peers
<1>9. DueOnceInv'
  <2>1. \A d \in Client :
          /\ armed[d] = "in" => ~Due(d)'
          /\ <<d, "in">> \in events => ~InQueue(d)' /\ ~Reading(d)'
          /\ InQueue(d)' => ~Reading(d)'
    BY <1>0, <1>1, <1>4 DEF DueOnceInv
  <2>2. \A v \in Worker : pc[v] = "read" => ctx[v] # c
    BY <1>0, <1>1 DEF DueOnceInv, Reading
  <2>3. \A v, u \in Worker : pc'[v] = "read" /\ pc'[u] = "read" /\ ctx'[v] = ctx'[u] => v = u
    BY <1>0, <1>3, <2>2, Numbers DEF DueOnceInv
  <2> QED
    BY <1>1, <1>2, <2>1, <2>3 DEF DueOnceInv, loop
<1>10. MarkedInv'
  BY <1>0, <1>1, <1>2, <1>4 DEF MarkedInv, context
<1>11. SparedInv'
  <2>1. \A d \in Client : ~InQueue(d) /\ ~Reading(d) => ~InQueue(d)' /\ ~Reading(d)'
    BY <1>1, <1>4
  <2>2. pc[Main] # "idle" => ctx[Main] \in Client
    BY <1>0, Numbers DEF SweepKinds
  <2> QED
    BY <1>0, <1>2, <1>3, <2>1, <2>2, Numbers DEF SparedInv, loop
<1> QED
  BY <1>5, <1>6, <1>7, <1>8, <1>9, <1>10, <1>11 DEF SweepInv

\* A read ends with the chunk read: its client is due no more, wherever it goes.
LEMMA SweepRead ==
    ASSUME SweepInv, NEW w \in Worker, ReadClose(w) \/ ReadGoesOn(w)
    PROVE  SweepInv'
<1>0. /\ SweepKinds /\ AcceptedInv /\ ChunkInv /\ BeforeReadInv /\ DueOnceInv /\ MarkedInv /\ SparedInv
      /\ w \in Thread /\ w # Main
  BY Numbers DEF SweepInv
<1>1. PICK c \in Client : c = ctx[w] /\ pc[w] = "read"
  BY <1>0 DEF SweepKinds, ReadClose, ReadGoesOn
<1>2. Reading(c) /\ Due(c) /\ inbox[c] = 1 /\ sends[c] = 1
  <2>1. Reading(c) /\ Due(c)
    BY <1>1 DEF Reading, Due
  <2> QED
    BY <1>0, <2>1 DEF ChunkInv, SweepKinds
<1>3. /\ Received(c)
      /\ \E p \in {"remove", "mark"} : Go(w, p, c)
      /\ armed' = armed \/ \E e \in {"in", "out", "lost"} : Arm(c, e)
      /\ UNCHANGED <<server, m_tasks, context, loop, hung, connects, sends, stops>>
  BY <1>1, <1>2 DEF ReadClose, ReadGoesOn
<1>4. /\ inbox' \in [Client -> {0, 1}] /\ inbox'[c] = 0
      /\ \A d \in Client : d # c => inbox'[d] = inbox[d]
  <2>1. 0..(inbox[c] - 1) = {0}
    BY <1>2
  <2> QED
    BY <1>0, <1>3, <2>1 DEF Received, SweepKinds
<1>5. /\ pc' \in [Thread -> Steps] /\ pc'[Main] \notin {"read", "mark"}
      /\ ctx' \in [Thread -> Client \cup {NoCtx}]
      /\ \A u \in Thread : pc'[u] # "idle" => ctx'[u] \in Client
      /\ pc'[w] \in {"remove", "mark"} /\ ctx'[w] = c
      /\ \A u \in Thread : u # w => pc'[u] = pc[u] /\ ctx'[u] = ctx[u]
  <2>1. PICK p \in {"remove", "mark"} : Go(w, p, c)
    BY <1>3
  <2>2. p \in Steps /\ c \in Client \cup {NoCtx}
    BY DEF Steps
  <2> QED
    BY <1>0, <2>1, <2>2, SweepGo
<1>6. /\ armed' \in [Client -> {"none", "in", "out", "level", "lost", "off"}]
      /\ \A d \in Client : d # c => armed'[d] = armed[d]
  BY <1>0, <1>3 DEF SweepKinds, Arm
<1>7. /\ \A d \in Client : (InQueue(d)' <=> InQueue(d)) /\ (InEvents(d)' <=> InEvents(d))
      /\ \A d \in Client : Reading(d)' => Reading(d)
      /\ \A d \in Client : Due(d)' => Due(d)
      /\ ~Due(c)'
  <2>1. \A d \in Client : (InQueue(d)' <=> InQueue(d)) /\ (InEvents(d)' <=> InEvents(d))
    BY <1>3 DEF InQueue, InEvents, loop
  <2>2. \A d \in Client : Reading(d)' => Reading(d) /\ d # c
    <3>1. \A v \in Worker : pc'[v] = "read" => pc[v] = "read" /\ ctx'[v] = ctx[v] /\ v # w
      BY <1>5, Numbers
    <3>2. \A v \in Worker : pc[v] = "read" /\ ctx[v] = c => v = w
      BY <1>0, <1>1 DEF DueOnceInv
    <3> QED
      BY <3>1, <3>2 DEF Reading
  <2>3. <<c, "in">> \notin events /\ ~InQueue(c)
    BY <1>0, <1>2 DEF DueOnceInv
  <2> QED
    BY <1>3, <2>1, <2>2, <2>3 DEF Due, loop
<1>8. SweepKinds'
  BY <1>0, <1>3, <1>4, <1>5, <1>6 DEF SweepKinds, context
<1>9. AcceptedInv'
  <2>1. c <= g_client_id
    BY <1>0, <1>1, Numbers DEF AcceptedInv
  <2>2. \A d \in Client : d > g_client_id => d # c
    BY <1>0, <2>1, Numbers DEF AcceptedInv
  <2>3. \A d \in Client : d > g_client_id => armed'[d] = "none"
    BY <1>0, <1>6, <2>2 DEF AcceptedInv
  <2>4. \A d \in Client : d > g_client_id => \A u \in Thread : pc'[u] # "idle" => ctx'[u] # d
    BY <1>0, <1>5, <2>2 DEF AcceptedInv
  <2> QED
    BY <1>0, <1>3, <1>7, <2>3, <2>4 DEF AcceptedInv, server, loop
<1>10. ChunkInv'
  BY <1>0, <1>2, <1>3, <1>4, <1>7 DEF ChunkInv
<1>11. BeforeReadInv'
  <2>1. ASSUME NEW d \in Client, inbox'[d] = sends[d]
        PROVE  /\ armed'[d] \notin {"out", "level"} /\ <<d, "out">> \notin events
               /\ \A t \in Thread : ctx'[t] = d => pc'[t] \notin {"mark", "write"}
    <3>1. d # c /\ inbox[d] = sends[d]
      BY <1>2, <1>4, <2>1
    <3> QED
      BY <1>0, <1>5, <1>6, <3>1 DEF BeforeReadInv
  <2> QED
    BY <1>3, <2>1 DEF BeforeReadInv, loop
<1>12. DueOnceInv'
  <2>1. \A d \in Client : armed'[d] = "in" => ~Due(d)'
    BY <1>0, <1>6, <1>7 DEF DueOnceInv
  <2>2. \A v \in Worker : pc'[v] = "read" => pc[v] = "read" /\ ctx'[v] = ctx[v]
    BY <1>5, Numbers
  <2> QED
    BY <1>0, <1>3, <1>7, <2>1, <2>2 DEF DueOnceInv, loop
<1>13. MarkedInv'
  BY <1>0, <1>3, <1>7 DEF MarkedInv, context
<1>14. SparedInv'
  BY <1>0, <1>3, <1>5, <1>7, Numbers DEF SparedInv, SweepKinds, loop
<1> QED
  BY <1>8, <1>9, <1>10, <1>11, <1>12, <1>13, <1>14 DEF SweepInv

\* The mark comes when the client, its only chunk read, is due no more.
LEMMA SweepMark ==
    ASSUME SweepInv, NEW w \in Worker, MarkReadOver(w)
    PROVE  SweepInv'
<1>0. SweepKinds /\ AcceptedInv /\ ChunkInv /\ BeforeReadInv /\ SparedInv /\ w \in Thread /\ w # Main
  BY Numbers DEF SweepInv
<1>1. PICK c \in Client : c = ctx[w] /\ pc[w] = "mark"
  BY <1>0 DEF SweepKinds, MarkReadOver
<1>2. /\ _ctx_status' = [_ctx_status EXCEPT ![c] = "CONTEXT_READ_OVER"]
      /\ Go(w, "idle", NoCtx)
      /\ UNCHANGED <<server, m_tasks, idle_sec, released, loop, armed, peers>>
  BY <1>1 DEF MarkReadOver
<1>3. ~Due(c)
  <2>1. inbox[c] # sends[c]
    BY <1>0, <1>1 DEF BeforeReadInv
  <2>2. inbox[c] \in {0, 1} /\ sends[c] \in {0, 1} /\ inbox[c] <= sends[c]
    BY <1>0 DEF SweepKinds, ChunkInv
  <2>3. inbox[c] # 1
    BY <2>1, <2>2
  <2> QED
    BY <1>0, <2>3 DEF ChunkInv
<1>4. /\ pc' \in [Thread -> Steps] /\ pc'[Main] \notin {"read", "mark"}
      /\ ctx' \in [Thread -> Client \cup {NoCtx}]
      /\ \A u \in Thread : pc'[u] # "idle" => ctx'[u] \in Client
      /\ pc'[w] = "idle"
      /\ \A u \in Thread : u # w => pc'[u] = pc[u] /\ ctx'[u] = ctx[u]
  BY <1>0, <1>2, SweepGo DEF Steps
<1>5. SweepKinds'
  BY <1>0, <1>2, <1>4 DEF SweepKinds, peers
<1>6. \A v \in Worker : pc'[v] = "read" => pc[v] = "read" /\ ctx'[v] = ctx[v]
  BY <1>4, Numbers
<1>7. \A d : (InQueue(d)' <=> InQueue(d)) /\ (Reading(d)' => Reading(d)) /\ (InEvents(d)' <=> InEvents(d))
  BY <1>2, <1>6, DueKept DEF loop, InEvents
<1>8. AcceptedInv'
  BY <1>0, <1>2, <1>4, <1>7 DEF AcceptedInv, server, loop, peers
<1>9. SparedInv'
  BY <1>0, <1>2, <1>4, <1>7, Numbers, SparedKept DEF loop
<1>10. \A d \in Client : InQueue(d) \/ Reading(d) => _ctx_status'[d] = _ctx_status[d]
  BY <1>0, <1>2, <1>3 DEF SweepKinds, Due
<1> QED
  BY <1>2, <1>4, <1>5, <1>6, <1>8, <1>9, <1>10, QuietStep DEF loop, peers

LEMMA SweepWorker ==
    ASSUME SweepInv, NEW w \in Worker, WorkerStep(w)
    PROVE  SweepInv'
BY SweepReadFunc, SweepRead, SweepMark, SweepClose, Numbers DEF WorkerStep

-----------------------------------------------------------------------------
\* What epoll_wait reports is not due yet; a chunk that it reports is unread.
LEMMA SweepWait ==
    ASSUME SweepInv, epoll_wait
    PROVE  SweepInv'
<1>0. SweepKinds /\ AcceptedInv /\ ChunkInv /\ BeforeReadInv /\ DueOnceInv /\ MarkedInv /\ SparedInv
  BY DEF SweepInv
<1>1. /\ events' \subseteq Ready
      /\ armed' = [c \in Client |->
             IF armed[c] # "level" /\ \E e \in events' : e[1] = c THEN "off" ELSE armed[c]]
      /\ phase' = "handle"
      /\ UNCHANGED <<server, m_tasks, context, remove_evs, thread, peers>>
  BY DEF epoll_wait
<1>2. \A e \in events' :
          \/ e = <<Listen, "in">> /\ g_client_id < connects
          \/ \E c \in Client :
                \/ e = <<c, "in">> /\ armed[c] = "in" /\ inbox[c] > 0
                \/ e = <<c, "out">> /\ armed[c] \in {"out", "level"}
  BY <1>0, <1>1 DEF Ready, SweepKinds, AcceptedInv
<1>3. \A d \in Client : /\ <<d, "in">> \in events' => armed[d] = "in" /\ inbox[d] > 0
                        /\ <<d, "out">> \in events' => armed[d] \in {"out", "level"}
                        /\ InEvents(d)' => armed[d] # "none"
  BY <1>2, Numbers DEF InEvents
<1>4. /\ armed' \in [Client -> {"none", "in", "out", "level", "lost", "off"}]
      /\ \A d \in Client : armed'[d] \in {armed[d], "off"}
      /\ \A d \in Client : <<d, "in">> \in events' => armed'[d] = "off"
  <2>1. \A d \in Client : armed'[d] = IF armed[d] # "level" /\ \E e \in events' : e[1] = d THEN "off" ELSE armed[d]
    BY <1>1
  <2>2. \A d \in Client : <<d, "in">> \in events' => \E e \in events' : e[1] = d
    BY Zenon
  <2> QED
    BY <1>0, <1>1, <1>3, <2>1, <2>2 DEF SweepKinds
<1>5. \A d \in Client : /\ InQueue(d)' <=> InQueue(d)
                        /\ Reading(d)' <=> Reading(d)
                        /\ Due(d)' => <<d, "in">> \in events' \/ Due(d)
  BY <1>1 DEF InQueue, Reading, Due, thread
<1>6. SweepKinds'
  BY <1>0, <1>1, <1>4 DEF SweepKinds, context, thread, peers
<1>7. AcceptedInv'
  <2>1. <<Listen, "in">> \in events' => g_client_id < connects
    BY <1>2, Numbers
  <2>2. \A d \in Client : d > g_client_id => armed'[d] = "none" /\ ~InEvents(d)'
    BY <1>0, <1>1, <1>3 DEF AcceptedInv, InEvents
  <2> QED
    BY <1>0, <1>1, <1>5, <2>1, <2>2 DEF AcceptedInv, server, thread, peers
<1>8. ChunkInv'
  <2>1. \A d \in Client : <<d, "in">> \in events' => inbox[d] = 1
    <3> SUFFICES ASSUME NEW d \in Client, <<d, "in">> \in events'
                 PROVE  inbox[d] = 1
      OBVIOUS
    <3>1. inbox[d] \in {0, 1}
      BY <1>0 DEF SweepKinds
    <3>2. inbox[d] > 0
      BY <1>3
    <3> QED
      BY <3>1, <3>2
  <2> QED
    BY <1>0, <1>1, <1>5, <2>1 DEF ChunkInv, peers
<1>9. BeforeReadInv'
  BY <1>0, <1>1, <1>3, <1>4 DEF BeforeReadInv, thread, peers
<1>10. DueOnceInv'
  <2>1. \A d \in Client : <<d, "in">> \in events' => ~InQueue(d) /\ ~Reading(d)
    BY <1>0, <1>3 DEF DueOnceInv, Due
  <2>2. \A d \in Client : armed'[d] = "in" => ~Due(d)'
    BY <1>0, <1>4, <1>5 DEF DueOnceInv
  <2> QED
    BY <1>0, <1>1, <1>5, <2>1, <2>2 DEF DueOnceInv, thread
<1>11. MarkedInv' /\ SparedInv'
  BY <1>0, <1>1, <1>5 DEF MarkedInv, SparedInv, context
<1> QED
  BY <1>6, <1>7, <1>8, <1>9, <1>10, <1>11 DEF SweepInv

\* A connection: its client is new.
LEMMA SweepAccept ==
    ASSUME SweepInv, handle_accept_event \/ accept_fails
    PROVE  SweepInv'
<1>0. SweepKinds /\ AcceptedInv /\ SparedInv
  BY DEF SweepInv
<1>1. /\ <<Listen, "in">> \in events /\ events' = events \ {<<Listen, "in">>}
      /\ phase = "handle" /\ UNCHANGED <<phase, remove_evs>>
      /\ UNCHANGED <<m_tasks, context, peers>>
  BY DEF handle_accept_event, accept_fails, Handling
<1>2. \A d : InEvents(d)' => InEvents(d)
  BY <1>1 DEF InEvents
<1>3. SparedInv'
  BY <1>0, <1>1 DEF SparedInv
<1>4. CASE accept_fails
  <2>1. UNCHANGED <<_eclients, g_client_id, thread, armed>>
    BY <1>4 DEF accept_fails
  <2>2. SweepKinds'
    BY <1>0, <1>1, <2>1 DEF SweepKinds, context, thread, peers
  <2>3. AcceptedInv'
    BY <1>0, <1>1, <1>2, <2>1 DEF AcceptedInv, InQueue, thread, peers
  <2> QED
    BY <1>1, <1>3, <2>1, <2>2, <2>3, QuietStep DEF context, thread, peers
<1>5. CASE handle_accept_event
  <2>1. g_client_id + 1 \in Client /\ g_client_id + 1 <= connects
    BY <1>0, <1>1, Numbers DEF AcceptedInv, Client
  <2>2. PICK c \in Client :
            /\ c = g_client_id + 1 /\ g_client_id' = c /\ _eclients' = _eclients \cup {c}
            /\ \/ Arm(c, "in") /\ UNCHANGED thread
               \/ Go(Main, "remove", c) /\ UNCHANGED armed
    BY <1>5, <2>1 DEF handle_accept_event
  <2>3. ~Due(c) /\ ~InEvents(c) /\ ~InQueue(c)
    <3>1. c > g_client_id /\ ~InEvents(c) /\ ~InQueue(c) /\ \A t \in Thread : pc[t] # "idle" => ctx[t] # c
      BY <1>0, <2>2 DEF AcceptedInv
    <3>2. ~Reading(c)
      BY <3>1, Numbers DEF Reading
    <3>3. <<c, "in">> \notin events
      BY <3>1, Zenon DEF InEvents
    <3> QED
      BY <3>1, <3>2, <3>3 DEF Due
  <2>4. /\ pc' \in [Thread -> Steps] /\ pc'[Main] \notin {"read", "mark"}
        /\ ctx' \in [Thread -> Client \cup {NoCtx}]
        /\ \A u \in Thread : pc'[u] # "idle" => ctx'[u] \in Client
        /\ \A u \in Thread : \/ pc'[u] = pc[u] /\ ctx'[u] = ctx[u]
                             \/ u = Main /\ pc'[u] = "remove" /\ ctx'[u] = c
    <3>1. CASE UNCHANGED thread
      BY <1>0, <3>1 DEF SweepKinds, thread
    <3>2. CASE Go(Main, "remove", c)
      <4>1. "remove" \in Steps /\ Main \in Thread
        BY Numbers DEF Steps
      <4> QED
        BY <1>0, <3>2, <4>1, SweepGo
    <3> QED
      BY <2>2, <3>1, <3>2
  <2>5. /\ armed' \in [Client -> {"none", "in", "out", "level", "lost", "off"}]
        /\ \A d \in Client : armed'[d] = armed[d] \/ (d = c /\ armed'[d] = "in")
    BY <1>0, <2>2 DEF SweepKinds, Arm
  <2>6. SweepKinds'
    BY <1>0, <1>1, <2>4, <2>5 DEF SweepKinds, context, peers
  <2>7. AcceptedInv'
    <3>1. /\ g_client_id' \in Nat /\ g_client_id' <= connects
          /\ _eclients' \subseteq 1..g_client_id' /\ remove_evs \subseteq 1..g_client_id'
          /\ \A d \in Client : d > g_client_id' => d > g_client_id /\ d # c
      <4>1. g_client_id \in Nat /\ connects \in Nat /\ Client \subseteq Nat
        BY <1>0, Numbers DEF AcceptedInv
      <4>2. \A d \in Client : d > g_client_id' => d > g_client_id /\ d # c
        BY <2>2, <4>1
      <4>3. _eclients' \subseteq 1..g_client_id' /\ remove_evs \subseteq 1..g_client_id'
        <5>1. 1..g_client_id \subseteq 1..g_client_id' /\ c \in 1..g_client_id'
          BY <2>2, <4>1
        <5> QED
          BY <1>0, <2>2, <5>1 DEF AcceptedInv
      <4> QED
        BY <2>1, <2>2, <4>1, <4>2, <4>3
    <3>2. \A d \in Client : d > g_client_id' => armed'[d] = "none" /\ ~InEvents(d)' /\ ~InQueue(d)'
      BY <1>0, <1>1, <1>2, <2>5, <3>1 DEF AcceptedInv, InQueue
    <3>3. \A d \in Client : d > g_client_id' => \A t \in Thread : pc'[t] # "idle" => ctx'[t] # d
      BY <1>0, <2>4, <3>1 DEF AcceptedInv
    <3> QED
      BY <1>0, <1>1, <3>1, <3>2, <3>3 DEF AcceptedInv, peers
  <2>8. /\ \A w \in Worker : pc'[w] = "read" => pc[w] = "read" /\ ctx'[w] = ctx[w]
        /\ \A t \in Thread : pc'[t] \in {"mark", "write"} => pc'[t] = pc[t] /\ ctx'[t] = ctx[t]
    BY <2>4, Numbers
  <2> QED
    BY <1>1, <1>3, <2>3, <2>5, <2>6, <2>7, <2>8, QuietStep DEF context, peers
<1> QED
  BY <1>4, <1>5

\* A reported read: its client is marked, and queued or closed.
LEMMA SweepReadEvent ==
    ASSUME SweepInv, NEW c \in Client, multi_thread_handle_read_event(c)
    PROVE  SweepInv'
<1>0. /\ SweepKinds /\ AcceptedInv /\ ChunkInv /\ BeforeReadInv /\ DueOnceInv /\ MarkedInv /\ SparedInv
      /\ Main \in Thread
  BY Numbers DEF SweepInv
<1>1. /\ <<c, "in">> \in events /\ events' = events \ {<<c, "in">>}
      /\ phase = "handle" /\ UNCHANGED <<phase, remove_evs>>
      /\ _ctx_status' = [_ctx_status EXCEPT ![c] = "CONTEXT_READING"]
      /\ \/ m_tasks' = Append(m_tasks, c) /\ UNCHANGED thread
         \/ Go(Main, "remove", c) /\ UNCHANGED m_tasks
      /\ UNCHANGED <<server, released, armed, peers>>
  BY DEF multi_thread_handle_read_event, Handling
<1>2. /\ _ctx_status' \in [Client -> {"none", "CONTEXT_READING", "CONTEXT_READ_OVER"}]
      /\ _ctx_status'[c] = "CONTEXT_READING"
      /\ \A d \in Client : d # c => _ctx_status'[d] = _ctx_status[d]
  BY <1>0, <1>1 DEF SweepKinds
<1>3. Due(c) /\ ~InQueue(c) /\ ~Reading(c) /\ c <= g_client_id
  <2>1. Due(c) /\ ~InQueue(c) /\ ~Reading(c)
    BY <1>0, <1>1 DEF DueOnceInv, Due
  <2>2. InEvents(c)
    BY <1>1 DEF InEvents
  <2> QED
    BY <1>0, <2>1, <2>2, Numbers DEF AcceptedInv
<1>4. SparedInv'
  BY <1>0, <1>1 DEF SparedInv
<1>5. \A d : InEvents(d)' => InEvents(d)
  BY <1>1 DEF InEvents
<1>6. CASE Go(Main, "remove", c) /\ UNCHANGED m_tasks
  <2>1. /\ pc' \in [Thread -> Steps] /\ pc'[Main] \notin {"read", "mark"}
        /\ ctx' \in [Thread -> Client \cup {NoCtx}]
        /\ \A u \in Thread : pc'[u] # "idle" => ctx'[u] \in Client
        /\ pc'[Main] = "remove" /\ ctx'[Main] = c
        /\ \A u \in Thread : u # Main => pc'[u] = pc[u] /\ ctx'[u] = ctx[u]
    BY <1>0, <1>6, SweepGo DEF Steps
  <2>2. SweepKinds'
    BY <1>0, <1>1, <1>2, <1>6, <2>1 DEF SweepKinds, peers
  <2>3. AcceptedInv'
    <3>1. \A d \in Client : d > g_client_id => \A u \in Thread : pc'[u] # "idle" => ctx'[u] # d
      BY <1>0, <1>3, <2>1, Numbers DEF AcceptedInv
    <3> QED
      BY <1>0, <1>1, <1>5, <1>6, <3>1 DEF AcceptedInv, InQueue, server, peers
  <2>4. /\ \A w \in Worker : pc'[w] = "read" => pc[w] = "read" /\ ctx'[w] = ctx[w]
        /\ \A t \in Thread : pc'[t] \in {"mark", "write"} => pc'[t] = pc[t] /\ ctx'[t] = ctx[t]
    BY <2>1, Numbers
  <2> QED
    BY <1>1, <1>2, <1>4, <1>6, <2>2, <2>3, <2>4, QuietStep DEF peers
<1>7. CASE m_tasks' = Append(m_tasks, c) /\ UNCHANGED thread
  <2>1. /\ m_tasks' \in Seq(Client)
        /\ \A d \in Client : InQueue(d)' <=> InQueue(d) \/ d = c
        /\ \A m, n \in 1..Len(m_tasks') : m_tasks'[m] = m_tasks'[n] => m = n
    BY <1>0, <1>3, <1>7, AppendPlaces DEF SweepKinds, DueOnceInv
  <2>2. \A d \in Client : (Reading(d)' <=> Reading(d)) /\ (Due(d)' <=> Due(d))
    <3>1. \A d \in Client : Reading(d)' <=> Reading(d)
      BY <1>7 DEF Reading, thread
    <3>2. \A d \in Client : <<d, "in">> \in events' <=> <<d, "in">> \in events /\ d # c
      BY <1>1
    <3> QED
      BY <1>3, <2>1, <3>1, <3>2 DEF Due
  <2>3. SweepKinds'
    BY <1>0, <1>1, <1>2, <1>7, <2>1 DEF SweepKinds, thread, peers
  <2>4. AcceptedInv'
    <3>1. \A d \in Client : d > g_client_id => d # c
      BY <1>0, <1>3, Numbers DEF AcceptedInv
    <3> QED
      BY <1>0, <1>1, <1>5, <1>7, <2>1, <3>1 DEF AcceptedInv, server, thread, peers
  <2>5. ChunkInv'
    BY <1>0, <1>1, <2>2 DEF ChunkInv, peers
  <2>6. BeforeReadInv'
    BY <1>0, <1>1, <1>7 DEF BeforeReadInv, thread, peers
  <2>7. DueOnceInv'
    <3>1. \A d \in Client :
            /\ armed[d] = "in" => ~Due(d)'
            /\ <<d, "in">> \in events' => ~InQueue(d)' /\ ~Reading(d)'
            /\ InQueue(d)' => ~Reading(d)'
      BY <1>0, <1>1, <1>3, <2>1, <2>2 DEF DueOnceInv
    <3> QED
      BY <1>0, <1>1, <1>7, <2>1, <3>1 DEF DueOnceInv, thread
  <2>8. MarkedInv'
    BY <1>0, <1>2, <2>1, <2>2 DEF MarkedInv
  <2> QED
    BY <1>4, <2>3, <2>4, <2>5, <2>6, <2>7, <2>8 DEF SweepInv
<1> QED
  BY <1>1, <1>6, <1>7

\* A client is written to, and after it armed: its chunk was read before.
LEMMA SweepWrite ==
    ASSUME SweepInv, (\E c \in Client : handle_writeable_event(c)) \/ WriteClose \/ WriteGoesOn
    PROVE  SweepInv'
<1>0. SweepKinds /\ AcceptedInv /\ ChunkInv /\ BeforeReadInv /\ SparedInv /\ Main \in Thread
  BY Numbers DEF SweepInv
<1>1. PICK c \in Client :
          /\ inbox[c] # sends[c] /\ c <= g_client_id
          /\ \/ phase = "handle" /\ Go(Main, "write", c) /\ armed' = armed
             \/ pc[Main] = "write" /\ ctx[Main] = c /\ Go(Main, "remove", c) /\ armed' = armed
             \/ pc[Main] = "write" /\ Go(Main, "idle", NoCtx) /\ \E e \in {"in", "out", "level"} : Arm(c, e)
          /\ events' \subseteq events
          /\ UNCHANGED <<server, m_tasks, _ctx_status, phase, remove_evs, peers>>
  <2>1. CASE \E c \in Client : handle_writeable_event(c)
    <3>1. PICK c \in Client : handle_writeable_event(c)
      BY <2>1
    <3>2. <<c, "out">> \in events
      BY <3>1 DEF handle_writeable_event, Handling
    <3>3. InEvents(c)
      BY <3>2 DEF InEvents
    <3>4. inbox[c] # sends[c] /\ c <= g_client_id
      BY <1>0, <3>2, <3>3, Numbers DEF BeforeReadInv, AcceptedInv
    <3> QED
      BY <3>1, <3>4 DEF handle_writeable_event, Handling
  <2>2. CASE WriteClose \/ WriteGoesOn
    <3>1. pc[Main] = "write" /\ ctx[Main] \in Client
      BY <1>0, <2>2 DEF WriteClose, WriteGoesOn, SweepKinds
    <3>2. inbox[ctx[Main]] # sends[ctx[Main]]
      BY <1>0, <3>1 DEF BeforeReadInv
    <3>3. ctx[Main] <= g_client_id
      <4>1. ~(ctx[Main] > g_client_id)
        BY <1>0, <3>1 DEF AcceptedInv
      <4>2. ctx[Main] \in Nat /\ g_client_id \in Nat
        BY <1>0, <3>1, Numbers DEF AcceptedInv
      <4> QED
        BY <4>1, <4>2
    <3> QED
      BY <2>2, <3>1, <3>2, <3>3 DEF WriteClose, WriteGoesOn, loop, context
  <2> QED
    BY <2>1, <2>2
<1>2. /\ pc' \in [Thread -> Steps] /\ pc'[Main] \in {"write", "remove", "idle"}
      /\ ctx' \in [Thread -> Client \cup {NoCtx}]
      /\ \A u \in Thread : pc'[u] # "idle" => ctx'[u] \in Client
      /\ pc'[Main] # "idle" => ctx'[Main] = c
      /\ \A u \in Thread : u # Main => pc'[u] = pc[u] /\ ctx'[u] = ctx[u]
  <2>1. PICK p \in {"write", "remove", "idle"}, d \in Client \cup {NoCtx} :
            Go(Main, p, d) /\ (p # "idle" => d = c)
    BY <1>1
  <2>2. p \in Steps /\ p \notin {"read", "mark"} /\ (p # "idle" => d \in Client)
    BY <2>1 DEF Steps
  <2> QED
    BY <1>0, <2>1, <2>2, SweepGo
<1>3. /\ armed' \in [Client -> {"none", "in", "out", "level", "lost", "off"}]
      /\ \A d \in Client : d # c => armed'[d] = armed[d]
  BY <1>0, <1>1 DEF SweepKinds, Arm
<1>4. SweepKinds'
  BY <1>0, <1>1, <1>2, <1>3 DEF SweepKinds, peers
<1>5. \A w \in Worker : pc'[w] = "read" => pc[w] = "read" /\ ctx'[w] = ctx[w]
  BY <1>2, Numbers
<1>6. \A d : (InQueue(d)' <=> InQueue(d)) /\ (Reading(d)' => Reading(d)) /\ (InEvents(d)' => InEvents(d))
  <2>1. \A d : InEvents(d)' => InEvents(d)
    BY <1>1 DEF InEvents
  <2> QED
    BY <1>1, <1>5, <2>1, DueKept
<1>7. AcceptedInv'
  <2>1. \A d \in Client : d > g_client_id => d # c
    BY <1>0, <1>1, Numbers DEF AcceptedInv
  <2>2. \A d \in Client : d > g_client_id => armed'[d] = "none" /\ \A u \in Thread : pc'[u] # "idle" => ctx'[u] # d
    BY <1>0, <1>2, <1>3, <2>1 DEF AcceptedInv
  <2> QED
    BY <1>0, <1>1, <1>6, <2>2 DEF AcceptedInv, server, peers
<1>8. SparedInv'
  <2>1. CASE phase = "handle"
    BY <1>0, <1>1, <2>1 DEF SparedInv
  <2>2. CASE pc[Main] = "write" /\ (pc'[Main] = "idle" \/ ctx[Main] = c)
    BY <1>0, <1>1, <1>2, <1>6, <2>2, SparedKept
  <2> QED
    <3>1. Go(Main, "idle", NoCtx) => pc'[Main] = "idle"
      BY <1>0 DEF Go, SweepKinds
    <3> QED
      BY <1>1, <2>1, <2>2, <3>1
<1>9. /\ \A t \in Thread : pc'[t] \in {"mark", "write"} =>
             (pc'[t] = pc[t] /\ ctx'[t] = ctx[t]) \/ inbox[ctx'[t]] # sends[ctx'[t]]
      /\ \A d \in Client : armed'[d] = armed[d] \/ inbox[d] # sends[d]
  BY <1>1, <1>2, <1>3
<1> QED
  BY <1>1, <1>4, <1>5, <1>7, <1>8, <1>9, QuietStep DEF peers

\* A nonempty set of naturals has a least element.
LEMMA LeastNatural ==
    ASSUME NEW T, T \subseteq Nat, T # {}
    PROVE  \E x \in T : \A y \in T : x <= y
<1> DEFINE R == OpToRel(<, Nat)
<1>1. \E x \in T : \A y \in T : <<y, x>> \notin R
  BY NatLessThanWellFounded, WFMin
<1>2. \A x, y \in Nat : y < x => <<y, x>> \in R
  BY DEF OpToRel
<1> HIDE DEF R
<1>3. \A x, y \in T : <<y, x>> \notin R => ~(y < x)
  BY <1>2
<1>4. \E x \in T : \A y \in T : ~(y < x)
  BY <1>1, <1>3, Zenon
<1> QED
  BY <1>4

\* The sweep takes no client that is marked as being read.
LEMMA SweepIdle ==
    ASSUME SweepInv, clear_idle_clients \/ CloseIdle \/ NextRound \/ LoopEnds
    PROVE  SweepInv'
<1>0. SweepKinds /\ AcceptedInv /\ MarkedInv /\ SparedInv /\ Main \in Thread
  BY Numbers DEF SweepInv
<1>1. UNCHANGED <<server, m_tasks, context, events, armed, peers>>
  BY DEF clear_idle_clients, CloseIdle, NextRound, LoopEnds
<1>2. CASE clear_idle_clients \/ NextRound \/ LoopEnds
  <2>1. UNCHANGED thread
    BY <1>2 DEF clear_idle_clients, NextRound, LoopEnds
  <2>2. SweepKinds' /\ AcceptedInv'
    <3>1. remove_evs' \subseteq 1..g_client_id
      BY <1>0, <1>2 DEF AcceptedInv, clear_idle_clients, NextRound, LoopEnds, IdleClients
    <3> QED
      BY <1>0, <1>1, <2>1, <3>1 DEF SweepKinds, AcceptedInv, InEvents, InQueue, server, context, thread, peers
  <2>3. SparedInv'
    <3>1. CASE clear_idle_clients
      <4>1. /\ pc[Main] = "idle" /\ remove_evs' = IdleClients
            /\ IdleClients \subseteq Client /\ \A c \in IdleClients : ~InQueue(c) /\ ~Reading(c)
        <5>1. \A c \in IdleClients : c \in Client /\ _ctx_status[c] # "CONTEXT_READING"
          <6>1. 1..g_client_id \subseteq Client
            BY <1>0, Numbers DEF AcceptedInv, Client
          <6> QED
            BY <1>0, <6>1 DEF IdleClients, AcceptedInv
        <5> QED
          BY <1>0, <3>1, <5>1 DEF clear_idle_clients, MarkedInv
      <4> QED
        BY <1>1, <2>1, <4>1 DEF SparedInv, InQueue, Reading, thread
    <3>2. CASE NextRound \/ LoopEnds
      BY <1>0, <3>2 DEF NextRound, LoopEnds, SparedInv
    <3> QED
      BY <1>2, <3>1, <3>2
  <2> QED
    BY <1>1, <2>1, <2>2, <2>3, QuietStep DEF context, thread, peers
<1>3. CASE CloseIdle
  <2>1. PICK c \in remove_evs :
            /\ phase = "sweep" /\ pc[Main] = "idle"
            /\ remove_evs' = remove_evs \ {c} /\ Go(Main, "remove", c) /\ UNCHANGED phase
    <3>1. \E c \in remove_evs : \A o \in remove_evs : c <= o
      <4>1. remove_evs \subseteq Nat /\ remove_evs # {}
        BY <1>0, <1>3, Numbers DEF CloseIdle, SparedInv
      <4> QED
        BY <4>1, LeastNatural
    <3> QED
      BY <1>3, <3>1 DEF CloseIdle
  <2>2. c \in Client /\ c <= g_client_id /\ ~InQueue(c) /\ ~Reading(c)
    BY <1>0, <2>1, Numbers DEF AcceptedInv, SparedInv
  <2>3. /\ pc' \in [Thread -> Steps] /\ pc'[Main] \notin {"read", "mark"}
        /\ ctx' \in [Thread -> Client \cup {NoCtx}]
        /\ \A u \in Thread : pc'[u] # "idle" => ctx'[u] \in Client
        /\ pc'[Main] = "remove" /\ ctx'[Main] = c
        /\ \A u \in Thread : u # Main => pc'[u] = pc[u] /\ ctx'[u] = ctx[u]
    BY <1>0, <2>1, <2>2, SweepGo DEF Steps
  <2>4. SweepKinds'
    BY <1>0, <1>1, <2>3 DEF SweepKinds, context, peers
  <2>5. /\ \A w \in Worker : pc'[w] = "read" => pc[w] = "read" /\ ctx'[w] = ctx[w]
        /\ \A t \in Thread : pc'[t] \in {"mark", "write"} => pc'[t] = pc[t] /\ ctx'[t] = ctx[t]
    BY <2>3, Numbers
  <2>6. \A d : (InQueue(d)' <=> InQueue(d)) /\ (Reading(d)' => Reading(d)) /\ (InEvents(d)' <=> InEvents(d))
    BY <1>1, <2>5, DueKept DEF InEvents
  <2>7. AcceptedInv'
    <3>1. \A d \in Client : d > g_client_id => d # c
      BY <1>0, <2>2, Numbers DEF AcceptedInv
    <3>2. \A d \in Client : d > g_client_id => \A u \in Thread : pc'[u] # "idle" => ctx'[u] # d
      BY <1>0, <2>3, <3>1 DEF AcceptedInv
    <3> QED
      BY <1>0, <1>1, <2>1, <2>6, <3>2 DEF AcceptedInv, server, peers
  <2>8. SparedInv'
    BY <1>0, <2>1, <2>2, <2>3, <2>6 DEF SparedInv
  <2> QED
    BY <1>1, <2>4, <2>5, <2>7, <2>8, QuietStep DEF context, peers
<1> QED
  BY <1>2, <1>3

-----------------------------------------------------------------------------
LEMMA SweepInit ==
    ASSUME Init
    PROVE  SweepInv
<1>1. m_tasks \in Seq(Client) /\ Len(m_tasks) = 0
  BY EmptySeq DEF Init
<1>2. \A c : ~InEvents(c) /\ ~InQueue(c) /\ ~Reading(c) /\ ~Due(c)
  BY <1>1, Numbers DEF Init, InEvents, InQueue, Reading, Due
<1>3. SweepKinds
  BY <1>1, Numbers DEF Init, SweepKinds, Steps
<1>4. AcceptedInv
  BY <1>2, Numbers DEF Init, AcceptedInv
<1>5. ChunkInv /\ BeforeReadInv /\ MarkedInv /\ SparedInv
  BY <1>2 DEF Init, ChunkInv, BeforeReadInv, MarkedInv, SparedInv
<1>6. DueOnceInv
  BY <1>1, <1>2, Numbers DEF Init, DueOnceInv
<1> QED
  BY <1>3, <1>4, <1>5, <1>6 DEF SweepInv

LEMMA SweepNext ==
    ASSUME OneChunk
    PROVE  SweepInv /\ [Next]_vars => SweepInv'
BY SweepOutside, SweepWait, SweepAccept, SweepReadEvent, SweepWrite, SweepIdle, SweepClose, SweepWorker, Numbers
   DEF Next, MainStep, Ended

(***************************************************************************)
(* With any idle limit, while no peer sends twice or closes: the sweep     *)
(* closes no client that waits in the pool's queue or that a worker reads, *)
(* as "find idle client but is reading, skip it!" (epoll_socket.cpp:400)   *)
(* says.                                                                   *)
(***************************************************************************)
THEOREM SweepSkipsTheRead ==
    ASSUME OneChunk
    PROVE  Spec => []SweepSparesReading
<1>1. SweepInv => SweepSparesReading
  <2> SUFFICES ASSUME SweepInv, phase = "sweep",
                      NEW c \in remove_evs \cup (IF pc[Main] = "idle" THEN {} ELSE {ctx[Main]})
               PROVE  Queued(c) = {} /\ \A w \in Worker : ~(pc[w] = "read" /\ ctx[w] = c)
    BY DEF SweepSparesReading
  <2>1. ~InQueue(c) /\ ~Reading(c)
    BY DEF SweepInv, SparedInv
  <2>2. DOMAIN m_tasks = 1..Len(m_tasks)
    BY LenProperties DEF SweepInv, SweepKinds
  <2> QED
    BY <2>1, <2>2 DEF Queued, InQueue, Reading
<1>2. Spec => []SweepInv
  <2>1. SweepInv /\ [Next]_vars => SweepInv'
    BY SweepNext
  <2> QED
    BY <2>1, SweepInit, PTL DEF Spec
<1> QED
  BY <1>1, <1>2, PTL

-----------------------------------------------------------------------------
(***************************************************************************)
(* The socket uses its pool as TaskQueue allows: that is what ThreadPool   *)
(* promises (PoolIsTaskQueue in ThreadPoolProofs), so that the pool may    *)
(* stand here as its queue and its workers.                                *)
(***************************************************************************)

\* The context whose read_func a worker runs.
held == [w \in Worker |-> ctx[w]]

Pool == INSTANCE TaskQueue WITH
    Task <- Client, NoTask <- NoCtx, Limit <- m_task_size_limit, queue <- m_tasks

\* A worker that stays in read_func keeps its task; the main thread has none.
LEMMA HeldKept ==
    ASSUME IInv, NEW t \in Thread, NEW p \in Steps, NEW c \in Client \cup {NoCtx}, Go(t, p, c),
           t = Main \/ c = ctx[t], m_tasks' = m_tasks
    PROVE  UNCHANGED <<m_tasks, held>>
<1>1. \A u \in Thread : u # t => ctx'[u] = ctx[u]
  BY GoFacts DEF IInv
<1>2. ctx'[t] = c
  BY GoFacts DEF IInv
<1>3. \A w \in Worker : ctx'[w] = ctx[w]
  BY <1>1, <1>2, Numbers
<1>4. held' = held
  BY <1>3 DEF held
<1> QED
  BY <1>4

\* A worker that is done holds nothing.
LEMMA HeldFinished ==
    ASSUME IInv, NEW w \in Worker, pc[w] # "idle", Go(w, "idle", NoCtx), m_tasks' = m_tasks
    PROVE  Pool!Next
<1>1. w \in Thread /\ ctx \in [Thread -> Client \cup {NoCtx}] /\ ctx[w] # NoCtx
  BY Numbers DEF IInv, TypeOK, ThreadsInv
<1>2. held' = [held EXCEPT ![w] = NoCtx]
  BY <1>1, Numbers DEF held, Go
<1>3. Pool!Finish(w)
  BY <1>1, <1>2 DEF Pool!Finish, held
<1> QED
  BY <1>3 DEF Pool!Next

LEMMA CloseUsesPool ==
    ASSUME IInv, NEW t \in Thread, close_and_release(t)
    PROVE  Pool!Next \/ UNCHANGED <<m_tasks, held>>
<1>0. ctx[t] \in Client
  BY HandlerHasClient DEF IInv, close_and_release, remove_client, CheckEmpty, SetStop, Delete
<1>1. CASE Delete(t)
  <2>1. m_tasks' = m_tasks /\ Go(t, "idle", NoCtx) /\ pc[t] # "idle"
    BY <1>1 DEF Delete
  <2>2. CASE t = Main
    BY <2>1, <2>2, HeldKept DEF Steps
  <2>3. CASE t # Main
    BY <2>1, <2>3, HeldFinished, Numbers
  <2> QED
    BY <2>2, <2>3
<1>2. CASE remove_client(t) \/ CheckEmpty(t) \/ SetStop(t)
  <2>1. m_tasks' = m_tasks /\ \E p \in {"check", "stop", "delete"} : Go(t, p, ctx[t])
    BY <1>2 DEF remove_client, CheckEmpty, SetStop
  <2> QED
    BY <1>0, <2>1, HeldKept DEF Steps
<1> QED
  BY <1>1, <1>2 DEF close_and_release

LEMMA WorkerUsesPool ==
    ASSUME IInv, NEW w \in Worker, WorkerStep(w)
    PROVE  Pool!Next \/ UNCHANGED <<m_tasks, held>>
<1>0. TypeOK /\ ThreadsInv /\ OnceInv /\ w \in Thread
  BY Numbers DEF IInv
<1>1. CASE read_func(w)
  <2>1. /\ pc[w] = "idle" /\ m_tasks # <<>> /\ Go(w, "read", Head(m_tasks)) /\ m_tasks' = Tail(m_tasks)
        /\ ctx[w] = NoCtx
    BY <1>0, <1>1 DEF read_func, ThreadsInv
  <2>2. held' = [held EXCEPT ![w] = Head(m_tasks)]
    BY <1>0, <2>1, Numbers DEF held, Go, TypeOK
  <2>3. Pool!Take(w)
    BY <2>1, <2>2 DEF Pool!Take, held
  <2> QED
    BY <2>3 DEF Pool!Next
<1>2. CASE ReadClose(w) \/ ReadGoesOn(w)
  <2>1. m_tasks' = m_tasks /\ pc[w] = "read" /\ \E p \in {"remove", "mark"} : Go(w, p, ctx[w])
    BY <1>2 DEF ReadClose, ReadGoesOn
  <2>2. ctx[w] \in Client
    BY <1>0, <2>1, HandlerHasClient
  <2> QED
    BY <1>0, <2>1, <2>2, HeldKept DEF Steps
<1>3. CASE MarkReadOver(w)
  BY <1>3, HeldFinished DEF MarkReadOver
<1>4. CASE close_and_release(w)
  BY <1>0, <1>4, CloseUsesPool
<1> QED
  BY <1>1, <1>2, <1>3, <1>4 DEF WorkerStep

LEMMA MainUsesPool ==
    ASSUME NoSweep, IInv, MainStep
    PROVE  Pool!Next \/ UNCHANGED <<m_tasks, held>>
<1>0. TypeOK /\ ThreadsInv /\ LoopInv /\ Main \in Thread
  BY Numbers DEF IInv
<1>1. ASSUME UNCHANGED <<m_tasks, thread>>
      PROVE  UNCHANGED <<m_tasks, held>>
  BY <1>1 DEF held, thread
<1>2. CASE epoll_wait \/ accept_fails \/ clear_idle_clients \/ NextRound \/ LoopEnds
  BY <1>1, <1>2 DEF epoll_wait, accept_fails, clear_idle_clients, NextRound, LoopEnds
<1>3. CASE handle_accept_event
  <2>1. m_tasks' = m_tasks /\ (UNCHANGED thread \/ Go(Main, "remove", g_client_id + 1))
    BY <1>3 DEF handle_accept_event
  <2>2. g_client_id + 1 \in Client
    <3>1. <<Listen, "in">> \in events /\ <<Listen, "in">>[1] = Listen
      BY <1>3 DEF handle_accept_event, Handling
    <3>2. g_client_id < connects /\ g_client_id \in Nat /\ connects \in 0..MaxClients
      BY <1>0, <3>1, Numbers DEF LoopInv, TypeOK
    <3> QED
      BY <3>2, Numbers DEF Client
  <2> QED
    BY <1>0, <1>1, <2>1, <2>2, HeldKept DEF Steps
<1>4. ASSUME NEW c \in Client, multi_thread_handle_read_event(c)
      PROVE  Pool!Next \/ UNCHANGED <<m_tasks, held>>
  <2>1. CASE Go(Main, "remove", c) /\ UNCHANGED m_tasks
    BY <1>0, <2>1, HeldKept DEF Steps
  <2>2. CASE ~Full /\ m_tasks' = Append(m_tasks, c) /\ UNCHANGED thread
    <3>1. held' = held
      BY <2>2 DEF held, thread
    <3>2. Pool!Add(c)
      BY <2>2, <3>1 DEF Pool!Add, Pool!Full, Full
    <3> QED
      BY <3>2 DEF Pool!Next
  <2> QED
    BY <1>4, <2>1, <2>2 DEF multi_thread_handle_read_event
<1>5. ASSUME NEW c \in Client, handle_writeable_event(c)
      PROVE  UNCHANGED <<m_tasks, held>>
  BY <1>0, <1>5, HeldKept DEF handle_writeable_event, Steps
<1>6. CASE WriteClose \/ WriteGoesOn
  <2>1. m_tasks' = m_tasks /\ (Go(Main, "remove", ctx[Main]) \/ Go(Main, "idle", NoCtx))
    BY <1>6 DEF WriteClose, WriteGoesOn
  <2>2. ctx[Main] \in Client \cup {NoCtx}
    BY <1>0 DEF TypeOK
  <2> QED
    BY <1>0, <2>1, <2>2, HeldKept DEF Steps
<1>7. ~CloseIdle
  BY <1>0 DEF CloseIdle, LoopInv
<1>8. CASE close_and_release(Main)
  BY <1>0, <1>8, CloseUsesPool
<1> QED
  BY <1>2, <1>3, <1>4, <1>5, <1>6, <1>7, <1>8 DEF MainStep

(***************************************************************************)
(* Without an idle limit: what the socket does with its pool is a history  *)
(* of a TaskQueue.  Tasks are added when it is not full, taken in order by *)
(* a worker that has none, and finished when read_func returns.            *)
(***************************************************************************)
THEOREM PoolIsUsedAsTaskQueue ==
    ASSUME NoSweep
    PROVE  Spec => Pool!Spec
<1>1. Init => Pool!Init
  BY Numbers DEF Init, Pool!Init, held
<1>2. IInv /\ [Next]_vars => [Pool!Next]_<<m_tasks, held>>
  <2> SUFFICES ASSUME IInv, [Next]_vars
               PROVE  Pool!Next \/ UNCHANGED <<m_tasks, held>>
    OBVIOUS
  <2>1. CASE Connect \/ Tick \/ stop_epoll \/ (\E c \in Client : Send(c) \/ Hang(c)) \/ UNCHANGED vars
    <3>1. UNCHANGED <<m_tasks, thread>>
      BY <2>1 DEF Connect, Tick, stop_epoll, Send, Hang, vars
    <3> QED
      BY <3>1 DEF held, thread
  <2> QED
    BY <2>1, MainUsesPool, WorkerUsesPool DEF Next, Ended
<1> QED
  BY <1>1, <1>2, SocketInv, PTL DEF Spec, Pool!Spec

=============================================================================
