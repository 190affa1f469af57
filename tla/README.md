# simple-flow in TLA+

simple-flow pulls log files, cuts them into lines and hands the lines to a
handler; a second program form receives flows over TCP, and the server library
it carries, ehttp, also speaks HTTP and writes a log; hiredis is the client its
handlers store with. This directory models the parts in which order, sharing
and failure matter, checks them with TLC, and proves with TLAPS most of the
invariants the runs check, for every value of the constants. All paths below are relative to the root of the repository, `src/` here.

## The system

| Component | State | Operations | Hard part |
|---|---|---|---|
| `LineFlowHandler` (`src/server/flow_handler.cpp`) | `part_line`, the unterminated rest | `do_handle(bytes, size)`, `split_str` | chunks end anywhere; the connections of a server share one handler |
| `FileReader` (`src/agent/file_reader.cpp`) | `_offset`, `_file_ino` | constructor, `read`, `check_and_reset` | the path is looked up anew each time while another process rotates the file |
| `FileAgent` (`src/agent/file_agent.cpp`) | locals of `start_watch` | read, pass to the handler, retry, sleep, check | retry after a failed handler, an uninitialised counter |
| `FlowServer` (`src/server/flow_server.cpp`) | one handler for all connections | callbacks of `EpollSocket` | the handler is called by all workers |
| `EpollSocket` (`dependency/ehttp/src/epoll_socket.cpp`) | `_status`, `_clients`, `_eclients`, an `EpollContext` per client | accept, read, write, close, idle sweep, `stop_epoll` | the main thread and the workers share contexts with no lock but ONESHOT |
| `ThreadPool` (`dependency/ehttp/src/threadpool.cpp`) | `m_tasks`, `m_pool_state`, `m_threads` | start, `add_task`, `execute_thread`, destroy | wakeups, stopping, partial creation |
| `HttpServer`'s watcher (`http_server.cpp`) | an `HttpContext` per connection | `on_accept`, `on_readable`, `on_writeable`, `on_close` | requests in pieces, responses sent in part, a context used again |
| `Request`, `Response` (`sim_parser.cpp`) | what the parsers' callbacks have built so far | `parse_request`, `gen_response`, `readsome`, `rollback` | callbacks that come several times for one value, parsers inside parsers |
| `FileAppender` (`simple_log.cpp`) | `_fs`, `_last_sec`, `writelock`, globals | `init`, `write_log`, `shift_file_if_need`, `delete_old_log`, reload by SIGUSR1 | the shift by two threads, of which only a part is locked |
| hiredis, asynchronous (`hiredis/async.c`, `dict.c`) | flags, lists of callbacks, dictionaries of subscriptions | command, disconnect, free, the two event handlers | callbacks that call back; replies carry no number |
| hiredis, reader (`read.c`) | a buffer, a stack of tasks, the reply so far | `redisReaderFeed`, `redisReaderGetReply` | replies nest and come in pieces |
| hiredis, context (`hiredis.c`, `net.c`) | `fd`, `err`, `obuf`, the reader | connect, reconnect, append, get reply, free | a dozen calls that may fail, after retries |
| `TcpClient`, `reg_utils`, `flow_utils`, `simple_config`, `string_utils` | none to speak of | thin wrappers | - |

Interaction: a `FileAgent` owns a `FileReader` and calls the handler's
`do_handle` from its one thread. A `FlowServer` owns an `EpollSocket`, whose
main thread runs the event loop and puts read events as tasks into a
`ThreadPool`; a worker runs `read_func`, which calls the watcher's
`on_readable`, which calls `do_handle` on the one handler of the server. The
main thread calls `on_writeable`. An `HttpServer` uses `EpollSocket` in the same
way with a watcher of its own, which feeds the bytes to a `Request`. Any of
these threads logs through the one `FileAppender`. A handler that stores in
Redis calls hiredis, either blocking or through an event loop of the user.

## Modules

**`LineFlowHandler`**: `do_handle` of any number of callers. Steps are
`do_handle` up to the split (which takes and clears `part_line`), one round of
`split_str` per step, `HandleAllLines` or `HandleFullLines`, `KeepPartLine`.
Accesses to `part_line` are atomic in the model although nothing protects them
in the code. The run and the properties of whole flows have one caller, as in a
`FileAgent`; that several flows do not share a handler well is in the list below.
A byte is a newline or one of a few others. Histories `handled` and `received` say what
was given to `handle_lines` and what came in.

**`FileAgent`**: `FileReader` and `FileAgent::start_watch` in one thread, and an
external writer that appends, renames, deletes, creates and truncates. A file
at the path is a numbered generation and a chunk is an interval of one, so data
is never spelled out. The constructor's two looks at the path are two steps
(`FileReader_tell`, `FileReader_stat`); a read is one step, since the open and
the reading see one file; `FirstRead`, `SecondRead`, `HandlerFails`,
`HandlerAccepts`, `Retry` are the branches of the loop.

**`ThreadPool`**: a main thread in `start_threadpool` and `destroy_threadpool`
(one step per `pthread_create` and per join), workers in `execute_thread`, and
`add_task` by anybody. A critical section of `m_task_mutex` is a step; waiting
on the condition variable is a state, left by `Signal`, `WakeAll` or
`SpuriousWakeup`. `is_locked` is the flag of the `Mutex` wrapper.

**`TaskQueue`** is the abstract specification of a pool: a queue, and at most one
task per worker. `ThreadPool` is shown to implement it (`IsTaskQueue`);
`EpollSocket` contains the pool only as what `TaskQueue` promises: its queue and
its workers.

**`EpollSocket`**: the event loop (`epoll_wait`, one action per branch of
`handle_event`, `clear_idle_clients`), the workers (`read_func`, `ReadClose`,
`ReadGoesOn`, `MarkReadOver`), and `close_and_release` by any thread in the four
steps between which others can interfere: `remove_client`, `CheckEmpty`,
`SetStop`, `Delete`. `armed` is the ONESHOT registration, `_last_interact_time`
is kept as the seconds since (`idle_sec`), and results of the watcher's
callbacks come from the constants `ReadResults` and `WriteResults`, one the loop
does not know included: after a read the client then stays unarmed (`armed` is "lost"), after a write it is
registered without ONESHOT ("level") and reported again and again. Clients are
numbered by `g_client_id`. An interrupted `recv` is left out (the sockets do not
block), and so is an `epoll_wait` that fails for another reason than a signal.
Only `READ_CLOSE` follows an empty `recv`, as in both watchers.

**`HttpRequest`**: one action per callback of `http_parser` and
`multipart_parser`, which are external: they see a stream of tokens (a piece of
the URL, of a header's name or value, of the body, ...) in any order the grammar
allows and stop at what they cannot read (`SyntaxError`, `MultipartError`). The request is a record with the
members of `Request`; strings are sequences of fragments, so that concatenation,
splitting, unescaping and lower case do what the code does.
**`HttpConn`** extends it with the connection: `on_readable` takes at most
`SS_READ_BUFFER_SIZE` tokens of what the client has sent, `Parsed` decides what
the watcher returns, `on_writeable` gives `send` a part of the response, which
takes any part of that. `armed` says which event the connection waits for;
`EpollSocket` guarantees that there is one at a time (`OnePlace`). The client
waits for each response, or sends the next request before (`piped`).

**`FileAppender`**: threads inside `_log`, one step between two accesses to
shared state: taking the time, the look at `_last_sec`, the locked section in
`Rename`, `Reopen`, `Unlock`, the deletion, `LastSec`, the writing; opening,
renaming and writing may fail, and a stream in which one of them failed takes
nothing until it is opened again. A file is the
list of the times of its lines; an archive is named by a date, a month and a day
of it. `_check_config_file` and `init` are the signal handler's two steps.

**`RedisAsync`** with **`Dict`**: the callbacks of commands are numbers in
`replies`, `invalid` or the two dictionaries; a user callback that is being run
is a state, from which the user may issue commands, disconnect and free, so
these meet a half done `redisProcessCallbacks` or `__redisAsyncFree`. The server
is external: it answers in order, counts subscriptions, publishes, and may
refuse the client or close. `Dict` is the hash table, with chains and growth,
as operators on a record.

**`RedisReader`**: the parser on its buffer, one action per item type, with the
stack of tasks and the objects it creates. **`RedisProtocol`** is external: what
a server writes, as items of a tree, each array before its elements, with the
bytes of each item and the reply that the items stand for; it says nothing of
buffers or tasks. **`RedisContext`** extends both with the context: connecting is one step per system call, `redisGetReply` is the
loop of write, read and parse, the server's bytes arrive in any pieces, and
`table` says who owns each descriptor of the process, the rest of the program
included, so that a descriptor that is closed twice can be seen to hit another.

`MC*` modules add what a configuration file cannot say (the requests of an HTTP
client, replies as items, symmetry of the workers, the value -1);
`LineFlowHandler` and `ThreadPool` need none. `*Proofs` modules hold the theorems. Definitions whose comment begins with "mutant" are wrong variants of
the definition they stand before; they are not part of any specification and
serve to see that the properties notice them. `PROJECT.json` maps each
definition to its lines. In most modules `Safe` is the conjunction of the named
invariants that say that the state coheres, the type invariant first.

## Runs

| Run | Instance | What it shows |
|---|---|---|
| `line_sole` | 1 caller, flows of 6 bytes over 3 values, chunks up to 3 | lines are whole, in order, none lost, whatever the cuts |
| `agent_any` | tail, 3 files of 3 bytes, 2 inode numbers, deletes and truncations | nothing accepted but what was read, no gap in a file, no rereading but by a reset |
| `agent_follow` | from 0, 3 files, renames only, fairness | what the offset means; the newest file is delivered |
| `pool` | 2 workers, 3 tasks, limit 1, 2 starts, failing creation, fairness | single runs, no lost wakeup, the queue's real bound, `TaskQueue`; accepted tasks run, destroying ends with all threads joined |
| `sock_any` | 3 clients, 2 workers, limit 1, all results, unknown ones too, failures, a stop | each client in one place, nothing refers to a released one |
| `sock_flow` | 2 clients, 2 workers, 2 chunks each, fairness | what is sent is read |
| `sock_idle` | idle limit 1, 1 chunk per client, a stop, fairness | the sweep spares who is read, closes who is idle; the loop ends after the last client |
| `redis_async` | 3 commands of 5 kinds, 2 names that collide in a table of 1, 1 published line, a server that may fail, fairness | own replies, no assertion, nobody forgotten, messages to their subscriber, disconnecting ends |
| `redis_invalid` | 2 commands, one of them regular and issued while subscribed | **violated** `ErrorReplyPassedOn`: the error reply to it ends the connection, its callback gets NULL |
| `redis_ctx` | 2 addresses, 2 retries, 2 descriptors, 2 connects, 2 commands, a stack of 3 | replies whole and in order, descriptors neither leaked nor taken from others, errors told |
| `http` | 2 requests of 10 kinds, reads of 5 tokens, writes of 4, requests up to 26, fairness | handlers see what was sent, the client gets the right responses, whole, in the end |
| `log` | 2 threads, 3 lines, days of 2 ticks, months of 2 days, 2 reloads, two time zones, failing opens, renames and writes | each line in one file once, no archive holds lines of a later day, none removed too early |

The type invariants of `LineFlowHandler` and `FileAgent` are proved and need no
run. `CHECK_DEADLOCK FALSE` stands where the system may stop: a context is
freed, a connection closed, the bounded time of the log over.

The violated run, `redis_invalid`, is a disagreement between the code and a
comment in it, which `PROJECT.json` quotes under `findings`. A regular command
issued while the context is subscribed is put into `sub.invalid`, as its error
reply "needs to be received and passed to the callback" (`async.c:635`). But
`redisProcessCallbacks` shifts `replies`, finds nothing, and takes an error reply
for the one with which a server refuses a client (`async.c:456`): it disconnects,
and the callback gets NULL. `OwnReply` allows NULL; that it allows no message, no
monitor line and no reply to another command is what it is about. Other places where the code
does less than its texts suggest, met while modelling and visible in the models
as the exceptions the properties make:

- A `FlowServer` gives one handler to all connections (`flow_server.cpp:45,63`),
  and `LineFlowHandler` keeps one `part_line`: with two connections the rest kept
  of one flow goes in front of the next bytes of either, also when the calls come
  one after another, so a lock would not help. No text of the repository says
  otherwise; the properties of lines are about one caller.
- After a rotation the path is reopened and read at the old offset before inodes
  are compared (`file_agent.cpp:44`): a new file that has outgrown the offset is
  read from its middle. `SyncedPrefixRead` says what the offset means once the
  inode is known.
- A tailing reader built while the file is being created keeps the offset -1
  with the file's own inode (`file_reader.cpp:19`) and never reads it;
  `NewFileDelivered` is for a reader that starts at 0.
- When `pthread_create` fails half-way, `destroy_threadpool` joins threads that
  were never created (`threadpool.cpp:112`); `m_threads` survives a destroy, so a
  pool started twice joins its first threads twice and the second ones never.
  `AllExited` asks for `Intact`.
- `add_task` refuses above the limit, not at it (`threadpool.cpp:170`), so the
  queue holds one task more; `QueueBounded` states the bound there is.
- Tasks accepted before the stop may be dropped, so `destroy_threadpool` need
  not return 0 as `threadpool_test.cpp:69` expects after a short sleep.
- `read_func` marks its context after arming the client (`epoll_socket.cpp:187`),
  when another thread may have released it; and with two read events of one
  client the late mark of the first hides the second from the idle sweep, which
  then closes a client that is being read. `OnePlace` and `HeldAreAlive` leave
  that access out, and `sock_idle` gives each client one chunk.
- After an unknown result of a callback the event loop logs and goes on
  (`epoll_socket.cpp:213`, `epoll_socket.cpp:243`): the client is never served
  again, or is reported writable for ever. `Safe` holds even so, and
  `OnePlace` for all other clients.
- `handle_event` accepts although it logs "not accept new connect"
  (`epoll_socket.cpp:333`), and a `stop_epoll` without clients has no effect
  until somebody connects; `StopEnds` asks for a client.
- A user who subscribes again, or issues a command, before the reply to the last
  unsubscription meets the assertion at `async.c:464`: the reply clears
  `REDIS_SUBSCRIBED` although a command was accepted as one of a subscribed
  context. So does one who names a channel twice in the last unsubscription,
  which the server answers twice. `redis_async` has `Careful = TRUE`, a user who waits; with `FALSE`
  TLC finds `NeverAborts` violated.
- `redisReconnect` closes `c->fd` without forgetting the number
  (`hiredis.c:647`); when connecting then fails before a socket is made, the next
  reconnect or free closes it again. `ClosesOwn` makes that exception (`stale`).
- With `REDIS_REUSEADDR`, running out of retries or a failed `setsockopt` returns
  an error without setting one (`net.c:353`, `net.c:384`); `ErrTells` says so.
- When `send` takes only a part of the last part of a response, the rest is
  thrown away (`http_server.cpp:321-343`): the index is set back and then the
  request cleared or the connection closed. `ResponsesWhole` excludes `cut`.
- A response whose length is a multiple of `SS_WRITE_BUFFER_SIZE` is followed by
  an empty read, which closes a connection that was to be kept
  (`http_server.cpp:308`); `Answered` allows the close.
- A request without headers has neither method nor version
  (`sim_parser.cpp:290`), since they are set at the first header, and gets 405.
- The answer 411 (`http_server.cpp:279`) is never sent: the callback that
  finds no length makes http_parser fail, and the connection is closed.
- `shift_file_if_need` names the archive by the time its thread took before it
  waited (`simple_log.cpp:80`), so a late thread may archive the new day's file
  under the old date; the day is computed in UTC and the name in local time; and
  on the first of a month `delete_old_log` looks for the day 0.
  `ArchivedByDate` asks for UTC and no late thread, `RecentKept` says what
  deletion still guarantees. "Late" is not only a thread that renames after
  `_last_sec` has passed its day: with three threads, one of a later day that
  has renamed, or deleted, and not yet set `_last_sec` is enough for one of the
  day before to put the new file under the old name. Two threads never get
  there; the proof of `ArchivedByDate` did, and `astray` records it (`Late`), as it
  does a rename that failed. An archive may hold lines of earlier days: after a day
  without a line the file is archived under yesterday, whatever is in it.
- A reload initialises `writelock` anew while a thread may hold it, and lines are
  dropped between `use_file_appender = true` and `init`, or after an open or a
  write that failed: `NoneLost` does not count those. An `init` between the close and
  the open of a shift makes that open fail (`simple_log.cpp:95`).
- Two comments of `sim_parser.h` are out of date, and no property depends on them:
  `get_unescape_param` is not "the same as get_param" (line 193; the models and the
  test at `sim_parser_test.cpp:65` unescape), and `readsome` returns 0 when all was
  read, not when a part was (line 252).

**Bounds.** Every bound is a constant: `MaxBytes` (bytes per caller), `MaxGen`
and `MaxSize` (files and their length), `MaxStarts`, `MaxClients`, `MaxSends`,
`MaxStops`, `MaxCmds`, `MaxLines`, `MaxAddrs`, `MaxFds`, `MaxConnects`,
`MaxRequests`, `MaxReloads`, `End`. Six bytes allow three chunks with an empty
token, a line over three chunks and a chunk that is one newline. Three
generations allow an inode number to be used again and two rotations between two
looks. Two workers and three tasks with limit 1 reach a full queue with a wakeup
in flight. Three clients are needed to reach the pool's limit, which is exceeded
by one; two read events of one client (two chunks, or one and the end) are what
the race of the late mark needs. Three commands allow a subscription, its
unsubscription and a command between them, or a command issued by the callback
of another with a third pending; a table of one slot grows at the second name,
and names with one hash share a chain. A stack of three tasks (nine in the code)
holds an array in an array and refuses a third, and `DISCARD` of six bytes lets
the buffer be cut inside a reply. Two descriptors are the context's and one of
the rest of the program. A read of five tokens cuts every request in several
places and lets a read begin in one request and end in the next; a write of four
makes responses of one part, of several and of a whole number of parts; 26 is
less than the longest request and more than the others. Days of two ticks and
months of two days put a shift, the first of a month and two threads on
different days within four ticks.

**Fairness.** The agent's thread and the pool's threads are scheduled (weak
fairness of their steps). `agent_follow`: a handler that is retried for ever
succeeds at some time (strong fairness of `HandlerAccepts`; else the code, too,
retries for ever), and nothing is asked of the writer. `pool`: a main
thread inside a call and each worker go on; nobody needs to add a task, to
destroy the pool, or to be woken for nothing. `sock_*`: the main thread,
the workers and the clock go on (callbacks return, `recv` does not block);
peers owe nothing. A free mutex is obtained at some time: the pool's critical
sections are single steps, so weak fairness of a worker's step is enough.
`redis_async`: the event loop serves both kinds of events, and callbacks return;
the model's server answers a
command when it is written, so nothing is asked of it. `http`: the
connection is served when it is ready; the client owes nothing.

## Proofs

Eight modules hold the theorems. Each proof has the same shape: an
inductive invariant (`Init => IInv`, `IInv /\ [Next]_vars => IInv'`), of which
the properties are consequences; one lemma per action, or per group of actions
that leave the same things alone. The assumptions are those of the constants
(`ASSUME` in the modules; TLC evaluates them in the runs) and those named in the
theorems. The inductive invariants of `ThreadPool`, `EpollSocket` and
`FileAppender` were checked by TLC before they were proved, the last with three
threads, and so were the pipeline of `RedisAsync` and `ReplyInv` of `RedisContext`.

**`LineFlowHandlerProofs`.** `TypeOK` and `LastTokenExists` for any number of
callers, from `LocalInv`, which says of each call that its locals cohere (the
get position, the tokens found so far, a last byte that is no newline implies a
token). `WholeLines`, `NoLineLost` and `PartLineIsRest` for exactly one caller
(`SoleCaller`, as in a `FileAgent`), from `IInv`, which adds `FlowInv`: the bytes
not yet split follow the `n` bytes already handed over as lines, and everything
handled is a line of those. No property is inductive: a line is recognised one
call after its first bytes came, so the invariant has to say where in the flow
`flow_str` and `part_line` begin. `LinesInOrder` adds `OrderInv`: what has been
handled is in order the lines before `flow_str`, and `lines` those of `flow_str`
before the get position. It counts lines by the bytes they end at
(`LinesUpTo`), and the lemmas `CountNext`, `CountSkip`, `CountStable` and
`CountShift` say how the count goes on along a string, behind a chunk, and in
what follows a newline.

**`FileAgentProofs`.** `TypeOK`, `AcceptedIsRead`, `ChunkNotEmpty`, `NoGapInFile`
and `RereadOnlyOnReset`, for any writer. The strengthening says which values the
locals may have at each point (`ControlInv`), what a stored chunk looks like
(`ChunkInv`) and what the offset is with respect to the last chunk of the file
it was read from (`OffsetInv`). `NeverThrice` follows: no byte is read more than
twice. `OffsetIsPrefix` proves `SyncedPrefixRead` for a reader that starts at 0
and a writer that only renames and creates, with `PrefixInv` (inode numbers of
files that still exist differ).

**`ThreadPoolProofs`.** `Safe`, `NoLostWakeup` and `AllExited` for any number of
workers, tasks and starts, with or without failing `pthread_create`, and the
refinement of `TaskQueue` (`PoolIsTaskQueue`). The invariant adds how threads are
numbered (`ThreadsInv`: room for those still to be created is what makes a
second start type correct), that the queue holds each accepted task once and no
taken one (`QueueInv`), that a task taken is with one worker or has run
(`HeldInv`, `OnceInv`), that nobody waits once a stop has been broadcast
(`StopInv`), and which threads have been joined (`JoinInv`). `NoLostWakeup` is
itself inductive with these: it counts the workers on their way to the queue
against the tasks in it, and each action changes both by at most one. In the
refinement starting, stopping, waiting and waking are stutters.

**`EpollSocketProofs`.** `Safe` (with `HeldAreAlive`) and `OnePlace`, for any
number of clients and workers, any failures and any results of the callbacks,
known or not, without an idle limit (`NoSweep`, the default of
`set_client_max_idle_time`). `HeldAreAlive` is about registrations, reported
events, queued tasks, and threads in a handler or in `close_and_release`
(`ServedContextsAreAlive`); the mark of a read comes after those and is not
covered, since it does meet contexts that are gone (see above).
`OnePlace` is proved for a watcher that returns one of the three known results
(`KnownResults`), where its exception is empty; `sock_any` checks it with others. That `Safe` does not is `LevelInv`: a client registered without
ONESHOT is with no worker and only waits to be written to, so the main thread,
which handles one event at a time, is alone with it. The invariant is the life of the ONESHOT registration: armed,
reported, queued, read, and armed again or closed. `ExclusiveInv` says no client
is at two of these, `OnceInv` not twice at one, `PlacedInv` not nowhere,
`ServiceInv` that whoever is at one is registered; `DataInv` that from the report
of a read event to the `recv` there is something to read. The sweep breaks this
argument, as it takes a client that may be in somebody's hands; with it `Safe` and
`OnePlace` are neither proved nor checked by a run. What is proved with an idle limit is
`SweepSparesReading`, while each peer sends at most once and does not close
(`OneChunk`), whatever the callbacks return and however full the pool is. `SweepInv`
says that a client for which a read is due is due in one place, that its context has
been marked READING by `handle_readable_event` and is the one in the table, and that
nothing of it was read before, so no `read_func` still has the mark of an earlier
read to take back: the sweep, which looks at the mark, passes it over. With a second
chunk the mark of the first read may come late, and the property fails.
`PoolIsUsedAsTaskQueue` shows that the queue
and workers inside `EpollSocket` behave as `TaskQueue`, the specification that
`ThreadPool` implements.

**`FileAppenderProofs`.** `Safe`, `RecentKept` and `ArchivedByDate`
(`ArchivesHoldNoLaterLines`: no later day, in UTC, while nobody is late and nothing
failed), for any number of threads, length of days and months, configurations and
time zone. `LostInv`
says that unless an open or a write failed, who is between rename and open has the lock,
and that the file is open or about to be opened by that thread: so nobody finds
it closed. `LinesInv` balances the lines logged against those in files, deleted,
dropped and still to be written. `DateInv` says what each thread may rely on
where it is (`PlaceInv`): from the lock on, its own day has its archive or is
over. `NoLineIsLost` states `NoneLost` on its own.

**`RedisContextProofs`.** `Safe`, `ErrTells` and `RepliesInOrder`, for any stack,
options, addresses, descriptors and commands, and for any answers that are replies
as a server writes them (`AnswersAssumption`), nested as deep as one likes. `FdInv` says at which steps of connecting
the context has a descriptor, and that `c->fd` is that or, after a failed
connect, a number the context has closed (`stale`); `TryInv` bounds the retries;
`ReaderInv` keeps the parser in its buffer and its stack, whatever the bytes:
each task on the stack is an element of the array below it. The type of what
the parser computes by recursion (`Value`, the sequences strung together) is
proved by induction on sets of naturals. `RepliesInOrder` says that the parser
inverts the server's encoding wherever the stream is cut; its invariant is
`ReplyInv`. `StreamInv` says that the buffer and the wire are the end of what the
server wrote. `Place` says where the reader is: between two answers, or at one item
of the next answer with the bytes before it consumed, the items before it in the
reply (`IsPart`) and the tasks of the stack on the way to it (`OnPath`), or at the
answer's end. What makes it inductive is that `moveToNextTask`, which looks only at
the stack, finds the item the server wrote next (`NextTask`, from `NextSibling` and
`NoMoreItems`, which follow from the order of the items alone), and that the line
and string that are found in a piece of the stream are those of the item, once all
of it has come (`LineFound`, `StringFound`, `ReadyWhenHere`). From `NotReady`, that an
item that cannot be read is not there whole, follows that nothing stays stuck.

**`HttpConnProofs`.** `ResponsesWhole` and `Safe` (the types, and
`AnswersOnlyWhole`), for any number of requests, piped or not, any resources and
buffer sizes, and any parts that `recv` gives and `send` takes. A request is
assumed to be what a client sends (`RequestsAssumption`): one method, at its
beginning, one end of its headers, and as much body as they say. `SentInv` says
that what was received and what is left of the response at hand are the
responses made. `PosInv` says where in the client's stream the parser is: so
many whole requests and so many tokens of the next, with which its state agrees.
Only the weaker half of that survives an error: a parser that begins anew inside
a request finds no method there, so it can only fail again, and no answer is
made for the rest. `ReqInv` pairs header names with values and bounds the
request's size. What the strung-together responses and requests are, and how
long, is induction on sets of naturals.

**`RedisAsyncProofs`.** `Safe`, for any commands, server, hashes and bounds and for
any user; and for a careful one (`Careful`) `OwnReply`, `NeverAborts`,
`NothingForgotten` and the action property `MessageToSubscriber`. `Safe` rests on
lemmas about `Dict`: in a well formed table (`IsTable`: each entry in the slot of
its key, each key once, `used` their number) `dictReplace` and `dictDelete`
(`Replaces`, `Deletes`) change what is found under one key, and growing changes
nothing (`Grows`), whatever the hashes.
The others need to know what is on its way, since whom a reply belongs to is
decided when it arrives. `Pipe` relates the replies in the reader and on the wire,
the commands not yet written and the server's view to the lists of callbacks:
replies come in the order of their commands (`InOrder`) and each command still
pending has its reply or itself on the way (`InStep`); a command issued before the
context was subscribed is answered before anything is published to it
(`BeforeArrays`), so that a pending callback cannot be given a message; each name
of a message or a subscription is registered (`NamesRegistered`), what is
registered the server knows until its farewell (`Known`), and the reply to the
last unsubscription is the last array there is (`Unsubscribes`), so that no reply
meets a context that has just left the subscribed mode (`NotSubscribed`). This is
where the careful user is needed, and where TLC's counterexamples of the others
are. `Told` says how often a callback was run by whether its command is still
pending; `Leaving` what `__redisAsyncFree` finds and does: it begins with nothing
pending unless there was an error or a free (`FreesLast`), and the subscriptions it
has passed were told NULL (`Walked`).

The library's induction theorems cannot be used, as they take an operator; where
an induction was needed it is over a set (`SetInduction`, from the least element
of a set of naturals, which `WFMin` gives).

Only model-checked:

- all liveness properties (`NewFileDelivered`, `AcceptedRuns`, `DestroyEnds`,
  `DataIsRead`, `IdleIsClosed`, `StopEnds`, `DisconnectEnds`, `Answered`);
- `HandlerSeesRequest` and `RightAnswer`: they compare what the recursive
  splitting and unescaping compute with what the client means, which is given
  with the requests of `MCHttpConn`.

Some invariants do not hold in general, so they are neither proved nor checked beyond
the case stated: `Safe` and `OnePlace` of `EpollSocket` without an idle limit only,
`SweepSparesReading` under `OneChunk` only, and those of `RedisAsync`, but for `Safe`,
with a careful user only.

## Not modelled

- Set-up of `EpollSocket` (bind, listen) with its early returns, the JSON dump
  of its clients, and the pointers `get_clients` gives out.
- In `EpollSocket` an event that is neither readable nor writable
  (`epoll_socket.cpp:351-354`: logged, and ONESHOT leaves the client unarmed), and an
  `epoll_ctl(MOD)` that fails, which the code does not look at.
- In `RedisAsync` a (P)SUBSCRIBE without a channel, which counts as a regular
  command, and an UNSUBSCRIBE without one, which leaves all
  (`async.c:604-609`, `async.c:622`; `ArgumentsAssumption`); a protocol error
  (`async.c:487-489`), which ends as the end of the stream does;
  and `onConnect(REDIS_ERR)` (`async.c:503`), in which a command is as pending as
  one issued just before it.
- The text of log lines, the access log, the cost time; `HttpServer`'s threads
  and its built-in handlers.
- The formatting of Redis commands and `sds.c`: a command is a number or its
  kind, a string a sequence. The adapters other than ae. Running out of memory.
- `TcpClient`, `reg_utils`, `flow_utils`, the parsing of a configuration line:
  no state across calls and no concurrency.
- Other third-party code, examples, tests.
- Torn accesses: data races on plain variables are taken as atomic accesses in
  some order.

## Plan

What is left to prove: `HandlerSeesRequest` and `RightAnswer`, if what the client
means can be stated from the tokens of its request.
