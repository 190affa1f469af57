---------------------------- MODULE RedisContext ----------------------------
(***************************************************************************)
(* The synchronous client of hiredis (hiredis.c, net.c): a context owns a  *)
(* descriptor, an output buffer and a reader (RedisReader).  Connecting is *)
(* one step per system call, so that a failure at any of them shows what   *)
(* it leaves behind; so is getting a reply.  One thread uses the context.  *)
(*                                                                         *)
(* External: the Redis server answers each command it receives with one of *)
(* Answers, as RedisProtocol says, which may be no reply; the rest of the  *)
(* program opens descriptors of its own.                                   *)
(***************************************************************************)
EXTENDS RedisProtocol

CONSTANTS
    Answers,        \* what the server may answer: sequences of items
    Options,        \* subset of {"BLOCK", "REUSEADDR", "BIND", "TIMEOUT", "UNIX"} per context
    REDIS_CONNECT_RETRIES,
    MaxAddrs,       \* bound: addresses of the host
    MaxFds,         \* bound: descriptors of the process
    MaxCmds,        \* bound: commands in all
    MaxConnects     \* bound: connects and reconnects

\* The bytes of the server.
Token == ToSet(LineEnd) \cup (UNION {UNION {{item.sign} \cup ToSet(item.text) \cup ToSet(item.data) : item \in ToSet(a)} : a \in Answers})

Item == [path : Seq(Nat), sign : Token, text : Seq(Token), data : Seq(Token)]

ASSUME ContextAssumption ==
    /\ REDIS_CONNECT_RETRIES \in Nat \ {0} /\ MaxAddrs \in Nat /\ MaxFds \in Nat /\ MaxCmds \in Nat

ASSUME AnswersAssumption == \A a \in Answers : a \in Seq(Item) /\ IsAnswer(a)

\* An address is reused only by redisConnectBindNonBlockWithReuse, over TCP.
ASSUME OptionsAssumption == \A o \in Options : "UNIX" \notin o \/ "REUSEADDR" \notin o

VARIABLES
    opts,       \* how the user made the context
    connected,  \* REDIS_CONNECTED
    err,        \* c->err
    fd,         \* c->fd
    obuf,       \* commands in the output buffer
    issued,     \* commands so far
    pc,
    addrs,      \* addresses after the one that is tried
    reuses,
    connects,   \* connects so far
    rv,         \* what the last connect returned
    stale,      \* history: a connect failed while fd was a closed descriptor
    table,      \* the descriptors of the process
    alien,      \* history: closed a descriptor that was not the context's
    wire,       \* bytes of the server not yet read
    serving,    \* the server has not closed
    answers,    \* history: what the server answers on this connection
    given,      \* history: the replies given to the user
    fed,        \* history: bytes of this connection fed to the reader
    starved     \* history: the last call found no whole reply

netVars     == <<connected, err, fd, pc, addrs, reuses, rv, stale, table, alien>>
serverVars  == <<wire, serving, answers>>
historyVars == <<given, fed, starved>>
vars == <<readerVars, opts, netVars, obuf, issued, connects, serverVars, historyVars>>

Fds == 1..MaxFds
blocking == "BLOCK" \in opts

\* redisContextInit, and the choice among the functions that connect.
Init ==
    /\ redisReaderCreate
    /\ opts \in Options
    /\ connected = FALSE /\ err = "none" /\ fd = 0
    /\ obuf = <<>> /\ issued = 0
    /\ pc = "new" /\ addrs = 0 /\ reuses = 0 /\ connects = 0
    /\ rv = "ok" /\ stale = FALSE
    /\ table = [f \in Fds |-> "free"] /\ alien = FALSE
    /\ wire = <<>> /\ serving = FALSE /\ answers = <<>>
    /\ given = <<>> /\ fed = 0 /\ starved = FALSE

-----------------------------------------------------------------------------
(* Descriptors.                                                            *)

FreeFds == {f \in Fds : table[f] = "free"}

Ours == {f \in Fds : table[f] = "ours"}

\* The rest of the program opens a descriptor: any time, but it matters only
\* while the context has none.
OthersOpen ==
    /\ Ours = {} /\ FreeFds # {} /\ pc # "freed"
    /\ table' = [table EXCEPT ![Min(FreeFds)] = "other"]
    /\ UNCHANGED <<readerVars, opts, connected, err, fd, obuf, issued, pc, addrs, reuses, rv, connects, stale, alien, serverVars, historyVars>>

\* close(f), which fails for a descriptor that is not open.
Close(f) ==
    /\ table' = IF f \in Fds THEN [table EXCEPT ![f] = "free"] ELSE table
    /\ alien' = (alien \/ (f \in Fds /\ table[f] = "other"))

redisContextCloseFd ==
    IF fd >= 0 THEN Close(fd) /\ fd' = -1 ELSE UNCHANGED <<table, alien, fd>>

-----------------------------------------------------------------------------
(* Connecting, one system call per step.                                   *)

connectUnchanged == <<readerVars, opts, obuf, issued, connects, serverVars, historyVars>>

\* The connect functions return REDIS_ERR.
Returns(type) == err' = type /\ rv' = "err" /\ pc' = "idle"

\* redisConnect and its variants.
redisConnect ==
    /\ pc = "new"
    /\ connects' = 1
    /\ pc' = IF "UNIX" \in opts THEN "socket" ELSE "resolve"
    /\ UNCHANGED <<readerVars, opts, connected, err, fd, obuf, issued, addrs, reuses, rv, stale, table, alien, serverVars, historyVars>>

\* getaddrinfo, for IPv4 and then for IPv6.
Resolve ==
    /\ pc = "resolve"
    /\ \/ \E n \in 1..MaxAddrs : addrs' = n /\ pc' = "socket" /\ UNCHANGED <<err, rv, stale>>
       \/ Returns("other") /\ stale' = (stale \/ fd > 0) /\ UNCHANGED addrs
    /\ reuses' = 0
    /\ UNCHANGED <<connected, fd, table, alien, connectUnchanged>>

\* socket and redisSetBlocking, whose failure closes the new descriptor.
\* Without an address left, and for a Unix socket, a failure is final.
Socket ==
    /\ pc = "socket"
    /\ \/ /\ "UNIX" \in opts \/ addrs > 0
          /\ FreeFds # {}
          /\ \/ /\ fd' = Min(FreeFds)
                /\ table' = [table EXCEPT ![Min(FreeFds)] = "ours"]
                /\ pc' = IF "BIND" \in opts THEN "bind" ELSE "connect"
                /\ UNCHANGED <<err, rv>>
             \/ fd' = -1 /\ Returns("io") /\ UNCHANGED table
          /\ UNCHANGED <<addrs, stale>>
       \/ /\ addrs > 0
          /\ addrs' = addrs - 1
          /\ UNCHANGED <<fd, table, pc, err, rv, stale>>
       \/ /\ addrs = 0
          /\ Returns(IF "UNIX" \in opts THEN "io" ELSE "other")
          /\ stale' = (stale \/ fd > 0)
          /\ UNCHANGED <<fd, table, addrs>>
    /\ UNCHANGED <<connected, reuses, alien, connectUnchanged>>

\* The source address; a failure keeps the descriptor, and a setsockopt that
\* fails does not even set an error.
Bind ==
    /\ pc = "bind"
    /\ \/ pc' = "connect" /\ UNCHANGED <<err, rv>>
       \/ Returns("other")
       \/ "REUSEADDR" \in opts /\ Returns(err)
    /\ UNCHANGED <<connected, fd, addrs, reuses, stale, table, alien, connectUnchanged>>

\* mutant: the descriptor is not closed before the next try
TryAgain_Leaks ==
    /\ reuses' = reuses + 1
    /\ IF reuses + 1 >= REDIS_CONNECT_RETRIES THEN Returns(err) ELSE pc' = "socket" /\ UNCHANGED <<err, rv>>
    /\ UNCHANGED <<fd, table, alien>>

\* EADDRNOTAVAIL with a reused address: the same address again, some times.
TryAgain ==
    /\ reuses' = reuses + 1
    /\ IF reuses + 1 >= REDIS_CONNECT_RETRIES
       THEN Returns(err) /\ UNCHANGED <<fd, table, alien>>
       ELSE pc' = "socket" /\ redisContextCloseFd /\ UNCHANGED <<err, rv>>

Connect ==
    /\ pc = "connect"
    /\ \/ \* at once, or EINPROGRESS
          /\ pc' \in (IF blocking THEN {"options", "wait"} ELSE {"options"})
          /\ UNCHANGED <<err, rv, fd, table, alien, addrs, reuses>>
       \/ \* EHOSTUNREACH: the next address
          /\ "UNIX" \notin opts
          /\ redisContextCloseFd
          /\ addrs' = addrs - 1
          /\ pc' = "socket"
          /\ UNCHANGED <<err, rv, reuses>>
       \/ /\ "REUSEADDR" \in opts
          /\ TryAgain
          /\ UNCHANGED addrs
       \/ \* another error, in redisContextWaitReady
          /\ redisContextCloseFd /\ Returns("io")
          /\ UNCHANGED <<addrs, reuses>>
    /\ UNCHANGED <<connected, stale, connectUnchanged>>

\* mutant: a refused connection is not reported
redisCheckSocketError_Silent == Returns(err) /\ UNCHANGED <<fd, table, alien>>

\* SO_ERROR: the connection was refused; the descriptor stays.
redisCheckSocketError == Returns("io") /\ UNCHANGED <<fd, table, alien>>

\* poll says that the socket is ready, or it fails or times out.
redisContextWaitReady ==
    /\ pc = "wait"
    /\ \/ pc' = "options" /\ UNCHANGED <<err, rv, fd, table, alien>>
       \/ redisContextCloseFd /\ Returns("io")
       \/ redisCheckSocketError
    /\ UNCHANGED <<connected, addrs, reuses, stale, connectUnchanged>>

\* Blocking again, and TCP_NODELAY: connected.
SocketOptions ==
    /\ pc = "options"
    /\ \/ /\ connected' = TRUE /\ rv' = "ok"
          /\ pc' = "idle"
          /\ serving' = TRUE
          /\ UNCHANGED <<err, fd, table, alien>>
       \/ /\ blocking \/ "UNIX" \notin opts
          /\ redisContextCloseFd /\ Returns("io")
          /\ UNCHANGED <<connected, serving>>
    /\ UNCHANGED <<readerVars, opts, obuf, issued, connects, addrs, reuses, stale, wire, answers, historyVars>>

\* A connection of the past leaves nothing on the wire.
NewConnection ==
    /\ wire' = <<>> /\ serving' = FALSE /\ answers' = <<>>
    /\ given' = <<>> /\ fed' = 0 /\ starved' = FALSE

\* mutant: the reader is kept
redisReconnect_KeepsReader ==
    /\ pc = "idle" /\ connects < MaxConnects
    /\ connects' = connects + 1
    /\ err' = "none"
    /\ IF fd > 0 THEN Close(fd) ELSE UNCHANGED <<table, alien>>
    /\ obuf' = <<>>
    /\ pc' = IF "UNIX" \in opts THEN "socket" ELSE "resolve"
    /\ addrs' = 0
    /\ NewConnection
    /\ UNCHANGED <<readerVars, opts, connected, fd, reuses, rv, stale, issued>>

\* A fresh output buffer and reader; c->fd keeps the number that was closed.
redisReconnect ==
    /\ pc = "idle" /\ connects < MaxConnects
    /\ connects' = connects + 1
    /\ err' = "none"
    /\ IF fd > 0 THEN Close(fd) ELSE UNCHANGED <<table, alien>>
    /\ obuf' = <<>>
    /\ redisReaderRenewed
    /\ pc' = IF "UNIX" \in opts THEN "socket" ELSE "resolve"
    /\ addrs' = 0
    /\ NewConnection
    /\ UNCHANGED <<opts, connected, fd, reuses, rv, stale, issued>>

redisFree ==
    /\ pc = "idle"
    /\ pc' = "freed"
    /\ IF fd > 0 THEN Close(fd) ELSE UNCHANGED <<table, alien>>
    /\ serving' = FALSE
    /\ UNCHANGED <<readerVars, opts, connected, err, fd, obuf, issued, addrs, reuses, rv, connects, stale, wire, answers, historyVars>>

redisContextConnect ==
    \/ redisConnect
    \/ Resolve
    \/ Socket
    \/ Bind
    \/ Connect
    \/ redisContextWaitReady
    \/ SocketOptions

-----------------------------------------------------------------------------
(* Commands and replies.                                                   *)

ioUnchanged == <<opts, connected, fd, addrs, reuses, rv, connects, stale, table, alien>>

\* __redisAppendCommand, whatever state the context is in.
redisAppendCommand ==
    /\ pc = "idle"
    /\ issued < MaxCmds /\ issued' = issued + 1
    /\ obuf' = Append(obuf, "command")
    /\ UNCHANGED <<readerVars, ioUnchanged, err, pc, serverVars, historyVars>>

\* The calling function returns REDIS_ERR.
SetErr(type) == err' = type /\ pc' = "idle"

\* The server answers n more commands, unless it has closed.
ServerReceives(n) ==
    /\ IF serving
       THEN \E new \in [1..n -> Answers] :
               /\ answers' = answers \o new
               /\ wire' = wire \o FlattenSeq([k \in 1..n |-> AnswerBytes(new[k])])
       ELSE UNCHANGED <<answers, wire>>
    /\ UNCHANGED serving

\* What is left in the output buffer after n commands have been written.
Rest(n) == SubSeq(obuf, n + 1, Len(obuf))

\* redisBufferWrite; the thread goes on at next, or at again if something is
\* left to write.
redisBufferWrite(again, next) ==
    /\ \/ /\ err # "none"
          /\ pc' = "idle"
          /\ UNCHANGED <<err, obuf, serverVars>>
       \/ /\ err = "none" /\ obuf = <<>>
          /\ pc' = next
          /\ UNCHANGED <<err, obuf, serverVars>>
       \/ /\ err = "none" /\ obuf # <<>> /\ rv = "ok"
          /\ \E n \in 1..Len(obuf) :
                /\ obuf' = Rest(n)
                /\ pc' = IF obuf' = <<>> THEN next ELSE again
                /\ ServerReceives(n)
          /\ UNCHANGED err
       \/ /\ err = "none" /\ obuf # <<>> /\ ~serving
          /\ SetErr("io")
          /\ UNCHANGED <<obuf, serverVars>>
    /\ UNCHANGED <<readerVars, ioUnchanged, issued, historyVars>>

\* redisBufferRead: some bytes, the end of the stream, or an error, which for
\* a blocking socket may be a timeout.
redisBufferRead(next) ==
    /\ \/ /\ err # "none"
          /\ pc' = "idle"
          /\ UNCHANGED <<readerVars, err, wire, fed, starved>>
       \/ /\ err = "none"
          /\ \E n \in 1..Len(wire) :
                /\ Feed(SubSeq(wire, 1, n))
                /\ wire' = SubSeq(wire, n + 1, Len(wire))
                /\ fed' = fed + n
          /\ starved' = FALSE
          /\ pc' = next
          /\ UNCHANGED <<pos, rstack, objs, rerr, rpc, aux, err>>
       \/ /\ err = "none" /\ wire = <<>> /\ ~serving
          /\ SetErr(IF rv = "ok" THEN "eof" ELSE "io")
          /\ UNCHANGED <<readerVars, wire, fed, starved>>
       \/ /\ err = "none" /\ "TIMEOUT" \in opts
          /\ SetErr("io")
          /\ UNCHANGED <<readerVars, wire, fed, starved>>
    /\ UNCHANGED <<ioUnchanged, obuf, issued, serving, answers, given>>

\* A blocking user asks for a reply only if one is due.
redisGetReply ==
    /\ pc = "idle"
    /\ blocking => Len(given) < Len(obuf) + Len(answers) \/ err # "none" \/ ~serving
    /\ pc' = "get"
    /\ UNCHANGED <<readerVars, ioUnchanged, err, obuf, issued, serverVars, historyVars>>

\* redisCommand appends and, in a blocking context, waits for a reply: the
\* oldest that is due.
redisCommand ==
    /\ pc = "idle"
    /\ issued < MaxCmds /\ issued' = issued + 1
    /\ obuf' = Append(obuf, "command")
    /\ pc' = IF blocking THEN "get" ELSE "idle"
    /\ UNCHANGED <<readerVars, ioUnchanged, err, serverVars, historyVars>>

\* redisGetReplyFromReader, while the reader is at work.
ReaderRuns ==
    /\ pc \in {"get", "again"}
    /\ redisReaderSteps
    /\ UNCHANGED <<ioUnchanged, err, obuf, issued, pc, serverVars, historyVars>>

\* What redisGetReply does with what redisGetReplyFromReader gave: a blocking
\* one that got nothing writes all and reads until there is a reply.
ReaderReturns ==
    /\ pc \in {"get", "again"} /\ rpc = "done"
    /\ rpc' = "idle"
    /\ \/ /\ rerr # "none"
          /\ SetErr(rerr)
          /\ UNCHANGED <<given, starved>>
       \/ /\ rerr = "none" /\ aux # NoReply
          /\ given' = Append(given, aux)
          /\ pc' = "idle"
          /\ UNCHANGED <<err, starved>>
       \/ /\ rerr = "none" /\ aux = NoReply
          /\ starved' = TRUE
          /\ pc' = IF ~blocking THEN "idle" ELSE IF pc = "get" THEN "write" ELSE "read"
          /\ UNCHANGED <<err, given>>
    /\ UNCHANGED <<buf, pos, rstack, objs, rerr, aux, ioUnchanged, obuf, issued, serverVars, fed>>

GetReplySteps ==
    \/ ReaderRuns
    \/ ReaderReturns
    \/ pc = "write" /\ redisBufferWrite("write", "read")
    \/ pc = "read" /\ redisBufferRead("again")

\* A non-blocking user serves the descriptor.
Events ==
    /\ pc = "idle" /\ ~blocking
    /\ redisBufferWrite("idle", "idle") \/ redisBufferRead("idle")

ServerCloses ==
    /\ serving /\ pc # "freed"
    /\ serving' = FALSE
    /\ UNCHANGED <<readerVars, opts, netVars, obuf, issued, connects, wire, answers, historyVars>>

-----------------------------------------------------------------------------
Next ==
    \/ OthersOpen
    \/ redisContextConnect
    \/ redisReconnect
    \/ redisFree
    \/ redisAppendCommand
    \/ redisCommand
    \/ redisGetReply
    \/ GetReplySteps
    \/ Events
    \/ ServerCloses

\* The server answers what it has received at once in this model.
Spec == Init /\ [][Next]_vars

-----------------------------------------------------------------------------
(* Properties.                                                             *)

\* The reader's position lies in its buffer, its stack in rstack, and it is
\* idle between calls.
TypeOK ==
    /\ pos \in 0..Len(buf)
    /\ Len(rstack) <= STACK
    /\ \A k \in 2..Len(rstack) : rstack[k - 1].type = "array" /\ rstack[k].idx < rstack[k - 1].elements
    /\ rpc \in {"idle", "items", "done"} /\ (pc \notin {"get", "again"} => rpc = "idle")
    /\ err \in {"none", "io", "eof", "protocol", "other"} /\ rerr \in {"none", "protocol"}
    /\ fd \in -1..MaxFds
    /\ table \in [Fds -> {"free", "ours", "other"}]
    /\ Len(obuf) <= MaxCmds /\ reuses \in 0..REDIS_CONNECT_RETRIES

\* What the server has written for the first k commands.
Bytes(k) == Len(FlattenSeq([j \in 1..k |-> AnswerBytes(answers[j])]))

\* A call that finds nothing has given every reply whose bytes are there: none
\* waits in the buffer for bytes of a later one.
NothingStuck ==
    starved /\ err = "none" => \A k \in DOMAIN answers : Bytes(k) <= fed => k <= Len(given)

\* However the stream was cut, the replies given are those of the server to
\* the commands of this connection, in order and whole; the reader refuses
\* only what is no reply, or nests too deeply for rstack, and keeps back none.
RepliesInOrder ==
    /\ Len(given) <= Len(answers)
    /\ \A k \in DOMAIN given : given[k] = AnswerReply(answers[k])
    /\ err = "protocol" => Len(given) < Len(answers) /\ AnswerReply(answers[Len(given) + 1]) = NoReply
    /\ NothingStuck

\* The context keeps at most the descriptor c->fd open on every path through
\* connecting, retrying and reconnecting, and none once it is freed.
NoDescriptorLeaks ==
    /\ Ours \subseteq {fd}
    /\ pc = "freed" => Ours = {}

\* The context closes no descriptor of the rest of the program, unless a
\* reconnect failed before it had a descriptor: c->fd is then the number of
\* the one it closed itself, and is closed again.
ClosesOwn == alien => stale

\* The context agrees with its reader and with the descriptors of the process.
Safe == TypeOK /\ NoDescriptorLeaks /\ ClosesOwn

\* A connect that failed says so in err (hiredis.h and README.md: err is
\* non-zero when the connection is in an error state), except that with
\* REUSEADDR two paths set nothing.
ErrTells == rv = "err" /\ pc = "idle" /\ "REUSEADDR" \notin opts => err # "none"

=============================================================================
