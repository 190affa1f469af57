----------------------------- MODULE RedisAsync -----------------------------
(***************************************************************************)
(* The asynchronous client of hiredis (async.c): one thread runs an event  *)
(* loop that calls redisAsyncHandleRead and redisAsyncHandleWrite; these   *)
(* run the user's callbacks, which call the client again.  A callback that *)
(* is being run is a state (pc), so that what it calls meets a half done   *)
(* redisProcessCallbacks or __redisAsyncFree.                              *)
(*                                                                         *)
(* A command is numbered when it is accepted; its callback, which carries  *)
(* that number, is in the list of replies, in the list of invalid commands *)
(* or, for (P)SUBSCRIBE, in a dictionary.  Bytes are left out: the output  *)
(* buffer holds commands, the reader whole replies, one of which may have  *)
(* come half.  The Redis server is external: it answers in order, counts   *)
(* subscriptions, and refuses other commands of a subscribed client.       *)
(*                                                                         *)
(* The user sets both callbacks before the loop runs and neither frees nor *)
(* disconnects in the callbacks for connect and disconnect, which hiredis  *)
(* does not mark with REDIS_IN_CALLBACK.  onConnect(REDIS_ERR) is no state *)
(* of its own: a command issued in it is pending in a context that is not  *)
(* connected, as one issued in the loop just before that event.            *)
(***************************************************************************)
EXTENDS Dict, FiniteSets

CONSTANTS
    Careful,    \* does the user wait for an unsubscription, and so on?
    Arguments,  \* of subscriptions: is it the variant with p, and the names
    Ops,        \* the kinds of commands the user issues
    MaxCmds,    \* bound: accepted commands
    MaxLines,   \* bound: messages and monitor lines
    ServerFails \* may the server refuse the client or close?

ASSUME ArgumentsAssumption == \A a \in Arguments : a[1] \in BOOLEAN /\ a[2] \in Seq(Key) /\ a[2] # <<>>
ASSUME NoEntryAssumption == NoEntry \notin [id : Nat, fn : BOOLEAN]
ASSUME BoundsAssumption == MaxCmds \in Nat /\ MaxLines \in Nat
ASSUME OpsAssumption == Ops \subseteq {"regular", "quit", "subscribe", "unsubscribe", "monitor"}

VARIABLES
    flags,      \* of the redisContext
    err,        \* c->err # 0
    replies,    \* ac->replies, callbacks in the order of their commands
    invalid,    \* ac->sub.invalid
    channels,   \* ac->sub.channels
    patterns,   \* ac->sub.patterns
    obuf,       \* the commands in the output buffer
    watching,   \* the events asked for: addRead, delRead, addWrite, delWrite
    reader,     \* the replies in the reader, not yet taken
    half,       \* did the last read bring only a part of a reply?
    pc,         \* what the thread is in
    cb,         \* the local cb of redisProcessCallbacks
    walk,       \* how many dictionary entries __redisAsyncFree has visited
    left,       \* what onDisconnect was called with, or "not_called"
    inbuf,      \* replies on their way to the client
    server,     \* the server's view: subscriptions, monitoring, open
    issued,     \* history: the accepted commands
    got,        \* history: what the callback of each command was run with
    last,       \* history: the command that registered each name last
    lines       \* history: the messages and monitor lines sent

local == <<flags, err, replies, invalid, channels, patterns, obuf, watching, reader, half, pc, cb, walk, left>>
peer  == <<inbuf, server, lines>>
told  == <<issued, got, last>>
vars  == <<local, peer, told>>

\* No callback has this number.
NoCb == [id |-> 0, fn |-> FALSE]

\* The reply NULL of __redisAsyncFree.
NULL == [type |-> "null", id |-> 0]

Init ==
    /\ flags = {}
    /\ err = FALSE
    /\ replies = <<>> /\ invalid = <<>>
    /\ channels = EmptyDict /\ patterns = EmptyDict
    /\ obuf = <<>>
    /\ watching = {"write"}
    /\ reader = <<>> /\ half = FALSE
    /\ pc = "loop" /\ cb = NoCb /\ walk = 0 /\ left = "not_called"
    /\ inbuf = <<>>
    /\ server = [subs |-> {}, monitor |-> FALSE, open |-> TRUE]
    /\ issued = <<>> /\ got = <<>>
    /\ last = [p \in BOOLEAN |-> [n \in Key |-> 0]]
    /\ lines = 0

\* The user may call the client from the loop and from most callbacks.
UserRuns == pc \in {"loop", "reply_cb", "connect_cb", "free_cb"}

\* What an adapter such as adapters/ae.h does for _EL_ADD_READ and so on.
AddRead(events)  == events \cup {"read"}
AddWrite(events) == events \cup {"write"}
DelWrite(events) == events \ {"write"}
Cleanup(events)  == events \ {"read", "write"}

Dictionary(p) == IF p THEN patterns ELSE channels
Subscribed == "SUBSCRIBED" \in flags

\* Callbacks of the subscriptions in the order in which __redisAsyncFree
\* meets them.
SubscriptionCbs == [i \in 1..Len(Entries(channels) \o Entries(patterns)) |->
                        (Entries(channels) \o Entries(patterns))[i].val]

-----------------------------------------------------------------------------
(* Issuing commands.                                                       *)

\* An unsubscription is on its way.
Unsubscribing ==
    \/ \E i \in DOMAIN obuf : obuf[i].op = "unsubscribe"
    \/ \E i \in DOMAIN inbuf : inbuf[i].type = "unsubscribe"
    \/ \E i \in DOMAIN reader : reader[i].type = "unsubscribe"

\* A careful user waits while unsubscribing, unsubscribes only what is
\* subscribed, each name once, starts to monitor in the loop and when nothing
\* is pending, and issues nothing else from then on.
CarefulCommand(op, p, names) ==
    /\ ~Unsubscribing
    /\ "MONITORING" \notin flags
    /\ op = "monitor" => ~Subscribed /\ replies = <<>> /\ pc = "loop"
    /\ op = "unsubscribe" =>
          /\ \A i \in DOMAIN names : dictFind(Dictionary(p), names[i]) # NoEntry
          /\ IsInjective(names)

\* (P)SUBSCRIBE registers the callback for every name.
Register(ht, names, c) ==
    LET with[k \in 0..Len(names)] == IF k = 0 THEN ht ELSE dictReplace(with[k - 1], names[k], c)
    IN  with[Len(names)]

\* Commands that wait for one reply of their own.
Other == {"regular", "quit"}

\* mutant: callbacks are stored in front
PushCallback_Front(op, c) ==
    /\ replies' = IF op = "monitor" \/ (op \in Other /\ ~Subscribed) THEN <<c>> \o replies ELSE replies
    /\ invalid' = IF op \in Other /\ Subscribed THEN Append(invalid, c) ELSE invalid

\* Where __redisAsyncCommand puts the callback of a command that is no
\* (un)subscription.
PushCallback(op, c) ==
    /\ replies' = IF op = "monitor" \/ (op \in Other /\ ~Subscribed) THEN Append(replies, c) ELSE replies
    /\ invalid' = IF op \in Other /\ Subscribed THEN Append(invalid, c) ELSE invalid

\* A command that is refused changes nothing.
Refuses(op) ==
    \/ flags \cap {"DISCONNECTING", "FREEING"} # {}
    \/ op = "unsubscribe" /\ ~Subscribed

__redisAsyncCommand(op, p, names, fn) ==
    /\ UserRuns
    /\ Len(issued) < MaxCmds
    /\ ~Refuses(op)
    /\ Careful => CarefulCommand(op, p, names)
    /\ LET id == Len(issued) + 1
           c  == [id |-> id, fn |-> fn]
           cmd == [op |-> op, p |-> p, names |-> names, id |-> id, fn |-> fn, subscribed |-> Subscribed]
           subscribes == op = "subscribe"
       IN  /\ flags' = flags \cup (IF subscribes THEN {"SUBSCRIBED"} ELSE {})
                             \cup (IF op = "monitor" THEN {"MONITORING"} ELSE {})
           /\ channels' = IF subscribes /\ ~p THEN Register(channels, names, c) ELSE channels
           /\ patterns' = IF subscribes /\ p THEN Register(patterns, names, c) ELSE patterns
           /\ PushCallback(op, c)
           /\ obuf' = Append(obuf, cmd)
           /\ issued' = Append(issued, cmd)
           /\ got' = Append(got, <<>>)
           /\ last' = IF subscribes
                      THEN [last EXCEPT ![p] = [n \in Key |-> IF n \in ToSet(names) THEN id ELSE @[n]]]
                      ELSE last
    /\ watching' = AddWrite(watching)
    /\ UNCHANGED <<err, reader, half, pc, cb, walk, left, peer>>

\* QUIT is issued without a callback.
redisAsyncCommand ==
    \/ \E op \in Ops \cap Other : __redisAsyncCommand(op, FALSE, <<>>, op # "quit")
    \/ "monitor" \in Ops /\ __redisAsyncCommand("monitor", FALSE, <<>>, TRUE)
    \/ \E op \in Ops \cap {"subscribe", "unsubscribe"}, a \in Arguments :
          __redisAsyncCommand(op, a[1], a[2], TRUE)

-----------------------------------------------------------------------------
(* Disconnecting and freeing.                                              *)

\* __redisAsyncDisconnect: a clean one must find no pending callback; after
\* an error new commands are refused.  Both go on to __redisAsyncFree.
Disconnect(failed) ==
    /\ flags' = IF failed THEN flags \cup {"DISCONNECTING"} ELSE flags
    /\ pc' = IF ~failed /\ replies # <<>> THEN "aborted" ELSE "free"

redisAsyncDisconnect ==
    /\ UserRuns /\ pc # "connect_cb"
    /\ flags' = flags \cup {"DISCONNECTING"}
    /\ pc' = IF "IN_CALLBACK" \notin flags /\ replies = <<>> THEN "free" ELSE pc
    /\ UNCHANGED <<err, replies, invalid, channels, patterns, obuf, watching, reader, half, cb, walk, left, peer, told>>

redisAsyncFree ==
    /\ UserRuns /\ pc # "connect_cb"
    /\ flags' = flags \cup {"FREEING"}
    /\ pc' = IF "IN_CALLBACK" \notin flags THEN "free" ELSE pc
    /\ UNCHANGED <<err, replies, invalid, channels, patterns, obuf, watching, reader, half, cb, walk, left, peer, told>>

\* A callback is run with a reply: it is a state until it returns.
Run(c, reply, fl, state, otherwise) ==
    IF c.fn
    THEN /\ flags' = fl \cup {"IN_CALLBACK"}
         /\ pc' = state
         /\ got' = [got EXCEPT ![c.id] = Append(@, reply)]
    ELSE /\ flags' = fl
         /\ pc' = otherwise
         /\ UNCHANGED got

\* mutant: callbacks of invalid commands are dropped
FreeShifts_DropsInvalid ==
    /\ pc = "free"
    /\ \/ /\ replies # <<>>
          /\ replies' = Tail(replies)
          /\ Run(Head(replies), NULL, flags, "free_cb", "free")
          /\ UNCHANGED invalid
       \/ /\ replies = <<>> /\ invalid # <<>>
          /\ invalid' = <<>>
          /\ UNCHANGED <<flags, got, pc, replies>>
    /\ UNCHANGED <<err, channels, patterns, obuf, watching, reader, half, cb, walk, left, peer, issued, last>>

\* The loops of __redisAsyncFree that run what is pending with NULL.
FreeShifts ==
    /\ pc = "free"
    /\ \/ /\ replies # <<>>
          /\ replies' = Tail(replies)
          /\ Run(Head(replies), NULL, flags, "free_cb", "free")
          /\ UNCHANGED invalid
       \/ /\ replies = <<>> /\ invalid # <<>>
          /\ invalid' = Tail(invalid)
          /\ Run(Head(invalid), NULL, flags, "free_cb", "free")
          /\ UNCHANGED replies
    /\ UNCHANGED <<err, channels, patterns, obuf, watching, reader, half, cb, walk, left, peer, issued, last>>

\* The callbacks of the subscriptions, along a dictIterator.
FreeWalks ==
    /\ pc = "free" /\ replies = <<>> /\ invalid = <<>>
    /\ walk < Len(SubscriptionCbs)
    /\ walk' = walk + 1
    /\ Run(SubscriptionCbs[walk + 1], NULL, flags, "free_cb", "free")
    /\ UNCHANGED <<err, replies, invalid, channels, patterns, obuf, watching, reader, half, cb, left, peer, issued, last>>

FreeCallbackReturns ==
    /\ pc = "free_cb"
    /\ flags' = flags \ {"IN_CALLBACK"}
    /\ pc' = "free"
    /\ UNCHANGED <<err, replies, invalid, channels, patterns, obuf, watching, reader, half, cb, walk, left, peer, told>>

\* Clean up the events, tell the user and free the context.
FreeEnds ==
    /\ pc = "free" /\ replies = <<>> /\ invalid = <<>> /\ walk = Len(SubscriptionCbs)
    /\ watching' = Cleanup(watching)
    /\ left' = IF "CONNECTED" \notin flags                THEN "not_called"
               ELSE IF "FREEING" \in flags \/ ~err        THEN "ok"
               ELSE "err"
    /\ pc' = "gone"
    /\ server' = [server EXCEPT !.open = FALSE]
    /\ UNCHANGED <<flags, err, replies, invalid, channels, patterns, obuf, reader, half, cb, walk, inbuf, lines, told>>

-----------------------------------------------------------------------------
(* The Redis server.                                                       *)

Reply(type, p, name, count, id) == [type |-> type, p |-> p, name |-> name, count |-> count, id |-> id]
Plain(type, id) == Reply(type, FALSE, "", 0, id)

\* One reply for every name of a (un)subscription.
PubSubAnswers(cmd, subs) ==
    LET after[k \in 0..Len(cmd.names)] ==
            IF k = 0 THEN subs
            ELSE IF cmd.op = "subscribe" THEN after[k - 1] \cup {<<cmd.p, cmd.names[k]>>}
            ELSE after[k - 1] \ {<<cmd.p, cmd.names[k]>>}
    IN  [subs    |-> after[Len(cmd.names)],
         replies |-> [k \in 1..Len(cmd.names) |->
                         Reply(cmd.op, cmd.p, cmd.names[k], Cardinality(after[k]), cmd.id)]]

\* The server's answer to one command, appended to what it has answered.
Answered(s, cmd) ==
    LET answers == PubSubAnswers(cmd, s.server.subs)
        allowed == cmd.op = "quit" \/ s.server.subs = {}
    IN  IF ~s.server.open THEN s
        ELSE IF cmd.op \in {"subscribe", "unsubscribe"}
        THEN [server |-> [s.server EXCEPT !.subs = answers.subs],
              inbuf  |-> s.inbuf \o answers.replies]
        ELSE [server |-> [s.server EXCEPT !.open = cmd.op # "quit",
                                          !.monitor = @ \/ (cmd.op = "monitor" /\ allowed)],
              inbuf  |-> Append(s.inbuf, Plain(IF allowed THEN "ok" ELSE "error", cmd.id))]

\* The server receives commands and answers; how long that takes does not
\* show, for the answers wait in inbuf as long as they like.
Deliver(cmds) ==
    LET after[k \in 0..Len(cmds)] ==
            IF k = 0 THEN [server |-> server, inbuf |-> inbuf] ELSE Answered(after[k - 1], cmds[k])
    IN  server' = after[Len(cmds)].server /\ inbuf' = after[Len(cmds)].inbuf

\* Somebody publishes, or another client's command is shown to a monitor.
ServerSpeaks ==
    /\ server.open /\ lines < MaxLines /\ pc \notin {"gone", "aborted"}
    /\ \/ \E s \in server.subs : inbuf' = Append(inbuf, Reply("message", s[1], s[2], 0, 0))
       \/ server.monitor /\ inbuf' = Append(inbuf, Plain("line", 0))
    /\ lines' = lines + 1
    /\ UNCHANGED <<local, told, server>>

\* The server closes; commands written from now on get no answer.
ServerCloses ==
    /\ ServerFails /\ server.open /\ "CONNECTED" \in flags /\ pc # "gone"
    /\ server' = [server EXCEPT !.open = FALSE]
    /\ UNCHANGED <<local, told, inbuf, lines>>

-----------------------------------------------------------------------------
(* The event handlers.                                                     *)

\* redisCheckSocketError of the first write event: connected or not.  The
\* server may have accepted the connection only to refuse it.
__redisAsyncHandleConnect ==
    /\ pc = "loop" /\ "write" \in watching /\ "CONNECTED" \notin flags
    /\ \/ /\ flags' = flags \cup {"CONNECTED"}
          /\ pc' = "connect_cb"
          /\ \/ UNCHANGED <<server, inbuf>>
             \/ /\ ServerFails
                /\ server' = [server EXCEPT !.open = FALSE]
                /\ inbuf' = <<Plain("error", 0)>>
          /\ UNCHANGED err
       \/ /\ ServerFails
          /\ err' = TRUE
          /\ Disconnect(TRUE)
          /\ UNCHANGED <<server, inbuf>>
    /\ UNCHANGED <<replies, invalid, channels, patterns, obuf, watching, reader, half, cb, walk, left, lines, told>>

\* redisBufferWrite and what follows it; onConnect has returned.
redisAsyncHandleWrite ==
    /\ (pc = "loop" /\ "write" \in watching /\ "CONNECTED" \in flags) \/ pc = "connect_cb"
    /\ \/ \E n \in 0..Len(obuf) :
             /\ n = 0 => obuf = <<>>
             /\ obuf' = SubSeq(obuf, n + 1, Len(obuf))
             /\ Deliver(SubSeq(obuf, 1, n))
             /\ watching' = AddRead(IF obuf' = <<>> THEN DelWrite(watching) ELSE AddWrite(watching))
             /\ pc' = "loop"
             /\ UNCHANGED <<flags, err>>
       \/ /\ obuf # <<>> /\ ~server.open
          /\ err' = TRUE
          /\ Disconnect(TRUE)
          /\ UNCHANGED <<obuf, inbuf, server, watching>>
    /\ UNCHANGED <<replies, invalid, channels, patterns, reader, half, cb, walk, left, lines, told>>

\* A read without a whole reply leads to NoReply; elsewhere that is a stutter.
PartMatters == flags \cap {"MONITORING", "DISCONNECTING"} # {}

\* redisBufferRead takes some replies, or only a part of the next one, or
\* finds the connection closed.
redisAsyncHandleRead ==
    /\ pc = "loop" /\ "read" \in watching /\ "CONNECTED" \in flags
    /\ \/ \E n \in 0..Len(inbuf) :
             /\ n = 0 => inbuf # <<>> /\ ~half /\ PartMatters
             /\ reader' = reader \o SubSeq(inbuf, 1, n)
             /\ inbuf' = SubSeq(inbuf, n + 1, Len(inbuf))
             /\ half' = (n = 0)
             /\ cb' = NoCb
             /\ pc' = "process"
             /\ watching' = AddRead(watching)
             /\ UNCHANGED <<flags, err>>
       \/ /\ inbuf = <<>> /\ ~server.open
          /\ err' = TRUE
          /\ Disconnect(TRUE)
          /\ UNCHANGED <<reader, inbuf, half, cb, watching>>
    /\ UNCHANGED <<replies, invalid, channels, patterns, obuf, walk, left, server, lines, told>>

-----------------------------------------------------------------------------
(* redisProcessCallbacks, one round of its loop per step.                  *)

\* mutant: never the cue to disconnect
NoReply_Waits ==
    /\ pc = "process" /\ reader = <<>>
    /\ replies' = IF "MONITORING" \in flags THEN Append(replies, cb) ELSE replies
    /\ pc' = "loop"
    /\ UNCHANGED <<flags, err, invalid, channels, patterns, obuf, watching, reader, half, cb, walk, left, peer, told>>

\* No more replies: the cue to disconnect; in monitor mode the callback is
\* pushed again, whatever cb holds.
NoReply ==
    /\ pc = "process" /\ reader = <<>>
    /\ IF "DISCONNECTING" \in flags /\ obuf = <<>> /\ replies = <<>>
       THEN Disconnect(FALSE) /\ UNCHANGED replies
       ELSE /\ replies' = IF "MONITORING" \in flags THEN Append(replies, cb) ELSE replies
            /\ pc' = "loop"
            /\ UNCHANGED flags
    /\ UNCHANGED <<err, invalid, channels, patterns, obuf, watching, reader, half, cb, walk, left, peer, told>>

\* A pending callback gets the reply, even if the context is subscribed.
ShiftedReply ==
    /\ pc = "process" /\ reader # <<>> /\ replies # <<>>
    /\ replies' = Tail(replies)
    /\ cb' = Head(replies)
    /\ reader' = Tail(reader)
    /\ Run(Head(replies), Head(reader), flags, "reply_cb", "process")
    /\ UNCHANGED <<err, invalid, channels, patterns, obuf, watching, half, walk, left, peer, issued, last>>

\* An error reply nobody waits for: too many clients, or still loading.
SpontaneousError ==
    /\ pc = "process" /\ reader # <<>> /\ replies = <<>>
    /\ Head(reader).type = "error"
    /\ reader' = Tail(reader)
    /\ err' = TRUE
    /\ Disconnect(TRUE)
    /\ UNCHANGED <<replies, invalid, channels, patterns, obuf, watching, half, cb, walk, left, peer, told>>

\* The replies to (un)subscriptions, and messages, are arrays.
IsArray(r) == r.type \in {"subscribe", "unsubscribe", "message"}

\* No callback waits for the reply and it is no error.
Unexpected == pc = "process" /\ reader # <<>> /\ replies = <<>> /\ Head(reader).type # "error"

\* mutant: the last unsubscription of either kind ends the subscribed mode
Unsubscribed_ThisKind(r) == {f \in flags : ~(f = "SUBSCRIBED" /\ Dictionary(r.p).used = 1)}

\* The flags after an unsubscription: the server counts both kinds.
Unsubscribed(r) == IF r.count = 0 THEN flags \ {"SUBSCRIBED"} ELSE flags

\* mutant: the case of __redisGetSubscribeCallback for p is left out
IsVariant_Never(r) == FALSE

\* Is the reply about a pattern?
IsVariant(r) == r.p

\* __redisGetSubscribeCallback finds the callback of the name, which an
\* unsubscription removes; without one cb stays as the last round left it.
PubSubReply ==
    /\ Unexpected /\ Subscribed /\ IsArray(Head(reader))
    /\ LET r     == Head(reader)
           v     == IsVariant(r)
           found == dictFind(Dictionary(v), r.name)
           gone  == found # NoEntry /\ r.type = "unsubscribe"
       IN  /\ cb' = IF found # NoEntry THEN found ELSE cb
           /\ channels' = IF gone /\ ~v THEN dictDelete(channels, r.name) ELSE channels
           /\ patterns' = IF gone /\ v THEN dictDelete(patterns, r.name) ELSE patterns
           /\ last' = IF gone THEN [last EXCEPT ![r.p][r.name] = 0] ELSE last
           /\ Run(cb', r, IF gone THEN Unsubscribed(r) ELSE flags, "reply_cb", "process")
    /\ reader' = Tail(reader)
    /\ UNCHANGED <<err, replies, invalid, obuf, watching, half, walk, left, peer, issued>>

\* Another reply while subscribed belongs to the first invalid command.
InvalidReply ==
    /\ Unexpected /\ Subscribed /\ ~IsArray(Head(reader))
    /\ cb' = IF invalid # <<>> THEN Head(invalid) ELSE cb
    /\ invalid' = IF invalid # <<>> THEN Tail(invalid) ELSE invalid
    /\ reader' = Tail(reader)
    /\ Run(cb', Head(reader), flags, "reply_cb", "process")
    /\ UNCHANGED <<err, replies, channels, patterns, obuf, watching, half, walk, left, peer, issued, last>>

\* A further monitor line of one read goes to the callback of the previous.
\* If the context does not monitor either, the assertion fails.
OtherReply ==
    /\ Unexpected /\ ~Subscribed
    /\ IF "MONITORING" \in flags
       THEN reader' = Tail(reader) /\ Run(cb, Head(reader), flags, "reply_cb", "process")
       ELSE pc' = "aborted" /\ UNCHANGED <<flags, reader, got>>
    /\ UNCHANGED <<err, replies, invalid, channels, patterns, obuf, watching, half, cb, walk, left, peer, issued, last>>

\* The callback returns; the context is freed if it asked for that.
ReplyCallbackReturns ==
    /\ pc = "reply_cb"
    /\ flags' = flags \ {"IN_CALLBACK"}
    /\ pc' = IF "FREEING" \in flags THEN "free" ELSE "process"
    /\ UNCHANGED <<err, replies, invalid, channels, patterns, obuf, watching, reader, half, cb, walk, left, peer, told>>

redisProcessCallbacks ==
    \/ NoReply
    \/ ShiftedReply
    \/ SpontaneousError
    \/ PubSubReply
    \/ InvalidReply
    \/ OtherReply
    \/ ReplyCallbackReturns

__redisAsyncFree == FreeShifts \/ FreeWalks \/ FreeCallbackReturns \/ FreeEnds

-----------------------------------------------------------------------------
User == redisAsyncCommand \/ redisAsyncDisconnect \/ redisAsyncFree

EventLoop ==
    \/ __redisAsyncHandleConnect
    \/ redisAsyncHandleWrite
    \/ redisAsyncHandleRead
    \/ redisProcessCallbacks
    \/ __redisAsyncFree

Next == User \/ EventLoop \/ ServerSpeaks \/ ServerCloses

\* The loop serves both events, and callbacks return.
Fairness ==
    /\ WF_vars(__redisAsyncHandleConnect)
    /\ WF_vars(redisAsyncHandleWrite)
    /\ WF_vars(redisAsyncHandleRead)
    /\ WF_vars(redisProcessCallbacks)
    /\ WF_vars(__redisAsyncFree)

Spec == Init /\ [][Next]_vars /\ Fairness

-----------------------------------------------------------------------------
(* Properties.                                                             *)

Callback == [id : 0..MaxCmds, fn : BOOLEAN]

\* The context is of its types, and its tables are well formed: each entry in
\* the slot of its hash, each name once, used the number of entries.
TypeOK ==
    /\ flags \subseteq {"CONNECTED", "DISCONNECTING", "FREEING", "IN_CALLBACK", "SUBSCRIBED", "MONITORING"}
    /\ "IN_CALLBACK" \in flags <=> pc \in {"reply_cb", "free_cb"}
    /\ err \in BOOLEAN /\ half \in BOOLEAN
    /\ pc \in {"loop", "connect_cb", "process", "reply_cb", "free", "free_cb", "gone", "aborted"}
    /\ \A q \in {replies, invalid} : \A i \in DOMAIN q : q[i] \in Callback
    /\ cb \in Callback
    /\ WellFormed(channels) /\ WellFormed(patterns)
    /\ walk \in 0..Len(SubscriptionCbs)
    /\ left \in {"not_called", "ok", "err"}

\* r is the reply to the command id, or NULL, or the error with which a server
\* refuses the client.
IsOwn(r, id) == r.id = id \/ (r.id = 0 /\ r.type \in {"null", "error"})

\* The callback of a regular command is run at most once, with the reply to
\* that command, with the server's refusal, or with NULL; never with a message,
\* a monitor line or the reply to another: the list of replies keeps step with
\* the pipeline through callbacks that issue commands, subscriptions and frees.
\* What a command issued while subscribed gets is NULL (ErrorReplyPassedOn).
OwnReply ==
    \A id \in DOMAIN issued : issued[id].op \in Other =>
        /\ Len(got[id]) <= 1
        /\ \A i \in DOMAIN got[id] : IsOwn(got[id][i], id)

\* The error reply to a command is passed to its callback when it is taken from
\* the reader, as the comment at async.c:635 says of a command issued while
\* subscribed ("This will likely result in an error reply, but it needs to be
\* received and passed to the callback").
ErrorReplyPassedOn ==
    [][LET r == Head(reader)
       IN  reader # <<>> /\ reader' = Tail(reader) /\ r.type = "error" /\ r.id # 0 /\ issued[r.id].fn
           => got' = [got EXCEPT ![r.id] = Append(@, r)]]_vars

\* Neither assertion fails (async.c:346 and async.c:464): a clean disconnect
\* has nothing pending, and a reply nobody waits for only comes to a context
\* that is subscribed or monitoring, as async.c:463 says.
NeverAborts == pc # "aborted"

\* When the context is gone every command it accepted with a callback was
\* told: a regular one once, a subscription that stands with NULL at last
\* (README.md of hiredis: "All pending callbacks are called with a NULL reply
\* when the context encountered an error").  If it left without an error and
\* the user asked for no free, it waited for the replies of the regular ones,
\* those issued to a subscribed context apart: it looks at replies only.
NothingForgotten ==
    pc = "gone" =>
        /\ \A id \in DOMAIN issued :
              issued[id].op \in Other => Len(got[id]) = IF issued[id].fn THEN 1 ELSE 0
        /\ \A p \in BOOLEAN, n \in Key :
              last[p][n] # 0 => got[last[p][n]] # <<>> /\ Last(got[last[p][n]]) = NULL
        /\ left = "ok" /\ "FREEING" \notin flags =>
              \A id \in DOMAIN issued :
                 issued[id].op \in Other /\ ~issued[id].subscribed => NULL \notin ToSet(got[id])

\* The dictionaries are maps: a name is found if and only if it is subscribed,
\* with the callback of the last command that named it, whatever the hashes
\* and through every growth of the table.
DictIsMap ==
    \A p \in BOOLEAN, n \in Key :
        LET found == dictFind(Dictionary(p), n)
        IN  IF last[p][n] = 0 THEN found = NoEntry ELSE found # NoEntry /\ found.id = last[p][n]

\* The context's own state coheres, its dictionaries included.
Safe == TypeOK /\ DictIsMap

\* Each message is handed to the callback of the last subscription of its
\* name, and to no other, the moment it is taken from the reader.
MessageToSubscriber ==
    [][reader # <<>> /\ reader' = Tail(reader) /\ Head(reader).type = "message"
        => LET r == Head(reader)
           IN  got' = [got EXCEPT ![last[r.p][r.name]] = Append(@, r)]]_vars

\* A context that disconnects is gone in the end, unless it monitors: its
\* callback is always pushed again.
DisconnectEnds ==
    "DISCONNECTING" \in flags /\ "MONITORING" \notin flags ~> pc \in {"gone", "aborted"}

=============================================================================
