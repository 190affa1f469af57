---------------------------- MODULE RedisReader -----------------------------
(***************************************************************************)
(* The reply parser of hiredis (read.c): it is fed pieces of the stream    *)
(* and gives whole replies, resuming inside an array through a stack of    *)
(* tasks.  A byte is one token of the protocol.  A reply that is being     *)
(* built is a function from paths to nodes: the path of a node is the      *)
(* sequence of the indices that lead to it, <<>> that of the root; the     *)
(* parents' pointers lead along the same path.  Whoever feeds the reader   *)
(* and asks it for replies is in RedisContext.                             *)
(***************************************************************************)
EXTENDS Integers, Sequences, SequencesExt, FiniteSetsExt

CONSTANTS
    STACK,      \* tasks in rstack: 9 in read.h
    DISCARD     \* consumed bytes that are worth a memmove: 1024

ASSUME ReaderAssumption == STACK \in Nat \ {0} /\ DISCARD \in Nat \ {0}

VARIABLES
    buf, pos,   \* r->buf and what of it is consumed
    rstack,     \* the tasks up to r->ridx
    objs,       \* the reply under construction, r->reply and below
    rerr,       \* r->err
    rpc,        \* "idle", "items" in the loop of redisReaderGetReply, "done"
    aux         \* the reply it gives

readerVars == <<buf, pos, rstack, objs, rerr, rpc, aux>>

\* No reply: NULL.
NoReply == [path \in {} |-> 0]

Task(idx) == [type |-> "unread", elements |-> -1, idx |-> idx]

redisReaderCreate ==
    /\ buf = <<>> /\ pos = 0
    /\ rstack = <<>> /\ objs = NoReply
    /\ rerr = "none"
    /\ rpc = "idle" /\ aux = NoReply

\* redisReconnect frees the reader and creates another.
redisReaderRenewed ==
    /\ buf' = <<>> /\ pos' = 0
    /\ rstack' = <<>> /\ objs' = NoReply
    /\ rerr' = "none"
    /\ rpc' = "idle" /\ aux' = NoReply

-----------------------------------------------------------------------------
(* Reading from the buffer; positions count from 0.                        *)

At(p) == buf[p + 1]

Newlines(from) == {p \in from..(Len(buf) - 2) : At(p) = "CR" /\ At(p + 1) = "LF"}

HasLine == Newlines(pos) # {}
seekNewline == Min(Newlines(pos))
Line == SubSeq(buf, pos + 1, seekNewline)

Digit == [d \in {"0", "1", "2", "3"} |->
            CASE d = "0" -> 0 [] d = "1" -> 1 [] d = "2" -> 2 [] d = "3" -> 3]

Value(digits) ==
    LET v[k \in 0..Len(digits)] == IF k = 0 THEN 0 ELSE 10 * v[k - 1] + Digit[digits[k]]
    IN  v[Len(digits)]

\* The value of a line, or -1 if it is none.
readLongLong(line) ==
    LET signed == line # <<>> /\ line[1] \in {"-", "+"}
        digits == IF signed THEN Tail(line) ELSE line
    IN  IF ToSet(digits) \subseteq DOMAIN Digit
        THEN IF signed /\ line[1] = "-" THEN -Value(digits) ELSE Value(digits)
        ELSE -1

-----------------------------------------------------------------------------
(* The stack of tasks.                                                     *)

Cur == Last(rstack)
Path == [k \in 1..(Len(rstack) - 1) |-> rstack[k + 1].idx]

\* The tasks that are not the last of their array.
Unfinished(stack) == {k \in 2..Len(stack) : stack[k].idx # stack[k - 1].elements - 1}

\* Every array that is complete is left; its successor, if any, is next.
moveToNextTask(stack) ==
    IF Unfinished(stack) = {} THEN <<>>
    ELSE LET k == Max(Unfinished(stack))
         IN  Append(SubSeq(stack, 1, k - 1), Task(stack[k].idx + 1))

Node(type, val) == [type |-> type, val |-> val]

\* The functions that create replies; the parent points to the new one.
Create(node) == objs' = [path \in DOMAIN objs \cup {Path} |-> IF path = Path THEN node ELSE objs[path]]

SetError(type) ==
    /\ rerr' = type
    /\ buf' = <<>> /\ pos' = 0
    /\ rstack' = <<>> /\ objs' = NoReply

-----------------------------------------------------------------------------
(* The caller.                                                             *)

\* redisReaderFeed, unless the reader is in an erroneous state.
Feed(bytes) == buf' = buf \o bytes

redisReaderGetReply ==
    /\ rpc = "idle"
    /\ IF rerr # "none" \/ buf = <<>>
       THEN rpc' = "done" /\ UNCHANGED rstack
       ELSE rpc' = "items" /\ rstack' = IF rstack = <<>> THEN <<Task(-1)>> ELSE rstack
    /\ aux' = NoReply
    /\ UNCHANGED <<buf, pos, objs, rerr>>

-----------------------------------------------------------------------------
(* processItem: the type is read once, the rest when it is there.          *)

InItems == rpc = "items" /\ rstack # <<>> /\ rerr = "none"

\* Is the entire bulk item, with its line end, in the buffer?
BulkIsThere(len) == seekNewline + 2 + len + 2 <= Len(buf)

\* All tasks of rstack are in use.
TooDeep == Len(rstack) = STACK

\* Is there enough in the buffer for processItem?
ItemReady ==
    /\ InItems
    /\ CASE Cur.type = "unread" -> pos < Len(buf)
         [] Cur.type = "string" -> HasLine /\ (readLongLong(Line) < 0 \/ BulkIsThere(readLongLong(Line)))
         [] Cur.type = "array"  -> TooDeep \/ HasLine
         [] OTHER               -> HasLine

TypeOf == [c \in {"-", "+", ":", "$", "*"} |->
             CASE c = "-" -> "error" [] c = "+" -> "status" [] c = ":" -> "integer" [] c = "$" -> "string" [] c = "*" -> "array"]

readType ==
    /\ ItemReady /\ Cur.type = "unread"
    /\ IF At(pos) \in DOMAIN TypeOf
       THEN /\ rstack' = [rstack EXCEPT ![Len(rstack)].type = TypeOf[At(pos)]]
            /\ pos' = pos + 1
            /\ UNCHANGED <<buf, objs, rerr>>
       ELSE SetError("protocol")
    /\ UNCHANGED <<rpc, aux>>

processLineItem ==
    /\ ItemReady /\ Cur.type \in {"error", "status", "integer"}
    /\ Create(IF Cur.type = "integer" THEN Node("integer", <<readLongLong(Line)>>)
              ELSE Node(Cur.type, Line))
    /\ pos' = seekNewline + 2
    /\ rstack' = moveToNextTask(rstack)
    /\ UNCHANGED <<buf, rerr, rpc, aux>>

processBulkItem ==
    /\ ItemReady /\ Cur.type = "string"
    /\ LET len == readLongLong(Line)
           s   == seekNewline + 2
       IN  \/ /\ len < 0
              /\ Create(Node("nil", <<>>))
              /\ pos' = s
           \/ /\ len >= 0
              /\ Create(Node("string", SubSeq(buf, s + 1, s + len)))
              /\ pos' = s + len + 2
    /\ rstack' = moveToNextTask(rstack)
    /\ UNCHANGED <<buf, rerr, rpc, aux>>

processMultiBulkItem ==
    /\ ItemReady /\ Cur.type = "array"
    /\ \/ TooDeep /\ SetError("protocol")
       \/ /\ ~TooDeep
          /\ LET elements == readLongLong(Line)
             IN  /\ Create(IF elements = -1 THEN Node("nil", <<>>) ELSE Node("array", <<elements>>))
                 /\ rstack' = IF elements > 0
                              THEN Append([rstack EXCEPT ![Len(rstack)].elements = elements], Task(0))
                              ELSE moveToNextTask(rstack)
          /\ pos' = seekNewline + 2
          /\ UNCHANGED <<buf, rerr>>
    /\ UNCHANGED <<rpc, aux>>

\* What has been consumed is dropped when it is worth it.
Discarded == IF pos >= DISCARD THEN [buf |-> SubSeq(buf, pos + 1, Len(buf)), pos |-> 0]
             ELSE [buf |-> buf, pos |-> pos]

\* The end of redisReaderGetReply: an error, too few bytes or a reply.
EndItems ==
    /\ rpc = "items" /\ ~ItemReady
    /\ rpc' = "done"
    /\ IF rerr # "none"
       THEN UNCHANGED <<buf, pos, objs, aux>>
       ELSE /\ buf' = Discarded.buf /\ pos' = Discarded.pos
            /\ aux' = IF rstack = <<>> THEN objs ELSE NoReply
            /\ objs' = IF rstack = <<>> THEN NoReply ELSE objs
    /\ UNCHANGED <<rstack, rerr>>

redisReaderSteps == redisReaderGetReply \/ readType \/ processLineItem \/ processBulkItem \/ processMultiBulkItem \/ EndItems

=============================================================================
