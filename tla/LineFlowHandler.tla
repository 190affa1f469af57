--------------------------- MODULE LineFlowHandler ---------------------------
(***************************************************************************)
(* LineFlowHandler (src/server/flow_handler.{h,cpp}): cuts a flow that     *)
(* arrives in chunks of arbitrary size into lines, and keeps the           *)
(* unterminated rest in part_line until the next chunk.                    *)
(*                                                                         *)
(* A caller is a thread that calls do_handle on the one shared handler     *)
(* object: the thread of a FileAgent, or the workers of a FlowServer.      *)
(* The steps of do_handle are the ones between which another caller can    *)
(* reach part_line; the accesses to part_line themselves are atomic here,  *)
(* although the code has no lock: torn accesses are left out.              *)
(*                                                                         *)
(* A byte matters only through being a newline or not; the others keep     *)
(* their identity so that lines can be compared.                           *)
(***************************************************************************)
EXTENDS Integers, Sequences, FiniteSets, SequencesExt

CONSTANTS
    Byte,       \* the values of a byte
    NL,         \* '\n'
    Caller,     \* the threads that call do_handle
    BufSize,    \* the size of the callers' read buffer (4096 in the code)
    MaxBytes    \* bound: how much one caller passes to the handler

ASSUME ByteAssumption == NL \in Byte
ASSUME BufSizeAssumption == BufSize \in Nat \ {0}
ASSUME MaxBytesAssumption == MaxBytes \in Nat

VARIABLES
    part_line,  \* the handler's only member: the unterminated rest
    handled,    \* history: the lines given to handle_lines, in order
    received,   \* history: the bytes each caller has passed to do_handle
    pc,         \* where each caller is in do_handle
    flow_str,   \* local: part_line and the chunk, concatenated
    pos,        \* local: the get position of split_str's stringstream
    lines       \* local: the result of split_str so far

vars == <<part_line, handled, received, pc, flow_str, pos, lines>>

Line == Seq(Byte)

(***************************************************************************)
(* What the callers pass: between 1 and BufSize bytes.  FileAgent skips a  *)
(* read of 0 bytes and FlowEpollWatcher closes the connection on one, so   *)
(* size - 1 is always an index of the buffer.                              *)
(***************************************************************************)
Chunk == UNION { [1..n -> Byte] : n \in 1..BufSize }

Init ==
    /\ part_line = <<>>
    /\ handled = <<>>
    /\ received = [c \in Caller |-> <<>>]
    /\ pc = [c \in Caller |-> "idle"]
    /\ flow_str = [c \in Caller |-> <<>>]
    /\ pos = [c \in Caller |-> 1]
    /\ lines = [c \in Caller |-> <<>>]

(***************************************************************************)
(* do_handle up to the call of split_str: the kept rest, if any, goes in   *)
(* front of the chunk and is cleared.                                      *)
(***************************************************************************)
\* mutant: the kept rest does not go in front of the chunk
do_handle_DropRest(c, flow_bytes) ==
    /\ pc[c] = "idle"
    /\ received' = [received EXCEPT ![c] = @ \o flow_bytes]
    /\ flow_str' = [flow_str EXCEPT ![c] = flow_bytes]
    /\ part_line' = <<>>
    /\ pos' = [pos EXCEPT ![c] = 1]
    /\ lines' = [lines EXCEPT ![c] = <<>>]
    /\ pc' = [pc EXCEPT ![c] = "split"]
    /\ UNCHANGED handled

\* mutant: part_line is not cleared
do_handle_KeepRest(c, flow_bytes) ==
    /\ pc[c] = "idle"
    /\ received' = [received EXCEPT ![c] = @ \o flow_bytes]
    /\ flow_str' = [flow_str EXCEPT ![c] = part_line \o flow_bytes]
    /\ pos' = [pos EXCEPT ![c] = 1]
    /\ lines' = [lines EXCEPT ![c] = <<>>]
    /\ pc' = [pc EXCEPT ![c] = "split"]
    /\ UNCHANGED <<part_line, handled>>

do_handle(c, flow_bytes) ==
    /\ pc[c] = "idle"
    /\ received' = [received EXCEPT ![c] = @ \o flow_bytes]
    /\ flow_str' = [flow_str EXCEPT ![c] = part_line \o flow_bytes]
    /\ part_line' = <<>>
    /\ pos' = [pos EXCEPT ![c] = 1]
    /\ lines' = [lines EXCEPT ![c] = <<>>]
    /\ pc' = [pc EXCEPT ![c] = "split"]
    /\ UNCHANGED handled

(***************************************************************************)
(* One round of split_str's loop.  getline stops at the first newline from *)
(* the get position on, which it consumes, or at the end of the string,    *)
(* which also ends the loop; an empty token is dropped.                    *)
(***************************************************************************)
TokenEnd(s, p) ==
    CHOOSE e \in p..(Len(s) + 1) :
        /\ e = Len(s) + 1 \/ s[e] = NL
        /\ \A k \in p..(e - 1) : s[k] # NL

\* mutant: a token of one byte is dropped too
push_back_LongOnly(result, temp) ==
    IF Len(temp) < 2 THEN result ELSE Append(result, temp)

\* mutant: tokens are pushed at the front
push_back_Front(result, temp) ==
    IF temp = <<>> THEN result ELSE <<temp>> \o result

push_back(result, temp) ==
    IF temp = <<>> THEN result ELSE Append(result, temp)

split_str(c) ==
    /\ pc[c] = "split"
    /\ LET e    == TokenEnd(flow_str[c], pos[c])
           temp == SubSeq(flow_str[c], pos[c], e - 1)
       IN  /\ lines' = [lines EXCEPT ![c] = push_back(@, temp)]
           /\ pos' = [pos EXCEPT ![c] = e + 1]
           /\ pc' = [pc EXCEPT ![c] = IF e = Len(flow_str[c]) + 1 THEN "handle" ELSE "split"]
    /\ UNCHANGED <<part_line, handled, received, flow_str>>

(***************************************************************************)
(* The two branches after split_str.  The code looks at the last byte of   *)
(* the chunk, which is the last byte of flow_str as the chunk is not       *)
(* empty.  handle_lines is the user's; its result is ignored.              *)
(***************************************************************************)
EndsInNewline(c) == flow_str[c][Len(flow_str[c])] = NL

\* mutant: the last line waits although it is terminated
HandleAllLines_ButLast(c) ==
    /\ pc[c] = "handle"
    /\ EndsInNewline(c)
    /\ handled' = handled \o SubSeq(lines[c], 1, Len(lines[c]) - 1)
    /\ pc' = [pc EXCEPT ![c] = "idle"]
    /\ UNCHANGED <<part_line, received, flow_str, pos, lines>>

HandleAllLines(c) ==
    /\ pc[c] = "handle"
    /\ EndsInNewline(c)
    /\ handled' = handled \o lines[c]
    /\ pc' = [pc EXCEPT ![c] = "idle"]
    /\ UNCHANGED <<part_line, received, flow_str, pos, lines>>

HandleFullLines(c) ==
    /\ pc[c] = "handle"
    /\ ~EndsInNewline(c)
    /\ handled' = handled \o SubSeq(lines[c], 1, Len(lines[c]) - 1)
    /\ pc' = [pc EXCEPT ![c] = "keep"]
    /\ UNCHANGED <<part_line, received, flow_str, pos, lines>>

KeepPartLine(c) ==
    /\ pc[c] = "keep"
    /\ part_line' = lines[c][Len(lines[c])]
    /\ pc' = [pc EXCEPT ![c] = "idle"]
    /\ UNCHANGED <<handled, received, flow_str, pos, lines>>

Call(c) ==
    \E flow_bytes \in Chunk :
        /\ Len(received[c]) + Len(flow_bytes) <= MaxBytes
        /\ do_handle(c, flow_bytes)

Step(c) ==
    \/ split_str(c)
    \/ HandleAllLines(c)
    \/ HandleFullLines(c)
    \/ KeepPartLine(c)

\* No caller has anything more to pass: the only way to stop.
NoMoreData ==
    /\ \A c \in Caller : pc[c] = "idle"
    /\ UNCHANGED vars

Next ==
    \/ \E c \in Caller : Call(c)
    \/ \E c \in Caller : Step(c)
    \/ NoMoreData

Spec == Init /\ [][Next]_vars

-----------------------------------------------------------------------------

(***************************************************************************)
(* The variables hold values of their kinds, and getline never reads past  *)
(* the end of the string.                                                  *)
(***************************************************************************)
TypeOK ==
    /\ part_line \in Line
    /\ handled \in Seq(Line)
    /\ received \in [Caller -> Line]
    /\ pc \in [Caller -> {"idle", "split", "handle", "keep"}]
    /\ flow_str \in [Caller -> Line]
    /\ pos \in [Caller -> Nat \ {0}]
    /\ \A c \in Caller : pos[c] <= Len(flow_str[c]) + 2
    /\ lines \in [Caller -> Seq(Line)]

\* s[a..b] is a nonempty line of s: maximal without a newline, and terminated.
IsLine(s, a, b) ==
    /\ 1 <= a /\ a <= b /\ b < Len(s)
    /\ a = 1 \/ s[a - 1] = NL
    /\ \A k \in a..b : s[k] # NL
    /\ s[b + 1] = NL

(***************************************************************************)
(* No line is torn, glued together or made up: every line given to         *)
(* handle_lines is a complete line of the bytes one caller passed,         *)
(* however they were cut into chunks.                                      *)
(***************************************************************************)
WholeLines ==
    \A i \in DOMAIN handled : \E c \in Caller :
        \E a, b \in DOMAIN received[c] :
            IsLine(received[c], a, b) /\ handled[i] = SubSeq(received[c], a, b)

(***************************************************************************)
(* No line is lost: when do_handle has returned, every complete nonempty   *)
(* line passed so far has been given to handle_lines.                      *)
(***************************************************************************)
NoLineLost ==
    \A c \in Caller : pc[c] = "idle" =>
        \A a, b \in DOMAIN received[c] :
            IsLine(received[c], a, b) =>
                \E i \in DOMAIN handled : handled[i] = SubSeq(received[c], a, b)

(***************************************************************************)
(* Between calls part_line is what follows the last newline passed: the    *)
(* rest of a chunk is neither dropped nor kept once its line is complete.  *)
(***************************************************************************)
PartLineIsRest ==
    \A c \in Caller : pc[c] = "idle" =>
        \E n \in 0..Len(received[c]) :
            /\ part_line = SubSeq(received[c], n + 1, Len(received[c]))
            /\ n = 0 \/ received[c][n] = NL
            /\ \A k \in DOMAIN part_line : part_line[k] # NL

(***************************************************************************)
(* When a chunk does not end in a newline, lines.end() - 1 and             *)
(* lines[lines.size() - 1] (flow_handler.cpp:46,48) exist.                 *)
(***************************************************************************)
LastTokenExists ==
    \A c \in Caller :
        pc[c] \in {"handle", "keep"} /\ ~EndsInNewline(c) => lines[c] # <<>>

\* How many lines of s end with its n-th byte or before: at a byte that is no
\* newline, before one that is.
LinesUpTo(s, n) == Cardinality({b \in 1..n : b < Len(s) /\ s[b] # NL /\ s[b + 1] = NL})

(***************************************************************************)
(* Lines are handled in order and once each: with one caller, the k-th     *)
(* line handled is the k-th line of the flow, whatever the chunks, and     *)
(* there is no other.                                                      *)
(***************************************************************************)
LinesInOrder ==
    \A c \in Caller : pc[c] = "idle" =>
        /\ Len(handled) = LinesUpTo(received[c], Len(received[c]))
        /\ \A a, b \in DOMAIN received[c] :
              IsLine(received[c], a, b) =>
                  handled[LinesUpTo(received[c], b)] = SubSeq(received[c], a, b)

=============================================================================
