------------------------------ MODULE FileAgent ------------------------------
(***************************************************************************)
(* FileReader and FileAgent (src/agent/file_reader.cpp, file_agent.cpp):   *)
(* one thread follows a log file by its path, reopening it for every read, *)
(* and passes what it reads to a FlowHandler, while another process writes *)
(* the file and rotates it.                                                *)
(*                                                                         *)
(* A file that has been at the path is a generation, numbered from 1.  A   *)
(* byte is its generation and its position there, so a chunk is a          *)
(* generation and an interval, and the contents of a file are its length.  *)
(***************************************************************************)
EXTENDS Integers, Sequences

CONSTANTS
    is_tail,          \* FileReader's second argument
    _run_time_limit,  \* FileAgent's member, -1 unless set
    RunTimeGarbage,   \* the values the uninitialised int run_time may have
    req_size,         \* the size of the read buffer (4096 in the code)
    Ino,              \* inode numbers
    MaxGen,           \* bound: files that appear at the path
    MaxSize,          \* bound: the length of a file
    Unlinks,          \* may files be deleted, so that inodes are used again?
    Truncates         \* may the file be truncated in place (same inode)?

ASSUME FlagAssumption ==
    is_tail \in BOOLEAN /\ Unlinks \in BOOLEAN /\ Truncates \in BOOLEAN
ASSUME LimitAssumption == _run_time_limit \in Int /\ RunTimeGarbage \subseteq Int
ASSUME ReqSizeAssumption == req_size \in Nat \ {0}
ASSUME InoAssumption == Ino \subseteq Nat \ {0}
ASSUME BoundAssumption == MaxGen \in Nat \ {0} /\ MaxSize \in Nat

VARIABLES
    \* the file system
    cur,          \* the generation at the path, 0 if there is no file
    born,         \* the number of generations so far
    ino,          \* the inode of each generation
    size,         \* the length of each generation
    linked,       \* the generations that still have a name and so their inode
    \* the FileReader
    _offset,
    _file_ino,    \* 0 if stat failed in the constructor
    \* start_watch
    pc,
    read_size,
    req_buffer,   \* the chunk in the buffer
    retry_status,
    run_time,
    \* histories
    reads,        \* the chunks read, in order
    accepted,     \* the chunks for which do_handle returned success, in order
    since         \* the number of generations when the constructor began

env == <<cur, born, ino, size, linked>>
reader == <<_offset, _file_ino>>
vars == <<env, reader, pc, read_size, req_buffer, retry_status, run_time,
          reads, accepted, since>>

Gen == 1..MaxGen

-----------------------------------------------------------------------------
(***************************************************************************)
(* The file system and the process that writes the log: appending, the     *)
(* two halves of a rotation (rename or unlink, then create), and           *)
(* truncation in place.  A renamed file keeps its inode number; the number *)
(* of a deleted one may be given to a new file.  All of it is external.    *)
(***************************************************************************)
agent == <<reader, pc, read_size, req_buffer, retry_status, run_time,
           reads, accepted, since>>

WriterAppends ==
    /\ cur # 0
    /\ \E n \in 1..(MaxSize - size[cur]) : size' = [size EXCEPT ![cur] = @ + n]
    /\ UNCHANGED <<cur, born, ino, linked, agent>>

Rename ==
    /\ cur # 0
    /\ cur' = 0
    /\ UNCHANGED <<born, ino, size, linked, agent>>

Unlink ==
    /\ Unlinks
    /\ \E g \in linked :
        /\ linked' = linked \ {g}
        /\ cur' = IF g = cur THEN 0 ELSE cur
    /\ UNCHANGED <<born, ino, size, agent>>

Create ==
    /\ cur = 0 /\ born < MaxGen
    /\ born' = born + 1
    /\ cur' = born + 1
    /\ \E i \in Ino \ {ino[g] : g \in linked} : ino' = [ino EXCEPT ![born + 1] = i]
    /\ linked' = linked \cup {born + 1}
    /\ UNCHANGED <<size, agent>>

Truncate ==
    /\ Truncates
    /\ cur # 0 /\ born < MaxGen
    /\ born' = born + 1
    /\ cur' = born + 1
    /\ ino' = [ino EXCEPT ![born + 1] = ino[cur]]
    /\ linked' = (linked \ {cur}) \cup {born + 1}
    /\ UNCHANGED <<size, agent>>

Writer == WriterAppends \/ Rename \/ Unlink \/ Create \/ Truncate

-----------------------------------------------------------------------------
(***************************************************************************)
(* FileReader's constructor looks at the path twice: with is_tail it opens *)
(* the file to find its end, where tellg yields -1 if the open failed, and *)
(* then stats the path for the inode.                                      *)
(***************************************************************************)
FileReader_tell ==
    /\ pc = "tell"
    /\ _offset' = IF ~is_tail THEN 0 ELSE IF cur = 0 THEN -1 ELSE size[cur]
    /\ since' = born
    /\ pc' = "stat"
    /\ UNCHANGED <<env, _file_ino, read_size, req_buffer, retry_status, run_time,
                   reads, accepted>>

FileReader_stat ==
    /\ pc = "stat"
    /\ _file_ino' = IF cur = 0 THEN 0 ELSE ino[cur]
    /\ pc' = "loop"
    /\ UNCHANGED <<env, _offset, read_size, req_buffer, retry_status, run_time,
                   reads, accepted, since>>

(***************************************************************************)
(* FileReader::read, called at "from".  The open fails when there is no    *)
(* file, and then read_size keeps its value.  The seek fails on offset -1, *)
(* and past the end of the file there is nothing to read.                  *)
(***************************************************************************)
Readable ==
    IF _offset < 0 \/ _offset >= size[cur] THEN 0
    ELSE IF size[cur] - _offset < req_size THEN size[cur] - _offset
    ELSE req_size

\* synced says whether the reader had seen the inode of the file it reads.
ChunkRead == [gen |-> cur, from |-> _offset, len |-> Readable,
              synced |-> _file_ino = ino[cur]]

\* mutant: the caller's read_size is not set
read_Shadowed(from, nothing) ==
    /\ pc = from
    /\ \/ /\ cur = 0 \/ (cur # 0 /\ Readable = 0)
          /\ pc' = nothing
          /\ UNCHANGED <<_offset, req_buffer, reads>>
       \/ /\ cur # 0 /\ Readable > 0
          /\ req_buffer' = ChunkRead
          /\ _offset' = _offset + Readable
          /\ reads' = Append(reads, ChunkRead)
          /\ pc' = "handle"
    /\ UNCHANGED <<env, _file_ino, read_size, retry_status, run_time, accepted, since>>

\* mutant: the offset advances by the size asked for
read_ReqSize(from, nothing) ==
    /\ pc = from
    /\ \/ /\ cur = 0 \/ (cur # 0 /\ Readable = 0)
          /\ pc' = nothing
          /\ UNCHANGED <<_offset, read_size, req_buffer, reads>>
       \/ /\ cur # 0 /\ Readable > 0
          /\ read_size' = Readable
          /\ req_buffer' = ChunkRead
          /\ _offset' = _offset + req_size
          /\ reads' = Append(reads, ChunkRead)
          /\ pc' = "handle"
    /\ UNCHANGED <<env, _file_ino, retry_status, run_time, accepted, since>>

read(from, nothing) ==
    /\ pc = from
    /\ \/ /\ cur = 0
          /\ pc' = nothing
          /\ UNCHANGED <<_offset, read_size, req_buffer, reads>>
       \/ /\ cur # 0 /\ Readable = 0
          /\ read_size' = 0
          /\ pc' = nothing
          /\ UNCHANGED <<_offset, req_buffer, reads>>
       \/ /\ cur # 0 /\ Readable > 0
          /\ read_size' = Readable
          /\ req_buffer' = ChunkRead
          /\ _offset' = _offset + Readable
          /\ reads' = Append(reads, ChunkRead)
          /\ pc' = "handle"
    /\ UNCHANGED <<env, _file_ino, retry_status, run_time, accepted, since>>

(***************************************************************************)
(* check_and_reset: the path has no file, or still the known one, or a new *)
(* inode, from whose file reading starts again at 0.                       *)
(***************************************************************************)
\* mutant: a change of the inode goes unnoticed
NewInode_Never == FALSE

NewInode == cur # 0 /\ ino[cur] # _file_ino

\* mutant: the new inode is not remembered
check_and_reset_Forgets ==
    /\ pc = "check"
    /\ pc' = "loop"
    /\ _offset' = IF NewInode THEN 0 ELSE _offset
    /\ UNCHANGED <<env, _file_ino, read_size, req_buffer, retry_status, run_time,
                   reads, accepted, since>>

\* mutant: the offset is not reset
check_and_reset_KeepsOffset ==
    /\ pc = "check"
    /\ pc' = "loop"
    /\ _file_ino' = IF NewInode THEN ino[cur] ELSE _file_ino
    /\ UNCHANGED <<env, _offset, read_size, req_buffer, retry_status, run_time,
                   reads, accepted, since>>

check_and_reset ==
    /\ pc = "check"
    /\ pc' = "loop"
    /\ \/ /\ ~NewInode
          /\ UNCHANGED reader
       \/ /\ NewInode
          /\ _file_ino' = ino[cur]
          /\ _offset' = 0
    /\ UNCHANGED <<env, read_size, req_buffer, retry_status, run_time, reads,
                   accepted, since>>

(***************************************************************************)
(* start_watch: a read; if it brings nothing, one more after a second, and *)
(* then the check for a new file.  What was read goes to do_handle until   *)
(* that succeeds, and a positive limit counts the successes.               *)
(***************************************************************************)
FirstRead == retry_status = 0 /\ read("loop", "slept")

SecondRead == read("slept", "check")

Retry ==
    /\ pc = "loop" /\ retry_status = 1
    /\ pc' = "handle"
    /\ UNCHANGED <<env, reader, read_size, req_buffer, retry_status, run_time,
                   reads, accepted, since>>

\* mutant: retry_status is not set
HandlerFails_NoRetry ==
    /\ pc = "handle"
    /\ pc' = "loop"
    /\ UNCHANGED <<env, reader, read_size, req_buffer, retry_status, run_time,
                   reads, accepted, since>>

HandlerFails ==
    /\ pc = "handle"
    /\ retry_status' = 1
    /\ pc' = "loop"
    /\ UNCHANGED <<env, reader, read_size, req_buffer, run_time, reads, accepted, since>>

HandlerAccepts ==
    /\ pc = "handle"
    /\ accepted' = Append(accepted, req_buffer)
    /\ retry_status' = 0
    /\ run_time' = IF _run_time_limit > 0 THEN run_time + 1 ELSE run_time
    /\ pc' = IF _run_time_limit > 0 /\ run_time' >= _run_time_limit THEN "done" ELSE "loop"
    /\ UNCHANGED <<env, reader, read_size, req_buffer, reads, since>>

Agent ==
    \/ FileReader_tell \/ FileReader_stat
    \/ FirstRead \/ SecondRead \/ check_and_reset
    \/ Retry \/ HandlerFails \/ HandlerAccepts

\* start_watch has returned.
Returned == pc = "done" /\ UNCHANGED vars

NoChunk == [gen |-> 0, from |-> 0, len |-> 0, synced |-> FALSE]

(***************************************************************************)
(* The agent starts with a file of any length at the path, or none.        *)
(***************************************************************************)
Init ==
    /\ \/ /\ cur = 0 /\ born = 0 /\ linked = {}
          /\ ino = [g \in Gen |-> 0] /\ size = [g \in Gen |-> 0]
       \/ /\ cur = 1 /\ born = 1 /\ linked = {1}
          /\ \E i \in Ino : ino = [g \in Gen |-> IF g = 1 THEN i ELSE 0]
          /\ \E n \in 0..MaxSize : size = [g \in Gen |-> IF g = 1 THEN n ELSE 0]
    /\ _offset = 0 /\ _file_ino = 0
    /\ pc = "tell"
    /\ read_size = 0
    /\ req_buffer = NoChunk
    /\ retry_status = 0
    /\ run_time \in RunTimeGarbage
    /\ reads = <<>> /\ accepted = <<>>
    /\ since = 0

Next == Writer \/ Agent \/ Returned

Spec == Init /\ [][Next]_vars

(***************************************************************************)
(* The agent's thread keeps running, and the handler does not refuse one   *)
(* chunk for ever: LineFlowHandler::do_handle always returns 0.  Nothing   *)
(* is assumed of the writer, which the bounds stop after finitely many     *)
(* steps.                                                                  *)
(***************************************************************************)
FairSpec == Spec /\ WF_vars(Agent) /\ SF_vars(HandlerAccepts)

-----------------------------------------------------------------------------

ChunkType == [gen : Gen \cup {0}, from : Nat, len : Nat, synced : BOOLEAN]

(***************************************************************************)
(* The variables hold values of their kinds; only the newest generation    *)
(* can be at the path.                                                     *)
(***************************************************************************)
TypeOK ==
    /\ born \in 0..MaxGen
    /\ cur \in {0, born}
    /\ ino \in [Gen -> Ino \cup {0}]
    /\ size \in [Gen -> Nat]
    /\ linked \subseteq 1..born
    /\ _offset \in Nat \cup {-1}
    /\ _file_ino \in Ino \cup {0}
    /\ pc \in {"tell", "stat", "loop", "slept", "check", "handle", "done"}
    /\ read_size \in Nat
    /\ req_buffer \in ChunkType
    /\ retry_status \in {0, 1}
    /\ run_time \in Int
    /\ reads \in Seq(ChunkType)
    /\ accepted \in Seq(ChunkType)
    /\ since \in 0..MaxGen

\* A chunk has been read and do_handle has not yet succeeded on it.
Pending == pc = "handle" \/ (pc = "loop" /\ retry_status = 1)

(***************************************************************************)
(* A failing handler costs nothing: what do_handle has accepted is what    *)
(* was read, in order and once each, but for the one chunk being retried.  *)
(***************************************************************************)
AcceptedIsRead ==
    reads = IF Pending THEN Append(accepted, req_buffer) ELSE accepted

(***************************************************************************)
(* do_handle is never called with nothing to handle: LineFlowHandler reads *)
(* flow_bytes[size - 1], and read_size is stale after a failed open.       *)
(***************************************************************************)
ChunkNotEmpty ==
    Pending => read_size > 0 /\ req_buffer.len = read_size

End(c) == c.from + c.len

(***************************************************************************)
(* Within a file nothing is skipped and nothing is read out of order: a    *)
(* chunk starts where the one before it ended, or at 0 if check_and_reset  *)
(* noticed the file in between.                                            *)
(***************************************************************************)
NoGapInFile ==
    \A i \in 1..(Len(reads) - 1) :
        reads[i].gen = reads[i + 1].gen =>
            \/ reads[i + 1].from = End(reads[i])
            \/ reads[i + 1].from = 0 /\ ~reads[i].synced /\ reads[i + 1].synced

Overlap(c, d) == c.gen = d.gen /\ c.from < End(d) /\ d.from < End(c)

(***************************************************************************)
(* A byte is read a second time only if the file was first read before the *)
(* reader knew its inode, and then only until it does; so never more than  *)
(* twice, through every rotation, truncation and reuse of an inode number. *)
(***************************************************************************)
RereadOnlyOnReset ==
    \A i, j \in DOMAIN reads :
        i < j /\ Overlap(reads[i], reads[j]) => ~reads[i].synced /\ reads[j].synced

ReadByte(g, x) ==
    \E i \in DOMAIN reads : reads[i].gen = g /\ reads[i].from <= x /\ x < End(reads[i])

(***************************************************************************)
(* Once the reader knows the inode of the file at the path, its offset is  *)
(* what it has read of that file: everything below it, nothing above.      *)
(* This is for a reader that starts at 0 and a writer that rotates by      *)
(* renaming; the other cases are where the code loses its place.           *)
(***************************************************************************)
SyncedPrefixRead ==
    cur # 0 /\ _file_ino = ino[cur] /\ pc \notin {"tell", "stat"} =>
        /\ _offset <= size[cur]
        /\ \A x \in 0..(_offset - 1) : ReadByte(cur, x)

AcceptedByte(g, x) ==
    \E i \in DOMAIN accepted :
        accepted[i].gen = g /\ accepted[i].from <= x /\ x < End(accepted[i])

(***************************************************************************)
(* When the writer has stopped, all of the file that is at the path and    *)
(* came after the reader reaches the handler.                              *)
(***************************************************************************)
NewFileDelivered ==
    <>[](cur > since => \A x \in 0..(MaxSize - 1) : x < size[cur] => AcceptedByte(cur, x))

=============================================================================
