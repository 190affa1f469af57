--------------------------- MODULE FileAgentProofs ---------------------------
(***************************************************************************)
(* Theorems about FileAgent: what holds against a writer that does         *)
(* anything (append, rename, delete, recreate, truncate, use an inode      *)
(* number again), and what its offset means to a reader that starts at 0   *)
(* while the writer only rotates by renaming.                              *)
(***************************************************************************)
EXTENDS FileAgent, SequenceTheorems, TLAPS

USE FlagAssumption, LimitAssumption, ReqSizeAssumption, InoAssumption, BoundAssumption

\* The reader has seen the inode of the file at the path.
Synced == _file_ino = ino[cur]

(***************************************************************************)
(* The inductive invariant.  A failed handler is remembered only between   *)
(* a chunk and its retry; and of the chunks of the file at the path, those *)
(* read since the reader last noticed it lie below the offset.             *)
(***************************************************************************)
ControlInv ==
    /\ pc \in {"tell", "stat", "slept", "check"} => retry_status = 0
    /\ pc \in {"tell", "stat"} => reads = <<>>

ChunkInv == \A i \in 1..Len(reads) : reads[i].gen <= born /\ reads[i].len > 0

OffsetInv ==
    cur # 0 =>
        /\ \A i \in 1..Len(reads) :
              reads[i].gen = cur =>
                  /\ reads[i].synced => Synced
                  /\ reads[i].synced = Synced => End(reads[i]) <= _offset
        /\ Len(reads) > 0 /\ reads[Len(reads)].gen = cur =>
              \/ _offset = End(reads[Len(reads)])
              \/ _offset = 0 /\ ~reads[Len(reads)].synced /\ Synced

IInv ==
    /\ TypeOK
    /\ ControlInv /\ AcceptedIsRead /\ ChunkNotEmpty
    /\ ChunkInv /\ OffsetInv /\ NoGapInFile /\ RereadOnlyOnReset

-----------------------------------------------------------------------------
(***************************************************************************)
(* Types.                                                                  *)
(***************************************************************************)

LEMMA TypeInit == Init => TypeOK
<1> SUFFICES ASSUME Init
             PROVE  TypeOK
  OBVIOUS
<1>1. <<>> \in Seq(ChunkType) /\ NoChunk \in ChunkType
  BY EmptySeq DEF ChunkType, NoChunk
<1>2. /\ born \in 0..MaxGen /\ cur \in {0, born} /\ linked \subseteq 1..born
      /\ ino \in [Gen -> Ino \cup {0}] /\ size \in [Gen -> Nat]
  BY DEF Init, Gen
<1> QED
  BY <1>1, <1>2 DEF Init, TypeOK

\* The chunk that a read of the file at the path brings.
LEMMA ReadFacts ==
    ASSUME TypeOK, cur # 0, Readable > 0
    PROVE  /\ Readable \in Nat
           /\ _offset \in Nat /\ _offset + Readable \in Nat
           /\ _offset + Readable <= size[cur]
           /\ cur \in Gen /\ cur = born
           /\ ChunkRead \in ChunkType
           /\ ChunkRead.gen = cur /\ ChunkRead.from = _offset
           /\ ChunkRead.len = Readable /\ ChunkRead.synced = Synced
           /\ End(ChunkRead) = _offset + Readable
<1>1. cur \in Gen /\ cur = born /\ size[cur] \in Nat
  BY DEF TypeOK, Gen
<1>2. _offset \in Nat /\ Readable \in Nat /\ _offset + Readable <= size[cur]
  BY <1>1 DEF TypeOK, Readable
<1>3. ChunkRead \in ChunkType
  BY <1>1, <1>2 DEF ChunkRead, ChunkType
<1> HIDE DEF Readable
<1> QED
  BY <1>1, <1>2, <1>3 DEF ChunkRead, Synced, End

LEMMA WriterType ==
    ASSUME TypeOK, Writer
    PROVE  TypeOK'
<1> USE DEF TypeOK, Gen
<1>1. CASE WriterAppends
  <2>1. cur \in Gen /\ size[cur] \in Nat
    BY <1>1 DEF WriterAppends
  <2> QED
    BY <1>1, <2>1 DEF WriterAppends, agent, reader
<1>2. CASE Rename
  BY <1>2 DEF Rename, agent, reader
<1>3. CASE Unlink
  BY <1>3 DEF Unlink, agent, reader
<1>4. CASE Create
  BY <1>4 DEF Create, agent, reader
<1>5. CASE Truncate
  <2>1. cur \in Gen /\ ino[cur] \in Ino \cup {0}
    BY <1>5 DEF Truncate
  <2> QED
    BY <1>5, <2>1 DEF Truncate, agent, reader
<1> QED
  BY <1>1, <1>2, <1>3, <1>4, <1>5 DEF Writer

LEMMA ReadType ==
    ASSUME TypeOK, NEW from, NEW nothing \in {"slept", "check"}, read(from, nothing)
    PROVE  TypeOK'
<1>1. CASE pc' = nothing /\ UNCHANGED <<_offset, req_buffer, reads>> /\ read_size' \in Nat
  BY <1>1 DEF read, TypeOK, env
<1>2. CASE /\ cur # 0 /\ Readable > 0
           /\ read_size' = Readable
           /\ req_buffer' = ChunkRead
           /\ _offset' = _offset + Readable
           /\ reads' = Append(reads, ChunkRead)
           /\ pc' = "handle"
  <2>1. /\ Readable \in Nat /\ _offset + Readable \in Nat /\ ChunkRead \in ChunkType
    BY <1>2, ReadFacts
  <2>2. Append(reads, ChunkRead) \in Seq(ChunkType)
    BY <2>1, AppendProperties DEF TypeOK
  <2> QED
    BY <1>2, <2>1, <2>2 DEF read, TypeOK, env
<1> QED
  BY <1>1, <1>2 DEF read, TypeOK

LEMMA AgentType ==
    ASSUME TypeOK, Agent
    PROVE  TypeOK'
<1>1. CASE FileReader_tell
  <2>1. cur # 0 => cur \in Gen /\ size[cur] \in Nat
    BY DEF TypeOK, Gen
  <2> QED
    BY <1>1, <2>1 DEF FileReader_tell, TypeOK, env
<1>2. CASE FileReader_stat
  <2>1. cur # 0 => cur \in Gen /\ ino[cur] \in Ino \cup {0}
    BY DEF TypeOK, Gen
  <2> QED
    BY <1>2, <2>1 DEF FileReader_stat, TypeOK, env
<1>3. CASE FirstRead
  BY <1>3, ReadType DEF FirstRead
<1>4. CASE SecondRead
  BY <1>4, ReadType DEF SecondRead
<1>5. CASE check_and_reset
  <2>1. cur # 0 => cur \in Gen /\ ino[cur] \in Ino \cup {0}
    BY DEF TypeOK, Gen
  <2> QED
    BY <1>5, <2>1 DEF check_and_reset, NewInode, TypeOK, env, reader
<1>6. CASE Retry
  BY <1>6 DEF Retry, TypeOK, env, reader
<1>7. CASE HandlerFails
  BY <1>7 DEF HandlerFails, TypeOK, env, reader
<1>8. CASE HandlerAccepts
  <2>1. Append(accepted, req_buffer) \in Seq(ChunkType)
    BY AppendProperties DEF TypeOK
  <2> QED
    BY <1>8, <2>1 DEF HandlerAccepts, TypeOK, env, reader
<1> QED
  BY <1>1, <1>2, <1>3, <1>4, <1>5, <1>6, <1>7, <1>8 DEF Agent

LEMMA TypeStep ==
    ASSUME TypeOK, [Next]_vars
    PROVE  TypeOK'
<1>1. CASE UNCHANGED vars
  BY <1>1 DEF TypeOK, vars, env, reader
<1> QED
  BY <1>1, WriterType, AgentType DEF Next, Returned

(***************************************************************************)
(* The variables keep their kinds; so a failed seek reads nothing, and     *)
(* only the newest file is at the path.                                    *)
(***************************************************************************)
THEOREM TypeCorrect == Spec => []TypeOK
BY TypeInit, TypeStep, PTL DEF Spec

-----------------------------------------------------------------------------
(***************************************************************************)
(* What an action does to the histories.                                   *)
(***************************************************************************)

\* A read either brings a chunk or leaves the reader and the histories.
BringsChunk ==
    /\ cur # 0 /\ Readable > 0
    /\ read_size' = Readable
    /\ req_buffer' = ChunkRead
    /\ _offset' = _offset + Readable
    /\ reads' = Append(reads, ChunkRead)
    /\ pc' = "handle"
    /\ UNCHANGED <<env, _file_ino, retry_status, run_time, accepted, since>>

BringsNothing ==
    /\ pc' \in {"slept", "check"}
    /\ UNCHANGED <<env, _offset, _file_ino, req_buffer, retry_status, run_time,
                   reads, accepted, since>>

LEMMA ReadOutcome ==
    ASSUME FirstRead \/ SecondRead
    PROVE  /\ BringsChunk \/ BringsNothing
           /\ (pc = "loop" /\ retry_status = 0) \/ pc = "slept"
BY DEF FirstRead, SecondRead, read, BringsChunk, BringsNothing

LEMMA AppendFacts ==
    ASSUME NEW s \in Seq(ChunkType), NEW c \in ChunkType
    PROVE  /\ Append(s, c) \in Seq(ChunkType)
           /\ Len(s) \in Nat
           /\ Len(Append(s, c)) = Len(s) + 1
           /\ \A i \in 1..Len(s) : Append(s, c)[i] = s[i]
           /\ Append(s, c)[Len(s) + 1] = c
BY AppendProperties

LEMMA ControlStep ==
    ASSUME IInv, [Next]_vars
    PROVE  ControlInv' /\ AcceptedIsRead' /\ ChunkNotEmpty'
<1> USE DEF IInv, ControlInv, AcceptedIsRead, ChunkNotEmpty, Pending
<1>1. CASE Writer
  BY <1>1 DEF Writer, WriterAppends, Rename, Unlink, Create, Truncate, agent, reader
<1>2. CASE FileReader_tell
  BY <1>2 DEF FileReader_tell
<1>3. CASE FileReader_stat
  BY <1>3 DEF FileReader_stat
<1>4. CASE FirstRead \/ SecondRead
  <2>1. ~Pending /\ retry_status = 0
    BY <1>4, ReadOutcome
  <2>2. CASE BringsChunk
    <3>1. ChunkRead.len = Readable /\ Readable > 0
      BY <2>2 DEF BringsChunk, ChunkRead
    <3> QED
      BY <2>1, <2>2, <3>1 DEF BringsChunk
  <2>3. CASE BringsNothing
    BY <2>1, <2>3 DEF BringsNothing
  <2> QED
    BY <1>4, <2>2, <2>3, ReadOutcome
<1>5. CASE check_and_reset
  BY <1>5 DEF check_and_reset
<1>6. CASE Retry
  BY <1>6 DEF Retry
<1>7. CASE HandlerFails
  BY <1>7 DEF HandlerFails
<1>8. CASE HandlerAccepts
  BY <1>8 DEF HandlerAccepts
<1>9. CASE UNCHANGED vars
  BY <1>9 DEF vars
<1> QED
  BY <1>1, <1>2, <1>3, <1>4, <1>5, <1>6, <1>7, <1>8, <1>9 DEF Next, Agent, Returned

(***************************************************************************)
(* The chunks read: the steps that disturb them are the ones that bring a  *)
(* chunk, the reset, and a new file at the path.                           *)
(***************************************************************************)
ReadsInv == ChunkInv /\ OffsetInv /\ NoGapInFile /\ RereadOnlyOnReset

LEMMA BringsChunkStep ==
    ASSUME IInv, BringsChunk
    PROVE  ReadsInv'
<1> DEFINE n == Len(reads)
           c == ChunkRead
<1>1. /\ Readable \in Nat /\ Readable > 0
      /\ _offset \in Nat
      /\ cur # 0 /\ cur = born /\ cur \in Nat
      /\ c \in ChunkType /\ c.gen = cur /\ c.from = _offset /\ c.len = Readable
      /\ c.synced = Synced /\ End(c) = _offset + Readable
  BY ReadFacts DEF BringsChunk, IInv, Gen
<1>2. /\ reads \in Seq(ChunkType) /\ n \in Nat
      /\ Len(reads') = n + 1
      /\ \A i \in 1..n : reads'[i] = reads[i] /\ reads[i] \in ChunkType
      /\ reads'[n + 1] = c
  BY <1>1, AppendFacts DEF BringsChunk, IInv, TypeOK
<1>3. /\ _offset' = _offset + Readable
      /\ cur' = cur /\ born' = born /\ ino' = ino /\ _file_ino' = _file_ino
      /\ Synced' = Synced
  BY DEF BringsChunk, env, Synced
<1> HIDE DEF n, c
<1>4. \A i \in 1..n : reads[i].from \in Nat /\ reads[i].len \in Nat
                      /\ reads[i].synced \in BOOLEAN /\ End(reads[i]) \in Nat
  BY <1>2 DEF ChunkType, End
<1>5. \A i \in 1..n : reads[i].gen = cur =>
        /\ reads[i].synced => Synced
        /\ reads[i].synced = Synced => End(reads[i]) <= _offset
  BY <1>1 DEF IInv, OffsetInv, n
<1>6. \A i \in 1..(n + 1) : i \in 1..n \/ i = n + 1
  BY <1>2
<1>7. ChunkInv'
  <2>1. \A i \in 1..n : reads[i].gen <= born /\ reads[i].len > 0
    BY DEF IInv, ChunkInv, n
  <2>2. c.gen <= born /\ c.len > 0
    BY <1>1
  <2> QED
    BY <1>2, <1>3, <1>6, <2>1, <2>2 DEF ChunkInv
<1>8. OffsetInv'
  <2>1. \A i \in 1..(n + 1) : reads'[i].gen = cur =>
          /\ reads'[i].synced => Synced
          /\ reads'[i].synced = Synced => End(reads'[i]) <= _offset + Readable
    <3> TAKE i \in 1..(n + 1)
    <3>1. CASE i \in 1..n
      BY <1>1, <1>2, <1>4, <1>5, <3>1
    <3>2. CASE i = n + 1
      BY <1>1, <1>2, <3>2
    <3> QED
      BY <1>6, <3>1, <3>2
  <2>2. _offset' = End(reads'[Len(reads')])
    BY <1>1, <1>2, <1>3
  <2> QED
    BY <1>2, <1>3, <2>1, <2>2 DEF OffsetInv
<1>9. NoGapInFile'
  <2> SUFFICES ASSUME NEW i \in 1..n, reads'[i].gen = reads'[i + 1].gen
               PROVE  \/ reads'[i + 1].from = End(reads'[i])
                      \/ reads'[i + 1].from = 0 /\ ~reads'[i].synced /\ reads'[i + 1].synced
    <3>1. Len(reads') - 1 = n
      BY <1>2
    <3> QED
      BY <3>1 DEF NoGapInFile
  <2>1. CASE i < n
    <3>1. i \in 1..(n - 1) /\ i + 1 \in 1..n
      BY <1>2, <2>1
    <3> QED
      BY <1>2, <3>1 DEF IInv, NoGapInFile, n
  <2>2. CASE i = n
    <3>1. reads'[i] = reads[n] /\ reads'[i + 1] = c /\ n > 0
      BY <1>2, <2>2
    <3>2. \/ _offset = End(reads[n])
          \/ _offset = 0 /\ ~reads[n].synced /\ Synced
      BY <1>1, <3>1 DEF IInv, OffsetInv, n
    <3> QED
      BY <1>1, <3>1, <3>2
  <2> QED
    BY <1>2, <2>1, <2>2
<1>10. RereadOnlyOnReset'
  <2> SUFFICES ASSUME NEW i \in 1..(n + 1), NEW j \in 1..(n + 1), i < j,
                      Overlap(reads'[i], reads'[j])
               PROVE  ~reads'[i].synced /\ reads'[j].synced
    <3>1. DOMAIN reads' = 1..(n + 1)
      BY <1>1, <1>2, AppendFacts, LenProperties DEF BringsChunk, c
    <3> QED
      BY <3>1 DEF RereadOnlyOnReset
  <2>1. i \in 1..n
    BY <1>2
  <2>2. CASE j \in 1..n
    <3>1. i \in DOMAIN reads /\ j \in DOMAIN reads
      BY <1>2, <2>1, <2>2, LenProperties DEF n
    <3>2. reads'[i] = reads[i] /\ reads'[j] = reads[j]
      BY <1>2, <2>1, <2>2
    <3> QED
      BY <3>1, <3>2 DEF IInv, RereadOnlyOnReset
  <2>3. CASE j = n + 1
    <3>1. reads'[i] = reads[i] /\ reads'[j] = c
      BY <1>2, <2>1, <2>3
    <3>2. reads[i].gen = cur /\ _offset < End(reads[i])
      BY <1>1, <3>1 DEF Overlap
    <3>3. reads[i].synced # Synced
      BY <1>1, <1>4, <1>5, <2>1, <3>2
    <3>4. ~reads[i].synced /\ Synced
      BY <1>4, <1>5, <2>1, <3>2, <3>3 DEF Synced
    <3> QED
      BY <1>1, <3>1, <3>4
  <2> QED
    BY <1>6, <2>2, <2>3
<1> QED
  BY <1>7, <1>8, <1>9, <1>10 DEF ReadsInv

LEMMA ResetStep ==
    ASSUME IInv, check_and_reset
    PROVE  ReadsInv'
<1>1. reads' = reads /\ cur' = cur /\ born' = born /\ ino' = ino
  BY DEF check_and_reset, env
<1>2. ChunkInv' /\ NoGapInFile' /\ RereadOnlyOnReset'
  BY <1>1 DEF IInv, ChunkInv, NoGapInFile, RereadOnlyOnReset
<1>3. CASE ~NewInode
  <2>1. _offset' = _offset /\ _file_ino' = _file_ino
    BY <1>3 DEF check_and_reset, reader
  <2> QED
    BY <1>1, <1>2, <2>1 DEF IInv, ReadsInv, OffsetInv, Synced
<1>4. CASE NewInode
  <2>1. _offset' = 0 /\ Synced' /\ ~Synced /\ cur # 0
    BY <1>1, <1>4 DEF check_and_reset, NewInode, Synced
  <2>2. \A i \in 1..Len(reads) : reads[i].gen = cur => ~reads[i].synced
    BY <2>1 DEF IInv, OffsetInv
  <2>3. Len(reads) > 0 => Len(reads) \in 1..Len(reads)
    BY DEF IInv, TypeOK
  <2>4. OffsetInv'
    BY <1>1, <2>1, <2>2, <2>3 DEF OffsetInv
  <2> QED
    BY <1>2, <2>4 DEF ReadsInv
<1> QED
  BY <1>3, <1>4

\* The writer: a file that appears at the path has not been read yet.
LEMMA WriterStep ==
    ASSUME IInv, Writer
    PROVE  ReadsInv'
<1>1. reads' = reads /\ _offset' = _offset /\ _file_ino' = _file_ino
  BY DEF Writer, WriterAppends, Rename, Unlink, Create, Truncate, agent, reader
<1>2. NoGapInFile' /\ RereadOnlyOnReset'
  BY <1>1 DEF IInv, NoGapInFile, RereadOnlyOnReset
<1>3. Len(reads) \in Nat /\ \A i \in 1..Len(reads) : reads[i].gen \in Nat
  <2>1. Len(reads) \in Nat /\ \A i \in 1..Len(reads) : reads[i] \in ChunkType
    BY DEF IInv, TypeOK
  <2>2. \A c \in ChunkType : c.gen \in Nat
    BY DEF ChunkType, Gen
  <2> QED
    BY <2>1, <2>2
<1>4. CASE born' = born /\ ino' = ino /\ cur' \in {0, cur}
  <2>1. ChunkInv'
    BY <1>1, <1>4 DEF IInv, ChunkInv
  <2>2. OffsetInv'
    BY <1>1, <1>4 DEF IInv, OffsetInv, Synced
  <2> QED
    BY <1>2, <2>1, <2>2 DEF ReadsInv
<1>5. CASE born' = born + 1 /\ cur' = born + 1
  <2>1. \A i \in 1..Len(reads) : reads[i].gen <= born /\ reads[i].len > 0
    BY DEF IInv, ChunkInv
  <2>2. born \in Nat
    BY DEF IInv, TypeOK
  <2>3. \A i \in 1..Len(reads) : reads[i].gen # cur' /\ reads[i].gen <= born'
    BY <1>3, <1>5, <2>1, <2>2
  <2>4. Len(reads) > 0 => Len(reads) \in 1..Len(reads)
    BY <1>3
  <2>5. ChunkInv'
    BY <1>1, <2>1, <2>3 DEF ChunkInv
  <2>6. OffsetInv'
    BY <1>1, <2>3, <2>4 DEF OffsetInv
  <2> QED
    BY <1>2, <2>5, <2>6 DEF ReadsInv
<1> QED
  BY <1>4, <1>5 DEF Writer, WriterAppends, Rename, Unlink, Create, Truncate

LEMMA ReadsStep ==
    ASSUME IInv, [Next]_vars
    PROVE  ReadsInv'
<1>1. ASSUME reads' = reads, cur' = cur, born' = born, ino' = ino,
             _offset' = _offset, _file_ino' = _file_ino
      PROVE  ReadsInv'
  BY <1>1 DEF IInv, ReadsInv, ChunkInv, OffsetInv, NoGapInFile, RereadOnlyOnReset, Synced
<1>2. CASE Writer
  BY <1>2, WriterStep
<1>3. CASE FileReader_tell \/ FileReader_stat
  <2>1. reads = <<>> /\ reads' = reads /\ Len(<<>>) = 0
    BY <1>3, EmptySeq DEF FileReader_tell, FileReader_stat, IInv, ControlInv
  <2>2. DOMAIN reads' = {} /\ Len(reads') = 0
    BY <2>1
  <2> QED
    BY <2>2 DEF ReadsInv, ChunkInv, OffsetInv, NoGapInFile, RereadOnlyOnReset
<1>4. CASE FirstRead \/ SecondRead
  <2>1. CASE BringsChunk
    BY <2>1, BringsChunkStep
  <2>2. CASE BringsNothing
    BY <1>1, <2>2 DEF BringsNothing, env
  <2> QED
    BY <1>4, <2>1, <2>2, ReadOutcome
<1>5. CASE check_and_reset
  BY <1>5, ResetStep
<1>6. CASE Retry \/ HandlerFails \/ HandlerAccepts
  BY <1>1, <1>6 DEF Retry, HandlerFails, HandlerAccepts, env, reader
<1>7. CASE UNCHANGED vars
  BY <1>1, <1>7 DEF vars, env, reader
<1> QED
  BY <1>2, <1>3, <1>4, <1>5, <1>6, <1>7 DEF Next, Agent, Returned

LEMMA IInvInit == Init => IInv
<1> SUFFICES ASSUME Init
             PROVE  IInv
  OBVIOUS
<1>1. reads = <<>> /\ accepted = <<>> /\ pc = "tell" /\ retry_status = 0 /\ Len(<<>>) = 0
  BY EmptySeq DEF Init
<1>2. DOMAIN reads = {} /\ Len(reads) = 0
  BY <1>1
<1>3. ReadsInv
  BY <1>2 DEF ReadsInv, ChunkInv, OffsetInv, NoGapInFile, RereadOnlyOnReset
<1>4. ControlInv /\ AcceptedIsRead /\ ChunkNotEmpty
  BY <1>1 DEF ControlInv, AcceptedIsRead, ChunkNotEmpty, Pending
<1> QED
  BY <1>3, <1>4, TypeInit DEF IInv, ReadsInv

LEMMA IInvStep ==
    ASSUME IInv, [Next]_vars
    PROVE  IInv'
<1>1. TypeOK'
  BY TypeStep DEF IInv
<1> QED
  BY <1>1, ControlStep, ReadsStep DEF IInv, ReadsInv

LEMMA IInvAlways == Spec => []IInv
BY IInvInit, IInvStep, PTL DEF Spec

(***************************************************************************)
(* What do_handle has accepted is what was read, in order and once each,   *)
(* but for the chunk being retried (file_agent.cpp:54-62).                 *)
(***************************************************************************)
THEOREM AcceptedIsWhatWasRead == Spec => []AcceptedIsRead
BY IInvAlways, PTL DEF IInv

(***************************************************************************)
(* do_handle never gets an empty buffer or the size of an earlier read     *)
(* (file_agent.cpp:44-54, file_reader.cpp:34-36).                          *)
(***************************************************************************)
THEOREM NeverAnEmptyChunk == Spec => []ChunkNotEmpty
BY IInvAlways, PTL DEF IInv

(***************************************************************************)
(* The chunks of a file follow each other without a gap, but for one       *)
(* return to its beginning when check_and_reset notices it, whatever the   *)
(* writer does to the path.                                                *)
(***************************************************************************)
THEOREM ChunksFollow == Spec => []NoGapInFile
BY IInvAlways, PTL DEF IInv

(***************************************************************************)
(* Only bytes read before the reader knew the inode are read again, and    *)
(* only after it does.                                                     *)
(***************************************************************************)
THEOREM RereadOnlyByReset == Spec => []RereadOnlyOnReset
BY IInvAlways, PTL DEF IInv

\* No byte is in three chunks read.
AtMostTwice ==
    \A i, j, k \in DOMAIN reads :
        i < j /\ j < k => ~(Overlap(reads[i], reads[j]) /\ Overlap(reads[j], reads[k]))

(***************************************************************************)
(* So no byte of the log reaches do_handle three times, through any number *)
(* of rotations, truncations and uses of an inode number.                  *)
(***************************************************************************)
THEOREM NeverThrice == Spec => []AtMostTwice
<1>1. IInv => AtMostTwice
  BY DEF IInv, RereadOnlyOnReset, AtMostTwice
<1> QED
  BY <1>1, IInvAlways, PTL

-----------------------------------------------------------------------------
(***************************************************************************)
(* A reader that starts at 0, and a writer that rotates by renaming only:  *)
(* every file keeps its inode number, so a new file's is new to the reader *)
(* and check_and_reset sees it.                                            *)
(***************************************************************************)
RotationOnly == ~is_tail /\ ~Unlinks /\ ~Truncates

InodeInv ==
    /\ linked = 1..born
    /\ \A g \in 1..born : ino[g] # 0
    /\ _file_ino = 0 \/ \E g \in 1..born : _file_ino = ino[g]
    /\ pc \in {"tell", "stat"} => _offset = 0

PrefixInv == SyncedPrefixRead /\ InodeInv

LEMMA PrefixInit ==
    ASSUME RotationOnly, Init
    PROVE  PrefixInv
<1>1. linked = 1..born
  <2>1. 1..0 = {} /\ 1..1 = {1}
    OBVIOUS
  <2> QED
    BY <2>1 DEF Init
<1>2. \A g \in 1..born : ino[g] # 0
  BY DEF Init, Gen
<1> QED
  BY <1>1, <1>2 DEF Init, PrefixInv, SyncedPrefixRead, InodeInv

\* A step that leaves the reader and the path in place.
LEMMA PrefixFrame ==
    ASSUME PrefixInv, UNCHANGED <<cur, born, ino, linked, _offset, _file_ino, reads>>,
           pc \notin {"tell", "stat"}, pc' \notin {"tell", "stat"},
           cur # 0 => size'[cur] = size[cur]
    PROVE  PrefixInv'
<1>1. InodeInv'
  BY DEF PrefixInv, InodeInv
<1>2. \A g, x : ReadByte(g, x) => ReadByte(g, x)'
  BY DEF ReadByte
<1>3. SyncedPrefixRead'
  <2> SUFFICES ASSUME cur # 0, _file_ino = ino[cur]
               PROVE  /\ _offset <= size'[cur]
                      /\ \A x \in 0..(_offset - 1) : ReadByte(cur, x)'
    BY DEF SyncedPrefixRead
  <2>1. _offset <= size[cur] /\ \A x \in 0..(_offset - 1) : ReadByte(cur, x)
    BY DEF PrefixInv, SyncedPrefixRead
  <2> QED
    BY <1>2, <2>1
<1> QED
  BY <1>1, <1>3 DEF PrefixInv

LEMMA PrefixWriter ==
    ASSUME RotationOnly, IInv, PrefixInv, Writer
    PROVE  PrefixInv'
<1>0. TypeOK
  BY DEF IInv
<1>1. UNCHANGED <<_offset, _file_ino, reads, pc>>
  BY DEF Writer, WriterAppends, Rename, Unlink, Create, Truncate, agent, reader
<1>2. \A g, x : ReadByte(g, x) => ReadByte(g, x)'
  BY <1>1 DEF ReadByte
<1>3. CASE WriterAppends
  <2>1. InodeInv'
    BY <1>1, <1>3 DEF WriterAppends, PrefixInv, InodeInv
  <2>2. cur' = cur /\ ino' = ino /\ size'[cur] >= size[cur] /\ size[cur] \in Nat /\ size'[cur] \in Nat
    BY <1>0, <1>3 DEF WriterAppends, TypeOK, Gen
  <2>3. SyncedPrefixRead'
    <3> SUFFICES ASSUME cur # 0, _file_ino = ino[cur], pc \notin {"tell", "stat"}
                 PROVE  /\ _offset <= size'[cur]
                        /\ \A x \in 0..(_offset - 1) : ReadByte(cur, x)'
      BY <1>1, <2>2 DEF SyncedPrefixRead
    <3>1. _offset <= size[cur] /\ \A x \in 0..(_offset - 1) : ReadByte(cur, x)
      BY DEF PrefixInv, SyncedPrefixRead
    <3>2. _offset \in Int
      BY <1>0 DEF TypeOK
    <3> QED
      BY <1>2, <2>2, <3>1, <3>2
  <2> QED
    BY <2>1, <2>3 DEF PrefixInv
<1>4. CASE Rename
  BY <1>1, <1>4 DEF Rename, PrefixInv, InodeInv, SyncedPrefixRead
<1>5. CASE Create
  <2>1. PICK i \in Ino \ {ino[g] : g \in linked} : ino' = [ino EXCEPT ![born + 1] = i]
    BY <1>5 DEF Create
  <2>2. /\ born \in Nat /\ born' = born + 1 /\ cur' = born + 1
        /\ born + 1 \in Gen /\ 1..born \subseteq Gen
        /\ linked' = linked \cup {born + 1}
    BY <1>0, <1>5 DEF Create, TypeOK, Gen
  <2>3. i # 0 /\ ino'[born + 1] = i /\ \A g \in 1..born : ino'[g] = ino[g]
    BY <1>0, <2>1, <2>2 DEF TypeOK
  <2>4. /\ linked = 1..born
        /\ \A g \in 1..born : ino[g] # 0
        /\ _file_ino = 0 \/ \E g \in 1..born : _file_ino = ino[g]
    BY DEF PrefixInv, InodeInv
  <2>5. _file_ino # i
    BY <2>1, <2>3, <2>4
  <2>6. 1..(born + 1) = (1..born) \cup {born + 1}
    BY <2>2
  <2>7. InodeInv'
    <3>1. linked' = 1..born'
      BY <2>2, <2>4, <2>6
    <3>2. \A g \in 1..born' : ino'[g] # 0
      BY <2>2, <2>3, <2>4, <2>6
    <3>3. _file_ino' = 0 \/ \E g \in 1..born' : _file_ino' = ino'[g]
      BY <1>1, <2>2, <2>3, <2>4, <2>6
    <3> QED
      BY <1>1, <3>1, <3>2, <3>3 DEF PrefixInv, InodeInv
  <2>8. SyncedPrefixRead'
    BY <1>1, <2>2, <2>3, <2>5 DEF SyncedPrefixRead
  <2> QED
    BY <2>7, <2>8 DEF PrefixInv
<1> QED
  BY <1>3, <1>4, <1>5 DEF Writer, Unlink, Truncate, RotationOnly

LEMMA PrefixBringsChunk ==
    ASSUME IInv, PrefixInv, BringsChunk, pc \notin {"tell", "stat"}
    PROVE  PrefixInv'
<1>1. /\ Readable \in Nat /\ _offset \in Nat /\ _offset + Readable <= size[cur]
      /\ ChunkRead \in ChunkType /\ ChunkRead.gen = cur /\ ChunkRead.from = _offset
      /\ End(ChunkRead) = _offset + Readable
  BY ReadFacts DEF IInv, BringsChunk
<1>2. /\ reads \in Seq(ChunkType) /\ Len(reads) \in Nat
      /\ DOMAIN reads = 1..Len(reads)
      /\ DOMAIN reads' = 1..(Len(reads) + 1)
      /\ \A i \in 1..Len(reads) : reads'[i] = reads[i]
      /\ reads'[Len(reads) + 1] = ChunkRead
  BY <1>1, AppendFacts, LenProperties DEF IInv, TypeOK, BringsChunk
<1>3. /\ UNCHANGED <<cur, born, ino, size, linked, _file_ino>>
      /\ _offset' = _offset + Readable /\ pc' = "handle"
  BY DEF BringsChunk, env
<1>4. InodeInv'
  BY <1>3 DEF PrefixInv, InodeInv
<1>5. SyncedPrefixRead'
  <2> SUFFICES ASSUME cur # 0, _file_ino = ino[cur], NEW x \in 0..(_offset + Readable - 1)
               PROVE  ReadByte(cur, x)'
    BY <1>1, <1>3 DEF SyncedPrefixRead
  <2>1. CASE x < _offset
    <3>1. ReadByte(cur, x)
      BY <1>1, <2>1 DEF PrefixInv, SyncedPrefixRead
    <3>2. PICK i \in 1..Len(reads) : reads[i].gen = cur /\ reads[i].from <= x /\ x < End(reads[i])
      BY <1>2, <3>1 DEF ReadByte
    <3>3. i \in DOMAIN reads' /\ reads'[i] = reads[i]
      BY <1>2
    <3> QED
      BY <1>3, <3>2, <3>3 DEF ReadByte
  <2>2. CASE x >= _offset
    <3>1. Len(reads) + 1 \in DOMAIN reads'
      BY <1>2
    <3>2. ChunkRead.from <= x /\ x < End(ChunkRead)
      BY <1>1, <2>2
    <3> QED
      BY <1>1, <1>2, <1>3, <3>1, <3>2 DEF ReadByte
  <2> QED
    BY <1>1, <2>1, <2>2
<1> QED
  BY <1>4, <1>5 DEF PrefixInv

\* Where the reader sees an inode, it starts from 0.
LEMMA PrefixFromStart ==
    ASSUME IInv, PrefixInv, UNCHANGED env, _offset' = 0,
           _file_ino' = (IF cur = 0 THEN 0 ELSE ino[cur]),
           pc' = "loop"
    PROVE  PrefixInv'
<1>1. cur # 0 => cur \in 1..born /\ size[cur] \in Nat
  BY DEF IInv, TypeOK, Gen
<1>2. InodeInv'
  BY <1>1 DEF PrefixInv, InodeInv, env
<1>3. SyncedPrefixRead'
  BY <1>1 DEF SyncedPrefixRead, env
<1> QED
  BY <1>2, <1>3 DEF PrefixInv

LEMMA PrefixStep ==
    ASSUME RotationOnly, IInv, PrefixInv, [Next]_vars
    PROVE  PrefixInv'
<1>1. CASE Writer
  BY <1>1, PrefixWriter
<1>2. CASE FileReader_tell
  BY <1>2 DEF FileReader_tell, RotationOnly, PrefixInv, InodeInv, SyncedPrefixRead, env
<1>3. CASE FileReader_stat
  BY <1>3, PrefixFromStart DEF FileReader_stat, PrefixInv, InodeInv
<1>4. CASE FirstRead \/ SecondRead
  <2>1. pc \notin {"tell", "stat"}
    BY <1>4, ReadOutcome
  <2>2. CASE BringsChunk
    BY <2>1, <2>2, PrefixBringsChunk
  <2>3. CASE BringsNothing
    BY <2>1, <2>3, PrefixFrame DEF BringsNothing, env
  <2> QED
    BY <1>4, <2>2, <2>3, ReadOutcome
<1>5. CASE check_and_reset
  <2>1. CASE NewInode
    BY <1>5, <2>1, PrefixFromStart DEF check_and_reset, NewInode
  <2>2. CASE ~NewInode
    BY <1>5, <2>2, PrefixFrame DEF check_and_reset, env, reader
  <2> QED
    BY <2>1, <2>2
<1>6. CASE Retry \/ HandlerFails \/ HandlerAccepts
  BY <1>6, PrefixFrame DEF Retry, HandlerFails, HandlerAccepts, env, reader
<1>7. CASE UNCHANGED vars
  <2>1. UNCHANGED <<cur, born, ino, size, linked, _offset, _file_ino, reads, pc>>
    BY <1>7 DEF vars, env, reader
  <2> QED
    BY <2>1 DEF PrefixInv, SyncedPrefixRead, InodeInv, ReadByte
<1> QED
  BY <1>1, <1>2, <1>3, <1>4, <1>5, <1>6, <1>7 DEF Next, Agent, Returned

(***************************************************************************)
(* Once such a reader knows the inode of the file at the path, it has read *)
(* exactly what lies below its offset.                                     *)
(***************************************************************************)
THEOREM OffsetIsPrefix ==
    ASSUME RotationOnly
    PROVE  Spec => []SyncedPrefixRead
<1>1. Init => PrefixInv
  BY PrefixInit
<1>2. IInv /\ PrefixInv /\ [Next]_vars => PrefixInv'
  BY PrefixStep
<1>3. PrefixInv => SyncedPrefixRead
  BY DEF PrefixInv
<1> QED
  BY <1>1, <1>2, <1>3, IInvAlways, PTL DEF Spec
=============================================================================
