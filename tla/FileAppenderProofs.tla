------------------------- MODULE FileAppenderProofs -------------------------
(***************************************************************************)
(* Theorems about FileAppender, for any number of threads, any length of   *)
(* a day, any configurations and any time zone: every line is in one file, *)
(* once, none is lost between a rename and the open after it, no archive   *)
(* is removed too early, and an archive holds no line of a day later than  *)
(* its date, in UTC and while nothing goes astray.                         *)
(***************************************************************************)
EXTENDS FileAppender, FiniteSetTheorems, TLAPS

(***************************************************************************)
(* Days and dates.                                                         *)
(***************************************************************************)

\* Division with remainder.
LEMMA Division ==
    ASSUME NEW a \in Int, NEW d \in Nat \ {0}
    PROVE  /\ a \div d \in Int /\ a % d \in 0..(d - 1)
           /\ a = d * (a \div d) + (a % d)
  OBVIOUS

\* The quotient is the only one.
LEMMA Quotient ==
    ASSUME NEW d \in Nat \ {0}, NEW q \in Int, NEW r \in 0..(d - 1)
    PROVE  (d * q + r) \div d = q
  <1> DEFINE p == (d * q + r) \div d
             s == (d * q + r) % d
  <1>1. d * q \in Int
    OBVIOUS
  <1>2. p \in Int /\ s \in 0..(d - 1) /\ d * q + r = d * p + s
    BY <1>1, Division
  <1>3. d * (p - q) = r - s
    BY <1>2, SMT
  <1>4. ASSUME p - q >= 1 PROVE FALSE
    <2>1. d * (p - q) >= d
      BY <1>4, <1>2, SMT
    <2> QED
      BY <2>1, <1>3, <1>2
  <1>5. ASSUME p - q <= -1 PROVE FALSE
    <2>1. d * (p - q) <= -d
      BY <1>5, <1>2, SMT
    <2> QED
      BY <2>1, <1>3, <1>2
  <1> QED
    BY <1>2, <1>4, <1>5

\* A day is a number, and k days before x it is k days less.
LEMMA DayBack ==
    ASSUME NEW x \in Int, NEW k \in Int
    PROVE  Day(x) \in Int /\ Day(x - k * ONE_DAY_SECONDS) = Day(x) - k
  <1> DEFINE d == ONE_DAY_SECONDS
             q == x \div d
             r == x % d
  <1>1. d \in Nat \ {0}
    BY AppenderAssumption
  <1>2. q \in Int /\ r \in 0..(d - 1) /\ x = d * q + r
    BY <1>1, Division
  <1>3. x - k * d = d * (q - k) + r
    BY <1>1, <1>2, SMT
  <1>4. (d * (q - k) + r) \div d = q - k
    BY <1>1, <1>2, Quotient
  <1> QED
    BY <1>2, <1>3, <1>4 DEF Day

\* Days go on with the time.
LEMMA DayMonotone ==
    ASSUME NEW x \in Int, NEW y \in Int, x <= y
    PROVE  Day(x) <= Day(y)
  <1> DEFINE d == ONE_DAY_SECONDS
  <1>1. d \in Nat \ {0}
    BY AppenderAssumption
  <1>2. /\ Day(x) \in Int /\ x % d \in 0..(d - 1) /\ x = d * Day(x) + (x % d)
        /\ Day(y) \in Int /\ y % d \in 0..(d - 1) /\ y = d * Day(y) + (y % d)
    BY <1>1, Division DEF Day
  <1>3. ASSUME Day(x) - Day(y) >= 1 PROVE FALSE
    <2>1. d * (Day(x) - Day(y)) >= d
      BY <1>1, <1>2, <1>3, SMT
    <2>2. d * (Day(x) - Day(y)) = (x - y) + ((y % d) - (x % d))
      BY <1>1, <1>2, SMT
    <2> QED
      BY <1>1, <1>2, <2>1, <2>2
  <1> QED
    BY <1>2, <1>3

\* The names of archives.
Dates == Int \X (1..MonthDays)

\* A date stands for its day, and is not the name of the log.
LEMMA DateOfDay ==
    ASSUME NEW day \in Int
    PROVE  /\ Date(day) \in Dates
           /\ DayOf(Date(day)) = day
           /\ DayOf(<<Date(day)[1], Date(day)[2] - 1>>) = day - 1
  <1>1. MonthDays \in Nat \ {0}
    BY AppenderAssumption
  <1>2. /\ day \div MonthDays \in Int /\ day % MonthDays \in 0..(MonthDays - 1)
        /\ day = MonthDays * (day \div MonthDays) + (day % MonthDays)
    BY <1>1, Division
  <1>3. MonthDays * (day \div MonthDays) = (day \div MonthDays) * MonthDays
    BY <1>1, <1>2, SMT
  <1>4. (day % MonthDays) + 1 \in 1..MonthDays
    BY <1>1, <1>2
  <1>5. (day \div MonthDays) * MonthDays \in Int
    BY <1>1, <1>2, SMT
  <1>6. Date(day) \in Dates
    BY <1>2, <1>4 DEF Date, Dates
  <1>7. Date(day)[1] = day \div MonthDays /\ Date(day)[2] = (day % MonthDays) + 1
    BY DEF Date
  <1> HIDE DEF Date
  <1> QED
    BY <1>2, <1>3, <1>5, <1>6, <1>7 DEF DayOf

LEMMA LogIsNoDate == Log \notin Dates
  <1>1. \A n \in Dates : Len(n) = 2
    BY DEF Dates
  <1>2. Len(Log) = 1
    BY DEF Log
  <1> QED
    BY <1>1, <1>2

(***************************************************************************)
(* Types.                                                                  *)
(***************************************************************************)

Places == {"idle", "shift", "lock", "reopen", "unlock", "delete", "last", "write"}
Times  == {0} \cup Start..End

ClockInv ==
    /\ now \in Start..End /\ offset \in Int
    /\ last_sec \in Times
    /\ tv \in [Thread -> Times] /\ \A t \in Thread : tv[t] <= now

StateInv ==
    /\ retain_day \in Int
    /\ use_file_appender \in BOOLEAN /\ is_inited \in BOOLEAN /\ path \in BOOLEAN /\ is_open \in BOOLEAN
    /\ failed \in BOOLEAN /\ lost \in BOOLEAN /\ astray \in BOOLEAN
    /\ pc \in [Thread -> Places]
    /\ writelock \in Thread \cup {"none"}
    /\ writelock # "none" => pc[writelock] \in {"reopen", "unlock"}
    /\ lines \in Nat /\ gone \in Nat /\ dropped \in Nat

FilesInv ==
    /\ files \in [DOMAIN files -> Seq(Times)]
    /\ DOMAIN files \subseteq Dates \cup {Log}
    /\ is_open => Log \in DOMAIN files

TInv == ClockInv /\ StateInv /\ FilesInv

USE AppenderAssumption, ThreadAssumption

LEMMA TypeInit == Init => TInv
  <1> SUFFICES ASSUME Init PROVE TInv
    OBVIOUS
  <1>1. ClockInv
    BY DEF Init, ClockInv, Times
  <1>2. StateInv
    <2>1. pc \in [Thread -> Places]
      BY DEF Init, Places
    <2>2. retain_day \in Int
      BY DEF Init
    <2> QED
      BY <2>1, <2>2 DEF Init, StateInv
  <1>3. FilesInv
    BY DEF Init, FilesInv
  <1> QED
    BY <1>1, <1>2, <1>3 DEF TInv

\* The time goes on, and a thread takes it when it starts to log.
LEMMA ClockStep == ASSUME TInv, [Next]_vars PROVE ClockInv'
  <1> USE DEF TInv, ClockInv
  <1>1. CASE Tick
    <2>1. now' \in Start..End /\ now <= now'
      BY <1>1 DEF Tick
    <2>2. UNCHANGED <<offset, last_sec, tv>>
      BY <1>1 DEF Tick, threadVars
    <2>3. \A t \in Thread : tv[t] \in Int
      BY DEF Times
    <2> QED
      BY <2>1, <2>2, <2>3
  <1>2. CASE _check_config_file
    BY <1>2 DEF _check_config_file, threadVars
  <1>3. CASE init
    BY <1>3 DEF init, threadVars
  <1>4. ASSUME NEW t \in Thread, _log(t) PROVE ClockInv'
    <2>1. UNCHANGED <<now, offset, last_sec>> /\ tv' = [tv EXCEPT ![t] = now]
      BY <1>4 DEF _log, unchanged
    <2> QED
      BY <2>1 DEF Times
  <1>5. ASSUME NEW t \in Thread, Logs(t) PROVE ClockInv'
    <2>1. UNCHANGED <<now, offset, tv>> /\ last_sec' \in {last_sec, tv[t]}
      BY <1>5 DEF Logs, shift_file_if_need, Rename, Reopen, Unlock, delete_old_log, LastSec, write_log,
                  Written, Goes, unchanged
    <2> QED
      BY <2>1
  <1>6. CASE UNCHANGED vars
    BY <1>6 DEF vars
  <1> QED
    BY <1>1, <1>2, <1>3, <1>4, <1>5, <1>6 DEF Next

\* A thread that holds the lock is inside the critical section, whether or not
\* init has made it anew.
LEMMA StateStep == ASSUME TInv, [Next]_vars PROVE StateInv'
  <1> USE DEF TInv, StateInv
  <1>1. CASE Tick
    BY <1>1 DEF Tick, threadVars, configVars, goneHistory, dropHistory
  <1>2. CASE _check_config_file
    <2> PICK c \in Configs :
          /\ retain_day' \in (IF c.retain_day = {} THEN {retain_day} ELSE c.retain_day)
          /\ use_file_appender' = (use_file_appender \/ c.log_file)
      BY <1>2 DEF _check_config_file
    <2>1. c.retain_day \in SUBSET Int /\ c.log_file \in BOOLEAN
      BY ConfigsAssumption
    <2>2. retain_day' \in Int /\ use_file_appender' \in BOOLEAN
      BY <2>1
    <2>3. UNCHANGED <<is_inited, path, is_open, threadVars, writelock, goneHistory, dropHistory>>
      BY <1>2 DEF _check_config_file
    <2> QED
      BY <2>2, <2>3 DEF threadVars, goneHistory, dropHistory
  <1>3. CASE init
    <2>1. /\ is_inited' \in BOOLEAN /\ path' \in BOOLEAN /\ is_open' \in BOOLEAN /\ failed' \in BOOLEAN
          /\ writelock' \in {writelock, "none"}
          /\ UNCHANGED <<retain_day, use_file_appender, threadVars, goneHistory, dropped, lost>>
      BY <1>3 DEF init
    <2> QED
      BY <2>1 DEF threadVars, goneHistory
  <1>4. ASSUME NEW t \in Thread, _log(t) PROVE StateInv'
    <2>1. pc[t] = "idle" /\ pc' = [pc EXCEPT ![t] = "shift"] /\ lines' = lines + 1
      BY <1>4 DEF _log, Goes
    <2>2. UNCHANGED <<unchanged, is_open, writelock, goneHistory, dropHistory, astray>>
      BY <1>4 DEF _log
    <2>3. pc' \in [Thread -> Places]
      BY <2>1 DEF Places
    <2>4. lines' \in Nat
      BY <2>1
    <2>5. writelock' # "none" => pc'[writelock'] \in {"reopen", "unlock"}
      BY <2>1, <2>2
    <2> QED
      BY <2>2, <2>3, <2>4, <2>5 DEF unchanged, configVars, goneHistory, dropHistory
  <1>5. ASSUME NEW t \in Thread, Logs(t) PROVE StateInv'
    <2> USE <1>5 DEF Goes
    <2>1. \E to \in Places : pc' = [pc EXCEPT ![t] = to]
      BY DEF Logs, shift_file_if_need, Rename, Reopen, Unlock, delete_old_log, LastSec, write_log, Written, Places
    <2>2. UNCHANGED <<retain_day, use_file_appender, is_inited, path, lines>>
      BY DEF Logs, shift_file_if_need, Rename, Reopen, Unlock, delete_old_log, LastSec, write_log, Written,
             unchanged, configVars
    <2>3. astray' \in BOOLEAN
      BY DEF Logs, shift_file_if_need, Rename, Reopen, Unlock, delete_old_log, LastSec, write_log, Written
    <2>4. is_open' \in BOOLEAN
      BY DEF Logs, shift_file_if_need, Rename, Reopen, Unlock, delete_old_log, LastSec, write_log, Written, Close
    <2>5. failed' \in BOOLEAN /\ lost' \in BOOLEAN
      BY DEF Logs, shift_file_if_need, Rename, Reopen, Unlock, delete_old_log, LastSec, write_log, Written, dropHistory
    <2>6. dropped' \in Nat
      BY DEF Logs, shift_file_if_need, Rename, Reopen, Unlock, delete_old_log, LastSec, write_log, Written, dropHistory
    <2>7. gone' \in Nat
      <3>1. CASE delete_old_log(t) /\ OldFile(t) \in DOMAIN files
        <4>1. Len(files[OldFile(t)]) \in Nat
          BY <3>1 DEF FilesInv
        <4> QED
          BY <3>1, <4>1 DEF delete_old_log, goneHistory
      <3>2. CASE delete_old_log(t) /\ OldFile(t) \notin DOMAIN files
        BY <3>2 DEF delete_old_log, goneHistory
      <3> QED
        BY <3>1, <3>2 DEF Logs, shift_file_if_need, Rename, Reopen, Unlock, LastSec, write_log, Written, goneHistory
    <2>8. /\ writelock' \in Thread \cup {"none"}
          /\ writelock' # "none" => pc'[writelock'] \in {"reopen", "unlock"}
      <3>1. CASE Rename(t)
        BY <3>1 DEF Rename
      <3>2. CASE Reopen(t)
        BY <3>2 DEF Reopen
      <3>3. CASE Unlock(t)
        BY <3>3 DEF Unlock
      <3>4. CASE shift_file_if_need(t) \/ delete_old_log(t) \/ LastSec(t) \/ write_log(t)
        <4>1. pc[t] \notin {"reopen", "unlock"} /\ writelock' = writelock
          BY <3>4 DEF shift_file_if_need, delete_old_log, LastSec, write_log, Written
        <4> QED
          BY <4>1, <2>1
      <3> QED
        BY <3>1, <3>2, <3>3, <3>4 DEF Logs
    <2> QED
      BY <2>1, <2>2, <2>3, <2>4, <2>5, <2>6, <2>7, <2>8
  <1>6. CASE UNCHANGED vars
    BY <1>6 DEF vars
  <1> QED
    BY <1>1, <1>2, <1>3, <1>4, <1>5, <1>6 DEF Next

\* The archive is that of yesterday by the time of the thread; the old file, if
\* there is one, that of retain_day days ago and one.
LEMMA Names ==
    ASSUME TInv, NEW t \in Thread
    PROVE  /\ LocalDay(tv[t]) \in Int
           /\ Archive(t) = Date(LocalDay(tv[t]) - 1) /\ Archive(t) \in Dates
           /\ DayOf(Archive(t)) = LocalDay(tv[t]) - 1
           /\ DayOf(OldFile(t)) = LocalDay(tv[t]) - retain_day - 1
  <1>1. tv[t] \in Int /\ offset \in Int /\ retain_day \in Int /\ ONE_DAY_SECONDS \in Int
    BY DEF TInv, ClockInv, StateInv, Times
  <1> DEFINE x == tv[t] + offset
  <1>2. /\ Day(x) \in Int
        /\ Day(x - 1 * ONE_DAY_SECONDS) = Day(x) - 1
        /\ Day(x - retain_day * ONE_DAY_SECONDS) = Day(x) - retain_day
    <2>1. x \in Int /\ 1 \in Int
      BY <1>1
    <2> HIDE DEF x
    <2> QED
      BY <1>1, <2>1, DayBack
  <1>3. LocalDay(tv[t]) = Day(x)
    BY DEF LocalDay
  <1>4. LocalDay(tv[t] - ONE_DAY_SECONDS) = Day(x) - 1
    <2>1. tv[t] - ONE_DAY_SECONDS + offset = x - 1 * ONE_DAY_SECONDS
      BY <1>1
    <2> QED
      BY <2>1, <1>2 DEF LocalDay
  <1>5. LocalDay(tv[t] - retain_day * ONE_DAY_SECONDS) = Day(x) - retain_day
    <2>1. retain_day * ONE_DAY_SECONDS \in Int
      BY <1>1, SMT
    <2>2. tv[t] - retain_day * ONE_DAY_SECONDS + offset = x - retain_day * ONE_DAY_SECONDS
      BY <1>1, <2>1
    <2> QED
      BY <2>2, <1>2 DEF LocalDay
  <1>6. Archive(t) = Date(LocalDay(tv[t]) - 1)
    BY <1>3, <1>4 DEF Archive
  <1>7. OldFile(t) = <<Date(Day(x) - retain_day)[1], Date(Day(x) - retain_day)[2] - 1>>
    BY <1>5 DEF OldFile
  <1>8. Day(x) - 1 \in Int /\ Day(x) - retain_day \in Int
    BY <1>1, <1>2
  <1> HIDE DEF x
  <1>9. DayOf(OldFile(t)) = Day(x) - retain_day - 1
    BY <1>7, <1>8, DateOfDay
  <1>10. Archive(t) \in Dates /\ DayOf(Archive(t)) = Day(x) - 1
    BY <1>3, <1>6, <1>8, DateOfDay
  <1> QED
    BY <1>2, <1>3, <1>6, <1>9, <1>10

LEMMA OldFileIsNoLog == ASSUME NEW t PROVE OldFile(t) # Log
  <1>1. \A a, b : <<a, b>> # <<"log">>
    <2>1. \A a, b : Len(<<a, b>>) = 2 /\ Len(<<"log">>) = 1
      OBVIOUS
    <2> QED
      BY <2>1
  <1> QED
    BY <1>1 DEF OldFile, Log

\* What a step does to the directory.
LEMMA FilesChange ==
    ASSUME TInv, [Next]_vars
    PROVE  \/ files' = files
           \/ files' = Opens(files)
           \/ \E t \in Thread :
                 \/ /\ Rename(t) /\ path /\ Log \in DOMAIN files /\ Absent(t)
                    /\ files' = [n \in (DOMAIN files \cup {Archive(t)}) \ {Log} |->
                                    IF n = Archive(t) THEN files[Log] ELSE files[n]]
                 \/ /\ delete_old_log(t) /\ retain_day > 0 /\ OldFile(t) \in DOMAIN files
                    /\ files' = [n \in DOMAIN files \ {OldFile(t)} |-> files[n]]
                 \/ /\ write_log(t) /\ is_open
                    /\ files' = [files EXCEPT ![Log] = Append(@, tv[t])]
  <1>1. CASE Tick
    BY <1>1 DEF Tick
  <1>2. CASE _check_config_file
    BY <1>2 DEF _check_config_file
  <1>3. CASE init
    BY <1>3 DEF init
  <1>4. ASSUME NEW t \in Thread, _log(t) PROVE files' = files
    BY <1>4 DEF _log
  <1>5. ASSUME NEW t \in Thread, Rename(t)
        PROVE  \/ files' = files
               \/ /\ path /\ Log \in DOMAIN files /\ Absent(t)
                  /\ files' = [n \in (DOMAIN files \cup {Archive(t)}) \ {Log} |->
                                  IF n = Archive(t) THEN files[Log] ELSE files[n]]
    BY <1>5 DEF Rename
  <1>6. ASSUME NEW t \in Thread, Reopen(t) PROVE files' \in {files, Opens(files)}
    BY <1>6 DEF Reopen
  <1>7. ASSUME NEW t \in Thread, delete_old_log(t)
        PROVE  \/ files' = files
               \/ /\ retain_day > 0 /\ OldFile(t) \in DOMAIN files
                  /\ files' = [n \in DOMAIN files \ {OldFile(t)} |-> files[n]]
    BY <1>7 DEF delete_old_log
  <1>8. ASSUME NEW t \in Thread, write_log(t)
        PROVE  \/ files' = files
               \/ is_open /\ files' = [files EXCEPT ![Log] = Append(@, tv[t])]
    BY <1>8 DEF write_log, Written
  <1>9. ASSUME NEW t \in Thread, shift_file_if_need(t) \/ Unlock(t) \/ LastSec(t) PROVE files' = files
    BY <1>9 DEF shift_file_if_need, Unlock, LastSec
  <1>10. CASE UNCHANGED vars
    BY <1>10 DEF vars
  <1> QED
    BY <1>1, <1>2, <1>3, <1>4, <1>5, <1>6, <1>7, <1>8, <1>9, <1>10 DEF Next, Logs

\* While the file is open it is in the directory.
LEMMA OpenStep == ASSUME TInv, [Next]_vars PROVE is_open' => Log \in DOMAIN files'
  <1> USE DEF TInv, FilesInv
  <1>1. CASE Tick
    BY <1>1 DEF Tick
  <1>2. CASE _check_config_file
    BY <1>2 DEF _check_config_file
  <1>3. CASE init
    BY <1>3 DEF init, Opens
  <1>4. ASSUME NEW t \in Thread, _log(t) PROVE is_open' => Log \in DOMAIN files'
    BY <1>4 DEF _log
  <1>5. ASSUME NEW t \in Thread, Logs(t) PROVE is_open' => Log \in DOMAIN files'
    <2>1. CASE Rename(t)
      BY <2>1 DEF Rename, Close
    <2>2. CASE Reopen(t)
      BY <2>2 DEF Reopen, Opens
    <2>3. CASE delete_old_log(t)
      <3>1. CASE OldFile(t) \in DOMAIN files /\ retain_day > 0
        <4>1. Log # OldFile(t)
          BY OldFileIsNoLog
        <4>2. DOMAIN files' = DOMAIN files \ {OldFile(t)} /\ is_open' = is_open
          BY <2>3, <3>1 DEF delete_old_log
        <4> QED
          BY <4>1, <4>2
      <3> QED
        BY <2>3, <3>1 DEF delete_old_log
    <2>4. CASE write_log(t)
      <3>1. is_open' \in {is_open, FALSE} /\ DOMAIN files' = DOMAIN files
        BY <2>4 DEF write_log, Written
      <3> QED
        BY <3>1
    <2>5. CASE shift_file_if_need(t) \/ Unlock(t) \/ LastSec(t)
      BY <2>5 DEF shift_file_if_need, Unlock, LastSec
    <2> QED
      BY <1>5, <2>1, <2>2, <2>3, <2>4, <2>5 DEF Logs
  <1>6. CASE UNCHANGED vars
    BY <1>6 DEF vars
  <1> QED
    BY <1>1, <1>2, <1>3, <1>4, <1>5, <1>6 DEF Next

LEMMA FilesStep == ASSUME TInv, [Next]_vars PROVE FilesInv'
  <1>1. /\ files' \in [DOMAIN files' -> Seq(Times)]
        /\ DOMAIN files' \subseteq Dates \cup {Log}
    <2> USE DEF TInv, FilesInv
    <2>1. CASE files' = files
      BY <2>1
    <2>2. CASE files' = Opens(files)
      <3>1. <<>> \in Seq(Times)
        OBVIOUS
      <3> QED
        BY <2>2, <3>1 DEF Opens
    <2>3. ASSUME NEW t \in Thread, Log \in DOMAIN files,
                 files' = [n \in (DOMAIN files \cup {Archive(t)}) \ {Log} |->
                              IF n = Archive(t) THEN files[Log] ELSE files[n]]
          PROVE  <1>1!1 /\ <1>1!2
      BY <2>3, Names
    <2>4. ASSUME NEW t \in Thread, files' = [n \in DOMAIN files \ {OldFile(t)} |-> files[n]]
          PROVE  <1>1!1 /\ <1>1!2
      BY <2>4
    <2>5. ASSUME NEW t \in Thread, is_open, files' = [files EXCEPT ![Log] = Append(@, tv[t])]
          PROVE  <1>1!1 /\ <1>1!2
      <3>1. tv[t] \in Times /\ files[Log] \in Seq(Times)
        BY <2>5 DEF ClockInv
      <3>2. Append(files[Log], tv[t]) \in Seq(Times)
        BY <3>1
      <3> QED
        BY <2>5, <3>2
    <2> QED
      BY <2>1, <2>2, <2>3, <2>4, <2>5, FilesChange
  <1> QED
    BY <1>1, OpenStep DEF FilesInv

\* TypeOK, and the types it stands for.
THEOREM TypeCorrect == Spec => []TInv
  <1>1. TInv /\ [Next]_vars => TInv'
    BY ClockStep, StateStep, FilesStep DEF TInv
  <1> QED
    BY <1>1, TypeInit, PTL DEF Spec

LEMMA TypeImplied == TInv => TypeOK
  <1>1. ASSUME TInv, NEW n \in DOMAIN files \ {Log} PROVE n[2] \in 1..MonthDays
    <2>1. n \in Dates
      BY <1>1 DEF TInv, FilesInv
    <2> QED
      BY <2>1 DEF Dates
  <1> QED
    BY <1>1 DEF TInv, ClockInv, StateInv, FilesInv, TypeOK, Times

(***************************************************************************)
(* No line is lost between the rename and the open: unless an open or a    *)
(* write failed, or init met a thread, whoever is inside the critical      *)
(* section has the lock, and from init on the file is open or about to be  *)
(* opened by it.                                                           *)
(***************************************************************************)

LostInv ==
    /\ ~lost
    /\ path => is_inited
    /\ ~failed => \A t \in Thread : pc[t] \in {"reopen", "unlock"} => writelock = t
    /\ is_inited /\ ~failed => path /\ (is_open \/ \E t \in Thread : pc[t] = "reopen")

LEMMA LostStep == ASSUME TInv, LostInv, [Next]_vars PROVE LostInv'
  <1> USE DEF TInv, StateInv, LostInv
  <1>1. CASE Tick
    BY <1>1 DEF Tick, threadVars, configVars, dropHistory
  <1>2. CASE _check_config_file
    BY <1>2 DEF _check_config_file, threadVars, dropHistory
  <1>3. CASE init
    <2>1. is_inited' = TRUE /\ UNCHANGED <<lost, pc>>
      BY <1>3 DEF init, threadVars
    <2>2. ~failed' => ~failed /\ (\A t \in Thread : pc[t] = "idle") /\ path' = TRUE /\ is_open' = TRUE
      BY <1>3 DEF init
    <2> QED
      BY <2>1, <2>2
  <1>4. ASSUME NEW t \in Thread, _log(t) PROVE LostInv'
    <2>1. /\ pc[t] = "idle" /\ pc' = [pc EXCEPT ![t] = "shift"]
          /\ UNCHANGED <<is_inited, path, is_open, writelock, failed, lost>>
      BY <1>4 DEF _log, Goes, unchanged, configVars, dropHistory
    <2> QED
      BY <2>1
  <1>5. ASSUME NEW t \in Thread, Logs(t) PROVE LostInv'
    <2>1. UNCHANGED <<is_inited, path>>
      BY <1>5 DEF Logs, shift_file_if_need, Rename, Reopen, Unlock, delete_old_log, LastSec, write_log, Written,
                  unchanged, configVars
    <2>2. CASE Rename(t)
      <3>1. /\ pc[t] = "lock" /\ writelock = "none" /\ writelock' = t /\ UNCHANGED <<failed, lost>>
            /\ \/ pc' = [pc EXCEPT ![t] = "reopen"]
               \/ is_open' = is_open /\ pc' = [pc EXCEPT ![t] = "unlock"]
        BY <2>2 DEF Rename, Goes, dropHistory
      <3>2. ~failed => \A u \in Thread : pc[u] \notin {"reopen", "unlock"}
        BY <3>1
      <3> QED
        BY <2>1, <3>1, <3>2
    <2>3. CASE Reopen(t)
      <3>1. /\ pc[t] = "reopen" /\ pc' = [pc EXCEPT ![t] = "unlock"] /\ UNCHANGED <<writelock, lost>>
            /\ \/ is_open' = TRUE /\ failed' = failed
               \/ failed' = TRUE
        BY <2>3 DEF Reopen, Goes
      <3> QED
        BY <2>1, <3>1
    <2>4. CASE Unlock(t)
      <3>1. /\ pc[t] = "unlock" /\ pc' = [pc EXCEPT ![t] = "delete"] /\ UNCHANGED <<is_open, failed, lost>>
        BY <2>4 DEF Unlock, Goes, dropHistory
      <3>2. ~failed => \A u \in Thread : u # t => pc[u] \notin {"reopen", "unlock"}
        BY <3>1
      <3> QED
        BY <2>1, <3>1, <3>2
    <2>5. CASE write_log(t)
      <3>1. /\ pc[t] = "write" /\ writelock = "none" /\ pc' = [pc EXCEPT ![t] = "idle"]
            /\ writelock' = writelock
            /\ \/ is_open' = is_open /\ UNCHANGED <<failed, lost>>
               \/ /\ failed' = (failed \/ is_open)
                  /\ lost' = (lost \/ (is_inited /\ ~is_open /\ ~failed))
        BY <2>5 DEF write_log, Written, Goes, dropHistory
      <3>2. is_inited /\ ~failed => is_open
        BY <3>1
      <3> QED
        BY <2>1, <3>1, <3>2
    <2>6. CASE shift_file_if_need(t) \/ delete_old_log(t) \/ LastSec(t)
      <3>1. /\ pc[t] \in {"shift", "delete", "last"}
            /\ \E to \in {"write", "lock", "last"} : pc' = [pc EXCEPT ![t] = to]
            /\ UNCHANGED <<is_open, writelock, failed, lost>>
        BY <2>6 DEF shift_file_if_need, delete_old_log, LastSec, Goes, dropHistory
      <3> QED
        BY <2>1, <3>1
    <2> QED
      BY <1>5, <2>2, <2>3, <2>4, <2>5, <2>6 DEF Logs
  <1>6. CASE UNCHANGED vars
    BY <1>6 DEF vars
  <1> QED
    BY <1>1, <1>2, <1>3, <1>4, <1>5, <1>6 DEF Next

\* Once init has opened the file no line is dropped, unless an open or a write
\* failed: no thread meets the file closed by another.
THEOREM NoLineIsLost == Spec => []NoneLost
  <1>1. Init => LostInv
    BY DEF Init, LostInv
  <1>2. TInv /\ LostInv /\ [Next]_vars => LostInv'
    BY LostStep
  <1>3. LostInv => NoneLost
    BY DEF LostInv, NoneLost
  <1> QED
    BY <1>1, <1>2, <1>3, TypeCorrect, PTL DEF Spec

(***************************************************************************)
(* The archives of the last days are kept.                                 *)
(***************************************************************************)

\* The archive that a thread removes is older than retain_day days, for the
\* time the thread goes by has passed.
LEMMA RecentStep == ASSUME TInv, RecentKept, [Next]_vars PROVE RecentKept'
  <1>1. CASE removed' = removed
    BY <1>1 DEF RecentKept
  <1>2. ASSUME NEW t \in Thread, retain_day > 0,
               removed' = removed \cup
                 {[day |-> DayOf(OldFile(t)), today |-> LocalDay(now), retain |-> retain_day]}
        PROVE  RecentKept'
    <2>1. tv[t] \in Int /\ now \in Int /\ offset \in Int /\ retain_day \in Int /\ tv[t] <= now
      BY DEF TInv, ClockInv, StateInv, Times
    <2>2. LocalDay(tv[t]) \in Int /\ LocalDay(now) \in Int /\ LocalDay(tv[t]) <= LocalDay(now)
      <3>1. tv[t] + offset \in Int /\ now + offset \in Int /\ tv[t] + offset <= now + offset
        BY <2>1
      <3>2. \A x, y \in Int : Day(x) \in Int /\ (x <= y => Day(x) <= Day(y))
        BY DayBack, DayMonotone
      <3> QED
        BY <3>1, <3>2 DEF LocalDay
    <2>3. DayOf(OldFile(t)) = LocalDay(tv[t]) - retain_day - 1
      BY Names
    <2>4. DayOf(OldFile(t)) < LocalDay(now) - retain_day
      BY <2>1, <2>2, <2>3
    <2> QED
      BY <1>2, <2>4 DEF RecentKept
  <1> QED
    BY <1>1, <1>2 DEF Next, vars, Tick, _check_config_file, init, _log, Logs, shift_file_if_need, Rename, Reopen, Unlock,
                      delete_old_log, LastSec, write_log, Written, goneHistory

\* No archive of the last retain_day days is removed, of whatever thread and
\* however long after it took the time.
THEOREM RecentArchivesAreKept == Spec => []RecentKept
  <1>1. Init => RecentKept
    BY DEF Init, RecentKept
  <1>2. TInv /\ RecentKept /\ [Next]_vars => RecentKept'
    BY RecentStep
  <1> QED
    BY <1>1, <1>2, TypeCorrect, PTL DEF Spec

(***************************************************************************)
(* Lines are neither lost nor doubled.                                     *)
(***************************************************************************)

Busy == {t \in Thread : pc[t] # "idle"}

LinesInv ==
    /\ IsFiniteSet(InFiles) /\ IsFiniteSet(Busy)
    /\ lines = Cardinality(InFiles) + gone + dropped + Cardinality(Busy)

\* The places of the lines of one file are as many as its lines.
LEMMA PlacesInFile ==
    ASSUME NEW n, NEW s \in Seq(Times)
    PROVE  IsFiniteSet({n} \X DOMAIN s) /\ Cardinality({n} \X DOMAIN s) = Len(s)
  <1>1. DOMAIN s = 1..Len(s) /\ Len(s) \in Nat
    OBVIOUS
  <1>2. IsFiniteSet(DOMAIN s) /\ Cardinality(DOMAIN s) = Len(s)
    <2>1. IsFiniteSet(1..Len(s)) /\ Cardinality(1..Len(s)) = IF 1 > Len(s) THEN 0 ELSE Len(s) - 1 + 1
      BY <1>1, FS_Interval
    <2> QED
      BY <1>1, <2>1
  <1>3. IsFiniteSet({n}) /\ Cardinality({n}) = 1
    BY FS_Singleton
  <1>4. IsFiniteSet({n} \X DOMAIN s) /\ Cardinality({n} \X DOMAIN s) = Cardinality({n}) * Cardinality(DOMAIN s)
    BY <1>2, <1>3, FS_Product
  <1> QED
    BY <1>1, <1>2, <1>3, <1>4

LEMMA DisjointUnion ==
    ASSUME NEW S, NEW T, IsFiniteSet(S), IsFiniteSet(T), S \cap T = {}
    PROVE  IsFiniteSet(S \cup T) /\ Cardinality(S \cup T) = Cardinality(S) + Cardinality(T)
  <1>1. Cardinality(S \cap T) = 0
    BY FS_EmptySet
  <1>2. Cardinality(S) \in Nat /\ Cardinality(T) \in Nat
    BY FS_CardinalityType
  <1> QED
    BY <1>1, <1>2, FS_Union

\* What a step does to the lines that are in files and on their way there.
LEMMA RenameKeepsLines ==
    ASSUME TInv, NEW t \in Thread, Log \in DOMAIN files, Absent(t), IsFiniteSet(InFiles),
           files' = [n \in (DOMAIN files \cup {Archive(t)}) \ {Log} |->
                        IF n = Archive(t) THEN files[Log] ELSE files[n]]
    PROVE  IsFiniteSet(InFiles') /\ Cardinality(InFiles') = Cardinality(InFiles)
  <1> DEFINE A == Archive(t)
             Rest == UNION {{n} \X DOMAIN files[n] : n \in DOMAIN files \ {Log}}
             Old  == {Log} \X DOMAIN files[Log]
             New  == {A} \X DOMAIN files[Log]
  <1>1. A # Log /\ A \notin DOMAIN files
    BY Names, LogIsNoDate DEF Absent
  <1>2. InFiles = Rest \cup Old /\ Rest \cap Old = {}
    BY DEF InFiles
  <1>3. InFiles' = Rest \cup New /\ Rest \cap New = {}
    <2>1. DOMAIN files' = (DOMAIN files \ {Log}) \cup {A}
      BY <1>1
    <2>2. files'[A] = files[Log] /\ \A n \in DOMAIN files \ {Log} : files'[n] = files[n]
      BY <1>1
    <2> HIDE DEF A
    <2> QED
      BY <1>1, <2>1, <2>2 DEF InFiles
  <1>4. files[Log] \in Seq(Times)
    BY DEF TInv, FilesInv
  <1>5. IsFiniteSet(Old) /\ IsFiniteSet(New) /\ Cardinality(Old) = Cardinality(New)
    BY <1>4, PlacesInFile
  <1>6. IsFiniteSet(Rest)
    <2>1. Rest \in SUBSET InFiles
      BY <1>2
    <2> QED
      BY <2>1, FS_Subset
  <1> HIDE DEF Rest, Old, New
  <1> QED
    BY <1>2, <1>3, <1>5, <1>6, DisjointUnion

LEMMA DeleteCountsLines ==
    ASSUME TInv, NEW n \in DOMAIN files, IsFiniteSet(InFiles),
           files' = [m \in DOMAIN files \ {n} |-> files[m]]
    PROVE  IsFiniteSet(InFiles') /\ Cardinality(InFiles) = Cardinality(InFiles') + Len(files[n])
  <1> DEFINE Old == {n} \X DOMAIN files[n]
  <1>1. files[n] \in Seq(Times)
    BY DEF TInv, FilesInv
  <1>2. IsFiniteSet(Old) /\ Cardinality(Old) = Len(files[n])
    BY <1>1, PlacesInFile
  <1>3. InFiles' = UNION {{m} \X DOMAIN files[m] : m \in DOMAIN files \ {n}}
    BY DEF InFiles
  <1>4. InFiles = InFiles' \cup Old /\ InFiles' \cap Old = {}
    BY <1>3 DEF InFiles
  <1>5. IsFiniteSet(InFiles')
    <2>1. InFiles' \in SUBSET InFiles
      BY <1>4
    <2> QED
      BY <2>1, FS_Subset
  <1> HIDE DEF Old, InFiles
  <1> QED
    BY <1>2, <1>4, <1>5, DisjointUnion

LEMMA AppendAddsLine ==
    ASSUME TInv, NEW x \in Times, Log \in DOMAIN files, IsFiniteSet(InFiles),
           files' = [files EXCEPT ![Log] = Append(@, x)]
    PROVE  IsFiniteSet(InFiles') /\ Cardinality(InFiles') = Cardinality(InFiles) + 1
  <1> DEFINE s == files[Log]
             p == <<Log, Len(s) + 1>>
  <1>1. s \in Seq(Times)
    BY DEF TInv, FilesInv
  <1>2. Len(s) \in Nat /\ DOMAIN s = 1..Len(s) /\ DOMAIN Append(s, x) = DOMAIN s \cup {Len(s) + 1} /\ Len(s) + 1 \notin DOMAIN s
    BY <1>1
  <1>3. DOMAIN files' = DOMAIN files /\ files'[Log] = Append(s, x) /\ \A n \in DOMAIN files \ {Log} : files'[n] = files[n]
    OBVIOUS
  <1>4. InFiles' = InFiles \cup {p} /\ p \notin InFiles
    BY <1>2, <1>3 DEF InFiles
  <1> HIDE DEF InFiles, p
  <1> QED
    BY <1>4, FS_AddElement

LEMMA OpensAddsNoLine ==
    ASSUME files' = Opens(files)
    PROVE  InFiles' = InFiles
  <1>1. DOMAIN <<>> = {}
    OBVIOUS
  <1>2. DOMAIN files' = DOMAIN files \cup {Log} /\ \A n \in DOMAIN files : files'[n] = files[n]
    BY DEF Opens
  <1>3. Log \notin DOMAIN files => files'[Log] = <<>>
    BY DEF Opens
  <1> QED
    BY <1>1, <1>2, <1>3 DEF InFiles

LEMMA LinesStep == ASSUME TInv, LinesInv, [Next]_vars PROVE LinesInv'
  <1> USE DEF LinesInv
  <1>0. /\ Cardinality(InFiles) \in Nat /\ Cardinality(Busy) \in Nat
        /\ lines \in Nat /\ gone \in Nat /\ dropped \in Nat /\ pc \in [Thread -> Places]
    BY FS_CardinalityType DEF TInv, StateInv
  <1>1. ASSUME InFiles' = InFiles, UNCHANGED <<lines, gone, dropped>>, Busy' = Busy
        PROVE  LinesInv'
    BY <1>1
  <1>2. ASSUME NEW t \in Thread, NEW to \in Places, pc[t] # "idle", to # "idle", pc' = [pc EXCEPT ![t] = to]
        PROVE  Busy' = Busy
    BY <1>0, <1>2 DEF Busy
  <1>3. files' = files => InFiles' = InFiles
    BY DEF InFiles
  <1>4. pc' = pc => Busy' = Busy
    BY DEF Busy
  <1> HIDE DEF InFiles, Busy
  <1>5. CASE Tick
    BY <1>1, <1>3, <1>4, <1>5 DEF Tick, threadVars, goneHistory, dropHistory
  <1>6. CASE _check_config_file
    BY <1>1, <1>3, <1>4, <1>6 DEF _check_config_file, threadVars, goneHistory, dropHistory
  <1>7. CASE init
    <2>1. InFiles' = InFiles
      BY <1>3, <1>7, OpensAddsNoLine DEF init
    <2> QED
      BY <1>1, <1>4, <1>7, <2>1 DEF init, threadVars, goneHistory
  <1>8. ASSUME NEW t \in Thread, _log(t) PROVE LinesInv'
    <2>1. /\ pc[t] = "idle" /\ pc' = [pc EXCEPT ![t] = "shift"] /\ lines' = lines + 1
          /\ UNCHANGED <<files, gone, dropped>>
      BY <1>8 DEF _log, Goes, goneHistory, dropHistory
    <2>2. Busy' = Busy \cup {t} /\ t \notin Busy
      BY <1>0, <2>1 DEF Busy
    <2>3. IsFiniteSet(Busy') /\ Cardinality(Busy') = Cardinality(Busy) + 1
      BY <2>2, FS_AddElement
    <2> QED
      BY <1>0, <1>3, <2>1, <2>3
  <1>9. ASSUME NEW t \in Thread, shift_file_if_need(t) \/ Reopen(t) \/ Unlock(t) \/ LastSec(t) PROVE LinesInv'
    <2>1. \E to \in Places \ {"idle"} : pc[t] # "idle" /\ pc' = [pc EXCEPT ![t] = to]
      BY <1>9 DEF shift_file_if_need, Reopen, Unlock, LastSec, Goes, Places
    <2>2. InFiles' = InFiles
      BY <1>3, <1>9, OpensAddsNoLine DEF shift_file_if_need, Reopen, Unlock, LastSec
    <2>3. UNCHANGED <<lines, gone, dropped>>
      BY <1>9 DEF shift_file_if_need, Reopen, Unlock, LastSec, goneHistory, dropHistory
    <2> QED
      BY <1>1, <1>2, <2>1, <2>2, <2>3
  <1>10. ASSUME NEW t \in Thread, Rename(t) PROVE LinesInv'
    <2>1. \E to \in Places \ {"idle"} : pc[t] # "idle" /\ pc' = [pc EXCEPT ![t] = to]
      BY <1>10 DEF Rename, Goes, Places
    <2>2. Busy' = Busy
      BY <1>2, <2>1
    <2>3. UNCHANGED <<lines, gone, dropped>>
      BY <1>10 DEF Rename, goneHistory, dropHistory
    <2>4. CASE files' = files
      BY <1>1, <1>3, <2>2, <2>3, <2>4
    <2>5. CASE files' # files
      <3>1. IsFiniteSet(InFiles') /\ Cardinality(InFiles') = Cardinality(InFiles)
        BY <1>10, <2>5, RenameKeepsLines DEF Rename
      <3> QED
        BY <2>2, <2>3, <3>1
    <2> QED
      BY <2>4, <2>5
  <1>11. ASSUME NEW t \in Thread, delete_old_log(t) PROVE LinesInv'
    <2>1. \E to \in Places \ {"idle"} : pc[t] # "idle" /\ pc' = [pc EXCEPT ![t] = to]
      BY <1>11 DEF delete_old_log, Goes, Places
    <2>2. Busy' = Busy
      BY <1>2, <2>1
    <2>3. UNCHANGED <<lines, dropped>>
      BY <1>11 DEF delete_old_log, dropHistory
    <2>4. CASE retain_day > 0 /\ OldFile(t) \in DOMAIN files
      <3>1. /\ files' = [n \in DOMAIN files \ {OldFile(t)} |-> files[n]]
            /\ gone' = gone + Len(files[OldFile(t)])
        BY <1>11, <2>4 DEF delete_old_log
      <3>2. IsFiniteSet(InFiles') /\ Cardinality(InFiles) = Cardinality(InFiles') + Len(files[OldFile(t)])
        BY <2>4, <3>1, DeleteCountsLines
      <3>3. Len(files[OldFile(t)]) \in Nat
        BY <2>4 DEF TInv, FilesInv
      <3>4. Cardinality(InFiles') \in Nat
        BY <3>2, FS_CardinalityType
      <3> QED
        BY <1>0, <2>2, <2>3, <3>1, <3>2, <3>3, <3>4
    <2>5. CASE ~(retain_day > 0 /\ OldFile(t) \in DOMAIN files)
      BY <1>1, <1>3, <1>11, <2>2, <2>3, <2>5 DEF delete_old_log, goneHistory
    <2> QED
      BY <2>4, <2>5
  <1>12. ASSUME NEW t \in Thread, write_log(t) PROVE LinesInv'
    <2>1. pc[t] = "write" /\ pc' = [pc EXCEPT ![t] = "idle"] /\ UNCHANGED <<lines, gone>>
      BY <1>12 DEF write_log, Written, Goes, goneHistory
    <2>2. Busy' = Busy \ {t} /\ t \in Busy
      BY <1>0, <2>1 DEF Busy
    <2>3. IsFiniteSet(Busy') /\ Cardinality(Busy') = Cardinality(Busy) - 1
      BY <2>2, FS_RemoveElement
    <2>4. CASE is_open /\ files' = [files EXCEPT ![Log] = Append(@, tv[t])] /\ dropped' = dropped
      <3>1. files' = [files EXCEPT ![Log] = Append(@, tv[t])] /\ dropped' = dropped
        BY <2>4
      <3>2. tv[t] \in Times /\ Log \in DOMAIN files
        BY <2>4 DEF TInv, ClockInv, FilesInv
      <3>3. IsFiniteSet(InFiles') /\ Cardinality(InFiles') = Cardinality(InFiles) + 1
        BY <3>1, <3>2, AppendAddsLine
      <3> QED
        BY <1>0, <2>1, <2>3, <3>1, <3>3
    <2>5. CASE files' = files /\ dropped' = dropped + 1
      <3>1. files' = files /\ dropped' = dropped + 1
        BY <2>5
      <3> QED
        BY <1>0, <1>3, <2>1, <2>3, <3>1
    <2> QED
      BY <1>12, <2>4, <2>5 DEF write_log, Written, dropHistory
  <1>13. CASE UNCHANGED vars
    BY <1>1, <1>3, <1>4, <1>13 DEF vars
  <1> QED
    BY <1>5, <1>6, <1>7, <1>8, <1>9, <1>10, <1>11, <1>12, <1>13 DEF Next, Logs

LEMMA LinesInit == Init => LinesInv
  <1> SUFFICES ASSUME Init PROVE LinesInv
    OBVIOUS
  <1>1. InFiles = {} /\ Busy = {}
    BY DEF Init, InFiles, Busy
  <1>2. lines = 0 /\ gone = 0 /\ dropped = 0
    BY DEF Init
  <1> QED
    BY <1>1, <1>2, FS_EmptySet DEF LinesInv

\* The file and the lock cohere; every line that was logged is in one file,
\* once, went with an archive that was removed, or found no file open; and
\* none of these was lost.
THEOREM EachLineIsKept == Spec => []Safe
  <1>1. TInv /\ LinesInv /\ [Next]_vars => LinesInv'
    BY LinesStep
  <1>2. TInv /\ LinesInv /\ NoneLost => Safe
    BY TypeImplied DEF LinesInv, LinesKept, Busy, Safe
  <1> QED
    BY <1>1, <1>2, LinesInit, TypeCorrect, NoLineIsLost, PTL DEF Spec

(***************************************************************************)
(* Archives hold no later lines.                                           *)
(*                                                                         *)
(* A thread that is at "lock" has decided to shift by a _last_sec it read  *)
(* before.  Since then another thread may have made the archive, and a     *)
(* third may have removed it; but who removes it goes by a later day, so   *)
(* that the day of the first is over when it comes to the lock.            *)
(***************************************************************************)

\* A later day than d has come for _last_sec, or for a thread that shifts.
Over(d) ==
    \/ d < Day(last_sec)
    \/ \E u \in Thread : pc[u] \in Shifting /\ d < Day(tv[u])

\* The file was shifted on day d: there is the archive, or day d is over.
Shifted(d) == Date(d - 1) \in DOMAIN files \/ Over(d)

\* Where a thread of day d = Day(tv[t]) is, what it may rely on.
PlaceInv(t) ==
    /\ pc[t] # "idle" => tv[t] # 0
    /\ pc[t] \notin {"idle", "shift"} => last_sec # 0
    /\ pc[t] = "lock" => Day(last_sec) < Day(tv[t]) \/ Shifted(Day(tv[t]))
    /\ pc[t] = "reopen" /\ path => Shifted(Day(tv[t]))
    /\ pc[t] \in {"unlock", "delete"} => Shifted(Day(tv[t]))
    /\ pc[t] = "last" => Day(last_sec) = Day(tv[t]) \/ Shifted(Day(tv[t]))
    /\ pc[t] = "write" => Day(tv[t]) <= Day(last_sec)

\* The lines of the log are of the day of _last_sec or before, those of an
\* archive of its date or before.
FileDays ==
    /\ Log \in DOMAIN files => \A k \in DOMAIN files[Log] : Day(files[Log][k]) <= Day(last_sec)
    /\ \A n \in DOMAIN files \ {Log} : \A k \in DOMAIN files[n] : Day(files[n][k]) <= DayOf(n)

DateInv == offset = 0 /\ ~astray /\ ~failed => FileDays /\ \A t \in Thread : PlaceInv(t)

LEMMA DayTypes ==
    ASSUME TInv
    PROVE  /\ Day(last_sec) \in Nat
           /\ \A t \in Thread : Day(tv[t]) \in Nat
           /\ \A x \in Times : Day(x) \in Nat
           /\ Day(0) = 0
           /\ offset = 0 => \A x \in Int : LocalDay(x) = Day(x)
  <1>1. Day(0) = 0
    <2>1. ONE_DAY_SECONDS * 0 + 0 = 0 /\ ONE_DAY_SECONDS \in Nat \ {0} /\ 0 \in 0..(ONE_DAY_SECONDS - 1)
      OBVIOUS
    <2> QED
      BY <2>1, Quotient DEF Day
  <1>2. ASSUME NEW x \in Times PROVE Day(x) \in Nat
    <2>1. x \in Int /\ 0 \in Int /\ 0 <= x
      BY DEF Times
    <2>2. Day(x) \in Int /\ Day(0) <= Day(x)
      BY <2>1, DayBack, DayMonotone
    <2> QED
      BY <1>1, <2>2
  <1>3. last_sec \in Times /\ \A t \in Thread : tv[t] \in Times
    BY DEF TInv, ClockInv
  <1>4. offset = 0 => \A x \in Int : LocalDay(x) = Day(x)
    BY DEF LocalDay
  <1> QED
    BY <1>1, <1>2, <1>3, <1>4

\* What a step does to the places, to the times of the threads and to
\* _last_sec: a thread sets it when it leaves "last", or when it is 0.
LEMMA PlaceChange ==
    ASSUME TInv, [Next]_vars
    PROVE  /\ astray => astray'
           /\ failed => failed'
           /\ offset' = offset
           /\ \/ UNCHANGED <<last_sec, pc, tv>>
              \/ \E t \in Thread :
                    /\ pc[t] = "idle" /\ pc' = [pc EXCEPT ![t] = "shift"]
                    /\ last_sec' = last_sec /\ \A u \in Thread : u # t => tv'[u] = tv[u]
              \/ \E t \in Thread :
                    /\ tv' = tv /\ Logs(t)
                    /\ \/ /\ pc[t] = "last" /\ last_sec' = tv[t] /\ pc' = [pc EXCEPT ![t] = "write"]
                          /\ Day(tv[t]) < Day(last_sec) => astray'
                       \/ /\ last_sec = 0 /\ last_sec' = tv[t] /\ pc' = [pc EXCEPT ![t] = "write"]
                          /\ pc[t] = "shift"
                       \/ /\ last_sec' = last_sec
                          /\ \E to \in Places : pc' = [pc EXCEPT ![t] = to] /\ (pc[t] \in Shifting => to \in Shifting)
  <1>1. CASE Tick
    BY <1>1 DEF Tick, threadVars, dropHistory
  <1>2. CASE _check_config_file
    BY <1>2 DEF _check_config_file, threadVars, dropHistory
  <1>3. CASE init
    BY <1>3 DEF init, threadVars
  <1>4. ASSUME NEW t \in Thread, _log(t)
        PROVE  /\ pc[t] = "idle" /\ pc' = [pc EXCEPT ![t] = "shift"]
               /\ last_sec' = last_sec /\ \A u \in Thread : u # t => tv'[u] = tv[u]
               /\ UNCHANGED <<astray, failed, offset>>
    BY <1>4 DEF _log, Goes, unchanged, dropHistory, TInv, ClockInv
  <1>5. ASSUME NEW t \in Thread, Logs(t)
        PROVE  (astray => astray') /\ (failed => failed') /\ offset' = offset /\ tv' = tv
    <2>1. offset' = offset /\ tv' = tv
      BY <1>5 DEF Logs, shift_file_if_need, Rename, Reopen, Unlock, delete_old_log, LastSec, write_log, Written, unchanged
    <2>2. astray => astray'
      BY <1>5 DEF Logs, shift_file_if_need, Rename, Reopen, Unlock, delete_old_log, LastSec, write_log, Written
    <2>3. failed => failed'
      BY <1>5 DEF Logs, shift_file_if_need, Rename, Reopen, Unlock, delete_old_log, LastSec, write_log, Written, dropHistory
    <2> QED
      BY <2>1, <2>2, <2>3
  <1>6. ASSUME NEW t \in Thread, LastSec(t)
        PROVE  /\ pc[t] = "last" /\ last_sec' = tv[t] /\ pc' = [pc EXCEPT ![t] = "write"]
               /\ Day(tv[t]) < Day(last_sec) => astray'
    BY <1>6 DEF LastSec, Goes
  <1>7. ASSUME NEW t \in Thread, shift_file_if_need(t)
        PROVE  \/ /\ last_sec = 0 /\ last_sec' = tv[t] /\ pc' = [pc EXCEPT ![t] = "write"]
                  /\ pc[t] = "shift"
               \/ /\ last_sec' = last_sec
                  /\ \E to \in Places : pc' = [pc EXCEPT ![t] = to] /\ (pc[t] \in Shifting => to \in Shifting)
    BY <1>7 DEF shift_file_if_need, Goes, Places, Shifting
  <1>8. ASSUME NEW t \in Thread, Rename(t) \/ Reopen(t) \/ Unlock(t) \/ delete_old_log(t) \/ write_log(t)
        PROVE  /\ last_sec' = last_sec
               /\ \E to \in Places : pc' = [pc EXCEPT ![t] = to] /\ (pc[t] \in Shifting => to \in Shifting)
    <2>1. last_sec' = last_sec
      BY <1>8 DEF Rename, Reopen, Unlock, delete_old_log, write_log, Written
    <2>2. CASE Rename(t)
      BY <2>1, <2>2 DEF Rename, Goes, Places, Shifting
    <2>3. CASE ~Rename(t)
      BY <1>8, <2>1, <2>3 DEF Reopen, Unlock, delete_old_log, write_log, Written, Goes, Places, Shifting
    <2> QED
      BY <2>2, <2>3
  <1>9. CASE UNCHANGED vars
    BY <1>9 DEF vars
  <1>10. ASSUME NEW t \in Thread, Logs(t)
         PROVE  \/ /\ pc[t] = "last" /\ last_sec' = tv[t] /\ pc' = [pc EXCEPT ![t] = "write"]
                   /\ Day(tv[t]) < Day(last_sec) => astray'
                \/ /\ last_sec = 0 /\ last_sec' = tv[t] /\ pc' = [pc EXCEPT ![t] = "write"]
                   /\ pc[t] = "shift"
                \/ /\ last_sec' = last_sec
                   /\ \E to \in Places : pc' = [pc EXCEPT ![t] = to] /\ (pc[t] \in Shifting => to \in Shifting)
    BY <1>6, <1>7, <1>8, <1>10 DEF Logs
  <1> QED
    BY <1>1, <1>2, <1>3, <1>4, <1>5, <1>9, <1>10 DEF Next

\* A day that is over stays over, unless a thread goes by a day before.
LEMMA OverStays ==
    ASSUME TInv, [Next]_vars, ~astray', NEW d \in Int, Over(d)
    PROVE  Over(d)'
  <1>0. /\ Day(last_sec) \in Nat /\ (\A t \in Thread : Day(tv[t]) \in Nat)
        /\ Day(0) = 0 /\ pc \in [Thread -> Places]
    BY DayTypes DEF TInv, StateInv
  <1>1. CASE d < Day(last_sec)
    <2>1. Day(last_sec) <= Day(last_sec')
      BY <1>0, PlaceChange
    <2>2. Day(last_sec') \in Int
      BY <1>0, PlaceChange
    <2> QED
      BY <1>0, <1>1, <2>1, <2>2 DEF Over
  <1>2. ASSUME NEW u \in Thread, pc[u] \in Shifting, d < Day(tv[u])
        PROVE  Over(d)'
    <2>1. pc[u] # "idle" /\ pc[u] # "shift"
      BY <1>2 DEF Shifting
    <2>2. tv'[u] = tv[u] /\ (pc'[u] \in Shifting \/ last_sec' = tv[u])
      BY <1>0, <1>2, <2>1, PlaceChange
    <2> QED
      BY <1>2, <2>2 DEF Over
  <1> QED
    BY <1>1, <1>2 DEF Over

LEMMA LastSecGoesOn ==
    ASSUME TInv, [Next]_vars, ~astray'
    PROVE  Day(last_sec') \in Nat /\ Day(last_sec) <= Day(last_sec')
  <1>0. /\ Day(last_sec) \in Nat /\ (\A t \in Thread : Day(tv[t]) \in Nat) /\ Day(0) = 0
    BY DayTypes
  <1> QED
    BY <1>0, PlaceChange

\* The archive of a day is there until that day is over: the thread that
\* removes it goes by a day at least retain_day later.
LEMMA ShiftedStays ==
    ASSUME TInv, [Next]_vars, offset = 0, ~astray', NEW d \in Int, Shifted(d)
    PROVE  Shifted(d)'
  <1>1. CASE Over(d)
    BY <1>1, OverStays DEF Shifted
  <1>2. CASE Date(d - 1) \in DOMAIN files
    <2>1. Date(d - 1) # Log /\ DayOf(Date(d - 1)) = d - 1
      <3>1. d - 1 \in Int
        OBVIOUS
      <3>2. Date(d - 1) \in Dates /\ DayOf(Date(d - 1)) = d - 1
        BY <3>1, DateOfDay
      <3> QED
        BY <3>2, LogIsNoDate
    <2> DEFINE A == Date(d - 1)
    <2> HIDE DEF A
    <2>2. CASE files' = files
      BY <1>2, <2>2 DEF Shifted
    <2>3. CASE files' = Opens(files)
      BY <1>2, <2>3 DEF Shifted, Opens
    <2>4. ASSUME NEW t \in Thread,
                 files' = [n \in (DOMAIN files \cup {Archive(t)}) \ {Log} |->
                              IF n = Archive(t) THEN files[Log] ELSE files[n]]
          PROVE  Shifted(d)'
      BY <1>2, <2>1, <2>4 DEF Shifted
    <2>5. ASSUME NEW t \in Thread, delete_old_log(t), retain_day > 0,
                 files' = [n \in DOMAIN files \ {OldFile(t)} |-> files[n]]
          PROVE  Shifted(d)'
      <3>1. CASE OldFile(t) # Date(d - 1)
        BY <1>2, <2>5, <3>1 DEF Shifted
      <3>2. CASE OldFile(t) = Date(d - 1)
        <4>1. LocalDay(tv[t]) = Day(tv[t]) /\ Day(tv[t]) \in Nat
          BY DayTypes DEF TInv, ClockInv, Times
        <4>2. d - 1 = Day(tv[t]) - retain_day - 1
          BY <2>1, <3>2, <4>1, Names
        <4>3. d < Day(tv[t])
          BY <2>5, <4>1, <4>2 DEF TInv, StateInv
        <4>4. pc[t] \in Shifting
          BY <2>5 DEF delete_old_log, Shifting
        <4>5. Over(d)
          BY <4>3, <4>4 DEF Over
        <4> QED
          BY <4>5, OverStays DEF Shifted
      <3> QED
        BY <3>1, <3>2
    <2>6. ASSUME NEW t \in Thread, files' = [files EXCEPT ![Log] = Append(@, tv[t])]
          PROVE  Shifted(d)'
      BY <1>2, <2>6 DEF Shifted
    <2> QED
      BY <2>2, <2>3, <2>4, <2>5, <2>6, FilesChange
  <1> QED
    BY <1>1, <1>2 DEF Shifted

\* Who renames the file goes by a later day than that of any line in it.
LEMMA RenameTime ==
    ASSUME TInv, offset = 0, NEW t \in Thread, Rename(t), Absent(t), ~astray', PlaceInv(t)
    PROVE  Day(last_sec) < Day(tv[t]) /\ DayOf(Archive(t)) = Day(tv[t]) - 1
  <1>1. LocalDay(tv[t]) = Day(tv[t]) /\ Day(tv[t]) \in Nat
    BY DayTypes DEF TInv, ClockInv, Times
  <1>2. Archive(t) = Date(Day(tv[t]) - 1) /\ DayOf(Archive(t)) = Day(tv[t]) - 1
    BY <1>1, Names
  <1>3. ~Over(Day(tv[t]))
    BY DEF Rename, Late, Over
  <1>4. ~Shifted(Day(tv[t]))
    BY <1>2, <1>3 DEF Shifted, Absent
  <1> QED
    BY <1>2, <1>4 DEF PlaceInv, Rename

LEMMA FileDaysStep ==
    ASSUME TInv, [Next]_vars, offset = 0, ~astray', FileDays, \A t \in Thread : PlaceInv(t)
    PROVE  FileDays'
  <1>0. /\ Day(last_sec') \in Nat /\ Day(last_sec) \in Nat /\ Day(last_sec) <= Day(last_sec')
        /\ \A n \in DOMAIN files : files[n] \in Seq(Times)
        /\ \A x \in Times : Day(x) \in Nat
    BY DayTypes, LastSecGoesOn DEF TInv, FilesInv
  <1>1. \A n \in DOMAIN files : \A k \in DOMAIN files[n] : files[n][k] \in Times
    BY <1>0
  <1>2. CASE files' = files
    BY <1>0, <1>1, <1>2 DEF FileDays
  <1>3. CASE files' = Opens(files)
    <2>1. DOMAIN files' = DOMAIN files \cup {Log} /\ \A n \in DOMAIN files : files'[n] = files[n]
      BY <1>3 DEF Opens
    <2>2. Log \notin DOMAIN files => DOMAIN files'[Log] = {}
      <3>1. DOMAIN <<>> = {}
        OBVIOUS
      <3> QED
        BY <1>3, <3>1 DEF Opens
    <2> QED
      BY <1>0, <1>1, <2>1, <2>2 DEF FileDays
  <1>4. ASSUME NEW t \in Thread, Rename(t), Log \in DOMAIN files, Absent(t),
               files' = [n \in (DOMAIN files \cup {Archive(t)}) \ {Log} |->
                            IF n = Archive(t) THEN files[Log] ELSE files[n]]
        PROVE  FileDays'
    <2> DEFINE A == Archive(t)
    <2>1. Day(last_sec) < Day(tv[t]) /\ DayOf(A) = Day(tv[t]) - 1 /\ Day(tv[t]) \in Nat
      BY <1>4, RenameTime, DayTypes
    <2>2. \A k \in DOMAIN files[Log] : Day(files[Log][k]) <= DayOf(A)
      BY <1>0, <1>1, <1>4, <2>1 DEF FileDays
    <2>3. /\ DOMAIN files' = (DOMAIN files \cup {A}) \ {Log}
          /\ A \in DOMAIN files' => files'[A] = files[Log]
          /\ \A n \in DOMAIN files' \ {A} : n \in DOMAIN files /\ files'[n] = files[n]
      BY <1>4
    <2> HIDE DEF A
    <2> QED
      BY <2>2, <2>3 DEF FileDays
  <1>5. ASSUME NEW t \in Thread, files' = [n \in DOMAIN files \ {OldFile(t)} |-> files[n]]
        PROVE  FileDays'
    <2>1. /\ DOMAIN files' = DOMAIN files \ {OldFile(t)}
          /\ \A n \in DOMAIN files' : files'[n] = files[n]
      BY <1>5
    <2> QED
      BY <1>0, <1>1, <2>1 DEF FileDays
  <1>6. ASSUME NEW t \in Thread, write_log(t), is_open, files' = [files EXCEPT ![Log] = Append(@, tv[t])]
        PROVE  FileDays'
    <2>1. Day(tv[t]) \in Nat /\ Day(tv[t]) <= Day(last_sec)
      BY <1>6, DayTypes DEF PlaceInv, write_log
    <2>2. Log \in DOMAIN files /\ tv[t] \in Times
      BY <1>6 DEF TInv, FilesInv, ClockInv
    <2>3. /\ DOMAIN files' = DOMAIN files /\ files'[Log] = Append(files[Log], tv[t])
          /\ \A n \in DOMAIN files \ {Log} : files'[n] = files[n]
      BY <1>6, <2>2
    <2>4. \A k \in DOMAIN files'[Log] : files'[Log][k] = tv[t] \/ (k \in DOMAIN files[Log] /\ files'[Log][k] = files[Log][k])
      BY <1>0, <2>2, <2>3
    <2>5. \A k \in DOMAIN files'[Log] : Day(files'[Log][k]) <= Day(last_sec')
      BY <1>0, <1>1, <2>1, <2>2, <2>4 DEF FileDays
    <2> QED
      BY <2>3, <2>5 DEF FileDays
  <1> QED
    BY <1>2, <1>3, <1>4, <1>5, <1>6, FilesChange

\* What a thread relies on holds on while other threads step.
LEMMA OthersKeep ==
    ASSUME TInv, [Next]_vars, offset = 0, ~astray', \A t \in Thread : PlaceInv(t),
           NEW u \in Thread, pc'[u] = pc[u], pc[u] = "idle" \/ tv'[u] = tv[u],
           pc[u] # "reopen" \/ path' = path
    PROVE  PlaceInv(u)'
  <1>1. CASE pc[u] \in {"idle", "shift"}
    BY <1>1 DEF PlaceInv
  <1>2. CASE pc[u] \notin {"idle", "shift"}
    <2>0. \E d \in Int : d = Day(tv[u])
      BY DayTypes
    <2> PICK d \in Int : d = Day(tv[u])
      BY <2>0
    <2>1. Day(last_sec) \in Nat /\ Day(last_sec') \in Nat /\ Day(last_sec) <= Day(last_sec')
      BY DayTypes, LastSecGoesOn
    <2>2. last_sec # 0 /\ tv[u] # 0 /\ tv'[u] = tv[u]
      BY <1>2 DEF PlaceInv
    <2>3. last_sec' # 0
      <3>2. CASE last_sec' = last_sec
        BY <2>2, <3>2
      <3>3. ASSUME NEW t \in Thread, last_sec' = tv[t], pc[t] = "last" PROVE last_sec' # 0
        BY <3>3 DEF PlaceInv
      <3> QED
        BY <2>2, <3>2, <3>3, PlaceChange
    <2>4. Shifted(d) => Shifted(d)'
      BY <2>1, ShiftedStays
    <2>5. d < Day(last_sec') => Shifted(d)'
      BY <2>2 DEF Shifted, Over
    <2>6. pc[u] = "lock" /\ Day(last_sec) < d => Day(last_sec') < d \/ Shifted(d)'
      <3>1. CASE last_sec' = last_sec
        BY <3>1
      <3>2. ASSUME NEW t \in Thread, last_sec' = tv[t], pc[t] = "last", Day(last_sec) < d, Day(tv[t]) = d
            PROVE  Shifted(d)'
        <4>1. Shifted(d)
          BY <2>1, <3>2 DEF PlaceInv
        <4> QED
          BY <2>4, <4>1
      <3> QED
        BY <2>1, <2>2, <2>5, <3>1, <3>2, PlaceChange
    <2>7. Day(last_sec) = d => Day(last_sec') = d \/ Shifted(d)'
      BY <2>1, <2>5
    <2>8. /\ pc[u] = "lock" => Day(last_sec) < d \/ Shifted(d)
          /\ pc[u] = "reopen" /\ path => Shifted(d)
          /\ pc[u] \in {"unlock", "delete"} => Shifted(d)
          /\ pc[u] = "last" => Day(last_sec) = d \/ Shifted(d)
          /\ pc[u] = "write" => d <= Day(last_sec)
      BY DEF PlaceInv
    <2>9. /\ pc'[u] = "lock" => Day(last_sec') < d \/ Shifted(d)'
          /\ pc'[u] = "reopen" /\ path' => Shifted(d)'
          /\ pc'[u] \in {"unlock", "delete"} => Shifted(d)'
          /\ pc'[u] = "last" => Day(last_sec') = d \/ Shifted(d)'
          /\ pc'[u] = "write" => d <= Day(last_sec')
      BY <2>1, <2>4, <2>6, <2>7, <2>8
    <2> QED
      BY <2>2, <2>3, <2>9 DEF PlaceInv
  <1> QED
    BY <1>1, <1>2

\* What the thread that steps relies on next.
LEMMA OwnPlace ==
    ASSUME TInv, LostInv, [Next]_vars, offset = 0, ~astray', ~failed', \A t \in Thread : PlaceInv(t),
           NEW t \in Thread, Logs(t)
    PROVE  PlaceInv(t)'
  <1> PICK d \in Int : d = Day(tv[t])
    BY DayTypes
  <1>0. /\ Day(last_sec) \in Nat /\ pc \in [Thread -> Places] /\ PlaceInv(t) /\ tv' = tv /\ ~failed
        /\ path' = path
    <2>1. path' = path
      BY DEF Logs, shift_file_if_need, Rename, Reopen, Unlock, delete_old_log, LastSec, write_log, Written,
             unchanged, configVars
    <2>2. tv' = tv
      BY DEF Logs, shift_file_if_need, Rename, Reopen, Unlock, delete_old_log, LastSec, write_log, Written
    <2>3. failed => failed'
      BY PlaceChange
    <2> QED
      BY <2>1, <2>2, <2>3, DayTypes DEF TInv, StateInv
  <1>1. Shifted(d) => Shifted(d)'
    BY ShiftedStays
  <1>2. CASE shift_file_if_need(t)
    <2>1. pc[t] = "shift" /\ tv[t] # 0
      BY <1>0, <1>2 DEF shift_file_if_need, PlaceInv
    <2>2. CASE last_sec = 0
      <3>1. last_sec' = tv[t] /\ pc'[t] = "write"
        BY <1>0, <1>2, <2>2 DEF shift_file_if_need, Goes
      <3> QED
        BY <1>0, <2>1, <3>1 DEF PlaceInv
    <2>3. CASE last_sec # 0
      <3>1. last_sec' = last_sec /\ pc'[t] = IF d # Day(last_sec) THEN "lock" ELSE "last"
        BY <1>0, <1>2, <2>3 DEF shift_file_if_need, Goes
      <3>2. ~(d < Day(last_sec))
        BY <1>2 DEF shift_file_if_need
      <3> QED
        BY <1>0, <2>1, <2>3, <3>1, <3>2 DEF PlaceInv
    <2> QED
      BY <2>2, <2>3
  <1>3. CASE Rename(t)
    <2>1. last_sec' = last_sec /\ pc[t] = "lock" /\ last_sec # 0 /\ tv[t] # 0
      BY <1>0, <1>3 DEF Rename, PlaceInv
    <2>2. LocalDay(tv[t]) = Day(tv[t])
      BY DayTypes DEF TInv, ClockInv, Times
    <2>3. Archive(t) = Date(d - 1) /\ Archive(t) # Log
      BY <2>2, Names, LogIsNoDate
    <2>4. CASE ~Absent(t)
      <3>1. pc'[t] = "unlock" /\ Shifted(d)
        BY <1>0, <1>3, <2>3, <2>4 DEF Rename, Goes, Absent, Shifted
      <3> QED
        BY <1>0, <1>1, <2>1, <3>1 DEF PlaceInv
    <2>5. CASE Absent(t)
      <3>1. pc'[t] = "reopen"
        BY <1>0, <1>3, <2>5 DEF Rename, Goes
      <3>2. path => Shifted(d)'
        <4>1. Archive(t) \in DOMAIN files'
          BY <1>3, <2>3, <2>5 DEF Rename
        <4> QED
          BY <2>3, <4>1 DEF Shifted
      <3> QED
        BY <1>0, <2>1, <3>1, <3>2 DEF PlaceInv
    <2> QED
      BY <2>4, <2>5
  <1>4. CASE Reopen(t)
    <2>1. pc[t] = "reopen" /\ pc'[t] = "unlock" /\ last_sec' = last_sec /\ path
      BY <1>0, <1>4 DEF Reopen, Goes
    <2> QED
      BY <1>0, <1>1, <2>1 DEF PlaceInv
  <1>5. CASE Unlock(t)
    <2>1. pc[t] = "unlock" /\ pc'[t] = "delete" /\ last_sec' = last_sec
      BY <1>0, <1>5 DEF Unlock, Goes
    <2> QED
      BY <1>0, <1>1, <2>1 DEF PlaceInv
  <1>6. CASE delete_old_log(t)
    <2>1. pc[t] = "delete" /\ pc'[t] = "last" /\ last_sec' = last_sec
      BY <1>0, <1>6 DEF delete_old_log, Goes
    <2> QED
      BY <1>0, <1>1, <2>1 DEF PlaceInv
  <1>7. CASE LastSec(t)
    <2>1. pc[t] = "last" /\ pc'[t] = "write" /\ last_sec' = tv[t]
      BY <1>0, <1>7 DEF LastSec, Goes
    <2> QED
      BY <1>0, <2>1 DEF PlaceInv
  <1>8. CASE write_log(t)
    <2>1. pc'[t] = "idle"
      BY <1>0, <1>8 DEF write_log, Written, Goes
    <2> QED
      BY <2>1 DEF PlaceInv
  <1> QED
    BY <1>2, <1>3, <1>4, <1>5, <1>6, <1>7, <1>8 DEF Logs

LEMMA DateStep == ASSUME TInv, LostInv, DateInv, [Next]_vars PROVE DateInv'
  <1> SUFFICES ASSUME offset' = 0, ~astray', ~failed'
               PROVE  FileDays' /\ \A t \in Thread : PlaceInv(t)'
    BY DEF DateInv
  <1>1. offset = 0 /\ ~astray /\ ~failed
    BY PlaceChange
  <1>2. FileDays /\ \A t \in Thread : PlaceInv(t)
    BY <1>1 DEF DateInv
  <1>3. FileDays'
    BY <1>1, <1>2, FileDaysStep
  <1>4. ASSUME NEW u \in Thread PROVE PlaceInv(u)'
    <2>0. pc \in [Thread -> Places] /\ tv \in [Thread -> Times]
      BY DEF TInv, StateInv, ClockInv
    <2>1. ASSUME UNCHANGED <<pc, tv, path>> PROVE PlaceInv(u)'
      BY <1>1, <1>2, <2>1, OthersKeep
    <2>2. CASE Tick
      BY <2>1, <2>2 DEF Tick, threadVars, configVars
    <2>3. CASE _check_config_file
      BY <2>1, <2>3 DEF _check_config_file, threadVars
    <2>4. CASE init
      <3>1. pc[u] = "idle" /\ UNCHANGED <<pc, tv>>
        BY <2>4 DEF init, threadVars
      <3> QED
        BY <3>1 DEF PlaceInv
    <2>5. ASSUME NEW t \in Thread, _log(t) PROVE PlaceInv(u)'
      <3>1. /\ pc[t] = "idle" /\ pc' = [pc EXCEPT ![t] = "shift"] /\ tv' = [tv EXCEPT ![t] = now]
            /\ path' = path
        BY <2>5 DEF _log, Goes, unchanged, configVars
      <3>2. CASE u = t
        <4>1. pc'[u] = "shift" /\ tv'[u] # 0
          BY <2>0, <3>1, <3>2 DEF TInv, ClockInv
        <4> QED
          BY <4>1 DEF PlaceInv
      <3>3. CASE u # t
        BY <1>1, <1>2, <2>0, <3>1, <3>3, OthersKeep
      <3> QED
        BY <3>2, <3>3
    <2>6. ASSUME NEW t \in Thread, Logs(t) PROVE PlaceInv(u)'
      <3>1. CASE u = t
        BY <1>1, <1>2, <2>6, <3>1, OwnPlace
      <3>2. CASE u # t
        <4>1. path' = path
          BY <2>6 DEF Logs, shift_file_if_need, Rename, Reopen, Unlock, delete_old_log, LastSec, write_log, Written,
                      unchanged, configVars
        <4>2. tv' = tv
          BY <2>6 DEF Logs, shift_file_if_need, Rename, Reopen, Unlock, delete_old_log, LastSec, write_log, Written
        <4>3. pc'[u] = pc[u]
          BY <2>0, <2>6, <3>2 DEF Logs, shift_file_if_need, Rename, Reopen, Unlock, delete_old_log, LastSec, write_log,
                                  Written, Goes
        <4> QED
          BY <1>1, <1>2, <4>1, <4>2, <4>3, OthersKeep
      <3> QED
        BY <3>1, <3>2
    <2>7. CASE UNCHANGED vars
      BY <2>1, <2>7 DEF vars
    <2> QED
      BY <2>2, <2>3, <2>4, <2>5, <2>6, <2>7 DEF Next
  <1> QED
    BY <1>3, <1>4

\* An archive holds no line of a day after its date, while the time zone is
\* UTC, no thread went by a day that was over for another, and no open, write
\* or rename failed.  It says nothing of earlier days: after a day without a
\* line, lines of the day before that go to the archive of yesterday.
THEOREM ArchivesHoldNoLaterLines == Spec => []ArchivedByDate
  <1>1. Init => LostInv
    BY DEF Init, LostInv
  <1>2. Init => DateInv
    BY DEF Init, DateInv, FileDays, PlaceInv
  <1>3. TInv /\ LostInv /\ [Next]_vars => LostInv'
    BY LostStep
  <1>4. TInv /\ LostInv /\ DateInv /\ [Next]_vars => DateInv'
    BY DateStep
  <1>5. TInv /\ DateInv => ArchivedByDate
    <2> SUFFICES ASSUME TInv, DateInv, offset = 0, ~astray, ~failed,
                        NEW n \in DOMAIN files \ {Log}, NEW k \in DOMAIN files[n]
                 PROVE  LocalDay(files[n][k]) <= DayOf(n)
      BY DEF ArchivedByDate
    <2>1. Day(files[n][k]) <= DayOf(n)
      BY DEF DateInv, FileDays
    <2>2. files[n][k] + offset = files[n][k]
      <3>1. files[n] \in Seq(Times)
        BY DEF TInv, FilesInv
      <3>2. files[n][k] \in Times
        BY <3>1
      <3> QED
        BY <3>2 DEF Times
    <2> QED
      BY <2>1, <2>2 DEF LocalDay
  <1> QED
    BY <1>1, <1>2, <1>3, <1>4, <1>5, TypeCorrect, PTL DEF Spec

=============================================================================
