---------------------------- MODULE FileAppender -----------------------------
(***************************************************************************)
(* The log of ehttp (simple_log.cpp), written by any thread and reloaded   *)
(* by a signal.  At the first line of a new day the file becomes the       *)
(* archive of the day before, and one old archive is removed.  writelock   *)
(* guards the file; _last_sec is read and written without it, and every    *)
(* thread goes by the time it took before.                                 *)
(*                                                                         *)
(* External: the clock, the file system (mkdir, open, rename and writes may *)
(* fail) and the configuration file, of which the user sends reloads.      *)
(***************************************************************************)
EXTENDS Integers, Sequences, FiniteSets

CONSTANTS
    Thread,
    Configs,            \* contents of the file: log_level, retain_day ({} if not
                        \* given), whether there is a log_file
    ONE_DAY_SECONDS,    \* 86400
    MonthDays,          \* days of a month
    Start, End,         \* bound: the time goes from Start to End
    Offsets,            \* local time minus UTC
    MaxLines,           \* bound: lines logged
    MaxReloads          \* bound: reloads

ASSUME AppenderAssumption ==
    /\ ONE_DAY_SECONDS \in Nat \ {0} /\ MonthDays \in Nat \ {0}
    /\ Start \in Nat \ {0} /\ End \in Nat /\ Start <= End
    /\ Offsets \subseteq Int

ASSUME ThreadAssumption == "none" \notin Thread

ASSUME ConfigsAssumption == Configs \subseteq [log_level : Int, retain_day : SUBSET Int, log_file : BOOLEAN]

VARIABLES
    now, offset,        \* the time, and the time zone
    log_level, retain_day, use_file_appender, is_inited,
    path,               \* _log_file_path is set
    is_open,            \* _fs is open and good: what is written arrives
    last_sec,           \* _last_sec
    writelock,          \* the thread that holds it, or "none"
    pc, tv,             \* where each thread is, and the time it took
    reload,             \* "init": a reload is about to call init
    files,              \* the directory: name, Log or the date of an archive,
                        \* to the times of its lines
    lines,              \* history: lines logged so far
    reloads,            \* history: reloads so far
    removed,            \* history: the days of what delete_old_log removed, and when
    gone,               \* history: number of lines it removed
    dropped,            \* history: number of lines that did not arrive
    failed,             \* history: an open or a write failed, or a thread logged
                        \* before init was over
    lost,               \* history: a line was dropped although that had not happened
    astray              \* history: a thread went by a day that was over for another,
                        \* or a rename failed

vars == <<now, offset, log_level, retain_day, use_file_appender, is_inited, path, is_open, last_sec,
          writelock, pc, tv, reload, files, lines, reloads, removed, gone, dropped, failed, lost, astray>>

\* _log_file_path, as the name of a file beside the dates of archives.
Log == <<"log">>

configVars  == <<log_level, retain_day, use_file_appender, is_inited, path, reload, reloads>>
threadVars  == <<last_sec, pc, tv, lines, astray>>
dropHistory == <<dropped, failed, lost>>
goneHistory == <<removed, gone>>

Init ==
    /\ now = Start /\ offset \in Offsets
    /\ log_level = 4 /\ retain_day = -1 /\ use_file_appender = FALSE /\ is_inited = FALSE
    /\ path = FALSE /\ is_open = FALSE
    /\ last_sec = 0 /\ writelock = "none"
    /\ pc = [t \in Thread |-> "idle"] /\ tv = [t \in Thread |-> 0]
    /\ reload = "idle" /\ reloads = 0
    /\ files = [n \in {} |-> <<>>]
    /\ lines = 0 /\ removed = {} /\ gone = 0 /\ dropped = 0
    /\ failed = FALSE /\ lost = FALSE /\ astray = FALSE

Tick ==
    /\ now < End /\ now' = now + 1
    /\ UNCHANGED <<offset, configVars, threadVars, is_open, writelock, files, goneHistory, dropHistory>>

-----------------------------------------------------------------------------
(* Dates.                                                                  *)

Day(t) == t \div ONE_DAY_SECONDS
LocalDay(t) == Day(t + offset)

\* localtime: month and day of the month.
Date(day) == <<day \div MonthDays, (day % MonthDays) + 1>>
DayOf(date) == date[1] * MonthDays + date[2] - 1

-----------------------------------------------------------------------------
(* _check_config_file, at log_init and at every SIGUSR1.                   *)

_check_config_file ==
    /\ reload = "idle" /\ reloads < MaxReloads
    /\ reloads' = reloads + 1
    /\ \E c \in Configs :
          /\ log_level' = c.log_level
          /\ retain_day' \in (IF c.retain_day = {} THEN {retain_day} ELSE c.retain_day)
          /\ use_file_appender' = (use_file_appender \/ c.log_file)
          /\ reload' = IF c.log_file /\ ~is_inited THEN "init" ELSE "idle"
    /\ UNCHANGED <<now, offset, is_inited, path, is_open, threadVars, writelock, files, goneHistory, dropHistory>>

\* The file is opened for appending, and created if need be.
Opens(fs) == [n \in DOMAIN fs \cup {Log} |-> IF n \in DOMAIN fs THEN fs[n] ELSE <<>>]

\* Whether mkdir and open succeed or not, this was the only try.  Threads may
\* log before it, and one may hold the lock that is initialised here.
init ==
    /\ reload = "init"
    /\ reload' = "idle"
    /\ is_inited' = TRUE
    /\ \/ path' = TRUE /\ is_open' = TRUE /\ files' = Opens(files) /\ failed' = (failed \/ \E t \in Thread : pc[t] # "idle")
       \/ path' \in BOOLEAN /\ failed' = TRUE /\ UNCHANGED <<is_open, files>>
    /\ writelock' \in {writelock, "none"}
    /\ UNCHANGED <<now, offset, log_level, retain_day, use_file_appender, threadVars, reloads, goneHistory, dropped, lost>>

-----------------------------------------------------------------------------
(* A line is logged.                                                       *)

\* t goes by a day that was over for _last_sec, or for a thread that shifts the
\* file and has yet to set it.
Shifting == {"reopen", "unlock", "delete", "last"}
Late(t) ==
    \/ Day(tv[t]) < Day(last_sec)
    \/ \E u \in Thread : pc[u] \in Shifting /\ Day(tv[t]) < Day(tv[u])

Goes(t, to) == pc' = [pc EXCEPT ![t] = to]
unchanged == <<now, offset, configVars>>

\* log_error and the others, and gettimeofday in _log.
_log(t) ==
    /\ pc[t] = "idle" /\ lines < MaxLines
    /\ use_file_appender
    /\ \E level \in 1..4 : level <= log_level
    /\ lines' = lines + 1
    /\ tv' = [tv EXCEPT ![t] = now]
    /\ Goes(t, "shift")
    /\ UNCHANGED <<unchanged, is_open, last_sec, writelock, files, goneHistory, dropHistory, astray>>

\* The days are those of UTC: gettimeofday gives no tz_minuteswest on Linux.
shift_file_if_need(t) ==
    /\ pc[t] = "shift"
    /\ IF last_sec = 0
       THEN last_sec' = tv[t] /\ Goes(t, "write")
       ELSE UNCHANGED last_sec /\ Goes(t, IF Day(tv[t]) # Day(last_sec) THEN "lock" ELSE "last")
    /\ astray' = (astray \/ Day(tv[t]) < Day(last_sec))
    /\ UNCHANGED <<unchanged, tv, lines, is_open, writelock, files, goneHistory, dropHistory>>

\* mutant: the archive is named after the day before the last line
Archive_OfLast(t) == Date(LocalDay(last_sec - ONE_DAY_SECONDS))

\* Yesterday, by the time of the thread.
Archive(t) == Date(LocalDay(tv[t] - ONE_DAY_SECONDS))

\* mutant: an archive of that date is replaced
Absent_Never(t) == TRUE

Absent(t) == Archive(t) \notin DOMAIN files

Close == is_open' = FALSE

\* Under the lock: the file becomes the archive of yesterday, if that is
\* absent, or stays where rename fails; _fs is then closed, and opened again
\* in Reopen.
Rename(t) ==
    /\ pc[t] = "lock" /\ writelock = "none"
    /\ writelock' = t
    /\ IF Absent(t)
       THEN /\ \/ /\ path /\ Log \in DOMAIN files
                  /\ files' = [n \in (DOMAIN files \cup {Archive(t)}) \ {Log} |->
                                  IF n = Archive(t) THEN files[Log] ELSE files[n]]
                  /\ astray' = (astray \/ Late(t))
               \/ astray' = TRUE /\ UNCHANGED files
            /\ Close
            /\ Goes(t, "reopen")
       ELSE /\ astray' = (astray \/ Late(t))
            /\ Goes(t, "unlock")
            /\ UNCHANGED <<files, is_open>>
    /\ UNCHANGED <<unchanged, last_sec, tv, lines, goneHistory, dropHistory>>

\* Opening what is open, as init may leave it in between, is a failure too.
Reopen(t) ==
    /\ pc[t] = "reopen"
    /\ \/ path /\ ~is_open /\ is_open' = TRUE /\ files' = Opens(files) /\ UNCHANGED failed
       \/ is_open' = FALSE /\ failed' = TRUE /\ UNCHANGED files
    /\ Goes(t, "unlock")
    /\ UNCHANGED <<unchanged, last_sec, tv, lines, writelock, goneHistory, dropped, lost, astray>>

Unlock(t) ==
    /\ pc[t] = "unlock"
    /\ writelock' = "none"
    /\ Goes(t, "delete")
    /\ UNCHANGED <<unchanged, last_sec, tv, lines, is_open, files, goneHistory, dropHistory, astray>>

\* mutant: the day of the month is not counted back
OldFile_SameDay(t) == Date(LocalDay(tv[t] - retain_day * ONE_DAY_SECONDS))

\* The day before that of retain_day days ago; before the first of a month
\* there is the day 0, of which there is no archive.
OldFile(t) == LET date == Date(LocalDay(tv[t] - retain_day * ONE_DAY_SECONDS)) IN <<date[1], date[2] - 1>>

delete_old_log(t) ==
    /\ pc[t] = "delete"
    /\ IF retain_day > 0 /\ OldFile(t) \in DOMAIN files
       THEN /\ files' = [n \in DOMAIN files \ {OldFile(t)} |-> files[n]]
            /\ removed' = removed \cup
                 {[day |-> DayOf(OldFile(t)), today |-> LocalDay(now), retain |-> retain_day]}
            /\ gone' = gone + Len(files[OldFile(t)])
       ELSE UNCHANGED <<files, goneHistory>>
    /\ Goes(t, "last")
    /\ UNCHANGED <<unchanged, last_sec, tv, lines, is_open, writelock, dropHistory, astray>>

LastSec(t) ==
    /\ pc[t] = "last"
    /\ last_sec' = tv[t]
    /\ astray' = (astray \/ Day(tv[t]) < Day(last_sec))
    /\ Goes(t, "write")
    /\ UNCHANGED <<unchanged, tv, lines, is_open, writelock, files, goneHistory, dropHistory>>

\* A line goes to the file if there is one and it takes it.
Written(t) ==
    /\ Goes(t, "idle")
    /\ \/ /\ is_open
          /\ files' = [files EXCEPT ![Log] = Append(@, tv[t])]
          /\ UNCHANGED <<is_open, dropHistory>>
       \/ /\ is_open' = FALSE
          /\ dropped' = dropped + 1
          /\ failed' = (failed \/ is_open)
          /\ lost' = (lost \/ (is_inited /\ ~is_open /\ ~failed))
          /\ UNCHANGED files
    /\ UNCHANGED <<unchanged, last_sec, tv, lines, writelock, goneHistory, astray>>

write_log(t) == pc[t] = "write" /\ writelock = "none" /\ Written(t)

Logs(t) ==
    \/ shift_file_if_need(t)
    \/ Rename(t)
    \/ Reopen(t)
    \/ Unlock(t)
    \/ delete_old_log(t)
    \/ LastSec(t)
    \/ write_log(t)

-----------------------------------------------------------------------------
Next ==
    \/ Tick
    \/ _check_config_file
    \/ init
    \/ \E t \in Thread : _log(t) \/ Logs(t)

Spec == Init /\ [][Next]_vars

-----------------------------------------------------------------------------
(* Properties.                                                             *)

\* The file is there when it is open, and a thread inside the critical
\* section has the lock, unless the lock was used before its initialisation.
TypeOK ==
    /\ is_open => Log \in DOMAIN files
    /\ writelock \in Thread \cup {"none"}
    /\ writelock # "none" => pc[writelock] \in {"reopen", "unlock"}
    /\ last_sec \in {0} \cup Start..End /\ \A t \in Thread : tv[t] \in {0} \cup Start..End
    /\ \A n \in DOMAIN files \ {Log} : n[2] \in 1..MonthDays

\* The places of the lines in the files.
InFiles == UNION {{n} \X DOMAIN files[n] : n \in DOMAIN files}

\* A line that was logged is in one file, once: no shift by any of the threads
\* replaces an archive, and none writes to a file that was moved away.
LinesKept ==
    lines = Cardinality(InFiles) + gone + dropped + Cardinality({t \in Thread : pc[t] # "idle"})

\* While a file is moved away and opened anew no line falls between the two;
\* only those are dropped that came before init or after an open or a write
\* that failed.
NoneLost == ~lost

\* The file and the lock cohere, and no line is lost.
Safe == TypeOK /\ LinesKept /\ NoneLost

\* The archives of the last retain_day days are never removed.
RecentKept == \A r \in removed : r.day < r.today - r.retain

\* An archive holds no line of a day after its date (of one before it may, as
\* when no line was logged for a day), if the time zone is UTC, no thread went
\* by a day that was over for another, and no open, write or rename failed.
ArchivedByDate ==
    offset = 0 /\ ~astray /\ ~failed =>
        \A n \in DOMAIN files \ {Log} : \A k \in DOMAIN files[n] : LocalDay(files[n][k]) <= DayOf(n)

=============================================================================
