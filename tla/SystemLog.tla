----------------------------- MODULE SystemLog ------------------------------
(***************************************************************************)
(* system.log and those who write it: the kernel's threads through         *)
(* log_event (logger.cpp), the user who clears it (os.cpp), and two        *)
(* processes that know nothing of log_lock: sys_monitor.cpp appends a      *)
(* snapshot and log_daemon.cpp rewrites the file when it has become large. *)
(*                                                                         *)
(* A file is the sequence of its lines.  Appending puts a line at the end  *)
(* wherever that is; the rewrite goes on at its own place in the file, over *)
(* whatever stands there.  A line that is written over in part is lost.    *)
(***************************************************************************)
EXTENDS Integers, SequencesExt

CONSTANTS
    Thread,
    KEEP,           \* the lines rotate_log keeps: 100
    MAX_LOG_SIZE,   \* in lines
    MaxTime,        \* bounds the time stamps taken
    Monitor,        \* sys_monitor
    Header,         \* the line that begins a rewritten log
    Hole            \* what a write behind the end of a file leaves before it

Nobody == "nobody"

\* What is assumed of the constants, where they get their values.
LogAssumption ==
    /\ KEEP \in Nat \ {0} /\ MAX_LOG_SIZE > KEEP /\ MaxTime \in Nat
    /\ Monitor \notin Thread /\ Nobody \notin Thread

Entry == [by : Thread \union {Monitor}, time : 1..MaxTime] \union {Header, Hole}

VARIABLES
    log,
    clock,          \* the time, in stamps taken
    stamp,          \* the time each writer took for its next line, or 0
    log_lock,
    daemon_running, \* of both daemons, which get SIGTERM at the same time
    monitor,        \* "sleep", "write", "off"
    rotation,       \* "sleep", "read", "truncate", "write", "off"
    lines,          \* what rotate_log has read so far
    written,        \* the lines it has written back
    cleared         \* "now" if the log was cleared under the rewrite that goes on, "once" if
                    \* what such a rewrite left may still be in the log or in lines, or "no"

writers == <<clock, stamp, log_lock, monitor>>
rotator == <<rotation, lines, written>>
vars == <<log, daemon_running, cleared, writers, rotator>>

Newest(seq, n) == IF Len(seq) <= n THEN seq ELSE SubSeq(seq, Len(seq) - n + 1, Len(seq))

-----------------------------------------------------------------------------
(* log_event, in any thread of the kernel. *)

\* Mutant: the time is taken before the lock.
EnterLog_unlocked(t) ==
    /\ stamp[t] = 0 /\ clock < MaxTime
    /\ clock' = clock + 1
    /\ stamp' = [stamp EXCEPT ![t] = clock + 1]
    /\ UNCHANGED <<log, daemon_running, cleared, log_lock, monitor, rotator>>

EnterLog(t) ==
    /\ stamp[t] = 0 /\ clock < MaxTime
    /\ log_lock = Nobody
    /\ log_lock' = t
    /\ clock' = clock + 1
    /\ stamp' = [stamp EXCEPT ![t] = clock + 1]
    /\ UNCHANGED <<log, daemon_running, cleared, monitor, rotator>>

\* The line is written when the file is closed; if it cannot be opened there is none.
LeaveLog(t) ==
    /\ stamp[t] # 0
    /\ log' \in {log, Append(log, [by |-> t, time |-> stamp[t]])}
    /\ stamp' = [stamp EXCEPT ![t] = 0]
    /\ log_lock' = Nobody
    /\ UNCHANGED <<clock, daemon_running, cleared, monitor, rotator>>

\* The kernel empties the log when it starts, and on the user's command.
Clear ==
    /\ log' = <<>>
    /\ cleared' = CASE rotation = "write" -> "now"
                    [] rotation \in {"read", "truncate"} -> cleared
                    [] OTHER -> "no"
    /\ UNCHANGED <<daemon_running, writers, rotator>>

-----------------------------------------------------------------------------
(* sys_monitor: the time is taken first, then the tasks are counted. *)

StartSnapshot ==
    /\ monitor = "sleep" /\ daemon_running /\ clock < MaxTime
    /\ clock' = clock + 1
    /\ stamp' = [stamp EXCEPT ![Monitor] = clock + 1]
    /\ monitor' = "write"
    /\ UNCHANGED <<log, log_lock, daemon_running, cleared, rotator>>

WriteSnapshot ==
    /\ monitor = "write"
    /\ log' \in {log, Append(log, [by |-> Monitor, time |-> stamp[Monitor]])}
    /\ stamp' = [stamp EXCEPT ![Monitor] = 0]
    /\ monitor' = "sleep"
    /\ UNCHANGED <<clock, log_lock, daemon_running, cleared, rotator>>

\* handle_signal, in both daemons.
Terminate ==
    /\ daemon_running' = FALSE
    /\ UNCHANGED <<log, cleared, writers, rotator>>

MonitorStops ==
    /\ monitor = "sleep" /\ ~daemon_running
    /\ monitor' = "off"
    /\ UNCHANGED <<log, clock, stamp, log_lock, daemon_running, cleared, rotator>>

-----------------------------------------------------------------------------
(* log_daemon: rotate_log. *)

StartRotation ==
    /\ rotation = "sleep" /\ daemon_running
    /\ Len(log) > MAX_LOG_SIZE
    /\ rotation' = "read" /\ lines' = <<>> /\ written' = 0
    /\ UNCHANGED <<log, daemon_running, cleared, writers>>

\* Some lines at a time, from where it stands to the end of the file.
ReadLines ==
    /\ rotation = "read"
    /\ \E n \in (Len(lines) + 1)..Len(log) :
          lines' = lines \o SubSeq(log, Len(lines) + 1, n)
    /\ UNCHANGED <<log, daemon_running, cleared, writers, rotation, written>>

EndOfFile ==
    /\ rotation = "read"
    /\ Len(lines) >= Len(log)
    /\ rotation' = "truncate"
    /\ UNCHANGED <<log, daemon_running, cleared, writers, lines, written>>

\* The array lines[KEEP] after n lines: line i stands at i % KEEP.
Slot(k) == lines[CHOOSE i \in DOMAIN lines :
                    /\ (i - 1) % KEEP = k
                    /\ \A j \in DOMAIN lines : (j - 1) % KEEP = k => j <= i]

\* Mutant: the oldest line is not where the next one would go.
Rewritten_unrotated ==
    <<Header>> \o [i \in 1..(IF Len(lines) > KEEP THEN KEEP ELSE Len(lines)) |->
                      Slot((i - 1) % KEEP)]

Rewritten ==
    LET count == Len(lines)
        start == IF count > KEEP THEN count % KEEP ELSE 0
        total == IF count > KEEP THEN KEEP ELSE count
    IN  <<Header>> \o [i \in 1..total |-> Slot((start + i - 1) % KEEP)]

Truncate ==
    /\ rotation = "truncate"
    /\ log' = <<>>
    /\ rotation' = "write"
    /\ cleared' = IF cleared = "no" THEN "no" ELSE "once"
    /\ UNCHANGED <<daemon_running, writers, lines, written>>

WriteAt(file, place, text) ==
    [i \in 1..(IF Len(file) > place + Len(text) THEN Len(file) ELSE place + Len(text)) |->
        IF i \in (place + 1)..(place + Len(text)) THEN text[i - place]
        ELSE IF i <= Len(file) THEN file[i] ELSE Hole]

\* Some lines at a time; the last of them in fclose.
WriteLines ==
    /\ rotation = "write"
    /\ \E n \in (written + 1)..Len(Rewritten) :
          /\ log' = WriteAt(log, written, SubSeq(Rewritten, written + 1, n))
          /\ written' = n
          /\ rotation' = IF n = Len(Rewritten) THEN "sleep" ELSE "write"
    /\ UNCHANGED <<daemon_running, cleared, writers, lines>>

\* The file cannot be opened for reading, or for writing.
GiveUp ==
    /\ \/ rotation = "read" /\ lines = <<>>
       \/ rotation = "truncate"
    /\ rotation' = "sleep"
    /\ UNCHANGED <<log, daemon_running, cleared, writers, lines, written>>

RotatorStops ==
    /\ rotation = "sleep" /\ ~daemon_running
    /\ rotation' = "off"
    /\ UNCHANGED <<log, daemon_running, cleared, writers, lines, written>>

-----------------------------------------------------------------------------

Init ==
    /\ log = <<>> /\ clock = 0
    /\ stamp = [w \in Thread \union {Monitor} |-> 0]
    /\ log_lock = Nobody
    /\ daemon_running = TRUE
    /\ monitor = "sleep"
    /\ rotation = "sleep" /\ lines = <<>> /\ written = 0
    /\ cleared = "no"

MonitorStep == StartSnapshot \/ WriteSnapshot \/ MonitorStops
RotatorStep ==
    \/ StartRotation \/ ReadLines \/ EndOfFile \/ Truncate \/ WriteLines
    \/ GiveUp \/ RotatorStops

Next ==
    \/ \E t \in Thread : EnterLog(t) \/ LeaveLog(t)
    \/ Clear \/ Terminate
    \/ MonitorStep \/ RotatorStep

Spec == Init /\ [][Next]_vars

-----------------------------------------------------------------------------

TypeOK ==
    /\ log \in Seq(Entry) /\ lines \in Seq(Entry)
    /\ clock \in 0..MaxTime
    /\ stamp \in [Thread \union {Monitor} -> 0..MaxTime]
    /\ log_lock \in Thread \union {Nobody}
    /\ daemon_running \in BOOLEAN /\ cleared \in {"no", "now", "once"}
    /\ monitor \in {"sleep", "write", "off"}
    /\ rotation \in {"sleep", "read", "truncate", "write", "off"}
    /\ written \in 0..(KEEP + 1)

IsKernelLine(e) == e \notin {Header, Hole} /\ e.by # Monitor

\* The kernel's lines stand in the log in the order of their times, also while it is
\* rewritten by a process that does not take log_lock: only a user who clears it under
\* the rewrite sees old lines behind new ones, and sees them again if such a log is rotated.
KernelLinesInOrder ==
    /\ TypeOK
    /\ cleared = "no" => \A i, j \in DOMAIN log :
         i < j /\ IsKernelLine(log[i]) /\ IsKernelLine(log[j]) => log[i].time < log[j].time

\* A rotation ends with the newest lines it has read, in their order, behind its header:
\* the ring array starts at the right place and no line appended meanwhile is in between.
RotationKeepsNewest ==
    [][rotation = "write" /\ rotation' # "write" /\ cleared # "now" =>
          IsPrefix(<<Header>> \o Newest(lines, KEEP), log')]_vars

\* "pthread_mutex_t protects the PCB table, resource counters, and log file" (README.md:189):
\* a line that was logged is lost only when the user clears the log, or to a rotation
\* that has read it and that keeps newer ones.
LoggedStays ==
    [][Clear \/ \A e \in {log[i] : i \in DOMAIN log} :
          \/ e \in {log'[i] : i \in DOMAIN log'}
          \/ e \in {lines[i] : i \in DOMAIN lines} \union {Header, Hole}]_vars
=============================================================================
