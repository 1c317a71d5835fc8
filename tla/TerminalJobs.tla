---------------------------- MODULE TerminalJobs ----------------------------
(***************************************************************************)
(* The processes on the terminal: the shell, which hands the terminal to   *)
(* one task at a time (foreground_task of os.cpp), the music player with   *)
(* the mpg123 it starts, the clock, as a task and as a daemon, and a       *)
(* daemon that keeps away from the terminal.                               *)
(*                                                                         *)
(* What the operating system does is external: Ctrl+C and Ctrl+Z go to the *)
(* foreground group; a process of another group that reads the terminal or *)
(* sets its mode stops with its whole group; a stopped process acts on no  *)
(* other signal before SIGCONT, which discards pending stops; a group with *)
(* a stopped member gets SIGHUP and SIGCONT when it becomes orphaned.      *)
(***************************************************************************)
EXTENDS FiniteSets, Naturals

CONSTANTS
    Player, Clock, Quiet,   \* the jobs by their program
    Daemon,                 \* the jobs started at boot; the others are tasks
    Shell                   \* the shell's process group

Job == Player \union Clock \union Quiet

\* A job runs one program, and no daemon plays music.
ASSUME JobsAssumption ==
    /\ Player \intersect Clock = {} /\ Player \intersect Quiet = {} /\ Clock \intersect Quiet = {}
    /\ Daemon \subseteq Clock \union Quiet
    /\ Shell \notin Job

VARIABLES
    front,      \* the terminal's foreground group
    raw,        \* whether the terminal's mode is a clock's
    shell,      \* the shell's place, and the job foreground_task is about
    bg_tasks,   \* the jobs in bg_tasks[]: "active" or "minimized"; "none" if not there
    proc,       \* each job's first process
    at,         \* its place in its program
    term,       \* whether a SIGTERM or SIGINT waits for its SIGCONT, or its handler has run
    oldt,       \* the terminal's mode as each clock found it
    song        \* each job's mpg123; "killed" is stopped with a SIGTERM to come

places == <<at, oldt>>
tty == <<front, raw>>
vars == <<tty, shell, bg_tasks, proc, term, song, places>>

Alive(j) == proc[j] \in {"running", "stopped"}
Playing(j) == song[j] # "none"
SongStopped(j) == song[j] \in {"stopped", "killed"}

\* A group exists from setpgid until its last process is reaped.
GroupExists(j) == at[j] # "start" /\ (proc[j] \notin {"unborn", "reaped"} \/ Playing(j))

ShellAt(place, job) == [at |-> place, job |-> job]
AtMenu == shell.at = "menu"
Goes(j, place) == at' = [at EXCEPT ![j] = place] /\ UNCHANGED oldt

-----------------------------------------------------------------------------
(* What signals do. *)

\* A stop signal, to each process of j's group.
GroupStops(j) ==
    /\ proc' = [proc EXCEPT ![j] = IF @ = "running" THEN "stopped" ELSE @]
    /\ song' = [song EXCEPT ![j] = IF @ = "running" THEN "stopped" ELSE @]

\* The end of j's first process.  A stopped mpg123 gets the SIGHUP of an orphaned group
\* and one that has ended is reaped by init; one that plays plays on.
Dies(j) ==
    /\ proc' = [proc EXCEPT ![j] = "zombie"]
    /\ song' = [song EXCEPT ![j] = IF @ = "running" THEN @ ELSE "none"]
    /\ UNCHANGED term

\* SIGTERM and SIGINT kill a player, and a clock or a daemon that has no handler yet.
Unhandled(j) == j \in Player \/ at[j] \in {"start", "exec"}

\* SIGTERM to each of some jobs: it kills what runs and has no handler; what has one notes
\* it, and what is stopped gets it later.
Terminates(jobs) ==
    LET killed == {j \in jobs : Unhandled(j) /\ proc[j] = "running"}
    IN  /\ proc' = [j \in Job |-> IF j \in killed THEN "zombie" ELSE proc[j]]
        /\ song' = [j \in Job |-> IF j \in killed /\ song[j] # "running" THEN "none" ELSE song[j]]
        /\ term' = [j \in Job |-> term[j] \/ (j \in jobs \ killed /\ Alive(j))]

\* SIGCONT to j's first process alone, and the SIGTERM that waited for it.
Continues(j) ==
    IF proc[j] = "stopped" /\ term[j] /\ Unhandled(j)
    THEN Dies(j)
    ELSE /\ proc' = [proc EXCEPT ![j] = IF @ = "stopped" THEN "running" ELSE @]
         /\ UNCHANGED <<term, song>>

\* The user's keys, while a job has the terminal.
CtrlZ(j) ==
    /\ front = j
    /\ GroupStops(j)
    /\ UNCHANGED <<tty, shell, bg_tasks, term, places>>

\* What has a handler notes the SIGINT; another group ends as a whole.
CtrlC(j) ==
    /\ front = j /\ proc[j] = "running"
    /\ IF ~Unhandled(j)
       THEN term' = [term EXCEPT ![j] = TRUE] /\ UNCHANGED <<proc, song>>
       ELSE /\ proc' = [proc EXCEPT ![j] = "zombie"] /\ song' = [song EXCEPT ![j] = "none"]
            /\ UNCHANGED term
    /\ UNCHANGED <<tty, shell, bg_tasks, places>>

\* The task manager, in front, sends SIGTERM to a pid of the list.
TaskManagerKills(j) ==
    /\ shell.at = "wait" /\ shell.job # j /\ proc[shell.job] = "running"
    /\ bg_tasks[j] # "none" /\ Alive(j)
    /\ Terminates({j})
    /\ UNCHANGED <<tty, shell, bg_tasks, places>>

-----------------------------------------------------------------------------
(* The shell. *)

\* fork; the job makes its own group later.
Forks(j) ==
    /\ proc[j] = "unborn"
    /\ proc' = [proc EXCEPT ![j] = "running"]
    /\ bg_tasks' = [bg_tasks EXCEPT ![j] = "active"]
    /\ UNCHANGED <<tty, term, song, places>>

start_daemon(j) ==
    /\ shell.at = "boot" /\ j \in Daemon
    /\ Forks(j)
    /\ shell' = IF \A d \in Daemon \ {j} : proc[d] # "unborn" THEN ShellAt("menu", Shell) ELSE shell

launch_task(j) ==
    /\ AtMenu /\ j \notin Daemon
    /\ Forks(j)
    /\ shell' = ShellAt("give", j)

\* send_resume signals the pid, not the group.
manage_foreground(j) ==
    /\ AtMenu /\ bg_tasks[j] # "none"
    /\ bg_tasks' = [bg_tasks EXCEPT ![j] = "active"]
    /\ Continues(j)
    /\ shell' = ShellAt("give", j)
    /\ UNCHANGED <<tty, places>>

\* tcsetpgrp, which fails for a group that does not exist yet, or no longer.
GivesTerminal ==
    /\ shell.at = "give"
    /\ front' = IF GroupExists(shell.job) THEN shell.job ELSE front
    /\ shell' = ShellAt("wait", shell.job)
    /\ UNCHANGED <<raw, bg_tasks, proc, term, song, places>>

\* waitpid reports an end, or fails since the handler was first; then status may read as an end.
TaskEnded ==
    /\ shell.at = "wait" /\ proc[shell.job] \in {"zombie", "reaped"}
    /\ proc' = [proc EXCEPT ![shell.job] = "reaped"]
    /\ bg_tasks' = [bg_tasks EXCEPT ![shell.job] = "none"]
    /\ front' = Shell
    /\ shell' = ShellAt("menu", Shell)
    /\ UNCHANGED <<raw, term, song, places>>

\* Mutant: the terminal is not taken back.
TaskStopped_keepsTerminal ==
    /\ shell.at = "wait" /\ proc[shell.job] \in {"stopped", "reaped"}
    /\ bg_tasks' = [bg_tasks EXCEPT ![shell.job] = "minimized"]
    /\ shell' = ShellAt("menu", Shell)
    /\ UNCHANGED <<tty, proc, term, song, places>>

\* waitpid reports a stop, or fails and status reads as one.  send_minimize's SIGTSTP
\* finds the task stopped, and SIGCONT will discard it.
TaskStopped ==
    /\ shell.at = "wait" /\ proc[shell.job] \in {"stopped", "reaped"}
    /\ bg_tasks' = [bg_tasks EXCEPT ![shell.job] = "minimized"]
    /\ front' = Shell
    /\ shell' = ShellAt("menu", Shell)
    /\ UNCHANGED <<raw, proc, term, song, places>>

sigchld_handler(j) ==
    /\ shell.at # "off" /\ proc[j] = "zombie"
    /\ proc' = [proc EXCEPT ![j] = "reaped"]
    /\ UNCHANGED <<tty, shell, bg_tasks, term, song, places>>

\* Mutant: the daemons are left out.
shutdown_os_tasksOnly ==
    /\ AtMenu
    /\ Terminates({j \in Job \ Daemon : bg_tasks[j] # "none"})
    /\ shell' = ShellAt("shutdown", Shell)
    /\ UNCHANGED <<tty, bg_tasks, places>>

shutdown_os ==
    /\ AtMenu
    /\ Terminates({j \in Job : bg_tasks[j] # "none"})
    /\ shell' = ShellAt("shutdown", Shell)
    /\ UNCHANGED <<tty, bg_tasks, places>>

\* main returns, from shutdown_os or at the end of the input; the groups of its children
\* become orphaned.
Exits ==
    /\ shell.at = "shutdown" \/ AtMenu
    /\ LET hungUp == {j \in Job : proc[j] = "stopped" \/ SongStopped(j)}
       IN  /\ proc' = [j \in Job |-> IF j \in hungUp \/ proc[j] = "zombie" THEN "reaped" ELSE proc[j]]
           /\ song' = [j \in Job |-> IF j \in hungUp THEN "none" ELSE song[j]]
    /\ shell' = ShellAt("off", IF AtMenu THEN "end of input" ELSE "shutdown")
    /\ UNCHANGED <<tty, bg_tasks, term, places>>

-----------------------------------------------------------------------------
(* The jobs, each while it runs. *)

Runs(j) == proc[j] = "running"
JobStep(j) == UNCHANGED <<tty, shell, bg_tasks>>

MakesGroup(j) ==
    /\ Runs(j) /\ at[j] = "start"
    /\ Goes(j, "exec")
    /\ UNCHANGED <<proc, term, song>> /\ JobStep(j)

\* A process behind the terminal stops when it reads or sets the mode; in an orphaned
\* group the call fails instead.
Touches(j) == at[j] \in {"ask", "mode", "restore"} \/ (at[j] \in {"play", "loop"} /\ j \notin Quiet)
StopsBehind(j) ==
    /\ Runs(j) /\ front # j /\ shell.at # "off"
    /\ Touches(j)
    /\ GroupStops(j)
    /\ UNCHANGED <<term, places>> /\ JobStep(j)

InFront(j) == front = j \/ shell.at = "off"
Exited(j) == Dies(j) /\ UNCHANGED places /\ JobStep(j)

\* execl, behind which a clock or a daemon installs its handlers, or _exit where it fails.
Execs(j) ==
    /\ Runs(j) /\ at[j] = "exec"
    /\ \/ Goes(j, "request") /\ UNCHANGED <<proc, term, song>> /\ JobStep(j)
       \/ Exited(j)

\* The handshake with the kernel, which a handled signal does not interrupt: open and read
\* are restarted.  It may end with a grant or without one, or wait for ever (IpcHandshake).
Granted(j) ==
    /\ Runs(j) /\ at[j] = "request"
    /\ Goes(j, IF j \in Player THEN "ask" ELSE IF j \in Clock THEN "mode" ELSE "loop")
    /\ UNCHANGED <<proc, term, song>> /\ JobStep(j)
NotGranted(j) ==
    /\ Runs(j) /\ at[j] = "request"
    /\ Exited(j)

\* The music player: a song is chosen, or 'q' or the end of the input.
PicksSong(j) ==
    /\ Runs(j) /\ front = j /\ at[j] = "ask" /\ j \in Player
    /\ song' = [song EXCEPT ![j] = "running"]
    /\ Goes(j, "play")
    /\ UNCHANGED <<proc, term>> /\ JobStep(j)
QuitsPlayer(j) ==
    /\ Runs(j) /\ InFront(j) /\ at[j] = "ask" /\ j \in Player
    /\ Exited(j)

SongEnds(j) ==
    /\ song[j] = "running"
    /\ song' = [song EXCEPT ![j] = IF Alive(j) THEN "zombie" ELSE "none"]
    /\ UNCHANGED <<proc, term, places>> /\ JobStep(j)

\* waitpid with WNOHANG while it plays; without, after 'q'.
ReapsSong(j) ==
    /\ Runs(j) /\ at[j] \in {"play", "stop"} /\ song[j] = "zombie"
    /\ song' = [song EXCEPT ![j] = "none"]
    /\ Goes(j, "ask")
    /\ UNCHANGED <<proc, term>> /\ JobStep(j)

\* Mutant: 'q' leaves the player, not the song.
TypesQ_leaves(j) ==
    /\ Runs(j) /\ front = j /\ at[j] = "play"
    /\ Exited(j)

TypesQ(j) ==
    /\ Runs(j) /\ front = j /\ at[j] = "play"
    /\ song' = [song EXCEPT ![j] = CASE @ = "running" -> "zombie"
                                     [] @ = "stopped" -> "killed"
                                     [] OTHER -> @]
    /\ Goes(j, "stop")
    /\ UNCHANGED <<proc, term>> /\ JobStep(j)

\* The clock: the terminal's mode is saved and set, and set back behind the loop.
SetsMode(j) ==
    /\ Runs(j) /\ InFront(j) /\ at[j] = "mode"
    /\ raw' = IF front = j THEN TRUE ELSE raw
    /\ oldt' = [oldt EXCEPT ![j] = raw]
    /\ at' = [at EXCEPT ![j] = "loop"]
    /\ UNCHANGED <<front, shell, bg_tasks, proc, term, song>>

LeavesLoop(j) ==
    /\ Runs(j) /\ at[j] = "loop"
    /\ term[j] \/ (j \in Clock /\ front = j)
    /\ IF j \in Quiet THEN Exited(j)
       ELSE Goes(j, "restore") /\ UNCHANGED <<proc, term, song>> /\ JobStep(j)

RestoresMode(j) ==
    /\ Runs(j) /\ InFront(j) /\ at[j] = "restore"
    /\ raw' = IF front = j THEN oldt[j] ELSE raw
    /\ Dies(j)
    /\ UNCHANGED <<front, shell, bg_tasks, places>>

-----------------------------------------------------------------------------

Init ==
    /\ front = Shell /\ raw = FALSE
    /\ shell = ShellAt("boot", Shell)
    /\ bg_tasks = [j \in Job |-> "none"]
    /\ proc = [j \in Job |-> "unborn"]
    /\ at = [j \in Job |-> "start"]
    /\ term = [j \in Job |-> FALSE] /\ oldt = [j \in Job |-> FALSE]
    /\ song = [j \in Job |-> "none"]

Keys(j) ==
    \/ CtrlZ(j) \/ CtrlC(j) \/ TaskManagerKills(j)
    \/ PicksSong(j) \/ TypesQ(j)

Menu(j) == launch_task(j) \/ manage_foreground(j)

Boots == \E j \in Daemon : start_daemon(j)
ShellSteps == Boots \/ GivesTerminal \/ TaskEnded \/ TaskStopped

\* What a job does without a key.
Steps(j) ==
    \/ MakesGroup(j) \/ Execs(j) \/ StopsBehind(j) \/ SongEnds(j) \/ ReapsSong(j)
    \/ SetsMode(j) \/ RestoresMode(j)

Next ==
    \/ ShellSteps \/ shutdown_os \/ Exits
    \/ \E j \in Job :
        \/ Keys(j) \/ Menu(j) \/ Steps(j)
        \/ Granted(j) \/ NotGranted(j)
        \/ QuitsPlayer(j) \/ LeavesLoop(j) \/ sigchld_handler(j)

Spec == Init /\ [][Next]_vars

\* Shell and jobs run on, songs end, a loop that is to end does, and without a shell so does
\* the question for a song.  The handshake need not end, and a loop behind the terminal need
\* not try to read it.
FairSpec ==
    /\ Spec
    /\ WF_vars(ShellSteps) /\ WF_vars(shell.at = "shutdown" /\ Exits)
    /\ \A j \in Job :
        /\ WF_vars(MakesGroup(j)) /\ WF_vars(Execs(j))
        /\ WF_vars(at[j] \notin {"play", "loop"} /\ StopsBehind(j))
        /\ WF_vars(SongEnds(j)) /\ WF_vars(ReapsSong(j))
        /\ WF_vars(SetsMode(j)) /\ WF_vars(RestoresMode(j))
        /\ WF_vars(term[j] /\ LeavesLoop(j))
        /\ WF_vars(shell.at = "off" /\ QuitsPlayer(j))

-----------------------------------------------------------------------------

TypeOK ==
    /\ front \in Job \union {Shell} /\ raw \in BOOLEAN
    /\ shell.at \in {"boot", "menu", "give", "wait", "shutdown", "off"}
    /\ shell.at \in {"give", "wait"} => shell.job \in Job
    /\ bg_tasks \in [Job -> {"none", "active", "minimized"}]
    /\ proc \in [Job -> {"unborn", "running", "stopped", "zombie", "reaped"}]
    /\ at \in [Job -> {"start", "exec", "request", "ask", "play", "stop",
                      "mode", "loop", "restore"}]
    /\ term \in [Job -> BOOLEAN] /\ oldt \in [Job -> BOOLEAN]
    /\ song \in [Job -> {"none", "running", "stopped", "killed", "zombie"}]

\* The shell never asks for a command behind its own terminal, which would stop the whole
\* system, and what the user has minimised or ended is silent then: nothing but daemons
\* runs, whatever raced with foreground_task's tcsetpgrp and waitpid.
MenuIsAlone ==
    /\ TypeOK
    /\ AtMenu =>
        /\ front = Shell
        /\ \A j \in Job \ Daemon : ~Runs(j) /\ song[j] # "running"

\* A song that can be heard has a player that can stop it: none plays on alone, however
\* the player ended, and none starts while another one of the same player plays.
NoSongAlone ==
    \A j \in Job : song[j] = "running" => Alive(j) /\ at[j] = "play"

\* After "Shutdown" every job ends, whatever it is about: the stopped ones by the SIGHUP of
\* their orphaned groups, the daemons by the SIGTERM they handle.  Excepted is a clock or a
\* daemon whose handshake never ends, for its handler only notes the signal.
ShutdownEndsAll ==
    shell = ShellAt("off", "shutdown") ~>
        \A j \in Job : Alive(j) => j \notin Player /\ at[j] = "request"

\* "SIGTERM | Graceful shutdown of daemons" (README.md:186): at shutdown they end.
SigtermEndsDaemons ==
    shell = ShellAt("off", "shutdown") ~> \A j \in Daemon : ~Alive(j)

\* "Press 'q' to stop this song" (music_player.cpp:76): the player asks for a song again.
QStopsSong ==
    \A j \in Player : at[j] = "stop" /\ front = j ~> at[j] # "stop" \/ front # j

\* "Clock Daemon, Log Daemon, System Monitor run at startup" (README.md:71).
DaemonsRun ==
    [](AtMenu => \A j \in Daemon : proc[j] # "stopped")

\* At the menu the terminal is in the mode the shell was started with: clock.cpp restores it.
MenuEchoes == AtMenu => ~raw
=============================================================================
