------------------------- MODULE TerminalJobsProofs -------------------------
(***************************************************************************)
(* Who may run and who may be heard, however many jobs there are: the      *)
(* job the shell waits for and the daemons, and nobody else.               *)
(***************************************************************************)
EXTENDS TerminalJobs, TLAPS

Life == {"unborn", "running", "stopped", "zombie", "reaped"}
Song == {"none", "running", "stopped", "killed", "zombie"}

\* Each program has places of its own.
PlacesMatch == \A j \in Job :
    /\ j \in Player => at[j] \in {"start", "exec", "request", "ask", "play", "stop"}
    /\ j \in Clock => at[j] \in {"start", "exec", "request", "mode", "loop", "restore"}
    /\ j \in Quiet => at[j] \in {"start", "exec", "request", "loop"}

\* The terminal is lent out only while the shell waits, and to the job it waits for.
LentOnce == front # Shell => shell.at = "wait" /\ front = shell.job

\* Of what is no daemon, only the job the shell is about runs.
OneInFront == \A j \in Job \ Daemon :
    proc[j] = "running" => shell.at \in {"give", "wait"} /\ shell.job = j

\* A song that can be heard has a player that runs and knows of it.
SongsAreHeld == \A j \in Job :
    /\ song[j] # "none" => j \in Player
    /\ song[j] = "running" => proc[j] = "running" /\ at[j] = "play"

IInv == TypeOK /\ PlacesMatch /\ LentOnce /\ OneInFront /\ SongsAreHeld

\* Nothing begins to run or to be heard, and a song goes on only with its player.
Calms ==
    /\ proc' \in [Job -> Life] /\ song' \in [Job -> Song] /\ term' \in [Job -> BOOLEAN]
    /\ \A j \in Job :
        /\ proc'[j] = "running" => proc[j] = "running"
        /\ song'[j] # "none" => song[j] # "none"
        /\ song'[j] = "running" => song[j] = "running" /\ proc'[j] = "running"

\* What no signal changes.
Rest == <<tty, shell, bg_tasks, places>>

-----------------------------------------------------------------------------
(* Signals *)

LEMMA CalmStep == ASSUME IInv, Calms, UNCHANGED Rest PROVE IInv'
<1>1. UNCHANGED <<front, raw, shell, bg_tasks, at, oldt>>
  BY DEF Rest, tty, places
<1>2. TypeOK'
  BY <1>1 DEF IInv, TypeOK, Calms, Life, Song
<1>3. PlacesMatch' /\ LentOnce'
  BY <1>1 DEF IInv, PlacesMatch, LentOnce
<1>4. OneInFront' /\ SongsAreHeld'
  BY <1>1 DEF IInv, OneInFront, SongsAreHeld, Calms
<1> QED
  BY <1>2, <1>3, <1>4 DEF IInv

\* A stop signal stops the song with its player.
LEMMA StopCalms == ASSUME IInv, NEW j \in Job, GroupStops(j), UNCHANGED term PROVE Calms
<1>1. /\ proc' \in [Job -> Life] /\ song' \in [Job -> Song]
      /\ proc'[j] # "running" /\ song'[j] # "running" /\ (song[j] = "none" => song'[j] = "none")
      /\ \A k \in Job : k # j => proc'[k] = proc[k] /\ song'[k] = song[k]
  BY DEF GroupStops, IInv, TypeOK, Life, Song
<1> QED
  BY <1>1 DEF Calms, IInv, TypeOK, SongsAreHeld

\* The end of a first process leaves no song behind that is heard, for there is none.
LEMMA DeathCalms == ASSUME IInv, NEW j \in Job, Dies(j), song[j] # "running" PROVE Calms
<1>1. /\ proc' \in [Job -> Life] /\ song' \in [Job -> Song]
      /\ proc'[j] # "running" /\ song'[j] = "none"
      /\ \A k \in Job : k # j => proc'[k] = proc[k] /\ song'[k] = song[k]
      /\ UNCHANGED term
  BY DEF Dies, IInv, TypeOK, Life, Song
<1> QED
  BY <1>1 DEF Calms, IInv, TypeOK, SongsAreHeld

\* SIGTERM kills no player that can be heard, as long as the user has none in front.
LEMMA TermCalms ==
    ASSUME IInv, NEW jobs \in SUBSET Job, Terminates(jobs),
           \A j \in jobs : song[j] # "running"
    PROVE  Calms
<1> DEFINE killed == {j \in jobs : Unhandled(j) /\ proc[j] = "running"}
<1>1. killed \subseteq jobs
  OBVIOUS
<1>2. /\ proc' = [j \in Job |-> IF j \in killed THEN "zombie" ELSE proc[j]]
      /\ song' = [j \in Job |-> IF j \in killed /\ song[j] # "running" THEN "none" ELSE song[j]]
      /\ term' = [j \in Job |-> term[j] \/ (j \in jobs \ killed /\ Alive(j))]
  BY DEF Terminates
<1> HIDE DEF killed
<1>3. proc' \in [Job -> Life] /\ song' \in [Job -> Song]
  BY <1>2 DEF IInv, TypeOK, Life, Song
<1>4. term' \in [Job -> BOOLEAN]
  BY <1>2, Zenon DEF IInv, TypeOK
<1>5. ASSUME NEW j \in Job
      PROVE  /\ proc'[j] = "running" => proc[j] = "running"
             /\ song'[j] # "none" => song[j] # "none"
             /\ song'[j] = "running" => song[j] = "running" /\ proc'[j] = "running"
  BY <1>1, <1>2 DEF IInv, SongsAreHeld
<1> QED
  BY <1>3, <1>4, <1>5 DEF Calms

LEMMA CtrlZStep == ASSUME IInv, NEW j \in Job, CtrlZ(j) PROVE IInv'
<1>1. Calms
  BY StopCalms DEF CtrlZ
<1> QED
  BY <1>1, CalmStep DEF CtrlZ, Rest

LEMMA CtrlCStep == ASSUME IInv, NEW j \in Job, CtrlC(j) PROVE IInv'
<1>1. CASE ~Unhandled(j)
  <2>1. /\ UNCHANGED <<proc, song>> /\ term' = [term EXCEPT ![j] = TRUE]
    BY <1>1 DEF CtrlC
  <2>2. term' \in [Job -> BOOLEAN]
    BY <2>1 DEF IInv, TypeOK
  <2>3. Calms
    BY <2>1, <2>2 DEF Calms, IInv, TypeOK, SongsAreHeld, Life, Song
  <2> QED
    BY <2>3, CalmStep DEF CtrlC, Rest
<1>2. CASE Unhandled(j)
  <2>1. /\ proc' = [proc EXCEPT ![j] = "zombie"] /\ song' = [song EXCEPT ![j] = "none"]
        /\ UNCHANGED term
    BY <1>2 DEF CtrlC
  <2>2. /\ proc' \in [Job -> Life] /\ song' \in [Job -> Song]
        /\ proc'[j] = "zombie" /\ song'[j] = "none"
        /\ \A k \in Job : k # j => proc'[k] = proc[k] /\ song'[k] = song[k]
    BY <2>1 DEF IInv, TypeOK, Life, Song
  <2>3. Calms
    BY <2>1, <2>2 DEF Calms, IInv, TypeOK, SongsAreHeld
  <2> QED
    BY <2>3, CalmStep DEF CtrlC, Rest
<1> QED
  BY <1>1, <1>2

\* The task manager is what the user has in front, so that no player is heard.
LEMMA TaskManagerKillsStep == ASSUME IInv, NEW j \in Job, TaskManagerKills(j) PROVE IInv'
<1>1. song[j] # "running"
  BY JobsAssumption DEF TaskManagerKills, IInv, SongsAreHeld, OneInFront, Job
<1>2. Calms
  BY <1>1, TermCalms DEF TaskManagerKills
<1> QED
  BY <1>2, CalmStep DEF TaskManagerKills, Rest

-----------------------------------------------------------------------------
(* The shell *)

\* A first process starts, of a daemon or of the job the shell goes on to.
LEMMA ForkStep ==
    ASSUME IInv, NEW j \in Job, Forks(j), TypeOK', j \in Daemon \/ shell' = ShellAt("give", j),
           shell.at \in {"boot", "menu"}
    PROVE  IInv'
<1>1. UNCHANGED <<front, song, at>> /\ proc[j] = "unborn"
  BY DEF Forks, tty, places
<1>2. proc'[j] = "running" /\ \A k \in Job : k # j => proc'[k] = proc[k]
  BY DEF Forks, IInv, TypeOK
<1>3. PlacesMatch' /\ LentOnce' /\ SongsAreHeld'
  BY <1>1, <1>2 DEF IInv, PlacesMatch, LentOnce, SongsAreHeld
<1>4. OneInFront'
  BY <1>1, <1>2 DEF IInv, OneInFront, ShellAt
<1> QED
  BY <1>3, <1>4 DEF IInv

LEMMA ForkType ==
    ASSUME IInv, NEW j \in Job, Forks(j), shell' = shell \/ shell' = ShellAt("menu", Shell)
                                          \/ shell' = ShellAt("give", j)
    PROVE  TypeOK'
<1>1. UNCHANGED <<front, raw, term, song, at, oldt>>
  BY DEF Forks, tty, places
<1>2. /\ proc' \in [Job -> Life]
      /\ bg_tasks' \in [Job -> {"none", "active", "minimized"}]
  BY DEF Forks, IInv, TypeOK, Life
<1> QED
  BY <1>1, <1>2 DEF IInv, TypeOK, ShellAt, Life

LEMMA StartDaemonStep == ASSUME IInv, NEW j \in Job, start_daemon(j) PROVE IInv'
<1>1. shell' = shell \/ shell' = ShellAt("menu", Shell)
  BY DEF start_daemon
<1>2. TypeOK'
  BY <1>1, ForkType DEF start_daemon
<1> QED
  BY <1>2, ForkStep DEF start_daemon

LEMMA LaunchTaskStep == ASSUME IInv, NEW j \in Job, launch_task(j) PROVE IInv'
<1>1. TypeOK'
  BY ForkType DEF launch_task
<1> QED
  BY <1>1, ForkStep DEF launch_task, AtMenu

LEMMA ManageForegroundStep == ASSUME IInv, NEW j \in Job, manage_foreground(j) PROVE IInv'
<1>1. /\ shell.at = "menu" /\ shell' = ShellAt("give", j)
      /\ UNCHANGED <<front, raw, at, oldt>>
      /\ bg_tasks' \in [Job -> {"none", "active", "minimized"}]
  BY DEF manage_foreground, AtMenu, tty, places, IInv, TypeOK
<1>2. front = Shell
  BY <1>1 DEF IInv, LentOnce
<1>3. /\ proc' \in [Job -> Life] /\ song' \in [Job -> Song] /\ term' \in [Job -> BOOLEAN]
      /\ \A k \in Job : k # j => proc'[k] = proc[k]
      /\ \A k \in Job : song'[k] # "none" => song[k] # "none"
      /\ \A k \in Job : song'[k] = "running" => song[k] = "running" /\ proc'[k] = "running"
  <2>1. CASE proc[j] = "stopped" /\ term[j] /\ Unhandled(j)
    <3>1. Dies(j)
      BY <2>1 DEF manage_foreground, Continues
    <3>2. song[j] # "running"
      BY <2>1 DEF IInv, SongsAreHeld
    <3>3. Calms
      BY <3>1, <3>2, DeathCalms
    <3>4. \A k \in Job : k # j => proc'[k] = proc[k]
      BY <3>1 DEF Dies, IInv, TypeOK
    <3> QED
      BY <3>3, <3>4 DEF Calms
  <2>2. CASE ~(proc[j] = "stopped" /\ term[j] /\ Unhandled(j))
    <3>1. /\ proc' = [proc EXCEPT ![j] = IF @ = "stopped" THEN "running" ELSE @]
          /\ UNCHANGED <<term, song>>
      BY <2>2 DEF manage_foreground, Continues
    <3>2. /\ proc' \in [Job -> Life]
          /\ \A k \in Job : k # j => proc'[k] = proc[k]
          /\ \A k \in Job : proc[k] = "running" => proc'[k] = "running"
      BY <3>1 DEF IInv, TypeOK, Life
    <3> QED
      BY <3>1, <3>2 DEF IInv, TypeOK, SongsAreHeld, Song
  <2> QED
    BY <2>1, <2>2
<1>4. TypeOK'
  BY <1>1, <1>3 DEF IInv, TypeOK, ShellAt, Life, Song
<1>5. PlacesMatch' /\ LentOnce' /\ SongsAreHeld'
  BY <1>1, <1>2, <1>3 DEF IInv, PlacesMatch, LentOnce, SongsAreHeld
<1>6. OneInFront'
  BY <1>1, <1>3 DEF IInv, OneInFront, ShellAt
<1> QED
  BY <1>4, <1>5, <1>6 DEF IInv

LEMMA GivesTerminalStep == ASSUME IInv, GivesTerminal PROVE IInv'
<1>1. /\ shell.at = "give" /\ shell.job \in Job /\ shell' = ShellAt("wait", shell.job)
      /\ front' \in {front, shell.job} /\ front = Shell
      /\ UNCHANGED <<raw, bg_tasks, proc, term, song, at, oldt>>
  BY DEF GivesTerminal, places, IInv, TypeOK, LentOnce
<1>2. TypeOK'
  BY <1>1 DEF IInv, TypeOK, ShellAt
<1>3. PlacesMatch' /\ LentOnce' /\ SongsAreHeld' /\ OneInFront'
  BY <1>1 DEF IInv, PlacesMatch, LentOnce, SongsAreHeld, OneInFront, ShellAt
<1> QED
  BY <1>2, <1>3 DEF IInv

LEMMA TaskEndedStep == ASSUME IInv, TaskEnded PROVE IInv'
<1> DEFINE j == shell.job
<1>1. /\ shell.at = "wait" /\ j \in Job /\ proc[j] \in {"zombie", "reaped"}
      /\ shell' = ShellAt("menu", Shell) /\ front' = Shell
      /\ UNCHANGED <<raw, term, song, at, oldt>>
  BY DEF TaskEnded, places, IInv, TypeOK
<1>2. /\ proc' \in [Job -> Life] /\ proc'[j] = "reaped"
      /\ \A k \in Job : k # j => proc'[k] = proc[k]
      /\ bg_tasks' \in [Job -> {"none", "active", "minimized"}]
  BY <1>1 DEF TaskEnded, IInv, TypeOK, Life
<1>3. TypeOK'
  BY <1>1, <1>2 DEF IInv, TypeOK, ShellAt, Life
<1>4. PlacesMatch' /\ LentOnce' /\ SongsAreHeld' /\ OneInFront'
  BY <1>1, <1>2 DEF IInv, PlacesMatch, LentOnce, SongsAreHeld, OneInFront, ShellAt
<1> QED
  BY <1>3, <1>4 DEF IInv

LEMMA TaskStoppedStep == ASSUME IInv, TaskStopped PROVE IInv'
<1> DEFINE j == shell.job
<1>1. /\ shell.at = "wait" /\ j \in Job /\ proc[j] \in {"stopped", "reaped"}
      /\ shell' = ShellAt("menu", Shell) /\ front' = Shell
      /\ UNCHANGED <<raw, proc, term, song, at, oldt>>
      /\ bg_tasks' \in [Job -> {"none", "active", "minimized"}]
  BY DEF TaskStopped, places, IInv, TypeOK
<1>2. TypeOK'
  BY <1>1 DEF IInv, TypeOK, ShellAt, Life
<1>3. PlacesMatch' /\ LentOnce' /\ SongsAreHeld' /\ OneInFront'
  BY <1>1 DEF IInv, PlacesMatch, LentOnce, SongsAreHeld, OneInFront, ShellAt
<1> QED
  BY <1>2, <1>3 DEF IInv

LEMMA SigchldHandlerStep == ASSUME IInv, NEW j \in Job, sigchld_handler(j) PROVE IInv'
<1>1. /\ proc[j] = "zombie" /\ proc' \in [Job -> Life] /\ proc'[j] = "reaped"
      /\ \A k \in Job : k # j => proc'[k] = proc[k]
      /\ UNCHANGED <<song, term>>
  BY DEF sigchld_handler, IInv, TypeOK, Life
<1>2. Calms
  BY <1>1 DEF Calms, IInv, TypeOK, SongsAreHeld, Song
<1> QED
  BY <1>2, CalmStep DEF sigchld_handler, Rest

\* At the menu no player is heard, and so none is behind it.
LEMMA ShutdownStep == ASSUME IInv, shutdown_os PROVE IInv'
<1>1. shell.at = "menu" /\ shell' = ShellAt("shutdown", Shell)
      /\ UNCHANGED <<front, raw, bg_tasks, at, oldt>>
  BY DEF shutdown_os, AtMenu, tty, places
<1>2. \A j \in Job : song[j] # "running"
  BY <1>1, JobsAssumption DEF IInv, SongsAreHeld, OneInFront, Job
<1>3. Calms
  BY <1>2, TermCalms DEF shutdown_os
<1>4. TypeOK'
  BY <1>1, <1>3 DEF IInv, TypeOK, ShellAt, Calms, Life, Song
<1>5. PlacesMatch' /\ LentOnce' /\ SongsAreHeld' /\ OneInFront'
  BY <1>1, <1>3 DEF IInv, PlacesMatch, LentOnce, SongsAreHeld, OneInFront, ShellAt, Calms
<1> QED
  BY <1>4, <1>5 DEF IInv

LEMMA ExitsStep == ASSUME IInv, Exits PROVE IInv'
<1> DEFINE hungUp == {j \in Job : proc[j] = "stopped" \/ SongStopped(j)}
<1>1. /\ shell.at \in {"shutdown", "menu"}
      /\ \E how : shell' = ShellAt("off", how)
      /\ UNCHANGED <<front, raw, bg_tasks, term, at, oldt>>
  BY DEF Exits, AtMenu, tty, places
<1>2. /\ proc' = [j \in Job |-> IF j \in hungUp \/ proc[j] = "zombie" THEN "reaped" ELSE proc[j]]
      /\ song' = [j \in Job |-> IF j \in hungUp THEN "none" ELSE song[j]]
  BY DEF Exits
<1> HIDE DEF hungUp
<1>3. proc' \in [Job -> Life] /\ song' \in [Job -> Song]
  BY <1>2 DEF IInv, TypeOK, Life, Song
<1>4. \A j \in Job : song[j] # "running"
  BY <1>1, JobsAssumption DEF IInv, SongsAreHeld, OneInFront, Job
<1>5. Calms
  BY <1>1, <1>2, <1>3, <1>4 DEF Calms, IInv, TypeOK
<1>6. TypeOK'
  BY <1>1, <1>3 DEF IInv, TypeOK, ShellAt, Life, Song
<1>7. PlacesMatch' /\ LentOnce' /\ SongsAreHeld' /\ OneInFront'
  BY <1>1, <1>5 DEF IInv, PlacesMatch, LentOnce, SongsAreHeld, OneInFront, ShellAt, Calms
<1> QED
  BY <1>6, <1>7 DEF IInv

-----------------------------------------------------------------------------
(* The jobs *)

\* A job goes to another place of its program, with no song that is heard but while it plays.
LEMMA GoesStep ==
    ASSUME IInv, NEW j \in Job, NEW place, Goes(j, place),
           UNCHANGED <<tty, shell, bg_tasks, proc, term>>,
           j \in Player => place \in {"start", "exec", "request", "ask", "play", "stop"},
           j \in Clock => place \in {"start", "exec", "request", "mode", "loop", "restore"},
           j \in Quiet => place \in {"start", "exec", "request", "loop"},
           song' \in [Job -> Song],
           \A k \in Job : k # j => song'[k] = song[k],
           song'[j] # "none" => j \in Player,
           song'[j] = "running" => proc[j] = "running" /\ place = "play"
    PROVE  IInv'
<1>1. UNCHANGED <<front, raw, shell, bg_tasks, proc, term, oldt>>
  BY DEF tty, Goes
<1>2. place \in {"start", "exec", "request", "ask", "play", "stop", "mode", "loop", "restore"}
  BY DEF Job
<1>3. /\ at' \in [Job -> {"start", "exec", "request", "ask", "play", "stop",
                         "mode", "loop", "restore"}]
      /\ at'[j] = place /\ \A k \in Job : k # j => at'[k] = at[k]
  BY <1>2 DEF Goes, IInv, TypeOK
<1>4. TypeOK'
  BY <1>1, <1>3 DEF IInv, TypeOK, Song
<1>5. PlacesMatch' /\ SongsAreHeld'
  BY <1>1, <1>3 DEF IInv, PlacesMatch, SongsAreHeld
<1>6. LentOnce' /\ OneInFront'
  BY <1>1 DEF IInv, LentOnce, OneInFront
<1> QED
  BY <1>4, <1>5, <1>6 DEF IInv

LEMMA MakesGroupStep == ASSUME IInv, NEW j \in Job, MakesGroup(j) PROVE IInv'
<1>1. /\ Goes(j, "exec") /\ at[j] = "start"
      /\ UNCHANGED <<tty, shell, bg_tasks, proc, term, song>>
  BY DEF MakesGroup, JobStep
<1>2. song \in [Job -> Song] /\ (song[j] # "none" => j \in Player) /\ song[j] # "running"
  BY <1>1 DEF IInv, TypeOK, SongsAreHeld, Song
<1> QED
  BY <1>1, <1>2, GoesStep

LEMMA ExitedStep == ASSUME IInv, NEW j \in Job, Exited(j), at[j] # "play" PROVE IInv'
<1>1. Dies(j) /\ song[j] # "running"
  BY DEF Exited, IInv, SongsAreHeld
<1>2. Calms
  BY <1>1, DeathCalms
<1> QED
  BY <1>2, CalmStep DEF Exited, JobStep, Rest

LEMMA ExecsStep == ASSUME IInv, NEW j \in Job, Execs(j) PROVE IInv'
<1>1. CASE Exited(j)
  BY <1>1, ExitedStep DEF Execs
<1>2. CASE Goes(j, "request") /\ UNCHANGED <<proc, term, song>> /\ JobStep(j)
  <2>1. /\ Goes(j, "request") /\ at[j] = "exec"
        /\ UNCHANGED <<tty, shell, bg_tasks, proc, term, song>>
    BY <1>2 DEF Execs, JobStep
  <2>2. song \in [Job -> Song] /\ (song[j] # "none" => j \in Player) /\ song[j] # "running"
    BY <2>1 DEF IInv, TypeOK, SongsAreHeld, Song
  <2> QED
    BY <2>1, <2>2, GoesStep
<1> QED
  BY <1>1, <1>2 DEF Execs

LEMMA GrantedStep == ASSUME IInv, NEW j \in Job, Granted(j) PROVE IInv'
<1> DEFINE place == IF j \in Player THEN "ask" ELSE IF j \in Clock THEN "mode" ELSE "loop"
<1>1. /\ Goes(j, place) /\ at[j] = "request"
      /\ UNCHANGED <<tty, shell, bg_tasks, proc, term, song>>
  BY DEF Granted, JobStep
<1>2. /\ j \in Player => place \in {"start", "exec", "request", "ask", "play", "stop"}
      /\ j \in Clock => place \in {"start", "exec", "request", "mode", "loop", "restore"}
      /\ j \in Quiet => place \in {"start", "exec", "request", "loop"}
  BY JobsAssumption
<1> HIDE DEF place
<1>3. song \in [Job -> Song] /\ (song[j] # "none" => j \in Player) /\ song[j] # "running"
  BY <1>1 DEF IInv, TypeOK, SongsAreHeld, Song
<1> QED
  BY <1>1, <1>2, <1>3, GoesStep

LEMMA StopsBehindStep == ASSUME IInv, NEW j \in Job, StopsBehind(j) PROVE IInv'
<1>1. Calms
  BY StopCalms DEF StopsBehind
<1> QED
  BY <1>1, CalmStep DEF StopsBehind, JobStep, Rest

LEMMA PicksSongStep == ASSUME IInv, NEW j \in Job, PicksSong(j) PROVE IInv'
<1>1. /\ Goes(j, "play") /\ proc[j] = "running" /\ j \in Player
      /\ song' = [song EXCEPT ![j] = "running"]
      /\ UNCHANGED <<tty, shell, bg_tasks, proc, term>>
  BY DEF PicksSong, Runs, JobStep
<1>2. song' \in [Job -> Song] /\ \A k \in Job : k # j => song'[k] = song[k]
  BY <1>1 DEF IInv, TypeOK, Song
<1> QED
  BY <1>1, <1>2, JobsAssumption, GoesStep

LEMMA QuitsPlayerStep == ASSUME IInv, NEW j \in Job, QuitsPlayer(j) PROVE IInv'
  BY ExitedStep DEF QuitsPlayer

LEMMA SongEndsStep == ASSUME IInv, NEW j \in Job, SongEnds(j) PROVE IInv'
<1>1. /\ song' \in [Job -> Song] /\ song[j] = "running" /\ song'[j] # "running"
      /\ \A k \in Job : k # j => song'[k] = song[k]
      /\ UNCHANGED <<proc, term>>
  BY DEF SongEnds, IInv, TypeOK, Song
<1>2. Calms
  BY <1>1 DEF Calms, IInv, TypeOK, SongsAreHeld, Life
<1> QED
  BY <1>2, CalmStep DEF SongEnds, JobStep, Rest

LEMMA ReapsSongStep == ASSUME IInv, NEW j \in Job, ReapsSong(j) PROVE IInv'
<1>1. /\ Goes(j, "ask") /\ at[j] \in {"play", "stop"}
      /\ song' = [song EXCEPT ![j] = "none"]
      /\ UNCHANGED <<tty, shell, bg_tasks, proc, term>>
  BY DEF ReapsSong, JobStep
<1>2. song' \in [Job -> Song] /\ song'[j] = "none" /\ \A k \in Job : k # j => song'[k] = song[k]
  BY <1>1 DEF IInv, TypeOK, Song
<1>3. j \in Player /\ j \notin Clock /\ j \notin Quiet
  BY <1>1 DEF IInv, PlacesMatch, Job
<1> QED
  BY <1>1, <1>2, <1>3, GoesStep

LEMMA TypesQStep == ASSUME IInv, NEW j \in Job, TypesQ(j) PROVE IInv'
<1>1. /\ Goes(j, "stop") /\ at[j] = "play"
      /\ song' = [song EXCEPT ![j] = CASE @ = "running" -> "zombie"
                                       [] @ = "stopped" -> "killed"
                                       [] OTHER -> @]
      /\ UNCHANGED <<tty, shell, bg_tasks, proc, term>>
  BY DEF TypesQ, JobStep
<1>2. song' \in [Job -> Song] /\ song'[j] # "running" /\ \A k \in Job : k # j => song'[k] = song[k]
  BY <1>1 DEF IInv, TypeOK, Song
<1>3. j \in Player /\ j \notin Clock /\ j \notin Quiet
  BY <1>1 DEF IInv, PlacesMatch, Job
<1> QED
  BY <1>1, <1>2, <1>3, GoesStep

LEMMA SetsModeStep == ASSUME IInv, NEW j \in Job, SetsMode(j) PROVE IInv'
<1>1. /\ at[j] = "mode" /\ raw' \in BOOLEAN /\ oldt' = [oldt EXCEPT ![j] = raw]
      /\ at' = [at EXCEPT ![j] = "loop"]
      /\ UNCHANGED <<front, shell, bg_tasks, proc, term, song>>
  BY DEF SetsMode, IInv, TypeOK
<1>2. oldt' \in [Job -> BOOLEAN]
  BY <1>1 DEF IInv, TypeOK
<1>3. /\ at' \in [Job -> {"start", "exec", "request", "ask", "play", "stop",
                         "mode", "loop", "restore"}]
      /\ at'[j] = "loop" /\ \A k \in Job : k # j => at'[k] = at[k]
  BY <1>1 DEF IInv, TypeOK
<1>4. TypeOK'
  BY <1>1, <1>2, <1>3 DEF IInv, TypeOK
<1>5. j \notin Player
  BY <1>1 DEF IInv, PlacesMatch
<1>6. PlacesMatch' /\ SongsAreHeld'
  BY <1>1, <1>3, <1>5 DEF IInv, PlacesMatch, SongsAreHeld
<1>7. LentOnce' /\ OneInFront'
  BY <1>1 DEF IInv, LentOnce, OneInFront
<1> QED
  BY <1>4, <1>6, <1>7 DEF IInv

LEMMA LeavesLoopStep == ASSUME IInv, NEW j \in Job, LeavesLoop(j) PROVE IInv'
<1>1. at[j] = "loop" /\ j \notin Player /\ song[j] = "none"
  BY DEF LeavesLoop, IInv, PlacesMatch, SongsAreHeld
<1>2. CASE j \in Quiet
  <2>1. Dies(j) /\ UNCHANGED Rest
    BY <1>2 DEF LeavesLoop, Exited, JobStep, Rest
  <2>2. Calms
    BY <1>1, <2>1, DeathCalms
  <2> QED
    BY <2>1, <2>2, CalmStep
<1>3. CASE j \notin Quiet
  <2>1. Goes(j, "restore") /\ UNCHANGED <<tty, shell, bg_tasks, proc, term, song>>
    BY <1>3 DEF LeavesLoop, JobStep
  <2>2. song \in [Job -> Song]
    BY DEF IInv, TypeOK, Song
  <2> QED
    BY <1>1, <1>3, <2>1, <2>2, GoesStep
<1> QED
  BY <1>2, <1>3

LEMMA RestoresModeStep == ASSUME IInv, NEW j \in Job, RestoresMode(j) PROVE IInv'
<1>1. at[j] = "restore" /\ song[j] # "running"
  BY DEF RestoresMode, IInv, SongsAreHeld
<1>2. Dies(j) /\ raw' \in BOOLEAN /\ UNCHANGED <<front, shell, bg_tasks, at, oldt>>
  BY DEF RestoresMode, places, IInv, TypeOK
<1>3. Calms
  BY <1>1, <1>2, DeathCalms
<1>4. TypeOK'
  BY <1>2, <1>3 DEF IInv, TypeOK, Calms, Life, Song
<1>5. PlacesMatch' /\ LentOnce' /\ SongsAreHeld' /\ OneInFront'
  BY <1>2, <1>3 DEF IInv, PlacesMatch, LentOnce, SongsAreHeld, OneInFront, Calms
<1> QED
  BY <1>4, <1>5 DEF IInv

-----------------------------------------------------------------------------
(* The theorems *)

LEMMA JobsInvariant == Spec => []IInv
<1>1. Init => IInv
  <2> SUFFICES ASSUME Init PROVE IInv
    OBVIOUS
  <2>1. TypeOK
    BY DEF Init, TypeOK, ShellAt
  <2>2. PlacesMatch /\ LentOnce /\ OneInFront /\ SongsAreHeld
    BY DEF Init, PlacesMatch, LentOnce, OneInFront, SongsAreHeld
  <2> QED
    BY <2>1, <2>2 DEF IInv
<1>2. ASSUME IInv, [Next]_vars PROVE IInv'
  <2>1. CASE UNCHANGED vars
    <3>1. UNCHANGED <<front, raw, shell, bg_tasks, proc, term, song, at, oldt>>
      BY <2>1 DEF vars, tty, places
    <3>2. TypeOK'
      BY <1>2, <3>1 DEF IInv, TypeOK
    <3>3. PlacesMatch' /\ LentOnce' /\ OneInFront' /\ SongsAreHeld'
      BY <1>2, <3>1 DEF IInv, PlacesMatch, LentOnce, OneInFront, SongsAreHeld
    <3> QED
      BY <3>2, <3>3 DEF IInv
  <2>2. CASE ShellSteps \/ shutdown_os \/ Exits
    <3>1. ASSUME NEW j \in Daemon, start_daemon(j) PROVE IInv'
      BY <1>2, <3>1, JobsAssumption, StartDaemonStep DEF Job
    <3> QED
      BY <1>2, <2>2, <3>1, GivesTerminalStep, TaskEndedStep, TaskStoppedStep, ShutdownStep,
         ExitsStep DEF ShellSteps, Boots
  <2>3. ASSUME NEW j \in Job, Keys(j) PROVE IInv'
    BY <1>2, <2>3, CtrlZStep, CtrlCStep, TaskManagerKillsStep, PicksSongStep, TypesQStep DEF Keys
  <2>4. ASSUME NEW j \in Job, Menu(j) PROVE IInv'
    BY <1>2, <2>4, LaunchTaskStep, ManageForegroundStep DEF Menu
  <2>5. ASSUME NEW j \in Job, Steps(j) PROVE IInv'
    BY <1>2, <2>5, MakesGroupStep, ExecsStep, StopsBehindStep, SongEndsStep, ReapsSongStep,
       SetsModeStep, RestoresModeStep DEF Steps
  <2>6. ASSUME NEW j \in Job,
               Granted(j) \/ NotGranted(j) \/ QuitsPlayer(j) \/ LeavesLoop(j) \/ sigchld_handler(j)
        PROVE  IInv'
    <3>1. NotGranted(j) => IInv'
      BY <1>2, ExitedStep DEF NotGranted
    <3> QED
      BY <1>2, <2>6, <3>1, GrantedStep, QuitsPlayerStep, LeavesLoopStep, SigchldHandlerStep
  <2> QED
    BY <1>2, <2>1, <2>2, <2>3, <2>4, <2>5, <2>6 DEF Next
<1> QED
  BY <1>1, <1>2, PTL DEF Spec

\* os.cpp, foreground_task: whatever Ctrl+Z, signals, waitpid and tcsetpgrp do to each other,
\* the shell asks for a command only with the terminal in its hand and nothing but daemons
\* running.
THEOREM OnlyDaemonsBehindMenu == Spec => []MenuIsAlone
<1>1. IInv => MenuIsAlone
  BY DEF IInv, MenuIsAlone, AtMenu, Runs, LentOnce, OneInFront, SongsAreHeld
<1> QED
  BY <1>1, JobsInvariant, PTL

\* music_player.cpp: no song goes on without the player that can stop it, however the
\* player is stopped, resumed, killed or ends.
THEOREM SongsHavePlayers == Spec => []NoSongAlone
<1>1. IInv => NoSongAlone
  BY DEF IInv, NoSongAlone, Alive, SongsAreHeld
<1> QED
  BY <1>1, JobsInvariant, PTL
=============================================================================
