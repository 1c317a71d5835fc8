------------------------------- MODULE Shell --------------------------------
(***************************************************************************)
(* os.cpp: the menu thread.  It starts the daemons and the tasks, waits    *)
(* for the one in the foreground, minimises and resumes, and shuts the     *)
(* system down; sigchld_handler runs beside it and reaps any child.        *)
(*                                                                         *)
(* A child in the foreground is waited for twice, by the menu thread and   *)
(* by the handler's waitpid(-1).  If the handler wins, the menu thread's   *)
(* waitpid fails and the status it goes on to test was never written.      *)
(***************************************************************************)
EXTENDS IpcManager, InterruptHandler

CONSTANT NoPid
ASSUME ShellAssumption == NoPid \notin Pid

VARIABLES
    foreground,     \* the child the menu thread waits for, or NoPid at the menu
    bg_tasks,       \* the pids in bg_tasks[]
    stopped         \* the children a stop signal has suspended

AtMenu == foreground = NoPid /\ os_running /\ \A d \in Daemons : child[d] # "unborn"

Remember(p) ==
    bg_tasks' = IF Cardinality(bg_tasks) < MAX_PROCESSES THEN bg_tasks \union {p} ELSE bg_tasks

start_daemon(p) ==
    /\ p \in Daemons
    /\ StartChild(p)
    /\ Remember(p)
    /\ UNCHANGED <<foreground, stopped>>

launch_task(p) ==
    /\ AtMenu
    /\ p \notin Daemons
    /\ StartChild(p)
    /\ Remember(p)
    /\ foreground' = p
    /\ UNCHANGED stopped

\* manage_foreground up to foreground_task's waitpid.
manage_foreground(p) ==
    /\ AtMenu
    /\ p \in bg_tasks
    /\ send_resume(p)
    /\ foreground' = p
    /\ stopped' = stopped \ {p}
    /\ UNCHANGED bg_tasks

\* Ctrl+Z: waitpid reports the stop and the task is minimised.
ForegroundStops(p) ==
    /\ foreground = p
    /\ child[p] \in Alive
    /\ stopped' = stopped \union {p}
    /\ send_minimize(p)
    /\ foreground' = NoPid
    /\ UNCHANGED bg_tasks

\* waitpid reports the death, or fails and leaves a status that reads as one.
ForegroundExits(p) ==
    /\ foreground = p
    /\ child[p] \in {"zombie", "reaped"}
    /\ child' = [child EXCEPT ![p] = "reaped"]
    /\ remove_pcb(p)
    /\ bg_tasks' = bg_tasks \ {p}
    /\ foreground' = NoPid
    /\ UNCHANGED <<ipc, notice, stopped>>

\* waitpid fails and leaves a status that reads as a stop: the dead task is
\* minimised and stays in bg_tasks.
ForegroundMisread(p) ==
    /\ foreground = p
    /\ child[p] = "reaped"
    /\ send_minimize(p)
    /\ foreground' = NoPid
    /\ UNCHANGED <<bg_tasks, stopped>>

\* Mutant: the child is reaped and its PCB forgotten.
sigchld_handler_reaps(p) ==
    /\ child[p] = "zombie"
    /\ child' = [child EXCEPT ![p] = "reaped"]
    /\ UNCHANGED <<pcb_table, queues, reclaiming, ipc, notice>>

\* One turn of the loop in sigchld_handler.
sigchld_handler(p) ==
    /\ child[p] = "zombie"
    /\ child' = [child EXCEPT ![p] = "reaped"]
    /\ remove_pcb(p)
    /\ UNCHANGED <<ipc, notice>>

shutdown_os ==
    /\ AtMenu
    /\ os_running' = FALSE
    /\ SignalQueueCond

\* waitpid alone.
Reaps(p) ==
    /\ child[p] = "zombie"
    /\ child' = [child EXCEPT ![p] = "reaped"]
    /\ UNCHANGED <<ipc, notice>>

\* The last loop of shutdown_os reaps without touching the table.
FinalReap(p) == ~os_running /\ Reaps(p)

ShellTypeOK ==
    /\ foreground \in Pid \union {NoPid}
    /\ bg_tasks \subseteq Pid
    /\ stopped \subseteq Pid

ShellInit == foreground = NoPid /\ bg_tasks = {} /\ stopped = {}
=============================================================================
