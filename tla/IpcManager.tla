----------------------------- MODULE IpcManager -----------------------------
(***************************************************************************)
(* ipc_manager.cpp and ipc_manager.h seen from the PCB table: the request, *)
(* the answer and the termination notice of each child, one thread per     *)
(* child that serves its request, and the listener that looks for notices. *)
(* Every step may come late or never, which is all the table can tell of   *)
(* the FIFOs' own ways of losing a message; IpcHandshake models those.     *)
(***************************************************************************)
EXTENDS ProcessManager

VARIABLES
    child,      \* the life of each child process
    ipc,        \* how far its handle_ipc_request thread has come
    notice      \* whether a "TERM:" it wrote is there to be read

ChildState == {"unborn", "starting", "requested", "running", "leaving", "zombie", "reaped"}
Alive == {"starting", "requested", "running", "leaving"}

\* create_pipe_for_process and pthread_create in start_daemon and launch_task.
StartChild(p) ==
    /\ child[p] = "unborn"
    /\ child' = [child EXCEPT ![p] = "starting"]
    /\ ipc' = [ipc EXCEPT ![p] = "serving"]
    /\ UNCHANGED notice

\* Both open the FIFO, the child writes "REQ:..." and the thread reads it.
send_resource_request(p) ==
    /\ child[p] = "starting" /\ ipc[p] = "serving"
    /\ child' = [child EXCEPT ![p] = "requested"]
    /\ ipc' = [ipc EXCEPT ![p] = "received"]
    /\ UNCHANGED notice

GrantRequest(p) ==
    /\ ipc[p] = "received"
    /\ allocate_resources(ram_req[p], hdd_req[p])
    /\ ipc' = [ipc EXCEPT ![p] = "granted"]
    /\ UNCHANGED <<child, notice>>

DenyRequest(p) ==
    /\ ipc[p] = "received"
    /\ ~CanAllocate(ram_req[p], hdd_req[p])
    /\ ipc' = [ipc EXCEPT ![p] = "denied"]
    /\ UNCHANGED <<child, notice>>

\* Mutant: a request may be served twice.
RegisterChild_again(p) ==
    /\ ipc[p] = "granted"
    /\ LET level == get_queue_level(task_name[p]) IN
       create_pcb(p, level, default_priority[level])
    /\ UNCHANGED <<child, ipc, notice>>

\* create_pcb follows the allocation whatever has become of the child since.
RegisterChild(p) ==
    /\ ipc[p] = "granted"
    /\ LET level == get_queue_level(task_name[p]) IN
       create_pcb(p, level, default_priority[level])
    /\ ipc' = [ipc EXCEPT ![p] = "replied"]
    /\ UNCHANGED <<child, notice>>

\* Mutant: the answer is sent before create_pcb.
wait_for_grant_early(p) ==
    /\ child[p] = "requested" /\ ipc[p] \in {"granted", "replied"}
    /\ child' = [child EXCEPT ![p] = "running"]
    /\ UNCHANGED <<ipc, notice>>

\* The answer is read; a task that finds none, or "DENY", ends as in ChildDies.
wait_for_grant(p) ==
    /\ child[p] = "requested" /\ ipc[p] = "replied"
    /\ child' = [child EXCEPT ![p] = "running"]
    /\ UNCHANGED <<ipc, notice>>

\* The notice is written only if somebody has the FIFO open for reading, which
\* only the listener does and only for a process it saw in the table.
send_termination_notice(p) ==
    /\ child[p] = "running"
    /\ child' = [child EXCEPT ![p] = "leaving"]
    /\ \E written \in {FALSE, SlotsOf(p) # {}} : notice' = [notice EXCEPT ![p] = written]
    /\ UNCHANGED ipc

\* "TERM:" read by ipc_listener_loop.
ReadNotice(p) ==
    /\ notice[p]
    /\ notice' = [notice EXCEPT ![p] = FALSE]
    /\ remove_pcb(p)
    /\ UNCHANGED <<child, ipc>>

\* A child exits or is killed, at any point of its life.
ChildDies(p) ==
    /\ child[p] \in Alive
    /\ child' = [child EXCEPT ![p] = "zombie"]
    /\ UNCHANGED <<ipc, notice>>

IpcManagerTypeOK ==
    /\ child \in [Pid -> ChildState]
    /\ ipc \in [Pid -> {"none", "serving", "received", "granted", "denied", "replied"}]
    /\ notice \in [Pid -> BOOLEAN]

IpcManagerInit ==
    /\ child = [p \in Pid |-> "unborn"]
    /\ ipc = [p \in Pid |-> "none"]
    /\ notice = [p \in Pid |-> FALSE]
=============================================================================
