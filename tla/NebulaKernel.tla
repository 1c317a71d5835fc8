---------------------------- MODULE NebulaKernel ----------------------------
(***************************************************************************)
(* The running kernel: the menu thread, the SIGCHLD handler, the children, *)
(* their IPC threads and the listener, the scheduler, the aging thread and *)
(* the interrupt timers, interleaved at the critical sections of pcb_lock, *)
(* resource_lock, core_mutex and queue_mutex.                              *)
(*                                                                         *)
(* Commands are the menu commands the user of an instance gives; Api names *)
(* the functions of the kernel that nothing in the repository calls and    *)
(* that are called here nevertheless, at most MaxApiCalls times; Api = {}  *)
(* is the program as it ships.                                             *)
(***************************************************************************)
EXTENDS Scheduler, Shell, DeadlockDetector

CONSTANTS Commands, Api, MaxApiCalls
ASSUME ApiAssumption ==
    /\ Commands \subseteq {"launch", "foreground", "shutdown"}
    /\ Api \subseteq {"send_interrupt", "set_process_priority", "update_state", "acquire_core"}
    /\ MaxApiCalls \in Nat

VARIABLES
    api_calls,
    handler_stuck   \* whether sigchld_handler waits for ever for a lock its own thread holds

memory == <<free_RAM, free_HDD>>
table == <<pcb_table, queues>>
tasks == <<child, ipc, notice>>
shell == <<foreground, bg_tasks, stopped>>
threads == <<scheduler, aging, unblocking>>
rest == <<api_calls, handler_stuck>>
vars == <<kernel, reclaiming, tasks, shell, threads, rest>>

-----------------------------------------------------------------------------
(* The menu thread and the handler of SIGCHLD. *)

BootDaemon(p) ==
    /\ start_daemon(p)
    /\ UNCHANGED <<kernel, reclaiming, threads, rest>>

Launch(p) ==
    /\ "launch" \in Commands
    /\ launch_task(p)
    /\ UNCHANGED <<kernel, reclaiming, threads, rest>>

Resume(p) ==
    /\ "foreground" \in Commands
    /\ manage_foreground(p)
    /\ UNCHANGED <<queues, memory, free_cores, queue_cond, os_running,
                   reclaiming, tasks, threads, rest>>

Minimize(p) ==
    /\ ForegroundStops(p) \/ ForegroundMisread(p)
    /\ UNCHANGED <<queues, memory, queue_cond, os_running,
                   reclaiming, tasks, threads, rest>>

Exit(p) ==
    /\ ForegroundExits(p)
    /\ UNCHANGED <<memory, free_cores, queue_cond, os_running, threads, rest>>

Sigchld(p) ==
    /\ sigchld_handler(p)
    /\ UNCHANGED <<memory, free_cores, queue_cond, os_running, shell, threads, rest>>

Shutdown ==
    /\ "shutdown" \in Commands
    /\ shutdown_os
    /\ UNCHANGED <<table, memory, free_cores, reclaiming, tasks, shell, threads, rest>>

LastReap(p) ==
    /\ FinalReap(p)
    /\ UNCHANGED <<kernel, reclaiming, shell, threads, rest>>

\* sigchld_handler has interrupted a thread that holds log_lock, pcb_lock or resource_lock,
\* and wants it: between waitpid and the end of remove_pcb, or behind it in
\* reclaim_resources.  Which threads go on depends on the lock: all may, and none has to.
HandlerSticks(p) ==
    /\ handler_stuck' = TRUE
    /\ \/ Reaps(p)
       \/ reclaiming[p] # Nothing /\ UNCHANGED tasks
    /\ UNCHANGED <<kernel, reclaiming, shell, threads, api_calls>>

-----------------------------------------------------------------------------
(* The children and the IPC threads. *)

ChildStep(p) ==
    /\ p \notin stopped
    /\ send_resource_request(p) \/ wait_for_grant(p) \/ send_termination_notice(p)
    /\ UNCHANGED <<kernel, reclaiming, shell, threads, rest>>

Die(p) ==
    /\ ChildDies(p)
    /\ UNCHANGED <<kernel, reclaiming, shell, threads, rest>>

Grant(p) ==
    /\ GrantRequest(p)
    /\ UNCHANGED <<table, free_cores, queue_cond, os_running,
                   reclaiming, shell, threads, rest>>

Deny(p) ==
    /\ DenyRequest(p)
    /\ UNCHANGED <<kernel, reclaiming, shell, threads, rest>>

Register(p) ==
    /\ RegisterChild(p)
    /\ UNCHANGED <<memory, free_cores, os_running, reclaiming, shell, threads, rest>>

Listen(p) ==
    /\ ReadNotice(p)
    /\ UNCHANGED <<memory, free_cores, queue_cond, os_running, shell, threads, rest>>

Reclaim(p) ==
    /\ FinishRemove(p)
    /\ UNCHANGED <<table, free_cores, queue_cond, os_running, tasks, shell, threads, rest>>

-----------------------------------------------------------------------------
(* The scheduler, the aging thread and the interrupt timers. *)

Dispatch ==
    /\ DispatchQ0 \/ DispatchQ1 \/ DispatchQ2
    /\ UNCHANGED <<memory, free_cores, queue_cond, os_running, reclaiming,
                   tasks, shell, aging, unblocking, rest>>

SchedulerPauses ==
    /\ NothingToDispatch \/ QuantumOver
    /\ UNCHANGED <<kernel, reclaiming, tasks, shell, aging, unblocking, rest>>

SchedulerWaits ==
    /\ StartWait \/ Woken \/ TimedOut
    /\ UNCHANGED <<table, memory, free_cores, os_running, reclaiming,
                   tasks, shell, aging, unblocking, rest>>

Age ==
    /\ AgingTick
    /\ UNCHANGED <<memory, free_cores, queue_cond, os_running, reclaiming,
                   tasks, shell, scheduler, unblocking, rest>>

Unblock(p) ==
    /\ unblock_after_delay(p)
    /\ UNCHANGED <<queues, memory, free_cores, os_running, reclaiming,
                   tasks, shell, scheduler, aging, rest>>

-----------------------------------------------------------------------------
(* The functions without a caller. *)

Call(f) == f \in Api /\ api_calls < MaxApiCalls /\ api_calls' = api_calls + 1 /\ UNCHANGED handler_stuck

\* kill(pid, SIGUSR1): no task handles the signal, and its default is to terminate.
Interrupt(p) ==
    /\ Call("send_interrupt")
    /\ p \in bg_tasks
    /\ send_interrupt(p)
    /\ child' = IF child[p] \in Alive /\ p \notin stopped
                THEN [child EXCEPT ![p] = "zombie"] ELSE child
    /\ UNCHANGED <<queues, memory, queue_cond, os_running, reclaiming,
                   ipc, notice, shell, scheduler, aging>>

SetPriority(p) ==
    /\ Call("set_process_priority")
    /\ \E priority \in {-1, 0, 1, MAX_PRIORITY + 1} : set_process_priority(p, priority)
    /\ UNCHANGED <<queues, memory, free_cores, queue_cond, os_running,
                   reclaiming, tasks, shell, threads>>

UpdateState(p) ==
    /\ Call("update_state")
    /\ \E s \in ProcessState : update_state(p, s)
    /\ UNCHANGED <<queues, memory, free_cores, queue_cond, os_running,
                   reclaiming, tasks, shell, threads>>

AcquireCore ==
    /\ Call("acquire_core")
    /\ acquire_core
    /\ UNCHANGED <<table, memory, queue_cond, os_running, reclaiming, tasks, shell, threads>>

-----------------------------------------------------------------------------

Init ==
    /\ KernelInit /\ ProcessManagerInit /\ IpcManagerInit
    /\ ShellInit /\ SchedulerInit /\ InterruptHandlerInit
    /\ api_calls = 0 /\ handler_stuck = FALSE

MenuStep(p) == BootDaemon(p) \/ Launch(p) \/ Resume(p) \/ Minimize(p) \/ Exit(p) \/ LastReap(p)
TaskStep(p) ==
    ChildStep(p) \/ Die(p) \/ Sigchld(p) \/ HandlerSticks(p) \/ Listen(p) \/ Reclaim(p)
IpcStep(p) == Grant(p) \/ Deny(p) \/ Register(p)
ApiStep(p) == Interrupt(p) \/ SetPriority(p) \/ UpdateState(p)
SchedulerStep == Dispatch \/ SchedulerPauses \/ SchedulerWaits
ThreadStep == SchedulerStep \/ Age

Next ==
    \/ \E p \in Pid : MenuStep(p) \/ TaskStep(p) \/ IpcStep(p) \/ ApiStep(p) \/ Unblock(p)
    \/ ThreadStep \/ AcquireCore \/ Shutdown

Spec == Init /\ [][Next]_vars

\* Each kernel thread keeps running as long as none waits for itself in the handler: it
\* waits for nothing but a timer and locks that are held for a bounded time then.  Users,
\* children and messages owe nothing.
KernelThreads ==
    /\ WF_vars(~handler_stuck /\ SchedulerStep) /\ WF_vars(~handler_stuck /\ Age)
    /\ WF_vars(~handler_stuck /\ \E p \in Pid : Unblock(p))
    /\ WF_vars(~handler_stuck /\ \E p \in Pid : Sigchld(p) \/ Reclaim(p))

FairSpec == Spec /\ KernelThreads

-----------------------------------------------------------------------------
(* Invariants. *)

TypeOK ==
    /\ KernelTypeOK /\ ProcessManagerTypeOK /\ IpcManagerTypeOK
    /\ ShellTypeOK /\ SchedulerTypeOK /\ InterruptHandlerTypeOK
    /\ api_calls \in Nat /\ handler_stuck \in BOOLEAN

\* Whatever moves in the table, a queue holds as many entries as the table has
\* processes of its level and each entry names a slot of such a process: a push
\* never finds its queue full and get() never follows a stale pointer.
QueuesMatchTable ==
    \A l \in Level :
        /\ Len(queues[l]) = Cardinality(LevelSlots(pcb_table, l))
        /\ \A n \in DOMAIN queues[l] : queues[l][n] \in LevelSlots(pcb_table, l)

\* The queues that promise first come, first served hold exactly the processes
\* of their level, in the order in which these were created.
FcfsQueuesExact ==
    \A l \in {QUEUE_SYSTEM, QUEUE_BACKGROUND} :
        queues[l] = InTableOrder(LevelSlots(pcb_table, l))

\* DispatchQ1 loses entries of queue_Q1, but never one that waits for the scheduler.
ReadyIsQueued ==
    \A i \in 1..pcb_count : pcb_table[i].state = "READY" =>
        \E n \in DOMAIN queues[pcb_table[i].queue_level] :
            queues[pcb_table[i].queue_level][n] = i

\* A child has at most one PCB, only once its request was granted, and none while a
\* remove_pcb still has to give back what a former one held.
OnePcbPerChild ==
    \A p \in Pid :
        /\ \A i, j \in SlotsOf(p) : i = j
        /\ ipc[p] # "replied" => SlotsOf(p) = {} /\ reclaiming[p] = Nothing
        /\ SlotsOf(p) # {} => reclaiming[p] = Nothing

\* Before it knows of its grant a child has its PCB, and keeps it while it runs.
RunningHasPcb == \A p \in Pid : child[p] = "running" => SlotsOf(p) # {}

\* What child p holds: through its PCB, between grant and PCB, or in a remove_pcb
\* that has not yet given it back.
Holds(p) ==
    LET slots == SlotsOf(p)
        i == FirstSlot(p)
    IN  [ram |-> (IF slots # {} THEN pcb_table[i].ram_alloc ELSE 0)
                 + (IF ipc[p] = "granted" THEN ram_req[p] ELSE 0) + reclaiming[p].ram,
         hdd |-> (IF slots # {} THEN pcb_table[i].hdd_alloc ELSE 0)
                 + (IF ipc[p] = "granted" THEN hdd_req[p] ELSE 0) + reclaiming[p].hdd]

\* No megabyte is lost or made: what is free and what the children hold is the
\* machine's total, as long as the table never overflows.
Conservation ==
    /\ free_RAM + MapThenSumSet(LAMBDA p : Holds(p).ram, Pid) = total_RAM
    /\ free_HDD + MapThenSumSet(LAMBDA p : Holds(p).hdd, Pid) = total_HDD

\* A core number stands only in the PCB of a process the scheduler made RUNNING,
\* and as no dispatch ever takes a core from free_cores it is always core 0.
OnlyCoreZero ==
    \A i \in 1..pcb_count :
        pcb_table[i].core_id # -1 => pcb_table[i].state = "RUNNING" /\ pcb_table[i].core_id = 0

-----------------------------------------------------------------------------
(* What a step may not do. *)

Dispatched(i) == scheduler = "scan" /\ scheduler' = "quantum" /\ pcb_table'[i] # pcb_table[i]

\* The scheduler passes over no READY process of a more urgent level, nor, in the levels
\* served first come, first served, one that was created earlier, nor in queue_Q0 one of
\* a higher priority, although the loops that should sort that queue do nothing.
DispatchesFirst ==
    [][\A i \in 1..pcb_count : Dispatched(i) =>
          \A j \in 1..pcb_count : pcb_table[j].state = "READY" =>
              /\ pcb_table[i].queue_level <= pcb_table[j].queue_level
              /\ pcb_table[i].queue_level = pcb_table[j].queue_level
                 /\ pcb_table[i].queue_level # QUEUE_INTERACTIVE => i <= j
              /\ pcb_table[i].queue_level = QUEUE_SYSTEM
                 /\ pcb_table[j].queue_level = QUEUE_SYSTEM
                 => pcb_table[i].priority <= pcb_table[j].priority]_vars

\* A process never sinks to a less urgent level, whoever moves it in the table.
LevelsOnlyRise ==
    [][\A p \in Pid : SlotsOf(p) # {} /\ SlotsOf(p)' # {} =>
          pcb_table'[FirstSlot(p)'].queue_level <= pcb_table[FirstSlot(p)].queue_level]_vars

\* Memory moves only between the free counters and one child at a time, and all of
\* what it moves arrives, also while the table is full; what a full table loses is the
\* memory of the one child whose PCB create_pcb drops at that moment.
MovesMemory(p) ==
    /\ free_RAM' - free_RAM = Holds(p).ram - Holds(p)'.ram
    /\ free_HDD' - free_HDD = Holds(p).hdd - Holds(p)'.hdd
    /\ \A q \in Pid \ {p} : Holds(q)' = Holds(q)

DropsPcb == pcb_count = MAX_PROCESSES /\ \E p \in Pid : ipc[p] = "granted" /\ ipc'[p] = "replied"

AccountingStep == [][DropsPcb \/ \E p \in Pid : MovesMemory(p)]_vars

-----------------------------------------------------------------------------
(* What the README says of the kernel and the kernel does not do. *)

\* "Core allocation & reclaim" (README.md:104): only a core that was taken is given back.
FreeCoresBounded == free_cores <= total_cores

\* "Q1: Round Robin, interactive apps" (README.md:161): each of them takes its turn in Q1.
InteractiveStayQueued ==
    \A i \in LevelSlots(pcb_table, QUEUE_INTERACTIVE) :
        \E n \in DOMAIN queues[QUEUE_INTERACTIVE] : queues[QUEUE_INTERACTIVE][n] = i

\* "On process termination, all resources are automatically reclaimed" (README.md:171):
\* once its request is served and it is reaped, a child has no PCB left, though no handler
\* is in the way.
TerminationReclaims ==
    \A p \in Pid : os_running /\ ~handler_stuck /\ child[p] = "reaped" /\ ipc[p] \in {"denied", "replied"}
                      => SlotsOf(p) = {}

\* "Increment wait_time for all non-running processes" (README.md:286).
AgesOnlyWaiting ==
    [][\A i \in 1..pcb_count :
          scheduler' = scheduler /\ pcb_table[i].state = "RUNNING" /\ Len(pcb_table') = pcb_count
              => /\ pcb_table'[i].wait_time = pcb_table[i].wait_time
                 /\ pcb_table'[i].priority = pcb_table[i].priority]_vars

\* "building a Resource Allocation Graph (RAG) from the current PCB table" (README.md:177):
\* who has memory is in the graph as a holder of it.  Only who is RUNNING is, and who
\* requests is BLOCKED, so that no graph has a cycle and no deadlock is ever reported.
HoldersAreInGraph ==
    \A i \in 1..pcb_count : pcb_table[i].ram_alloc > 0 => <<RAM, i>> \in adj(pcb_table)

-----------------------------------------------------------------------------
(* Liveness, as long as no handler has stopped its own thread. *)

ReadyPcb(p) == \E i \in SlotsOf(p) : pcb_table[i].state = "READY"

\* No READY process starves, although a signal on queue_cond may be lost and queue_Q1 be
\* out of order.
ReadyIsDispatched ==
    \A p \in Pid : ReadyPcb(p) ~> (~ReadyPcb(p) \/ ~os_running \/ handler_stuck)

\* Shutdown stops both threads, also when the scheduler is about to wait.
ThreadsStop == ~os_running ~> (scheduler = "stopped" /\ aging = "stopped") \/ handler_stuck

\* What a terminated child held through its PCB comes back to the free counters, whoever
\* of the menu, the listener and the handler removes it, unless the handler stops for ever.
DeadGiveBack ==
    \A p \in Pid : child[p] = "zombie" /\ SlotsOf(p) # {} /\ os_running
                     ~> (Holds(p) = Nothing \/ ~os_running \/ handler_stuck)
=============================================================================
