----------------------------- MODULE Scheduler ------------------------------
(***************************************************************************)
(* scheduler.cpp: the dispatching thread scheduler_loop and the thread     *)
(* aging_loop that promotes processes from level to level.                 *)
(*                                                                         *)
(* scheduler_loop reads os_running at the head of its loop ("scan" is the  *)
(* point behind that test), then takes pcb_lock and dispatches at most one *)
(* process; it waits on queue_cond after it has released pcb_lock, so that *)
(* a process may become READY while the thread is at "idle".               *)
(***************************************************************************)
EXTENDS ProcessManager

VARIABLES scheduler, aging

\* Mutant: the scan stops one short of size().
ReadyIn_shortScan(l) ==
    {n \in DOMAIN queues[l] : n < Len(queues[l]) /\ pcb_table[queues[l][n]].state = "READY"}

\* The entries of queue l that the scheduler may dispatch.
ReadyIn(l) == {n \in DOMAIN queues[l] : pcb_table[queues[l][n]].state = "READY"}

\* Mutant: the scan goes on to the last READY entry.
LastReady(l) ==
    queues[l][CHOOSE n \in ReadyIn(l) : \A m \in ReadyIn(l) : m <= n]

\* The slot the scan of queue l stops at.
FirstReady(l) ==
    queues[l][CHOOSE n \in ReadyIn(l) : \A m \in ReadyIn(l) : n <= m]

\* Mutant: off by one.
AssignedCore_next ==
    LET used == total_cores - free_cores + 1
    IN  IF used < 0 THEN 0 ELSE IF used >= total_cores THEN total_cores - 1 ELSE used

\* No core is taken here: the number is computed from the counter and clamped.
AssignedCore ==
    LET used == total_cores - free_cores
        atLeastZero == IF used < 0 THEN 0 ELSE used
    IN  IF atLeastZero >= total_cores THEN total_cores - 1 ELSE atLeastZero

dispatch_process(slot) ==
    pcb_table' = [pcb_table EXCEPT ![slot].state = "RUNNING",
                                   ![slot].core_id = AssignedCore]

\* Mutant: the loop does not look at os_running again.
LoopHead_forever == "scan"

\* The head of the loop, after a quantum or a wait.
LoopHead == IF os_running THEN "scan" ELSE "stopped"

\* The nested loops that should sort queue_Q0 by priority have an empty body.
DispatchQ0 ==
    /\ scheduler = "scan"
    /\ ReadyIn(QUEUE_SYSTEM) # {}
    /\ dispatch_process(FirstReady(QUEUE_SYSTEM))
    /\ scheduler' = "quantum"
    /\ UNCHANGED queues

\* pop() takes the front of queue_Q1, which need not be the process dispatched.
DispatchQ1 ==
    /\ scheduler = "scan"
    /\ ReadyIn(QUEUE_SYSTEM) = {}
    /\ ReadyIn(QUEUE_INTERACTIVE) # {}
    /\ dispatch_process(FirstReady(QUEUE_INTERACTIVE))
    /\ queues' = [queues EXCEPT ![QUEUE_INTERACTIVE] =
                      push(Tail(@), FirstReady(QUEUE_INTERACTIVE))]
    /\ scheduler' = "quantum"

DispatchQ2 ==
    /\ scheduler = "scan"
    /\ ReadyIn(QUEUE_SYSTEM) = {} /\ ReadyIn(QUEUE_INTERACTIVE) = {}
    /\ ReadyIn(QUEUE_BACKGROUND) # {}
    /\ dispatch_process(FirstReady(QUEUE_BACKGROUND))
    /\ scheduler' = "quantum"
    /\ UNCHANGED queues

NothingToDispatch ==
    /\ scheduler = "scan"
    /\ \A l \in Level : ReadyIn(l) = {}
    /\ scheduler' = "idle"

QuantumOver == scheduler = "quantum" /\ scheduler' = LoopHead

\* pthread_cond_timedwait with a deadline one second ahead.
StartWait ==
    /\ scheduler = "idle"
    /\ scheduler' = "waiting"
    /\ queue_cond' = "waiting"

Woken ==
    /\ scheduler = "waiting" /\ queue_cond = "signalled"
    /\ scheduler' = LoopHead
    /\ queue_cond' = "none"

TimedOut ==
    /\ scheduler = "waiting" /\ queue_cond = "waiting"
    /\ scheduler' = LoopHead
    /\ queue_cond' = "none"

\* Mutants: a promotion that leaves out queue_Q1, and the levels mixed up.
Promoted_twice(level, priority) ==
    CASE level = QUEUE_BACKGROUND /\ priority <= Q0_PROMOTE_THRESH -> QUEUE_SYSTEM
      [] level = QUEUE_INTERACTIVE /\ priority = 0 -> QUEUE_SYSTEM
      [] OTHER -> level
Promoted_swapped(level, priority) ==
    CASE level = QUEUE_INTERACTIVE /\ priority <= Q0_PROMOTE_THRESH -> QUEUE_BACKGROUND
      [] level = QUEUE_BACKGROUND /\ priority = 0 -> QUEUE_SYSTEM
      [] OTHER -> level

\* The level of a process whose priority has just been lowered.
Promoted(level, priority) ==
    CASE level = QUEUE_BACKGROUND /\ priority <= Q0_PROMOTE_THRESH -> QUEUE_INTERACTIVE
      [] level = QUEUE_INTERACTIVE /\ priority = 0 -> QUEUE_SYSTEM
      [] OTHER -> level

\* One entry of the aging loop: READY and RUNNING alike grow older.
Aged(p) ==
    LET wait == (p.wait_time + 1) % AGING_INTERVAL
        priority == IF p.priority > 0 THEN p.priority - 1 ELSE p.priority
    IN  CASE p.state \notin StartsWithR \/ p.queue_level = QUEUE_SYSTEM -> p
          [] OTHER -> IF wait # 0 THEN [p EXCEPT !.wait_time = wait]
                      ELSE [p EXCEPT !.wait_time = 0, !.priority = priority,
                                     !.queue_level = Promoted(p.queue_level, priority)]

\* One round of aging_loop; the queues are rebuilt when some level has changed.
AgingTick ==
    /\ aging = "sleep"
    /\ pcb_table' = [i \in 1..pcb_count |-> Aged(pcb_table[i])]
    /\ queues' = IF \E i \in 1..pcb_count :
                        pcb_table'[i].queue_level # pcb_table[i].queue_level
                 THEN RebuiltQueues(pcb_table') ELSE queues
    /\ aging' = IF os_running THEN "sleep" ELSE "stopped"

SchedulerTypeOK ==
    /\ scheduler \in {"scan", "quantum", "idle", "waiting", "stopped"}
    /\ aging \in {"sleep", "stopped"}

SchedulerInit == scheduler = "scan" /\ aging = "sleep"
=============================================================================
