--------------------------- MODULE ProcessManager ---------------------------
(***************************************************************************)
(* process_manager.cpp: the PCB table and the run queues that index it.    *)
(* Each operator is one critical section of pcb_lock.  remove_pcb gives    *)
(* the memory back only after it has released pcb_lock: `reclaiming' is    *)
(* what such calls still hold in their local variables ram and hdd.        *)
(***************************************************************************)
EXTENDS MemoryManager

VARIABLE reclaiming

Nothing == [ram |-> 0, hdd |-> 0]

Interactive == {"Calculator", "Notepad", "Calendar", "Minigame", "Dice Roller",
                "Task Manager", "Mini Terminal", "To-Do List",
                "Resource Dashboard", "Log Viewer", "Instruction Guide"}

get_queue_level(name) ==
    CASE name \in {"Clock", "Log Daemon"} -> QUEUE_SYSTEM
      [] name \in Interactive -> QUEUE_INTERACTIVE
      [] OTHER -> QUEUE_BACKGROUND

NewProcess(pid, level, priority) ==
    [pid |-> pid, state |-> "READY", priority |-> priority, queue_level |-> level,
     ram_alloc |-> ram_req[pid], hdd_alloc |-> hdd_req[pid],
     wait_time |-> 0, core_id |-> -1]

\* A full table drops the process and tells nobody; queue_cond is signalled either way.
create_pcb(pid, level, priority) ==
    /\ IF pcb_count < MAX_PROCESSES
       THEN /\ pcb_table' = Append(pcb_table, NewProcess(pid, level, priority))
            /\ queues' = [queues EXCEPT ![level] = push(@, pcb_count + 1)]
       ELSE UNCHANGED <<pcb_table, queues>>
    /\ SignalQueueCond

\* The critical section of remove_pcb: the table closes the gap and every queue
\* is rebuilt from it.
remove_pcb(pid) ==
    IF SlotsOf(pid) = {}
    THEN UNCHANGED <<pcb_table, queues, reclaiming>>
    ELSE LET i == FirstSlot(pid) IN
         /\ pcb_table' = RemoveAt(pcb_table, i)
         /\ queues' = RebuiltQueues(pcb_table')
         /\ reclaiming' = [reclaiming EXCEPT ![pid] = [ram |-> pcb_table[i].ram_alloc,
                                                       hdd |-> pcb_table[i].hdd_alloc]]

\* Mutant: what is given back is not forgotten.
FinishRemove_again(pid) ==
    /\ reclaiming[pid] # Nothing
    /\ reclaim_resources(reclaiming[pid].ram, reclaiming[pid].hdd)
    /\ UNCHANGED reclaiming

\* What remove_pcb does once it has released pcb_lock.
FinishRemove(pid) ==
    /\ reclaiming[pid] # Nothing
    /\ reclaim_resources(reclaiming[pid].ram, reclaiming[pid].hdd)
    /\ reclaiming' = [reclaiming EXCEPT ![pid] = Nothing]

update_state(pid, new_state) ==
    /\ SlotsOf(pid) # {}
    /\ pcb_table' = [pcb_table EXCEPT ![FirstSlot(pid)].state = new_state]

Clamp(priority) == Max({0, Min({priority, MAX_PRIORITY})})

set_process_priority(pid, priority) ==
    /\ SlotsOf(pid) # {}
    /\ pcb_table' = [pcb_table EXCEPT ![FirstSlot(pid)].priority = Clamp(priority)]

ProcessManagerTypeOK == reclaiming \in [Pid -> [ram : Nat, hdd : Nat]]

ProcessManagerInit == reclaiming = [p \in Pid |-> Nothing]
=============================================================================
