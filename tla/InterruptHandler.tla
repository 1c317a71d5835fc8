-------------------------- MODULE InterruptHandler --------------------------
(***************************************************************************)
(* interrupt_handler.cpp: what a user's or a child's signal does to the    *)
(* PCB table, each a critical section of pcb_lock, and the detached thread *)
(* that ends an interrupt two seconds later (`unblocking' counts these).   *)
(***************************************************************************)
EXTENDS ProcessManager

VARIABLE unblocking

\* "core_id >= 0: core_id = -1; release_core()", wherever it stands.
GiveCoreBack(slot) ==
    IF pcb_table[slot].core_id >= 0 THEN release_core ELSE UNCHANGED free_cores

send_minimize(pid) ==
    IF SlotsOf(pid) = {}
    THEN UNCHANGED <<pcb_table, free_cores>>
    ELSE LET i == FirstSlot(pid) IN
         /\ pcb_table' = [pcb_table EXCEPT ![i].state = "MINIMIZED", ![i].core_id = -1]
         /\ GiveCoreBack(i)

\* core_id is left as it is: a resumed process runs on no core.
send_resume(pid) ==
    IF SlotsOf(pid) = {}
    THEN UNCHANGED pcb_table
    ELSE pcb_table' = [pcb_table EXCEPT ![FirstSlot(pid)].state = "RUNNING"]

RunningSlots(pid) == {i \in SlotsOf(pid) : pcb_table[i].state = "RUNNING"}

\* The critical section of send_interrupt, which no code of the repository calls.
send_interrupt(pid) ==
    IF RunningSlots(pid) = {}
    THEN UNCHANGED <<pcb_table, free_cores, unblocking>>
    ELSE LET i == Min(RunningSlots(pid)) IN
         /\ pcb_table' = [pcb_table EXCEPT ![i].state = "BLOCKED", ![i].core_id = -1]
         /\ GiveCoreBack(i)
         /\ unblocking' = [unblocking EXCEPT ![pid] = @ + 1]

\* The end of unblock_after_delay: it signals queue_cond whatever it found.
unblock_after_delay(pid) ==
    /\ unblocking[pid] > 0
    /\ unblocking' = [unblocking EXCEPT ![pid] = @ - 1]
    /\ LET blocked == {i \in SlotsOf(pid) : pcb_table[i].state = "BLOCKED"} IN
       pcb_table' = [i \in 1..pcb_count |->
                        IF i \in blocked /\ \A j \in blocked : i <= j
                        THEN [pcb_table[i] EXCEPT !.state = "READY"] ELSE pcb_table[i]]
    /\ SignalQueueCond

InterruptHandlerTypeOK == unblocking \in [Pid -> Nat]

InterruptHandlerInit == unblocking = [p \in Pid |-> 0]
=============================================================================
