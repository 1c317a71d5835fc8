-------------------------- MODULE DeadlockDetector --------------------------
(***************************************************************************)
(* deadlock_detector.cpp, what run_detection builds under pcb_lock: the    *)
(* resource allocation graph of the PCB table.  The nodes are the slots of *)
(* the table and behind them RAM, HDD and the cores.  The thread changes   *)
(* nothing of the kernel's state: it logs a line if dfs finds a cycle.     *)
(***************************************************************************)
EXTENDS Kernel

RAM == MAX_PROCESSES + 1
HDD == MAX_PROCESSES + 2
CORE == MAX_PROCESSES + 3
Resource == {RAM, HDD, CORE}

\* A BLOCKED process asks for what it holds of RAM and HDD, and for a core if it has none.
Requests(p) ==
    IF p.state # "BLOCKED" THEN {}
    ELSE {r \in Resource : \/ r = RAM /\ p.ram_alloc > 0
                           \/ r = HDD /\ p.hdd_alloc > 0
                           \/ r = CORE /\ p.core_id < 0}

\* A RUNNING process holds them.
Holdings(p) ==
    IF p.state # "RUNNING" THEN {}
    ELSE {r \in Resource : \/ r = RAM /\ p.ram_alloc > 0
                           \/ r = HDD /\ p.hdd_alloc > 0
                           \/ r = CORE /\ p.core_id >= 0}

adj(t) ==
    {e \in (1..Len(t)) \X Resource : e[2] \in Requests(t[e[1]])}
        \union {e \in Resource \X (1..Len(t)) : e[1] \in Holdings(t[e[2]])}
=============================================================================
