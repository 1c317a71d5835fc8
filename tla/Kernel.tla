------------------------------- MODULE Kernel -------------------------------
(***************************************************************************)
(* The kernel's shared state: the types and macros of kernel.h and the     *)
(* globals that os.cpp defines and every kernel thread works on.           *)
(*                                                                         *)
(* A Process* held by a run queue is the index of its slot in pcb_table: a *)
(* queue entry names a place in the table and not a process, so moving the *)
(* table's entries changes what the queues mean.                           *)
(***************************************************************************)
EXTENDS Integers, Sequences, FiniteSets, FiniteSetsExt, SequencesExt

CONSTANTS
    Pid,                    \* the processes that may ever be started
    Daemons,                \* those main starts before it shows the menu
    task_name,              \* the name each one sends in its request
    ram_req, hdd_req,       \* and the MB of RAM and HDD it asks for
    MAX_PROCESSES,
    DEFAULT_PRIORITY_Q0, DEFAULT_PRIORITY_Q1, DEFAULT_PRIORITY_Q2,
    MAX_PRIORITY,           \* 10, the clamp of set_process_priority
    AGING_INTERVAL, Q0_PROMOTE_THRESH,
    total_RAM, total_HDD, total_cores

QUEUE_SYSTEM == 0
QUEUE_INTERACTIVE == 1
QUEUE_BACKGROUND == 2
Level == {QUEUE_SYSTEM, QUEUE_INTERACTIVE, QUEUE_BACKGROUND}

\* The priority create_pcb is given for each level (ipc_manager.cpp).
default_priority ==
    [l \in Level |-> CASE l = QUEUE_SYSTEM -> DEFAULT_PRIORITY_Q0
                       [] l = QUEUE_INTERACTIVE -> DEFAULT_PRIORITY_Q1
                       [] l = QUEUE_BACKGROUND -> DEFAULT_PRIORITY_Q2]

\* The quantities a task asks for are literals in its source, never negative.
ASSUME KernelAssumption ==
    /\ IsFiniteSet(Pid)
    /\ Daemons \subseteq Pid
    /\ ram_req \in [Pid -> Nat]
    /\ hdd_req \in [Pid -> Nat]
    /\ MAX_PROCESSES \in Nat \ {0}
    /\ AGING_INTERVAL \in Nat \ {0}
    /\ MAX_PRIORITY \in Nat
    /\ \A l \in Level : default_priority[l] \in 0..MAX_PRIORITY
    /\ Q0_PROMOTE_THRESH \in Nat
    /\ {total_RAM, total_HDD, total_cores} \subseteq Nat

\* Only the first letters of a state are ever tested: 'RE', 'RU', 'B' or 'R'.
ProcessState == {"READY", "RUNNING", "BLOCKED", "MINIMIZED", "TERMINATED"}
StartsWithR == {"READY", "RUNNING"}

\* class Process.  wait_time is only read modulo AGING_INTERVAL and is kept so;
\* arrive_time and turnaround are never read.
Process ==
    [pid : Pid, state : ProcessState, priority : 0..MAX_PRIORITY,
     queue_level : Level, ram_alloc : Nat, hdd_alloc : Nat,
     wait_time : 0..(AGING_INTERVAL - 1), core_id : -1..(total_cores - 1)]

VARIABLES
    pcb_table,      \* the first pcb_count entries of pcb_table
    queues,         \* queue_Q0, queue_Q1, queue_Q2: sequences of table slots
    free_RAM, free_HDD, free_cores,
    queue_cond,     \* what the scheduler's wait on queue_cond has seen
    os_running

kernel == <<pcb_table, queues, free_RAM, free_HDD, free_cores, queue_cond, os_running>>

pcb_count == Len(pcb_table)

SlotsOf(pid) == {i \in 1..pcb_count : pcb_table[i].pid = pid}

\* What `for (i = 0; i < pcb_count; i++) if (pcb_table[i].pid == pid) ... break;' finds.
FirstSlot(pid) == CHOOSE i \in SlotsOf(pid) : \A j \in SlotsOf(pid) : i <= j

\* Mutant: a new entry at the wrong end.
push_front(q, slot) == IF Len(q) < MAX_PROCESSES THEN <<slot>> \o q ELSE q

\* KernelQueue::push, which does nothing on a full queue.
push(q, slot) == IF Len(q) < MAX_PROCESSES THEN Append(q, slot) ELSE q

\* The slots of table t at level l, in table order: what emptying a queue and
\* walking the table once leaves in it.
LevelSlots(t, l) == {i \in 1..Len(t) : t[i].queue_level = l}

Rank(S, i) == Cardinality({j \in S : j <= i})

InTableOrder(S) == [n \in 1..Cardinality(S) |-> CHOOSE i \in S : Rank(S, i) = n]

\* Mutant: the walk ends one entry early.
RebuiltQueues_short(t) == [l \in Level |-> InTableOrder(LevelSlots(t, l) \ {Len(t)})]

RebuiltQueues(t) == [l \in Level |-> InTableOrder(LevelSlots(t, l))]

\* pthread_cond_signal and _broadcast on queue_cond: the scheduler is its only
\* waiter, and a signal nobody waits for is lost.
SignalQueueCond == queue_cond' = IF queue_cond = "waiting" THEN "signalled" ELSE queue_cond

KernelTypeOK ==
    /\ pcb_table \in Seq(Process)
    /\ pcb_count <= MAX_PROCESSES
    /\ queues \in [Level -> Seq(1..MAX_PROCESSES)]
    /\ free_RAM \in Nat /\ free_HDD \in Nat /\ free_cores \in Nat
    /\ queue_cond \in {"none", "waiting", "signalled"}
    /\ os_running \in BOOLEAN

\* main: init_resources, and the zero-initialised table and queues.
KernelInit ==
    /\ pcb_table = <<>>
    /\ queues = [l \in Level |-> <<>>]
    /\ free_RAM = total_RAM /\ free_HDD = total_HDD /\ free_cores = total_cores
    /\ queue_cond = "none"
    /\ os_running = TRUE
=============================================================================
