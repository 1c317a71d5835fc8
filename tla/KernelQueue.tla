---------------------------- MODULE KernelQueue -----------------------------
(***************************************************************************)
(* class KernelQueue of kernel.h: the ring buffer behind queue_Q0, _Q1 and *)
(* _Q2.  A queue is a record of the members of the class, an operator is a *)
(* member function, and the state is one queue with the value its last     *)
(* call returned.  An item stands for a Process* and for the pid found     *)
(* there; None for a null pointer and for a pid nobody has, such as the -1 *)
(* that aging_loop gives to remove.                                        *)
(***************************************************************************)
EXTENDS Integers, Sequences, SequencesExt

CONSTANTS Item, None, MAX_PROCESSES

\* What is assumed of the constants, where they get their values.
QueueAssumption == MAX_PROCESSES \in Nat \ {0} /\ None \notin Item

Index == 0..(MAX_PROCESSES - 1)

VARIABLES queue, returned

KernelQueue ==
    [data |-> [i \in Index |-> None], front_idx |-> 0, rear_idx |-> 0, count |-> 0]

push(q, x) ==
    IF q.count >= MAX_PROCESSES THEN q
    ELSE [q EXCEPT !.data[q.rear_idx] = x,
                   !.rear_idx = (@ + 1) % MAX_PROCESSES,
                   !.count = @ + 1]

\* What pop returns, and what it leaves.
front(q) == IF q.count = 0 THEN None ELSE q.data[q.front_idx]
popped(q) ==
    IF q.count = 0 THEN q
    ELSE [q EXCEPT !.front_idx = (@ + 1) % MAX_PROCESSES, !.count = @ - 1]

\* Mutant: the index is taken from the start of the array.
get_unrotated(q, index) ==
    IF index < 0 \/ index >= q.count THEN None ELSE q.data[index]

get(q, index) ==
    IF index < 0 \/ index >= q.count THEN None
    ELSE q.data[(q.front_idx + index) % MAX_PROCESSES]

\* The first loop of remove moves what is kept to temp, the second one back.
Drain(q, pid) ==
    FoldLeft(LAMBDA s, i : [queue |-> popped(s.queue),
                            temp |-> IF front(s.queue) # pid
                                     THEN Append(s.temp, front(s.queue)) ELSE s.temp],
             [queue |-> q, temp |-> <<>>],
             [i \in 1..q.count |-> i])

remove(q, pid) ==
    LET drained == Drain(q, pid)
    IN  FoldLeft(push, drained.queue, drained.temp)

-----------------------------------------------------------------------------

CallPush(x) == queue' = push(queue, x) /\ returned' = (queue.count < MAX_PROCESSES)

CallPop == queue' = popped(queue) /\ returned' = front(queue)

CallGet(index) == returned' = get(queue, index) /\ UNCHANGED queue

CallRemove(pid) == queue' = remove(queue, pid) /\ returned' = None

Init == queue = KernelQueue /\ returned = None

Next ==
    \/ \E x \in Item : CallPush(x)
    \/ CallPop
    \/ \E i \in -1..MAX_PROCESSES : CallGet(i)
    \/ \E x \in Item \union {None} : CallRemove(x)

Spec == Init /\ [][Next]_<<queue, returned>>

-----------------------------------------------------------------------------

\* The entries from the front to the rear.
Contents(q) == [n \in 1..q.count |-> q.data[(q.front_idx + n - 1) % MAX_PROCESSES]]

\* The two ends of the ring and the count never disagree: a full queue is told
\* from an empty one, and the rear is where the next entry belongs.
RingOK ==
    /\ queue.data \in [Index -> Item \union {None}]
    /\ queue.front_idx \in Index /\ queue.rear_idx \in Index
    /\ queue.count \in 0..MAX_PROCESSES
    /\ queue.rear_idx = (queue.front_idx + queue.count) % MAX_PROCESSES

Fifo == INSTANCE BoundedFifo WITH
    fifo <- Contents(queue), result <- returned, Capacity <- MAX_PROCESSES

\* The ring buffer is a bounded queue served first come, first served, with the
\* same return values, wherever its front stands and whatever remove rewrites, and its
\* two ends never disagree with its count.
ImplementsFifo == []RingOK /\ Fifo!Spec
=============================================================================
