--------------------------- MODULE MCSharedFiles ----------------------------
(***************************************************************************)
(* The files that several processes share: todo.txt with the windows of    *)
(* the to-do list, system.log with those who write it, and system.log with *)
(* those who read it.  They are modelled apart, and one run checks them    *)
(* all: the initial state chooses one, which is all that ever moves.       *)
(***************************************************************************)
EXTENDS Integers, Sequences, TLC

CONSTANTS
    NoFile, Window, Text, MAX_TODOS, Faults,
    Thread, KEEP, MAX_LOG_SIZE, Monitor, Header, Hole, MaxTime,
    c1, c2, Child, ram, TOTAL, RING, SHOWN, MAX_LOG_LINES, PAGE_SIZE

VARIABLES
    chosen,
    todo_txt, todos, pc, unsaved, kept,
    log, clock, stamp, log_lock, daemon_running, monitor, rotation, lines, written, cleared,
    free, pcbs, maker, remover, kernel_log, disturbed, seen

Todos == INSTANCE TodoList WITH file <- todo_txt
Writers == INSTANCE SystemLog
Readers == INSTANCE LogReaders WITH log <- kernel_log

ASSUME FilesAssumption ==
    Todos!TodoAssumption /\ Writers!LogAssumption /\ Readers!ReadersAssumption

todo == <<todo_txt, todos, pc, unsaved, kept>>
writers == <<log, clock, stamp, log_lock, daemon_running, monitor, rotation, lines, written, cleared>>
readers == <<free, pcbs, maker, remover, kernel_log, disturbed, seen>>
vars == <<chosen, todo, writers, readers>>

Init ==
    /\ chosen \in {"todo.txt", "log writers", "log readers"}
    /\ Todos!Init /\ Writers!Init /\ Readers!Init

Next ==
    \/ chosen = "todo.txt" /\ Todos!Next /\ UNCHANGED <<chosen, writers, readers>>
    \/ chosen = "log writers" /\ Writers!Next /\ UNCHANGED <<chosen, todo, readers>>
    \/ chosen = "log readers" /\ Readers!Next /\ UNCHANGED <<chosen, todo, writers>>

Spec == Init /\ [][Next]_vars

-----------------------------------------------------------------------------
(* What each child asks of the kernel.                                     *)

MC_ram == c1 :> 2 @@ c2 :> 1

-----------------------------------------------------------------------------

\* todo_list.cpp: with one window at a time the file is the list at every menu.
FileIsList == chosen = "todo.txt" => Todos!FileIsList

\* logger.cpp, log_daemon.cpp: the kernel's lines stand in the order of their times.
KernelLinesInOrder == chosen = "log writers" => Writers!KernelLinesInOrder

\* log_daemon.cpp: a rotation keeps the newest lines it has read, in their order.
RotationKeepsNewest == Writers!RotationKeepsNewest

\* resource_dashboard.cpp: what it works out from the lines of the log is what the kernel has.
DashboardIsRight == chosen = "log readers" => Readers!DashboardIsRight

\* task_manager.cpp, log_viewer.cpp: the newest events in their order, and every page.
ReadersShowLines == chosen = "log readers" => Readers!ReadersShowLines
=============================================================================
