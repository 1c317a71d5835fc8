---------------------------- MODULE MCStandAlone ----------------------------
(***************************************************************************)
(* The parts that stand alone: the ring buffer of the run queues, the      *)
(* detector's search, the handshake of one child over its pipe, the        *)
(* editor, the timers and the calendar.  One run checks them all: the      *)
(* initial state chooses one, which is all that ever moves.                *)
(***************************************************************************)
EXTENDS LockOrder

CONSTANTS
    Item, None, MAX_PROCESSES,
    GRAPH_SIZE,
    Desc, MaxFifos,
    Line, MAX_LINES, NoNote,
    MaxSeconds, MaxLines,
    FirstYear, LastYear

VARIABLES
    part,
    queue, returned,
    adj, visited, stack, calls, cycle, result,
    path, made, readers, writers, blocked, buffer, pc, registered, response, child_read,
    text_buffer, notepad_running, buffer_lock, note_pc, quitting, printed, file, typed, failed,
    tool, at, left, keys, kept, eof, rung, cancelled,
    m, y

Ring == INSTANCE KernelQueue
Search == INSTANCE DepthFirst
Handshake == INSTANCE IpcHandshake
Editor == INSTANCE Notepad WITH pc <- note_pc, NoFile <- NoNote
Clocks == INSTANCE Timers WITH typed <- keys
Months == INSTANCE Calendar

ASSUME PartsAssumption ==
    /\ Ring!QueueAssumption /\ Search!GraphAssumption
    /\ Handshake!HandshakeAssumption /\ Editor!NotepadAssumption /\ Clocks!TimersAssumption
    /\ Months!CalendarAssumption

ring == <<queue, returned>>
search == <<adj, visited, stack, calls, cycle, result>>
handshake == <<path, made, readers, writers, blocked, buffer, pc, registered, response, child_read>>
editor == <<text_buffer, notepad_running, buffer_lock, note_pc, quitting, printed, file, typed, failed>>
clocks == <<tool, at, left, keys, kept, eof, rung, cancelled>>
months == <<m, y>>
vars == <<part, ring, search, handshake, editor, clocks, months>>

Init ==
    /\ part \in {"ring buffer", "search", "handshake", "notepad", "timers", "calendar"}
    /\ Ring!Init /\ Search!Init /\ Handshake!Init /\ Editor!Init /\ Clocks!Init /\ Months!Init
    /\ part # "search" => adj = {}
    /\ part # "timers" => tool = "alarm"
    /\ part # "calendar" => m = 1

Only(p, others) == part = p /\ UNCHANGED <<part, others>>

OnlyRing == Only("ring buffer", <<search, handshake, editor, clocks, months>>)
OnlySearch == Only("search", <<ring, handshake, editor, clocks, months>>)
OnlyHandshake == Only("handshake", <<ring, search, editor, clocks, months>>)
OnlyEditor == Only("notepad", <<ring, search, handshake, clocks, months>>)
OnlyClocks == Only("timers", <<ring, search, handshake, editor, months>>)
OnlyMonths == Only("calendar", <<ring, search, handshake, editor, clocks>>)

Next ==
    \/ Ring!Next /\ OnlyRing
    \/ Search!Next /\ OnlySearch
    \/ Handshake!Next /\ OnlyHandshake
    \/ Editor!Next /\ OnlyEditor
    \/ Clocks!Next /\ OnlyClocks
    \/ Months!Next /\ OnlyMonths

\* The fairness each part states, of its own steps.
Fairness ==
    /\ WF_vars(Search!Next /\ OnlySearch)
    /\ WF_vars(Handshake!ThreadStep /\ OnlyHandshake) /\ WF_vars(Handshake!ListenerStep /\ OnlyHandshake)
    /\ WF_vars(Editor!MainStep /\ OnlyEditor) /\ WF_vars(Editor!AutosaveStep /\ OnlyEditor)
    /\ WF_vars(Clocks!Runs /\ OnlyClocks) /\ WF_vars(Clocks!Tick /\ OnlyClocks)

Spec == Init /\ [][Next]_vars /\ Fairness

-----------------------------------------------------------------------------

\* kernel.h: the ring buffer is a bounded queue served first come, first served.
ImplementsFifo == Ring!ImplementsFifo

\* deadlock_detector.cpp: a cycle is reported exactly when the graph has one.
FindsExactlyCycles == part = "search" => Search!FindsExactlyCycles

\* deadlock_detector.cpp: the search ends.
Ends == part = "search" => Search!Ends

\* ipc_manager.cpp: the answer is written without waiting for the child, and kills nobody.
AnswerNeedsNoWait == Handshake!AnswerNeedsNoWait

\* ipc_manager.cpp, ipc_manager.h: no two messages meet in a FIFO, and none is misread.
MessagesNeverMix == part = "handshake" => Handshake!MessagesNeverMix

\* ipc_manager.cpp, ipc_manager.h: the handshake keeps the promise of GrantProtocol.
ImplementsGrantProtocol == Handshake!ImplementsGrantProtocol

\* ipc_manager.cpp: a request that is in the thread's FIFO is served.
RequestIsServed == Handshake!RequestIsServed

\* notepad.cpp: the file never holds lines of two states of the buffer nor of two saves.
FileIsOneText == part = "notepad" => Editor!FileIsOneText

\* notepad.cpp: the editor leaves no line behind at :q.
QuitSavesAll == Editor!QuitSavesAll

\* notepad.cpp: once the user is done typing the process ends.
LeavingEnds == Editor!LeavingEnds

\* alarm.cpp, stopwatch.cpp: nothing is announced before its time or when cancelled.
RingsInTime == part = "timers" => Clocks!RingsInTime

\* alarm.cpp, stopwatch.cpp: an alarm and a countdown end by themselves, every loop at a 'q'.
LoopEnds == Clocks!LoopEnds

\* calendar.cpp: each day stands in its weekday's column, and the months follow on each other.
MonthIsRight == part = "calendar" => Months!MonthIsRight
=============================================================================
