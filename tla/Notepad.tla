------------------------------ MODULE Notepad -------------------------------
(***************************************************************************)
(* notepad.cpp: the editor's main thread and its autosave_thread, which    *)
(* share the text buffer under buffer_lock and notepad_running under no    *)
(* lock at all.                                                            *)
(*                                                                         *)
(* A save opens the file, which empties it, and prints the buffer line by  *)
(* line; the C library writes what was printed whenever it likes, and at   *)
(* the latest when the file is closed.  A line is what the library writes  *)
(* in one piece: the beginning of a text that is cut in the middle of a    *)
(* line is its beginning all the same.                                     *)
(***************************************************************************)
EXTENDS Integers, SequencesExt

CONSTANTS Line, MAX_LINES, NoFile

\* What is assumed of the constants, where they get their values.
NotepadAssumption == MAX_LINES \in Nat \ {0}

Thread == {"main", "autosave"}
Nobody == "nobody"

VARIABLES
    text_buffer,        \* its first line_count lines
    notepad_running,
    buffer_lock,        \* the thread that holds it
    pc,
    quitting,           \* whether main saves because of :q or :wq
    printed,            \* the lines a save under way has printed
    file,               \* what is on nebula_hdd
    typed,              \* the buffer when the save last begun was begun
    failed              \* whether main's last save could not open the file

others == <<printed, file, typed, failed>>
vars == <<text_buffer, notepad_running, buffer_lock, pc, quitting, others>>

line_count == Len(text_buffer)

go(thread, label) == pc' = [pc EXCEPT ![thread] = label]

-----------------------------------------------------------------------------
(* save_to_file, in either thread. *)

\* Mutant: the buffer is not locked.
OpenFile_unlocked(t) ==
    /\ pc[t] = "save"
    /\ file' = <<>> /\ printed' = [printed EXCEPT ![t] = <<>>] /\ typed' = text_buffer
    /\ failed' = IF t = "main" THEN FALSE ELSE failed
    /\ go(t, "print")
    /\ UNCHANGED <<text_buffer, notepad_running, buffer_lock, quitting>>

OpenFile(t) ==
    /\ pc[t] = "save"
    /\ buffer_lock = Nobody
    /\ buffer_lock' = t
    /\ file' = <<>> /\ printed' = [printed EXCEPT ![t] = <<>>] /\ typed' = text_buffer
    /\ failed' = IF t = "main" THEN FALSE ELSE failed
    /\ go(t, "print")
    /\ UNCHANGED <<text_buffer, notepad_running, quitting>>

AfterSave(t) == IF t = "autosave" THEN "wait" ELSE IF quitting THEN "leave" ELSE "edit"

\* fopen fails: an error is shown and the editor goes on as after a save.
OpenFails(t) ==
    /\ pc[t] = "save"
    /\ buffer_lock = Nobody
    /\ failed' = IF t = "main" THEN TRUE ELSE failed
    /\ go(t, AfterSave(t))
    /\ UNCHANGED <<text_buffer, notepad_running, buffer_lock, quitting, printed, file, typed>>

PrintLine(t) ==
    /\ pc[t] = "print"
    /\ Len(printed[t]) < line_count
    /\ printed' = [printed EXCEPT ![t] = Append(@, text_buffer[Len(@) + 1])]
    /\ file' \in {file, printed'[t]}
    /\ UNCHANGED <<text_buffer, notepad_running, buffer_lock, pc, quitting, typed, failed>>

\* Mutant: the loop over the lines ends one early.
CloseFile_short(t) ==
    /\ pc[t] = "print"
    /\ Len(printed[t]) >= line_count - 1
    /\ file' = printed[t]
    /\ buffer_lock' = Nobody
    /\ go(t, AfterSave(t))
    /\ UNCHANGED <<text_buffer, notepad_running, quitting, printed, typed, failed>>

CloseFile(t) ==
    /\ pc[t] = "print"
    /\ Len(printed[t]) >= line_count
    /\ file' = printed[t]
    /\ buffer_lock' = Nobody
    /\ go(t, AfterSave(t))
    /\ UNCHANGED <<text_buffer, notepad_running, quitting, printed, typed, failed>>

-----------------------------------------------------------------------------
(* main: one command or line of the user at a time. *)

Quit ==
    /\ pc["main"] = "edit"
    /\ go("main", "save")
    /\ quitting' = TRUE
    /\ UNCHANGED <<text_buffer, notepad_running, buffer_lock, others>>

Save ==
    /\ pc["main"] = "edit"
    /\ go("main", "save")
    /\ UNCHANGED <<text_buffer, notepad_running, buffer_lock, quitting, others>>

Clear ==
    /\ pc["main"] = "edit"
    /\ buffer_lock = Nobody
    /\ text_buffer' = <<>>
    /\ UNCHANGED <<notepad_running, buffer_lock, pc, quitting, others>>

TypeLine(line) ==
    /\ pc["main"] = "edit"
    /\ buffer_lock = Nobody
    /\ text_buffer' = IF line_count < MAX_LINES THEN Append(text_buffer, line) ELSE text_buffer
    /\ UNCHANGED <<notepad_running, buffer_lock, pc, quitting, others>>

\* fgets fails: the loop ends without a save.
EndOfInput ==
    /\ pc["main"] = "edit"
    /\ go("main", "leave")
    /\ UNCHANGED <<text_buffer, notepad_running, buffer_lock, quitting, others>>

\* Mutant: the autosave thread is not told.
StopRunning_forgets ==
    /\ pc["main"] = "leave"
    /\ go("main", "join")
    /\ UNCHANGED <<text_buffer, notepad_running, buffer_lock, quitting, others>>

StopRunning ==
    /\ pc["main"] = "leave"
    /\ notepad_running' = FALSE
    /\ go("main", "join")
    /\ UNCHANGED <<text_buffer, buffer_lock, quitting, others>>

Join ==
    /\ pc["main"] = "join" /\ pc["autosave"] = "returned"
    /\ go("main", "done")
    /\ UNCHANGED <<text_buffer, notepad_running, buffer_lock, quitting, others>>

\* Ctrl+C or kill: whatever each thread was doing, it does no more.
Die ==
    /\ pc["main"] # "done"
    /\ pc' = [t \in Thread |-> "killed"]
    /\ UNCHANGED <<text_buffer, notepad_running, buffer_lock, quitting, others>>

-----------------------------------------------------------------------------
(* autosave_thread. *)

\* The 30 seconds are over, or notepad_running was seen to be 0.
WakeUp ==
    /\ pc["autosave"] = "wait"
    /\ go("autosave", IF line_count > 0 /\ notepad_running THEN "save"
                      ELSE IF notepad_running THEN "wait" ELSE "returned")
    /\ UNCHANGED <<text_buffer, notepad_running, buffer_lock, quitting, others>>

-----------------------------------------------------------------------------

Init ==
    /\ text_buffer = <<>> /\ notepad_running = TRUE /\ buffer_lock = Nobody
    /\ pc = [t \in Thread |-> IF t = "main" THEN "edit" ELSE "wait"]
    /\ quitting = FALSE
    /\ printed = [t \in Thread |-> <<>>]
    /\ file = NoFile /\ typed = <<>> /\ failed = FALSE

SaveStep(t) == OpenFile(t) \/ OpenFails(t) \/ PrintLine(t) \/ CloseFile(t)
UserStep == Quit \/ Save \/ Clear \/ (\E l \in Line : TypeLine(l)) \/ EndOfInput
MainStep == SaveStep("main") \/ StopRunning \/ Join
AutosaveStep == SaveStep("autosave") \/ WakeUp

Next == UserStep \/ MainStep \/ AutosaveStep \/ Die

Spec == Init /\ [][Next]_vars

\* Both threads run on; the user owes no input.
FairSpec == Spec /\ WF_vars(MainStep) /\ WF_vars(AutosaveStep)

-----------------------------------------------------------------------------

TypeOK ==
    /\ text_buffer \in Seq(Line) /\ line_count <= MAX_LINES
    /\ notepad_running \in BOOLEAN
    /\ buffer_lock \in Thread \union {Nobody}
    /\ pc["main"] \in {"edit", "save", "print", "leave", "join", "done", "killed"}
    /\ pc["autosave"] \in {"wait", "save", "print", "returned", "killed"}
    /\ \A t \in Thread : Len(printed[t]) <= MAX_LINES

\* The file never holds lines of two states of the buffer nor of two saves: it is the
\* buffer as it was when the last save began, or the beginning of it as long as that
\* save is under way or was killed.
FileIsOneText ==
    /\ TypeOK
    /\ file # NoFile => IsPrefix(file, typed) /\ (buffer_lock = Nobody => file = typed)

\* ":q - Quit (saves automatically)": the editor leaves no line behind, whatever
\* the autosave thread does between the last save and the end.
QuitSavesAll == pc["main"] = "done" /\ quitting /\ ~failed => file = text_buffer

\* Once the user is done typing the process ends: the other thread comes to the join.
LeavingEnds == pc["main"] = "leave" ~> pc["main"] \in {"done", "killed"}

\* "Autosave thread in Notepad uses mutex-guarded buffer access" (README.md:191): it does
\* not empty a note because the buffer it found filled was cleared before it had the lock.
AutosaveKeepsNote ==
    [][pc["autosave"] = "save" /\ pc'["autosave"] = "print" => typed' # <<>>]_vars
=============================================================================
