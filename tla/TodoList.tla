------------------------------ MODULE TodoList ------------------------------
(***************************************************************************)
(* todo_list.cpp: the list a window of the program keeps in memory and the *)
(* file it shares with every other window that is open, now or later.  A   *)
(* window reads the file once, when it starts, and writes the whole of it  *)
(* after each change: fopen empties the file, and what fprintf is given    *)
(* reaches it when the C library's buffer is full, which happens once at   *)
(* most as the longest list is shorter than two buffers, and in fclose.    *)
(***************************************************************************)
EXTENDS Integers, SequencesExt

CONSTANTS
    Window,         \* the processes; each may be started again when it has ended
    Text, MAX_TODOS,
    NoFile,
    Faults          \* whether a signal may end a window and fopen may fail

\* What is left of some text: in a slot into which fgets reads nothing, or of a line
\* that is cut where the buffer was full.
Remnant == "remnant"

Todo == [text : Text \union {Remnant}, done : BOOLEAN]

\* What is assumed of the constants, where they get their values.
TodoAssumption ==
    /\ MAX_TODOS \in Nat \ {0} /\ Faults \in BOOLEAN
    /\ NoFile \notin Seq(Todo)

VARIABLES
    file,           \* nebula_hdd/todo.txt
    todos,          \* the first todo_count entries
    pc,
    unsaved,        \* whether a save of this window could not open the file
    kept            \* the texts that were added and that nobody removed

vars == <<file, todos, pc, unsaved, kept>>

go(w, label) == pc' = [pc EXCEPT ![w] = label]

\* load_todos: the lines beyond MAX_TODOS are left out.
load_todos(w) ==
    /\ pc[w] = "off"
    /\ todos' = [todos EXCEPT ![w] =
                    IF file = NoFile THEN <<>>
                    ELSE SubSeq(file, 1, IF Len(file) < MAX_TODOS THEN Len(file) ELSE MAX_TODOS)]
    /\ unsaved' = [unsaved EXCEPT ![w] = FALSE]
    /\ go(w, "menu")
    /\ UNCHANGED <<file, kept>>

-----------------------------------------------------------------------------
(* One turn of the menu: the list changes and is to be saved. *)

Change(w, list) ==
    /\ pc[w] = "menu"
    /\ todos' = [todos EXCEPT ![w] = list]
    /\ go(w, "save")
    /\ UNCHANGED <<file, unsaved>>

Add(w, text) ==
    /\ Len(todos[w]) < MAX_TODOS
    /\ Change(w, Append(todos[w], [text |-> text, done |-> FALSE]))
    /\ kept' = kept \union {text}

\* The input ends at "Enter task:", and an entry nobody typed is added all the same.
AddNothing(w) ==
    /\ Len(todos[w]) < MAX_TODOS
    /\ Change(w, Append(todos[w], [text |-> Remnant, done |-> FALSE]))
    /\ UNCHANGED kept

Done(w, idx) ==
    /\ Change(w, [todos[w] EXCEPT ![idx].done = TRUE])
    /\ UNCHANGED kept

RemoveTodo(w, idx) ==
    /\ Change(w, RemoveAt(todos[w], idx))
    /\ kept' = kept \ {todos[w][idx].text}

\* [Q]uit, or the end of the input.
Quit(w) ==
    /\ pc[w] = "menu"
    /\ go(w, "off")
    /\ UNCHANGED <<file, todos, unsaved, kept>>

Kill(w) ==
    /\ Faults
    /\ pc[w] # "off"
    /\ go(w, "off")
    /\ UNCHANGED <<file, todos, unsaved, kept>>

-----------------------------------------------------------------------------
(* save_todos. *)

OpenFile(w) ==
    /\ pc[w] = "save"
    /\ file' = <<>>
    /\ unsaved' = [unsaved EXCEPT ![w] = FALSE]
    /\ go(w, "write")
    /\ UNCHANGED <<todos, kept>>

OpenFails(w) ==
    /\ Faults
    /\ pc[w] = "save"
    /\ unsaved' = [unsaved EXCEPT ![w] = TRUE]
    /\ go(w, "menu")
    /\ UNCHANGED <<file, todos, kept>>

\* Every window writes from the start of the file: what another one has written
\* behind the end of this text stays.
Over(text, old) == text \o SubSeq(old, Len(text) + 1, Len(old))

\* The buffer is full: it ends with a line, or with the beginning of one, which may
\* be too short to tell whether the entry is done.
Flush(w) ==
    /\ pc[w] = "write"
    /\ \E n \in DOMAIN todos[w] :
          \E last \in {todos[w][n], [text |-> Remnant, done |-> todos[w][n].done],
                                  [text |-> Remnant, done |-> FALSE]} :
             file' = Over(Append(SubSeq(todos[w], 1, n - 1), last), file)
    /\ go(w, "flushed")
    /\ UNCHANGED <<todos, unsaved, kept>>

\* Mutant: the loop ends one entry early.
CloseFile_short(w) ==
    /\ pc[w] \in {"write", "flushed"}
    /\ file' = Over(Front(todos[w]), file)
    /\ go(w, "menu")
    /\ UNCHANGED <<todos, unsaved, kept>>

CloseFile(w) ==
    /\ pc[w] \in {"write", "flushed"}
    /\ file' = Over(todos[w], file)
    /\ go(w, "menu")
    /\ UNCHANGED <<todos, unsaved, kept>>

-----------------------------------------------------------------------------

Init ==
    /\ file = NoFile
    /\ todos = [w \in Window |-> <<>>]
    /\ pc = [w \in Window |-> "off"]
    /\ unsaved = [w \in Window |-> FALSE]
    /\ kept = {}

Edit(w) ==
    \/ \E text \in Text : Add(w, text)
    \/ AddNothing(w)
    \/ \E idx \in DOMAIN todos[w] : Done(w, idx) \/ RemoveTodo(w, idx)

Next ==
    \E w \in Window :
        \/ load_todos(w) \/ Edit(w) \/ Quit(w) \/ Kill(w)
        \/ OpenFile(w) \/ OpenFails(w) \/ Flush(w) \/ CloseFile(w)

Spec == Init /\ [][Next]_vars

-----------------------------------------------------------------------------

TypeOK ==
    /\ file \in Seq(Todo) \union {NoFile}
    /\ todos \in [Window -> Seq(Todo)]
    /\ \A w \in Window : Len(todos[w]) <= MAX_TODOS
    /\ pc \in [Window -> {"off", "menu", "save", "write", "flushed"}]
    /\ unsaved \in [Window -> BOOLEAN]
    /\ kept \subseteq Text

\* With one window open at a time the file is the list at every menu, whatever became
\* of the windows before, and during a save it is the beginning of the list, of which
\* at most the last line is cut.
FileIsList ==
    /\ TypeOK
    /\ \A w \in Window :
        /\ pc[w] = "menu" /\ ~unsaved[w] =>
              IF file = NoFile THEN todos[w] = <<>> ELSE file = todos[w]
        /\ pc[w] \in {"write", "flushed"} =>
              /\ Len(file) <= Len(todos[w])
              /\ \A i \in DOMAIN file :
                    file[i] = todos[w][i] \/ (i = Len(file) /\ file[i].text = Remnant)

\* "Persistent task list (add, done, remove)" (README.md:220): a text that was added and
\* not removed is in the file whenever no window is about to save.
AddedStays ==
    (\A w \in Window : pc[w] \in {"off", "menu"} /\ ~unsaved[w]) =>
        kept \subseteq {file[i].text : i \in IF file = NoFile THEN {} ELSE DOMAIN file}
=============================================================================
