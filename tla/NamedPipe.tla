----------------------------- MODULE NamedPipe ------------------------------
(***************************************************************************)
(* The FIFO special file of the operating system as ipc_manager.cpp and    *)
(* ipc_manager.h use it: one path name, the FIFOs it has named one after   *)
(* the other, and the descriptors open on each.                            *)
(*                                                                         *)
(* open() blocks until the other end is opened; a blocked opener counts as *)
(* open and is released by any opening of the other end, even one that is  *)
(* closed again at once.  What is in a FIFO is lost when its last          *)
(* descriptor is closed.                                                   *)
(***************************************************************************)
EXTENDS Integers, Sequences, FiniteSets

CONSTANTS
    Desc,
    MaxFifos        \* no more are ever made: the type invariant says so

NoFile == 0
Fifo == 1..MaxFifos

VARIABLES
    path,               \* the FIFO the path names, or NoFile
    made,               \* how many FIFOs were ever made
    readers, writers,   \* the descriptors open on each, blocked ones included
    blocked,            \* the descriptors whose open has not returned
    buffer              \* what is written and not yet read

pipe == <<path, made, readers, writers, blocked, buffer>>

\* An existing file stays as it is.
mkfifo ==
    /\ IF path = NoFile
       THEN path' = made + 1 /\ made' = made + 1
       ELSE UNCHANGED <<path, made>>
    /\ UNCHANGED <<readers, writers, blocked, buffer>>

unlink == path' = NoFile /\ UNCHANGED <<made, readers, writers, blocked, buffer>>

open_reading(d, waits) ==
    /\ path # NoFile
    /\ readers' = [readers EXCEPT ![path] = @ \union {d}]
    /\ blocked' = (blocked \ writers[path])
                      \union (IF waits /\ writers[path] = {} THEN {d} ELSE {})
    /\ UNCHANGED <<path, made, writers, buffer>>

\* Without O_NONBLOCK; with it the same when there is a reader, and ENXIO when not.
open_writing(d) ==
    /\ path # NoFile
    /\ writers' = [writers EXCEPT ![path] = @ \union {d}]
    /\ blocked' = (blocked \ readers[path])
                      \union (IF readers[path] = {} THEN {d} ELSE {})
    /\ UNCHANGED <<path, made, readers, buffer>>

Files(d) == {f \in Fifo : d \in readers[f] \union writers[f]}

IsOpen(d) == Files(d) # {} /\ d \notin blocked

\* A descriptor is open on one FIFO at most.
FileOf(d) == CHOOSE f \in Files(d) : TRUE

close(ds) ==
    /\ readers' = [f \in Fifo |-> readers[f] \ ds]
    /\ writers' = [f \in Fifo |-> writers[f] \ ds]
    /\ blocked' = blocked \ ds
    /\ buffer' = [f \in Fifo |-> IF readers'[f] \union writers'[f] = {} THEN <<>> ELSE buffer[f]]
    /\ UNCHANGED <<path, made>>

\* With no reader left the writer gets SIGPIPE instead.
CanWrite(d) == readers[FileOf(d)] # {}

write(d, message) ==
    /\ buffer' = [buffer EXCEPT ![FileOf(d)] = Append(@, message)]
    /\ UNCHANGED <<path, made, readers, writers, blocked>>

Contents(d) == buffer[FileOf(d)]

\* A reader finds data, or the end of the file because nobody has it open for writing.
CanRead(d) == Contents(d) # <<>> \/ writers[FileOf(d)] = {}

\* read() takes all there is: no message is longer than the caller's array.
read(d) ==
    /\ buffer' = [buffer EXCEPT ![FileOf(d)] = <<>>]
    /\ UNCHANGED <<path, made, readers, writers, blocked>>

PipeTypeOK(Message) ==
    /\ path \in Fifo \union {NoFile} /\ made \in 0..MaxFifos
    /\ readers \in [Fifo -> SUBSET Desc] /\ writers \in [Fifo -> SUBSET Desc]
    /\ blocked \subseteq Desc
    /\ buffer \in [Fifo -> Seq(Message)]

PipeInit ==
    /\ path = NoFile /\ made = 0
    /\ readers = [f \in Fifo |-> {}] /\ writers = [f \in Fifo |-> {}]
    /\ blocked = {}
    /\ buffer = [f \in Fifo |-> <<>>]
=============================================================================
