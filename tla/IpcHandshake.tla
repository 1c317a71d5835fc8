---------------------------- MODULE IpcHandshake ----------------------------
(***************************************************************************)
(* The request, the answer and the termination notice of one child, system *)
(* call by system call: ipc_manager.h in the child, launch_task or         *)
(* start_daemon in the menu thread, handle_ipc_request in a thread of its  *)
(* own, and ipc_listener_loop.                                             *)
(*                                                                         *)
(* Paths of different children differ, so one child shows all there is.    *)
(* The descriptors are named after who opens them: "thread" is the one     *)
(* handle_ipc_request reads the request from and "answer" the second one   *)
(* it opens.  Memory may suffice or not: the answer is either.             *)
(***************************************************************************)
EXTENDS NamedPipe

VARIABLES
    pc,             \* where the menu thread, the child, the thread and the listener are
    registered,     \* the child's PCB: "never", "held", "released", or "dropped" for want of room
    response,       \* what the thread decided: "none", "GRANT", "DENY"
    child_read      \* what the child's read of the answer brought

vars == <<pipe, pc, registered, response, child_read>>

HandshakeAssumption ==
    /\ Desc = {"child", "thread", "answer", "listener"}
    /\ MaxFifos \in Nat /\ 2 <= MaxFifos

Message == {"REQ", "GRANT", "DENY", "TERM"}

go(who, to) == pc' = [pc EXCEPT ![who] = to]
at(who, label) == pc[who] = label

ChildAlive == pc["child"] \notin {"unborn", "dead", "reaped"}

remove_pcb == registered' = IF registered = "held" THEN "released" ELSE registered

-----------------------------------------------------------------------------
(* The menu thread: launch_task, which goes on to wait for the child, or    *)
(* start_daemon, which does not.                                           *)

Fork ==
    /\ at("main", "fork")
    /\ pc' = [pc EXCEPT !["main"] = "unlink", !["child"] = "mkfifo"]
    /\ UNCHANGED <<pipe, registered, response, child_read>>

UnlinkOld ==
    /\ at("main", "unlink")
    /\ unlink
    /\ go("main", "mkfifo")
    /\ UNCHANGED <<registered, response, child_read>>

MakePipe ==
    /\ at("main", "mkfifo")
    /\ mkfifo
    /\ go("main", "create_thread")
    /\ UNCHANGED <<registered, response, child_read>>

CreateThread ==
    /\ at("main", "create_thread")
    /\ \E next \in {"waitpid", "menu"} :
          pc' = [pc EXCEPT !["main"] = next, !["thread"] = "open"]
    /\ UNCHANGED <<pipe, registered, response, child_read>>

\* Ctrl+Z, or a status nobody wrote that reads as a stop; manage_foreground.
Minimize ==
    /\ at("main", "waitpid") /\ ~at("child", "dead")
    /\ go("main", "menu")
    /\ UNCHANGED <<pipe, registered, response, child_read>>

Resume ==
    /\ at("main", "menu")
    /\ go("main", "waitpid")
    /\ UNCHANGED <<pipe, registered, response, child_read>>

\* foreground_task, or the handler of SIGCHLD before it.
RemoveDead ==
    /\ at("child", "dead")
    /\ remove_pcb
    /\ go("child", "reaped")
    /\ UNCHANGED <<pipe, response, child_read>>

CleanUp ==
    /\ at("main", "waitpid") /\ at("child", "reaped")
    /\ remove_pcb
    /\ unlink
    /\ go("main", "menu")
    /\ UNCHANGED <<response, child_read>>

-----------------------------------------------------------------------------
(* The child: send_resource_request, wait_for_grant, send_termination_notice. *)

ChildMakesPipe ==
    /\ at("child", "mkfifo")
    /\ mkfifo
    /\ go("child", "open_request")
    /\ UNCHANGED <<registered, response, child_read>>

OpenRequest ==
    /\ at("child", "open_request")
    /\ IF path = NoFile
       THEN UNCHANGED pipe /\ go("child", "open_answer")
       ELSE open_writing("child") /\ go("child", "write_request")
    /\ UNCHANGED <<registered, response, child_read>>

WriteRequest ==
    /\ at("child", "write_request") /\ IsOpen("child")
    /\ IF CanWrite("child")
       THEN write("child", "REQ") /\ go("child", "close_request")
       ELSE close({"child"}) /\ go("child", "dead")
    /\ UNCHANGED <<registered, response, child_read>>

CloseRequest ==
    /\ at("child", "close_request")
    /\ close({"child"})
    /\ go("child", "open_answer")
    /\ UNCHANGED <<registered, response, child_read>>

\* Mutant: the child does not wait for the thread to open its end.
OpenAnswer_nonblocking ==
    /\ at("child", "open_answer")
    /\ IF path = NoFile
       THEN UNCHANGED pipe /\ go("child", "dead")
       ELSE open_reading("child", FALSE) /\ go("child", "read_answer")
    /\ UNCHANGED <<registered, response, child_read>>

OpenAnswer ==
    /\ at("child", "open_answer")
    /\ IF path = NoFile
       THEN UNCHANGED pipe /\ go("child", "dead")
       ELSE open_reading("child", TRUE) /\ go("child", "read_answer")
    /\ UNCHANGED <<registered, response, child_read>>

ReadAnswer ==
    /\ at("child", "read_answer") /\ IsOpen("child") /\ CanRead("child")
    /\ child_read' = Contents("child")
    /\ read("child")
    /\ go("child", "close_answer")
    /\ UNCHANGED <<registered, response>>

CloseAnswer ==
    /\ at("child", "close_answer")
    /\ close({"child"})
    /\ go("child", IF \E i \in DOMAIN child_read : child_read[i] = "GRANT"
                   THEN "running" ELSE "dead")
    /\ UNCHANGED <<registered, response, child_read>>

TerminationMakesPipe ==
    /\ at("child", "running")
    /\ mkfifo
    /\ go("child", "open_notice")
    /\ UNCHANGED <<registered, response, child_read>>

\* O_NONBLOCK: without a reader, or without a file, there is no notice.
OpenNotice ==
    /\ at("child", "open_notice")
    /\ IF path # NoFile /\ readers[path] # {}
       THEN open_writing("child") /\ go("child", "write_notice")
       ELSE UNCHANGED pipe /\ go("child", "unlink")
    /\ UNCHANGED <<registered, response, child_read>>

WriteNotice ==
    /\ at("child", "write_notice")
    /\ IF CanWrite("child")
       THEN write("child", "TERM") /\ go("child", "close_notice")
       ELSE close({"child"}) /\ go("child", "dead")
    /\ UNCHANGED <<registered, response, child_read>>

CloseNotice ==
    /\ at("child", "close_notice")
    /\ close({"child"})
    /\ go("child", "unlink")
    /\ UNCHANGED <<registered, response, child_read>>

ChildUnlinks ==
    /\ at("child", "unlink")
    /\ unlink
    /\ go("child", "dead")
    /\ UNCHANGED <<registered, response, child_read>>

\* A signal, or execl that fails.
ChildDies ==
    /\ ChildAlive
    /\ close({"child"})
    /\ go("child", "dead")
    /\ UNCHANGED <<registered, response, child_read>>

-----------------------------------------------------------------------------
(* The thread: handle_ipc_request. *)

ThreadOpens ==
    /\ at("thread", "open")
    /\ IF path = NoFile
       THEN UNCHANGED pipe /\ go("thread", "done")
       ELSE open_reading("thread", TRUE) /\ go("thread", "read")
    /\ UNCHANGED <<registered, response, child_read>>

ThreadReads ==
    /\ at("thread", "read") /\ IsOpen("thread") /\ CanRead("thread")
    /\ read("thread")
    /\ LET text == Contents("thread") IN
       IF text = <<>> THEN go("thread", "close")
       ELSE IF text[1] = "REQ" THEN go("thread", "allocate")
       ELSE IF text[1] = "TERM" THEN go("thread", "remove")
       ELSE go("thread", "close")
    /\ UNCHANGED <<registered, response, child_read>>

\* Mutant: the thread closes its reading end as soon as it has the request.
Allocate_closes ==
    /\ at("thread", "allocate")
    /\ close({"thread"})
    /\ \E r \in {"GRANT", "DENY"} :
          /\ response' = r
          /\ go("thread", IF r = "GRANT" THEN "create_pcb" ELSE "open_answer")
    /\ UNCHANGED <<registered, child_read>>

\* allocate_resources, which has the memory or has not.
Allocate ==
    /\ at("thread", "allocate")
    /\ \E r \in {"GRANT", "DENY"} :
          /\ response' = r
          /\ go("thread", IF r = "GRANT" THEN "create_pcb" ELSE "open_answer")
    /\ UNCHANGED <<pipe, registered, child_read>>

\* create_pcb makes the PCB unless the table is full; the answer is GRANT all the same.
CreatePcb ==
    /\ at("thread", "create_pcb")
    /\ registered' \in {"held", "dropped"}
    /\ go("thread", "open_answer")
    /\ UNCHANGED <<pipe, response, child_read>>

ThreadOpensAnswer ==
    /\ at("thread", "open_answer")
    /\ IF path = NoFile
       THEN UNCHANGED pipe /\ go("thread", "close")
       ELSE open_writing("answer") /\ go("thread", "write_answer")
    /\ UNCHANGED <<registered, response, child_read>>

ThreadWrites ==
    /\ at("thread", "write_answer") /\ IsOpen("answer")
    /\ IF CanWrite("answer")
       THEN write("answer", response) /\ go("thread", "close_answer")
       ELSE UNCHANGED pipe /\ go("thread", "killed")
    /\ UNCHANGED <<registered, response, child_read>>

ThreadClosesAnswer ==
    /\ at("thread", "close_answer")
    /\ close({"answer"})
    /\ go("thread", "close")
    /\ UNCHANGED <<registered, response, child_read>>

\* Before it closes its descriptor the thread acts on a notice as the listener does.
ThreadCloses ==
    /\ at("thread", "remove") \/ at("thread", "close")
    /\ IF at("thread", "remove")
       THEN remove_pcb /\ unlink /\ go("thread", "close")
       ELSE close({"thread"}) /\ go("thread", "done") /\ UNCHANGED registered
    /\ UNCHANGED <<response, child_read>>

-----------------------------------------------------------------------------
(* The listener: one turn of ipc_listener_loop for this child. *)

ListenerSees ==
    /\ at("listener", "copy_pids") /\ registered = "held"
    /\ go("listener", "open")
    /\ UNCHANGED <<pipe, registered, response, child_read>>

ListenerOpens ==
    /\ at("listener", "open")
    /\ IF path = NoFile
       THEN UNCHANGED pipe /\ go("listener", "copy_pids")
       ELSE open_reading("listener", FALSE) /\ go("listener", "read")
    /\ UNCHANGED <<registered, response, child_read>>

\* Mutant: whatever it reads is taken for a notice.
ListenerReads_anything ==
    /\ at("listener", "read")
    /\ go("listener", IF Contents("listener") # <<>> THEN "remove" ELSE "close")
    /\ read("listener")
    /\ UNCHANGED <<registered, response, child_read>>

ListenerReads ==
    /\ at("listener", "read")
    /\ LET text == Contents("listener") IN
       go("listener", IF text # <<>> /\ text[1] = "TERM" THEN "remove" ELSE "close")
    /\ read("listener")
    /\ UNCHANGED <<registered, response, child_read>>

ListenerRemoves ==
    /\ at("listener", "remove")
    /\ remove_pcb
    /\ unlink
    /\ go("listener", "close")
    /\ UNCHANGED <<response, child_read>>

ListenerCloses ==
    /\ at("listener", "close")
    /\ close({"listener"})
    /\ go("listener", "copy_pids")
    /\ UNCHANGED <<registered, response, child_read>>

-----------------------------------------------------------------------------

Init ==
    /\ PipeInit
    /\ pc = [who \in {"main", "child", "thread", "listener"} |->
                CASE who = "main" -> "fork" [] who = "child" -> "unborn"
                  [] who = "thread" -> "none" [] who = "listener" -> "copy_pids"]
    /\ registered = "never" /\ response = "none" /\ child_read = <<>>

MainStep ==
    \/ Fork \/ UnlinkOld \/ MakePipe \/ CreateThread
    \/ Minimize \/ Resume \/ RemoveDead \/ CleanUp

ChildStep ==
    \/ ChildMakesPipe \/ OpenRequest \/ WriteRequest \/ CloseRequest
    \/ OpenAnswer \/ ReadAnswer \/ CloseAnswer
    \/ TerminationMakesPipe \/ OpenNotice \/ WriteNotice \/ CloseNotice \/ ChildUnlinks
    \/ ChildDies

ThreadStep ==
    \/ ThreadOpens \/ ThreadReads \/ Allocate \/ CreatePcb
    \/ ThreadOpensAnswer \/ ThreadWrites \/ ThreadClosesAnswer \/ ThreadCloses

ListenerStep ==
    \/ ListenerSees \/ ListenerOpens \/ ListenerReads \/ ListenerRemoves \/ ListenerCloses

Next == MainStep \/ ChildStep \/ ThreadStep \/ ListenerStep

Spec == Init /\ [][Next]_vars

\* The threads of the kernel run on; the child and the user owe nothing.
FairSpec == Spec /\ WF_vars(ThreadStep) /\ WF_vars(ListenerStep)

-----------------------------------------------------------------------------

TypeOK ==
    /\ PipeTypeOK(Message)
    /\ DOMAIN pc = {"main", "child", "thread", "listener"}
    /\ registered \in {"never", "held", "released", "dropped"}
    /\ response \in {"none", "GRANT", "DENY"}
    /\ child_read \in Seq(Message)

\* The thread keeps its reading end open while it answers: it opens the other end
\* without waiting, writes without a SIGPIPE that would end the whole system, and
\* that is so although the path is unlinked and made again around it.
AnswerNeedsNoWait ==
    /\ "answer" \notin blocked
    /\ at("thread", "write_answer") => CanWrite("answer")
    /\ ~at("thread", "killed")

\* One FIFO carries the messages of both directions, and a read takes all there is:
\* no two messages ever meet in it, and each is read by a side it can be meant for.
MessagesNeverMix ==
    /\ TypeOK
    /\ \A f \in Fifo : Len(buffer[f]) <= 1
    /\ child_read \in {<<>>, <<"GRANT">>, <<"DENY">>}
    /\ ~at("thread", "remove")

Protocol == INSTANCE GrantProtocol WITH
    task <- CASE pc["child"] \in {"open_notice", "write_notice", "close_notice", "unlink",
                                  "dead", "reaped"} -> "gone"
              [] at("child", "running") -> "running"
              [] OTHER -> "waiting"

\* With all the ways a message can get lost, the task runs only behind the one create_pcb
\* that is made for it, without a PCB only if the table had no room there, and a PCB that
\* was made is never removed under it.
ImplementsGrantProtocol == Protocol!Spec

\* Once the request is in the thread's FIFO the thread comes to its end, whatever
\* becomes of the child.
RequestIsServed ==
    at("thread", "read") /\ IsOpen("thread") /\ Contents("thread") = <<"REQ">>
        ~> at("thread", "done")

-----------------------------------------------------------------------------
(* What README.md says of the protocol and what can happen instead. *)

\* "Kernel IPC thread reads request" (README.md:264): the child and the thread that
\* is to serve it do not wait for each other on two different FIFOs.
RequestIsRead == ~({"child", "thread"} \subseteq blocked)

\* "Task reads response via wait_for_grant()" (README.md:266): a child is not left
\* waiting for an answer after the thread has given it.
AnswerIsRead ==
    at("thread", "done") /\ response # "none" => "child" \notin blocked

\* "Kernel writes GRANT or DENY back to pipe", and the task reads it (README.md:265):
\* the listener takes nothing from the FIFO but notices.
ListenerTakesOnlyNotices ==
    [][at("listener", "read") /\ pc'["listener"] # "read" =>
          Contents("listener") \in {<<>>, <<"TERM">>}]_vars

\* "Writes TERM:<PID> to pipe" (README.md:271): a task that ends in order says so.
NoticeIsWritten ==
    [][at("child", "open_notice") => pc'["child"] \in {"open_notice", "write_notice", "dead"}]_vars
=============================================================================
