-------------------------- MODULE HandshakeProofs ---------------------------
(***************************************************************************)
(* The handshake of ipc_manager.cpp and ipc_manager.h, proved for every    *)
(* number of FIFOs: no two messages meet in a FIFO, the thread's answer    *)
(* needs no wait, and the whole implements GrantProtocol.                  *)
(*                                                                         *)
(* The argument is one inductive invariant.  Its parts say where each of   *)
(* the four processes can be given where the others are, which descriptors *)
(* each holds there, whom an open() keeps waiting, and what can lie in the *)
(* FIFO.  All that is ever open, but for the first opening of a child that *)
(* a second mkfifo overtakes, is open on the FIFO made last.               *)
(***************************************************************************)
EXTENDS IpcHandshake, TLAPS

\* Where the menu thread can be, and where before the old path is removed and made anew.
MainPc == {"fork", "unlink", "mkfifo", "create_thread", "waitpid", "menu"}
Before == {"fork", "unlink", "mkfifo"}

\* The child: before it has sent its request, until it has the answer, with the answer,
\* and once it has begun to leave.
Fresh == {"unborn", "mkfifo", "open_request"}
Asking == {"write_request", "close_request", "open_answer", "read_answer"}
Answered == {"close_answer", "running", "open_notice", "write_notice"}
Left == {"close_notice", "unlink", "dead", "reaped"}

\* The thread between the request and its answer, and after it.
Serving == {"allocate", "create_pcb", "open_answer", "write_answer"}
Done == {"close_answer", "close", "done"}

\* Where the child has the FIFO open, for writing and for reading.
Writing == {"write_request", "close_request", "write_notice", "close_notice"}
Reading == {"read_answer", "close_answer"}

\* Where each process can be at all.
Places ==
    /\ DOMAIN pc = {"main", "child", "thread", "listener"}
    /\ pc["main"] \in MainPc
    /\ pc["child"] \in Fresh \union Asking \union Answered \union Left
    /\ pc["thread"] \in {"none", "open", "read"} \union Serving \union Done
    /\ pc["listener"] \in {"copy_pids", "open", "read", "remove", "close"}

\* At most two FIFOs are made, the path names the last, and only until the menu thread has
\* made its own can the path be without a file while the child needs it.
Paths ==
    /\ path \in {NoFile, made} /\ made \in 0..2
    /\ pc["main"] = "fork" => made = 0 /\ at("child", "unborn")
    /\ pc["main"] = "unlink" =>
         /\ made <= 1 /\ (path = NoFile => made = 0)
         /\ pc["child"] \in {"open_request", "write_request"} => path # NoFile
         /\ pc["child"] # "open_answer"
    /\ pc["main"] = "mkfifo" =>
         /\ path = NoFile => made <= 1
         /\ pc["child"] = "open_answer" => path = NoFile
    /\ pc["main"] \in Before => pc["child"] # "read_answer"
    /\ pc["main"] \notin Before => made > 0 /\ (path = NoFile => pc["child"] \in Left)
    /\ pc["main"] \in Before \union {"create_thread"} <=> at("thread", "none")
    /\ at("child", "unborn") <=> at("main", "fork")
    /\ at("thread", "none") =>
           pc["child"] \in {"unborn", "mkfifo", "open_request", "write_request", "open_answer",
               "read_answer", "dead", "reaped"}

\* Who has which FIFO open, and where.
Ends ==
    /\ \A f \in Fifo :
        /\ "thread" \in readers[f] <=>
               f = made /\ pc["thread"] \in {"read", "close_answer", "close"} \union Serving
        /\ "listener" \in readers[f] <=>
               f = made /\ pc["listener"] \in {"read", "remove", "close"}
        /\ "child" \in readers[f] <=> f = made /\ pc["child"] \in Reading
        /\ "answer" \notin readers[f]
        /\ "answer" \in writers[f] <=>
               f = made /\ pc["thread"] \in {"write_answer", "close_answer"}
        /\ "thread" \notin writers[f] /\ "listener" \notin writers[f]
        /\ "child" \in writers[f] => pc["child"] \in Writing
        /\ pc["child"] \in Writing \ {"write_request"} => ("child" \in writers[f] <=> f = made)

\* Whom an open() keeps waiting: a child that waits on an overtaken FIFO waits for ever.
Waits ==
    /\ blocked \subseteq {"child", "thread"}
    /\ "thread" \in blocked => at("thread", "read")
    /\ "child" \in blocked => pc["child"] \in {"write_request", "read_answer"}
    /\ at("child", "write_request") =>
         /\ \E f \in Fifo : \A g \in Fifo : "child" \in writers[g] <=> g = f
         /\ \A f \in Fifo : "child" \in writers[f] =>
               IF "child" \in blocked THEN f = made => pc["thread"] \in {"none", "open"}
               ELSE f = made /\ at("thread", "read")

\* Where child and thread can be together.
Exchange ==
    /\ pc["child"] \in Fresh \/ (at("child", "write_request") /\ "child" \in blocked) =>
           pc["thread"] \in {"none", "open", "read"} /\ (at("thread", "read") => "thread" \in blocked)
    /\ at("child", "write_request") /\ "child" \notin blocked => at("thread", "read")
    /\ at("child", "read_answer") /\ "child" \notin blocked =>
           pc["thread"] \in {"write_answer"} \union Done
    /\ pc["child"] \in Answered \union {"close_notice", "unlink"} => pc["thread"] \in Done
    /\ pc["child"] \in (Answered \ {"close_answer"}) \union {"close_notice", "unlink"} =>
           child_read = <<"GRANT">>
    /\ pc["thread"] \in {"create_pcb", "open_answer", "write_answer"} => response # "none"
    /\ pc["thread"] \in {"none", "open", "read", "allocate"} => response = "none"
    /\ child_read \in {<<>>, <<"GRANT">>, <<"DENY">>}

\* What the FIFO made last can hold; the others are empty.
Buffers ==
    /\ \A f \in Fifo : buffer[f] # <<>> => f = made
    /\ made > 0 =>
        /\ buffer[made] \in {<<>>, <<"REQ">>, <<"GRANT">>, <<"DENY">>, <<"TERM">>}
        /\ buffer[made] = <<"REQ">> =>
               at("thread", "read") /\ pc["child"] \notin Fresh \union {"write_request"}
        /\ buffer[made] \in {<<"GRANT">>, <<"DENY">>} =>
              /\ pc["thread"] \in Done /\ buffer[made] = <<response>>
              /\ pc["child"] \in {"close_request", "open_answer", "read_answer", "dead",
                  "reaped"}
        /\ buffer[made] = <<"TERM">> => pc["thread"] \in Done /\ pc["child"] \in Left

\* create_pcb has run once the answer is GRANT, and a PCB is released only when the child
\* has left.
Registered ==
    /\ registered \in {"never", "held", "released", "dropped"}
    /\ pc["thread"] \in {"none", "open", "read", "allocate", "create_pcb"} =>
           registered = "never"
    /\ pc["thread"] \in {"open_answer", "write_answer"} \union Done /\ response = "GRANT" =>
           registered # "never"
    /\ child_read = <<"GRANT">> => registered # "never"
    /\ registered = "released" => pc["child"] \in Left
    /\ ~at("listener", "copy_pids") => registered # "never"
    /\ at("listener", "remove") => pc["child"] \in Left

IInv == TypeOK /\ Places /\ Paths /\ Ends /\ Waits /\ Exchange /\ Buffers /\ Registered

-----------------------------------------------------------------------------
(* What the calls of NamedPipe do in such a state *)

USE DEF at, Fifo, NoFile, MainPc, Before, Fresh, Asking, Answered, Left,
    Serving, Done, Writing, Reading

\* The FIFO the path names, and the one a started thread uses, is the one made last.
LEMMA Basics ==
    ASSUME HandshakeAssumption, IInv
    PROVE /\ DOMAIN pc = {"main", "child", "thread", "listener"}
          /\ ~at("thread", "none") => made \in Fifo
          /\ path # NoFile => path = made /\ made \in Fifo
  BY DEF HandshakeAssumption, IInv, TypeOK, PipeTypeOK, Paths, Places

\* open(path, O_RDONLY): the end opened, and who waits after it.
LEMMA OpenReadingEffect ==
    ASSUME HandshakeAssumption, IInv, NEW d \in Desc, NEW waits \in BOOLEAN,
        open_reading(d, waits)
    PROVE  /\ path = made /\ made \in Fifo
           /\ \A f \in Fifo : \A x : x \in readers'[f] <=>
                  x \in readers[f] \/ (f = made /\ x = d)
           /\ \A x : x \in blocked' <=>
                  (x \in blocked /\ x \notin writers[made])
                      \/ (x = d /\ waits /\ writers[made] = {})
           /\ writers[made] = {} <=>
                  "child" \notin writers[made] /\ "answer" \notin writers[made]
           /\ UNCHANGED <<path, made, writers, buffer>>
           /\ PipeTypeOK(Message)'
<1>1. path = made /\ made \in Fifo
  BY Basics DEF open_reading
<1>2. readers \in [Fifo -> SUBSET Desc] /\ blocked \subseteq Desc
  BY DEF IInv, TypeOK, PipeTypeOK
<1>3. readers' = [readers EXCEPT ![made] = @ \union {d}]
  BY <1>1 DEF open_reading
<1>4. readers' \in [Fifo -> SUBSET Desc]
  BY <1>1, <1>2, <1>3
<1>5. blocked' = (blocked \ writers[made])
                     \union (IF waits /\ writers[made] = {} THEN {d} ELSE {})
  BY <1>1 DEF open_reading
<1>6. blocked' \subseteq Desc
  BY <1>2, <1>5
<1>7. UNCHANGED <<path, made, writers, buffer>>
  BY DEF open_reading
<1>8. PipeTypeOK(Message)'
  BY <1>4, <1>6, <1>7 DEF IInv, TypeOK, PipeTypeOK
<1>9. \A x : x \in blocked' <=>
    (x \in blocked /\ x \notin writers[made]) \/ (x = d /\ waits /\ writers[made] = {})
  BY <1>5
<1>10. writers[made] \in SUBSET Desc
  BY <1>1 DEF IInv, TypeOK, PipeTypeOK
<1>11. writers[made] \subseteq {"child", "answer"}
  BY <1>1, <1>10 DEF IInv, Ends, Waits, HandshakeAssumption
<1>12. \A f \in Fifo : \A x : x \in readers'[f] <=> x \in readers[f] \/ (f = made /\ x = d)
  BY <1>1, <1>2, <1>3
<1> QED
  BY <1>1, <1>7, <1>8, <1>9, <1>11, <1>12

\* open(path, O_WRONLY): the end opened, and who waits after it.
LEMMA OpenWritingEffect ==
    ASSUME HandshakeAssumption, IInv, NEW d \in Desc, open_writing(d)
    PROVE  /\ path = made /\ made \in Fifo
           /\ \A f \in Fifo : \A x : x \in writers'[f] <=>
                  x \in writers[f] \/ (f = made /\ x = d)
           /\ \A x : x \in blocked' <=>
                  (x \in blocked /\ x \notin readers[made]) \/ (x = d /\ readers[made] = {})
           /\ readers[made] = {} <=>
                  "child" \notin readers[made]
                      /\ "thread" \notin readers[made] /\ "listener" \notin readers[made]
           /\ UNCHANGED <<path, made, readers, buffer>>
           /\ PipeTypeOK(Message)'
<1>1. path = made /\ made \in Fifo
  BY Basics DEF open_writing
<1>2. writers \in [Fifo -> SUBSET Desc] /\ blocked \subseteq Desc
  BY DEF IInv, TypeOK, PipeTypeOK
<1>3. writers' = [writers EXCEPT ![made] = @ \union {d}]
  BY <1>1 DEF open_writing
<1>4. writers' \in [Fifo -> SUBSET Desc]
  BY <1>1, <1>2, <1>3
<1>5. blocked' = (blocked \ readers[made]) \union (IF readers[made] = {} THEN {d} ELSE {})
  BY <1>1 DEF open_writing
<1>6. blocked' \subseteq Desc
  BY <1>2, <1>5
<1>7. UNCHANGED <<path, made, readers, buffer>>
  BY DEF open_writing
<1>8. PipeTypeOK(Message)'
  BY <1>4, <1>6, <1>7 DEF IInv, TypeOK, PipeTypeOK
<1>9. \A x : x \in blocked' <=>
    (x \in blocked /\ x \notin readers[made]) \/ (x = d /\ readers[made] = {})
  BY <1>5
<1>10. readers[made] \in SUBSET Desc
  BY <1>1 DEF IInv, TypeOK, PipeTypeOK
<1>11. readers[made] \subseteq {"child", "thread", "listener"}
  BY <1>1, <1>10 DEF IInv, Ends, Waits, HandshakeAssumption
<1>12. \A f \in Fifo : \A x : x \in writers'[f] <=> x \in writers[f] \/ (f = made /\ x = d)
  BY <1>1, <1>2, <1>3
<1> QED
  BY <1>1, <1>7, <1>8, <1>9, <1>11, <1>12

\* close(): what the last descriptor leaves behind is lost.
LEMMA CloseEffect ==
    ASSUME HandshakeAssumption, IInv, NEW d, close({d})
    PROVE  /\ \A f \in Fifo : /\ readers'[f] = readers[f] \ {d}
                              /\ writers'[f] = writers[f] \ {d}
                              /\ buffer'[f] \in {buffer[f], <<>>}
           /\ blocked' = blocked \ {d}
           /\ UNCHANGED <<path, made>>
           /\ PipeTypeOK(Message)'
<1>1. /\ readers' = [f \in Fifo |-> readers[f] \ {d}]
      /\ writers' = [f \in Fifo |-> writers[f] \ {d}]
      /\ blocked' = blocked \ {d}
      /\ buffer' = [f \in Fifo |-> IF readers'[f] \union writers'[f] = {}
             THEN <<>> ELSE buffer[f]]
      /\ UNCHANGED <<path, made>>
  BY DEF close
<1>2. PipeTypeOK(Message)
  BY DEF IInv, TypeOK
<1>3. readers' \in [Fifo -> SUBSET Desc]
    /\ writers' \in [Fifo -> SUBSET Desc] /\ blocked' \subseteq Desc
  BY <1>1, <1>2 DEF PipeTypeOK
<1>4. \A f \in Fifo : buffer[f] \in Seq(Message) /\ <<>> \in Seq(Message)
  BY <1>2 DEF PipeTypeOK
<1>5. buffer' \in [Fifo -> Seq(Message)]
  BY <1>1, <1>4
<1>6. PipeTypeOK(Message)'
  BY <1>1, <1>2, <1>3, <1>5 DEF PipeTypeOK
<1> QED
  BY <1>1, <1>6

\* A descriptor that is open on one FIFO only is open on that one.
LEMMA FileOfDescriptor ==
    ASSUME NEW d, Files(d) = {made}
    PROVE  FileOf(d) = made
  BY DEF FileOf

\* Whoever reads, writes or closes does so on the FIFO made last.
LEMMA FileOfOpen ==
    ASSUME HandshakeAssumption, IInv, NEW d \in {"child", "thread", "answer", "listener"},
       IF d = "child" THEN d \notin blocked /\ pc["child"] \in Writing \union Reading
       ELSE IF d = "thread"
           THEN pc["thread"] \in {"read", "close_answer", "close"} \union Serving
       ELSE IF d = "answer" THEN pc["thread"] \in {"write_answer", "close_answer"}
       ELSE pc["listener"] \in {"read", "remove", "close"}
    PROVE  FileOf(d) = made /\ made \in Fifo
<1>1. made \in Fifo
  BY DEF IInv, Places, Paths, Ends, Waits, Exchange, Registered, HandshakeAssumption
<1>2. Files(d) = {made}
  BY <1>1 DEF Files, IInv, Ends, Waits
<1> QED BY <1>1, <1>2, FileOfDescriptor

\* write() into a FIFO that is empty.
LEMMA WriteEffect ==
    ASSUME HandshakeAssumption, IInv, NEW d, NEW m \in Message, FileOf(d) = made,
        made \in Fifo, buffer[made] = <<>>, write(d, m)
    PROVE  /\ \A f \in Fifo : buffer'[f] = IF f = made THEN <<m>> ELSE buffer[f]
           /\ UNCHANGED <<path, made, readers, writers, blocked>>
           /\ PipeTypeOK(Message)'
<1>1. buffer \in [Fifo -> Seq(Message)]
  BY DEF IInv, TypeOK, PipeTypeOK
<1>2. Append(<<>>, m) = <<m>> /\ <<m>> \in Seq(Message)
  OBVIOUS
<1>3. buffer' = [buffer EXCEPT ![made] = <<m>>]
    /\ UNCHANGED <<path, made, readers, writers, blocked>>
  BY <1>2 DEF write
<1>4. buffer' \in [Fifo -> Seq(Message)] /\ \A f \in Fifo : buffer'[f] =
    IF f = made THEN <<m>> ELSE buffer[f]
  BY <1>1, <1>2, <1>3
<1> QED
  BY <1>3, <1>4 DEF IInv, TypeOK, PipeTypeOK

\* read(), which takes all there is.
LEMMA ReadEffect ==
    ASSUME HandshakeAssumption, IInv, NEW d, FileOf(d) = made, made \in Fifo, read(d)
    PROVE  /\ \A f \in Fifo : buffer'[f] = IF f = made THEN <<>> ELSE buffer[f]
           /\ UNCHANGED <<path, made, readers, writers, blocked>>
           /\ PipeTypeOK(Message)'
<1>1. buffer \in [Fifo -> Seq(Message)] /\ <<>> \in Seq(Message)
  BY DEF IInv, TypeOK, PipeTypeOK
<1>3. buffer' = [buffer EXCEPT ![made] = <<>>]
    /\ UNCHANGED <<path, made, readers, writers, blocked>>
  BY DEF read
<1>4. buffer' \in [Fifo -> Seq(Message)] /\ \A f \in Fifo : buffer'[f] =
    IF f = made THEN <<>> ELSE buffer[f]
  BY <1>1, <1>3
<1> QED
  BY <1>3, <1>4 DEF IInv, TypeOK, PipeTypeOK

\* mkfifo() makes the second FIFO at most.
LEMMA MkfifoEffect ==
    ASSUME HandshakeAssumption, IInv, mkfifo, path = NoFile => made <= 1
    PROVE  /\ path' = IF path = NoFile THEN made + 1 ELSE path
           /\ made' = IF path = NoFile THEN made + 1 ELSE made
           /\ path' = made' /\ made' \in Fifo
           /\ UNCHANGED <<readers, writers, blocked, buffer>>
           /\ PipeTypeOK(Message)'
<1>1. MaxFifos \in Nat /\ 2 <= MaxFifos /\ made \in 0..2 /\ path \in {NoFile, made}
  BY DEF HandshakeAssumption, IInv, Paths
<1>2. /\ path' = IF path = NoFile THEN made + 1 ELSE path
      /\ made' = IF path = NoFile THEN made + 1 ELSE made
      /\ UNCHANGED <<readers, writers, blocked, buffer>>
  BY DEF mkfifo
<1>3. path' = made' /\ made' \in Fifo /\ made' \in 0..MaxFifos
  BY <1>1, <1>2
<1> QED
  BY <1>2, <1>3 DEF IInv, TypeOK, PipeTypeOK

-----------------------------------------------------------------------------
(* One lemma per action *)

LEMMA ForkStep == ASSUME HandshakeAssumption, IInv, Fork PROVE IInv'
<1>1. /\ DOMAIN pc' = DOMAIN pc
      /\ pc'["main"] = "unlink"
      /\ pc'["child"] = "mkfifo"
      /\ pc'["thread"] = pc["thread"]
      /\ pc'["listener"] = pc["listener"]
  BY Basics DEF Fork, go, Contents
<1>2. /\ at("main", "fork")
      /\ UNCHANGED <<path, made, readers, writers, blocked, buffer>>
      /\ UNCHANGED <<registered, response, child_read>>
  BY  DEF Fork, pipe
<1>3. TypeOK'
  BY Basics, <1>1, <1>2 DEF IInv, TypeOK, PipeTypeOK, Message
<1>4. Places'
  BY <1>1, <1>2 DEF IInv, Places, Exchange, Buffers
<1>5. Paths'
  BY <1>1, <1>2 DEF IInv, Places, Paths, Exchange, HandshakeAssumption
<1>6. Ends'
  BY <1>1, <1>2 DEF IInv, Places, Paths, Ends, Waits, Exchange
<1>7. Waits'
  BY <1>1, <1>2 DEF IInv, Places, Paths, Ends, Waits, Exchange
<1>8. Exchange'
  BY <1>1, <1>2 DEF IInv, Places, Paths, Ends, Waits, Exchange, Buffers
<1>9. Buffers'
  BY <1>1, <1>2 DEF IInv, HandshakeAssumption, Places, Paths, Exchange, Buffers
<1>10. Registered'
  BY <1>1, <1>2 DEF IInv, Places, Exchange, Buffers, Registered, Paths
<1> QED
  BY <1>3, <1>4, <1>5, <1>6, <1>7, <1>8, <1>9, <1>10 DEF IInv

LEMMA UnlinkOldStep == ASSUME HandshakeAssumption, IInv, UnlinkOld PROVE IInv'
<1>1. /\ DOMAIN pc' = DOMAIN pc
      /\ pc'["main"] = "mkfifo"
      /\ pc'["child"] = pc["child"]
      /\ pc'["thread"] = pc["thread"]
      /\ pc'["listener"] = pc["listener"]
  BY Basics DEF UnlinkOld, go, Contents
<1>2. /\ at("main", "unlink")
      /\ path' = NoFile
      /\ UNCHANGED <<made, readers, writers, blocked, buffer>>
      /\ UNCHANGED <<registered, response, child_read>>
  BY  DEF UnlinkOld, unlink
<1>3. TypeOK'
  BY Basics, <1>1, <1>2 DEF IInv, TypeOK, PipeTypeOK, Message
<1>4. Places'
  BY <1>1, <1>2 DEF IInv, Places, Exchange, Buffers
<1>5. Paths'
  BY <1>1, <1>2 DEF IInv, Places, Paths, Exchange, HandshakeAssumption
<1>6. Ends'
  BY <1>1, <1>2 DEF IInv, Places, Paths, Ends, Waits, Exchange
<1>7. Waits'
  BY <1>1, <1>2 DEF IInv, Places, Paths, Ends, Waits, Exchange
<1>8. Exchange'
  BY <1>1, <1>2 DEF IInv, Places, Paths, Ends, Waits, Exchange, Buffers
<1>9. Buffers'
  BY <1>1, <1>2 DEF IInv, HandshakeAssumption, Places, Paths, Exchange, Buffers
<1>10. Registered'
  BY <1>1, <1>2 DEF IInv, Places, Exchange, Buffers, Registered
<1> QED
  BY <1>3, <1>4, <1>5, <1>6, <1>7, <1>8, <1>9, <1>10 DEF IInv

LEMMA MakePipeStep == ASSUME HandshakeAssumption, IInv, MakePipe PROVE IInv'
<1>1. /\ DOMAIN pc' = DOMAIN pc
      /\ pc'["main"] = "create_thread"
      /\ pc'["child"] = pc["child"]
      /\ pc'["thread"] = pc["thread"]
      /\ pc'["listener"] = pc["listener"]
  BY Basics DEF MakePipe, go, Contents
<1>2. /\ at("main", "mkfifo")
      /\ path' = IF path = NoFile THEN made + 1 ELSE path
      /\ made' = IF path = NoFile THEN made + 1 ELSE made
      /\ path' = made' /\ made' \in Fifo
      /\ UNCHANGED <<readers, writers, blocked, buffer>>
      /\ PipeTypeOK(Message)'
      /\ UNCHANGED <<registered, response, child_read>>
  BY MkfifoEffect DEF MakePipe, IInv, Paths, Places
<1>3. TypeOK'
  BY Basics, <1>1, <1>2 DEF IInv, TypeOK, PipeTypeOK, Message
<1>4. Places'
  BY <1>1, <1>2 DEF IInv, Places, Exchange, Buffers
<1>5. Paths'
  BY <1>1, <1>2 DEF IInv, Places, Paths, Exchange, HandshakeAssumption
<1>6. Ends'
  BY <1>1, <1>2 DEF IInv, Places, Paths, Ends, Waits, Exchange, Registered
<1>7. Waits'
  BY <1>1, <1>2 DEF IInv, Places, Paths, Ends, Waits, Exchange, Registered
<1>8. Exchange'
  BY <1>1, <1>2 DEF IInv, Places, Paths, Ends, Waits, Exchange, Buffers
<1>9. Buffers'
  <2>1. path = NoFile => \A f \in Fifo : buffer[f] = <<>>
    BY <1>1, <1>2 DEF IInv, HandshakeAssumption, Places, Paths, Exchange, Buffers
  <2>2. CASE path = NoFile
    <3>1. made' > 0 /\ \A f \in Fifo : buffer'[f] = <<>>
      BY <2>1, <2>2, <1>1, <1>2 DEF HandshakeAssumption
    <3>2. buffer'[made'] = <<>>
      BY <1>1, <1>2, <3>1
    <3>3. \A message : <<message>> # <<>>
      OBVIOUS
    <3> QED
      BY <3>1, <3>2, <3>3 DEF Buffers
  <2>3. CASE path # NoFile
    <3>1. UNCHANGED <<made, buffer>> /\ (pc'["child"] = pc["child"] \/ pc["child"] \in Fresh
        \/ pc["child"] = "running")
      BY <2>3, <1>1, <1>2
    <3> QED
      BY <1>1, <1>2, <2>3, <3>1 DEF IInv, HandshakeAssumption, Places, Paths, Exchange, Buffers
  <2> QED
    BY <2>2, <2>3
<1>10. Registered'
  BY <1>1, <1>2 DEF IInv, Places, Exchange, Buffers, Registered
<1> QED
  BY <1>3, <1>4, <1>5, <1>6, <1>7, <1>8, <1>9, <1>10 DEF IInv

LEMMA CreateThreadStep == ASSUME HandshakeAssumption, IInv, CreateThread PROVE IInv'
<1>1. /\ DOMAIN pc' = DOMAIN pc
      /\ pc'["main"] \in {"waitpid", "menu"}
      /\ pc'["child"] = pc["child"]
      /\ pc'["thread"] = "open"
      /\ pc'["listener"] = pc["listener"]
  BY Basics DEF CreateThread, go, Contents
<1>2. /\ at("main", "create_thread")
      /\ UNCHANGED <<path, made, readers, writers, blocked, buffer>>
      /\ UNCHANGED <<registered, response, child_read>>
  BY  DEF CreateThread, pipe
<1>3. TypeOK'
  BY Basics, <1>1, <1>2 DEF IInv, TypeOK, PipeTypeOK, Message
<1>4. Places'
  BY <1>1, <1>2 DEF IInv, Places, Exchange, Buffers
<1>5. Paths'
  BY <1>1, <1>2 DEF IInv, Places, Paths, Exchange, HandshakeAssumption
<1>6. Ends'
  BY <1>1, <1>2 DEF IInv, Places, Paths, Ends, Waits, Exchange
<1>7. Waits'
  BY <1>1, <1>2 DEF IInv, Places, Paths, Ends, Waits, Exchange
<1>8. Exchange'
  BY <1>1, <1>2 DEF IInv, Places, Paths, Ends, Waits, Exchange, Buffers
<1>9. Buffers'
  BY <1>1, <1>2 DEF IInv, HandshakeAssumption, Places, Paths, Exchange, Buffers
<1>10. Registered'
  BY <1>1, <1>2 DEF IInv, Places, Exchange, Buffers, Registered, Paths
<1> QED
  BY <1>3, <1>4, <1>5, <1>6, <1>7, <1>8, <1>9, <1>10 DEF IInv

LEMMA MinimizeStep == ASSUME HandshakeAssumption, IInv, Minimize PROVE IInv'
<1>1. /\ DOMAIN pc' = DOMAIN pc
      /\ pc'["main"] = "menu"
      /\ pc'["child"] = pc["child"]
      /\ pc'["thread"] = pc["thread"]
      /\ pc'["listener"] = pc["listener"]
  BY Basics DEF Minimize, go, Contents
<1>2. /\ at("main", "waitpid")
      /\ UNCHANGED <<path, made, readers, writers, blocked, buffer>>
      /\ UNCHANGED <<registered, response, child_read>>
  BY  DEF Minimize, pipe
<1>3. TypeOK'
  BY Basics, <1>1, <1>2 DEF IInv, TypeOK, PipeTypeOK, Message
<1>4. Places'
  BY <1>1, <1>2 DEF IInv, Places, Exchange, Buffers
<1>5. Paths'
  BY <1>1, <1>2 DEF IInv, Places, Paths, Exchange, HandshakeAssumption
<1>6. Ends'
  BY <1>1, <1>2 DEF IInv, Places, Paths, Ends, Waits, Exchange
<1>7. Waits'
  BY <1>1, <1>2 DEF IInv, Places, Paths, Ends, Waits, Exchange
<1>8. Exchange'
  BY <1>1, <1>2 DEF IInv, Places, Paths, Ends, Waits, Exchange, Buffers
<1>9. Buffers'
  BY <1>1, <1>2 DEF IInv, HandshakeAssumption, Places, Paths, Exchange, Buffers
<1>10. Registered'
  BY <1>1, <1>2 DEF IInv, Places, Exchange, Buffers, Registered
<1> QED
  BY <1>3, <1>4, <1>5, <1>6, <1>7, <1>8, <1>9, <1>10 DEF IInv

LEMMA ResumeStep == ASSUME HandshakeAssumption, IInv, Resume PROVE IInv'
<1>1. /\ DOMAIN pc' = DOMAIN pc
      /\ pc'["main"] = "waitpid"
      /\ pc'["child"] = pc["child"]
      /\ pc'["thread"] = pc["thread"]
      /\ pc'["listener"] = pc["listener"]
  BY Basics DEF Resume, go, Contents
<1>2. /\ at("main", "menu")
      /\ UNCHANGED <<path, made, readers, writers, blocked, buffer>>
      /\ UNCHANGED <<registered, response, child_read>>
  BY  DEF Resume, pipe
<1>3. TypeOK'
  BY Basics, <1>1, <1>2 DEF IInv, TypeOK, PipeTypeOK, Message
<1>4. Places'
  BY <1>1, <1>2 DEF IInv, Places, Exchange, Buffers
<1>5. Paths'
  BY <1>1, <1>2 DEF IInv, Places, Paths, Exchange, HandshakeAssumption
<1>6. Ends'
  BY <1>1, <1>2 DEF IInv, Places, Paths, Ends, Waits, Exchange
<1>7. Waits'
  BY <1>1, <1>2 DEF IInv, Places, Paths, Ends, Waits, Exchange
<1>8. Exchange'
  BY <1>1, <1>2 DEF IInv, Places, Paths, Ends, Waits, Exchange, Buffers
<1>9. Buffers'
  BY <1>1, <1>2 DEF IInv, HandshakeAssumption, Places, Paths, Exchange, Buffers
<1>10. Registered'
  BY <1>1, <1>2 DEF IInv, Places, Exchange, Buffers, Registered
<1> QED
  BY <1>3, <1>4, <1>5, <1>6, <1>7, <1>8, <1>9, <1>10 DEF IInv

LEMMA RemoveDeadStep == ASSUME HandshakeAssumption, IInv, RemoveDead PROVE IInv'
<1>1. /\ DOMAIN pc' = DOMAIN pc
      /\ pc'["main"] = pc["main"]
      /\ pc'["child"] = "reaped"
      /\ pc'["thread"] = pc["thread"]
      /\ pc'["listener"] = pc["listener"]
  BY Basics DEF RemoveDead, go, Contents
<1>2. /\ at("child", "dead")
      /\ UNCHANGED <<path, made, readers, writers, blocked, buffer>>
      /\ registered' = IF registered = "held" THEN "released" ELSE registered
      /\ UNCHANGED <<response, child_read>>
  BY  DEF RemoveDead, pipe, remove_pcb
<1>3. TypeOK'
  BY Basics, <1>1, <1>2 DEF IInv, TypeOK, PipeTypeOK, Message
<1>4. Places'
  BY <1>1, <1>2 DEF IInv, Places, Exchange, Buffers
<1>5. Paths'
  BY <1>1, <1>2 DEF IInv, Places, Paths, Exchange, HandshakeAssumption
<1>6. Ends'
  BY <1>1, <1>2 DEF IInv, Places, Paths, Ends, Waits, Exchange
<1>7. Waits'
  BY <1>1, <1>2 DEF IInv, Places, Paths, Ends, Waits, Exchange
<1>8. Exchange'
  BY <1>1, <1>2 DEF IInv, Places, Paths, Ends, Waits, Exchange, Buffers
<1>9. Buffers'
  BY <1>1, <1>2 DEF IInv, HandshakeAssumption, Places, Paths, Exchange, Buffers
<1>10. Registered'
  BY <1>1, <1>2 DEF IInv, Places, Exchange, Buffers, Registered
<1> QED
  BY <1>3, <1>4, <1>5, <1>6, <1>7, <1>8, <1>9, <1>10 DEF IInv

LEMMA CleanUpStep == ASSUME HandshakeAssumption, IInv, CleanUp PROVE IInv'
<1>1. /\ DOMAIN pc' = DOMAIN pc
      /\ pc'["main"] = "menu"
      /\ pc'["child"] = pc["child"]
      /\ pc'["thread"] = pc["thread"]
      /\ pc'["listener"] = pc["listener"]
  BY Basics DEF CleanUp, go, Contents
<1>2. /\ at("main", "waitpid") /\ at("child", "reaped")
      /\ path' = NoFile
      /\ UNCHANGED <<made, readers, writers, blocked, buffer>>
      /\ registered' = IF registered = "held" THEN "released" ELSE registered
      /\ UNCHANGED <<response, child_read>>
  BY  DEF CleanUp, unlink, remove_pcb
<1>3. TypeOK'
  BY Basics, <1>1, <1>2 DEF IInv, TypeOK, PipeTypeOK, Message
<1>4. Places'
  BY <1>1, <1>2 DEF IInv, Places, Exchange, Buffers
<1>5. Paths'
  BY <1>1, <1>2 DEF IInv, Places, Paths, Exchange, HandshakeAssumption
<1>6. Ends'
  BY <1>1, <1>2 DEF IInv, Places, Paths, Ends, Waits, Exchange
<1>7. Waits'
  BY <1>1, <1>2 DEF IInv, Places, Paths, Ends, Waits, Exchange
<1>8. Exchange'
  BY <1>1, <1>2 DEF IInv, Places, Paths, Ends, Waits, Exchange, Buffers
<1>9. Buffers'
  BY <1>1, <1>2 DEF IInv, HandshakeAssumption, Places, Paths, Exchange, Buffers
<1>10. Registered'
  BY <1>1, <1>2 DEF IInv, Places, Exchange, Buffers, Registered
<1> QED
  BY <1>3, <1>4, <1>5, <1>6, <1>7, <1>8, <1>9, <1>10 DEF IInv

LEMMA ChildMakesPipeStep == ASSUME HandshakeAssumption, IInv, ChildMakesPipe PROVE IInv'
<1>1. /\ DOMAIN pc' = DOMAIN pc
      /\ pc'["main"] = pc["main"]
      /\ pc'["child"] = "open_request"
      /\ pc'["thread"] = pc["thread"]
      /\ pc'["listener"] = pc["listener"]
  BY Basics DEF ChildMakesPipe, go, Contents
<1>2. /\ at("child", "mkfifo")
      /\ path' = IF path = NoFile THEN made + 1 ELSE path
      /\ made' = IF path = NoFile THEN made + 1 ELSE made
      /\ path' = made' /\ made' \in Fifo
      /\ UNCHANGED <<readers, writers, blocked, buffer>>
      /\ PipeTypeOK(Message)'
      /\ UNCHANGED <<registered, response, child_read>>
  BY MkfifoEffect DEF ChildMakesPipe, IInv, Paths, Places
<1>3. TypeOK'
  BY Basics, <1>1, <1>2 DEF IInv, TypeOK, PipeTypeOK, Message
<1>4. Places'
  BY <1>1, <1>2 DEF IInv, Places, Exchange, Buffers
<1>5. Paths'
  BY <1>1, <1>2 DEF IInv, Places, Paths, Exchange, HandshakeAssumption
<1>6. Ends'
  BY <1>1, <1>2 DEF IInv, Places, Paths, Ends, Waits, Exchange, Registered
<1>7. Waits'
  BY <1>1, <1>2 DEF IInv, Places, Paths, Ends, Waits, Exchange, Registered
<1>8. Exchange'
  BY <1>1, <1>2 DEF IInv, Places, Paths, Ends, Waits, Exchange, Buffers
<1>9. Buffers'
  <2>1. path = NoFile => \A f \in Fifo : buffer[f] = <<>>
    BY <1>1, <1>2 DEF IInv, HandshakeAssumption, Places, Paths, Exchange, Buffers
  <2>2. CASE path = NoFile
    <3>1. made' > 0 /\ \A f \in Fifo : buffer'[f] = <<>>
      BY <2>1, <2>2, <1>1, <1>2 DEF HandshakeAssumption
    <3>2. buffer'[made'] = <<>>
      BY <1>1, <1>2, <3>1
    <3>3. \A message : <<message>> # <<>>
      OBVIOUS
    <3> QED
      BY <3>1, <3>2, <3>3 DEF Buffers
  <2>3. CASE path # NoFile
    <3>1. UNCHANGED <<made, buffer>> /\ (pc'["child"] = pc["child"] \/ pc["child"] \in Fresh
        \/ pc["child"] = "running")
      BY <2>3, <1>1, <1>2
    <3> QED
      BY <1>1, <1>2, <2>3, <3>1 DEF IInv, HandshakeAssumption, Places, Paths, Exchange, Buffers
  <2> QED
    BY <2>2, <2>3
<1>10. Registered'
  BY <1>1, <1>2 DEF IInv, Places, Exchange, Buffers, Registered
<1> QED
  BY <1>3, <1>4, <1>5, <1>6, <1>7, <1>8, <1>9, <1>10 DEF IInv

LEMMA OpenRequestStep == ASSUME HandshakeAssumption, IInv, OpenRequest PROVE IInv'
<1>1. CASE path = NoFile
  <2>1. /\ DOMAIN pc' = DOMAIN pc
        /\ pc'["main"] = pc["main"]
        /\ pc'["child"] = "open_answer"
        /\ pc'["thread"] = pc["thread"]
        /\ pc'["listener"] = pc["listener"]
    BY <1>1, Basics DEF OpenRequest, go, Contents
  <2>2. /\ at("child", "open_request")
        /\ UNCHANGED <<path, made, readers, writers, blocked, buffer>>
        /\ UNCHANGED <<registered, response, child_read>>
    BY <1>1 DEF OpenRequest, pipe
  <2>3. TypeOK'
    BY Basics, <1>1, <2>1, <2>2 DEF IInv, TypeOK, PipeTypeOK, Message
  <2>4. Places'
    BY <1>1, <2>1, <2>2 DEF IInv, Places, Exchange, Buffers
  <2>5. Paths'
    BY <1>1, <2>1, <2>2 DEF IInv, Places, Paths, Exchange, HandshakeAssumption
  <2>6. Ends'
    BY <1>1, <2>1, <2>2 DEF IInv, Places, Paths, Ends, Waits, Exchange
  <2>7. Waits'
    BY <1>1, <2>1, <2>2 DEF IInv, Places, Paths, Ends, Waits, Exchange
  <2>8. Exchange'
    BY <1>1, <2>1, <2>2 DEF IInv, Places, Paths, Ends, Waits, Exchange, Buffers
  <2>9. Buffers'
    BY <1>1, <2>1, <2>2 DEF IInv, HandshakeAssumption, Places, Paths, Exchange, Buffers
  <2>10. Registered'
    BY <1>1, <2>1, <2>2 DEF IInv, Places, Exchange, Buffers, Registered
  <2> QED
    BY <2>3, <2>4, <2>5, <2>6, <2>7, <2>8, <2>9, <2>10 DEF IInv
<1>2. CASE path # NoFile
  <2>1. /\ DOMAIN pc' = DOMAIN pc
        /\ pc'["main"] = pc["main"]
        /\ pc'["child"] = "write_request"
        /\ pc'["thread"] = pc["thread"]
        /\ pc'["listener"] = pc["listener"]
    BY <1>2, Basics DEF OpenRequest, go, Contents
  <2>2. /\ at("child", "open_request")
        /\ path = made /\ made \in Fifo
        /\ \A f \in Fifo : \A x : x \in writers'[f] <=>
               x \in writers[f] \/ (f = made /\ x = "child")
        /\ \A x : x \in blocked' <=>
               (x \in blocked /\ x \notin readers[made]) \/ (x = "child" /\ readers[made] = {})
        /\ readers[made] = {} <=>
               "child" \notin readers[made]
                   /\ "thread" \notin readers[made] /\ "listener" \notin readers[made]
        /\ UNCHANGED <<path, made, readers, buffer>>
        /\ PipeTypeOK(Message)'
        /\ UNCHANGED <<registered, response, child_read>>
    BY <1>2, OpenWritingEffect DEF OpenRequest, HandshakeAssumption
  <2>3. TypeOK'
    BY Basics, <1>2, <2>1, <2>2 DEF IInv, TypeOK, PipeTypeOK, Message
  <2>4. Places'
    BY <1>2, <2>1, <2>2 DEF IInv, Places, Exchange, Buffers
  <2>5. Paths'
    BY <1>2, <2>1, <2>2 DEF IInv, Places, Paths, Exchange, HandshakeAssumption
  <2>6. Ends'
    BY <1>2, <2>1, <2>2 DEF IInv, Places, Paths, Ends, Waits, Exchange
  <2>7. Waits'
    BY <1>2, <2>1, <2>2 DEF IInv, Places, Paths, Ends, Waits, Exchange, Registered
  <2>8. Exchange'
    BY <1>2, <2>1, <2>2 DEF IInv, Places, Paths, Ends, Waits, Exchange, Buffers, Registered
  <2>9. Buffers'
    BY <1>2, <2>1, <2>2 DEF IInv, HandshakeAssumption, Places, Paths, Exchange, Buffers
  <2>10. Registered'
    BY <1>2, <2>1, <2>2 DEF IInv, Places, Exchange, Buffers, Registered
  <2> QED
    BY <2>3, <2>4, <2>5, <2>6, <2>7, <2>8, <2>9, <2>10 DEF IInv
<1> QED
  BY <1>1, <1>2 DEF OpenRequest

LEMMA WriteRequestStep == ASSUME HandshakeAssumption, IInv, WriteRequest PROVE IInv'
<1>1. CASE CanWrite("child")
  <2>0. FileOf("child") = made /\ made \in Fifo /\ buffer[made] = <<>>
    <3>1. FileOf("child") = made /\ made \in Fifo
      BY <1>1, FileOfOpen DEF WriteRequest, IsOpen, IInv, Ends, Waits, Exchange
    <3> QED
      BY <1>1, <3>1 DEF WriteRequest, IInv, Places, Paths, Ends, Waits, Exchange, Buffers,
         Registered
  <2>1. /\ DOMAIN pc' = DOMAIN pc
        /\ pc'["main"] = pc["main"]
        /\ pc'["child"] = "close_request"
        /\ pc'["thread"] = pc["thread"]
        /\ pc'["listener"] = pc["listener"]
    BY <1>1, <2>0, Basics DEF WriteRequest, go, Contents
  <2>2. /\ at("child", "write_request")
        /\ "child" \notin blocked
        /\ \A f \in Fifo : buffer'[f] = IF f = made THEN <<"REQ">> ELSE buffer[f]
        /\ UNCHANGED <<path, made, readers, writers, blocked>>
        /\ PipeTypeOK(Message)'
        /\ UNCHANGED <<registered, response, child_read>>
    BY <1>1, <2>0, WriteEffect DEF WriteRequest, Message, IsOpen
  <2>3. TypeOK'
    BY Basics, <1>1, <2>0, <2>1, <2>2 DEF IInv, TypeOK, PipeTypeOK, Message
  <2>4. Places'
    BY <1>1, <2>0, <2>1, <2>2 DEF IInv, Places, Exchange, Buffers
  <2>5. Paths'
    BY <1>1, <2>0, <2>1, <2>2 DEF IInv, Places, Paths, Exchange, HandshakeAssumption
  <2>6. Ends'
    BY <1>1, <2>0, <2>1, <2>2 DEF IInv, Places, Paths, Ends, Waits, Exchange
  <2>7. Waits'
    BY <1>1, <2>0, <2>1, <2>2 DEF IInv, Places, Paths, Ends, Waits, Exchange
  <2>8. Exchange'
    BY <1>1, <2>0, <2>1, <2>2 DEF IInv, Places, Paths, Ends, Waits, Exchange, Buffers
  <2>9. Buffers'
    BY <1>1, <2>0, <2>1, <2>2 DEF IInv, HandshakeAssumption, Places, Paths, Exchange, Buffers
  <2>10. Registered'
    BY <1>1, <2>0, <2>1, <2>2 DEF IInv, Places, Exchange, Buffers, Registered
  <2> QED
    BY <2>3, <2>4, <2>5, <2>6, <2>7, <2>8, <2>9, <2>10 DEF IInv
<1>2. CASE ~CanWrite("child")
  <2>1. /\ DOMAIN pc' = DOMAIN pc
        /\ pc'["main"] = pc["main"]
        /\ pc'["child"] = "dead"
        /\ pc'["thread"] = pc["thread"]
        /\ pc'["listener"] = pc["listener"]
    BY <1>2, Basics DEF WriteRequest, go, Contents
  <2>2. /\ at("child", "write_request")
        /\ \A f \in Fifo : readers'[f] = readers[f] \ {"child"}
               /\ writers'[f] = writers[f] \ {"child"}
        /\ \A f \in Fifo : buffer'[f] \in {buffer[f], <<>>}
        /\ blocked' = blocked \ {"child"}
        /\ UNCHANGED <<path, made>>
        /\ PipeTypeOK(Message)'
        /\ UNCHANGED <<registered, response, child_read>>
    BY <1>2, CloseEffect DEF WriteRequest
  <2>3. TypeOK'
    BY Basics, <1>2, <2>1, <2>2 DEF IInv, TypeOK, PipeTypeOK, Message
  <2>4. Places'
    BY <1>2, <2>1, <2>2 DEF IInv, Places, Exchange, Buffers
  <2>5. Paths'
    BY <1>2, <2>1, <2>2 DEF IInv, Places, Paths, Exchange, HandshakeAssumption
  <2>6. Ends'
    BY <1>2, <2>1, <2>2 DEF IInv, Places, Paths, Ends, Waits, Exchange
  <2>7. Waits'
    BY <1>2, <2>1, <2>2 DEF IInv, Places, Paths, Ends, Waits, Exchange
  <2>8. Exchange'
    BY <1>2, <2>1, <2>2 DEF IInv, Places, Paths, Ends, Waits, Exchange, Buffers
  <2>9. Buffers'
    BY <1>2, <2>1, <2>2 DEF IInv, HandshakeAssumption, Places, Paths, Exchange, Buffers
  <2>10. Registered'
    BY <1>2, <2>1, <2>2 DEF IInv, Places, Exchange, Buffers, Registered
  <2> QED
    BY <2>3, <2>4, <2>5, <2>6, <2>7, <2>8, <2>9, <2>10 DEF IInv
<1> QED
  BY <1>1, <1>2 DEF WriteRequest

LEMMA CloseRequestStep == ASSUME HandshakeAssumption, IInv, CloseRequest PROVE IInv'
<1>1. /\ DOMAIN pc' = DOMAIN pc
      /\ pc'["main"] = pc["main"]
      /\ pc'["child"] = "open_answer"
      /\ pc'["thread"] = pc["thread"]
      /\ pc'["listener"] = pc["listener"]
  BY Basics DEF CloseRequest, go, Contents
<1>2. /\ at("child", "close_request")
      /\ \A f \in Fifo : readers'[f] = readers[f] \ {"child"}
             /\ writers'[f] = writers[f] \ {"child"}
      /\ \A f \in Fifo : buffer'[f] \in {buffer[f], <<>>}
      /\ blocked' = blocked \ {"child"}
      /\ UNCHANGED <<path, made>>
      /\ PipeTypeOK(Message)'
      /\ UNCHANGED <<registered, response, child_read>>
  BY CloseEffect DEF CloseRequest
<1>3. TypeOK'
  BY Basics, <1>1, <1>2 DEF IInv, TypeOK, PipeTypeOK, Message
<1>4. Places'
  BY <1>1, <1>2 DEF IInv, Places, Exchange, Buffers
<1>5. Paths'
  BY <1>1, <1>2 DEF IInv, Places, Paths, Exchange, HandshakeAssumption
<1>6. Ends'
  BY <1>1, <1>2 DEF IInv, Places, Paths, Ends, Waits, Exchange
<1>7. Waits'
  BY <1>1, <1>2 DEF IInv, Places, Paths, Ends, Waits, Exchange
<1>8. Exchange'
  BY <1>1, <1>2 DEF IInv, Places, Paths, Ends, Waits, Exchange, Buffers
<1>9. Buffers'
  BY <1>1, <1>2 DEF IInv, HandshakeAssumption, Places, Paths, Exchange, Buffers
<1>10. Registered'
  BY <1>1, <1>2 DEF IInv, Places, Exchange, Buffers, Registered
<1> QED
  BY <1>3, <1>4, <1>5, <1>6, <1>7, <1>8, <1>9, <1>10 DEF IInv

LEMMA OpenAnswerStep == ASSUME HandshakeAssumption, IInv, OpenAnswer PROVE IInv'
<1>1. CASE path = NoFile
  <2>1. /\ DOMAIN pc' = DOMAIN pc
        /\ pc'["main"] = pc["main"]
        /\ pc'["child"] = "dead"
        /\ pc'["thread"] = pc["thread"]
        /\ pc'["listener"] = pc["listener"]
    BY <1>1, Basics DEF OpenAnswer, go, Contents
  <2>2. /\ at("child", "open_answer")
        /\ UNCHANGED <<path, made, readers, writers, blocked, buffer>>
        /\ UNCHANGED <<registered, response, child_read>>
    BY <1>1 DEF OpenAnswer, pipe
  <2>3. TypeOK'
    BY Basics, <1>1, <2>1, <2>2 DEF IInv, TypeOK, PipeTypeOK, Message
  <2>4. Places'
    BY <1>1, <2>1, <2>2 DEF IInv, Places, Exchange, Buffers
  <2>5. Paths'
    BY <1>1, <2>1, <2>2 DEF IInv, Places, Paths, Exchange, HandshakeAssumption
  <2>6. Ends'
    BY <1>1, <2>1, <2>2 DEF IInv, Places, Paths, Ends, Waits, Exchange
  <2>7. Waits'
    BY <1>1, <2>1, <2>2 DEF IInv, Places, Paths, Ends, Waits, Exchange
  <2>8. Exchange'
    BY <1>1, <2>1, <2>2 DEF IInv, Places, Paths, Ends, Waits, Exchange, Buffers
  <2>9. Buffers'
    BY <1>1, <2>1, <2>2 DEF IInv, HandshakeAssumption, Places, Paths, Exchange, Buffers
  <2>10. Registered'
    BY <1>1, <2>1, <2>2 DEF IInv, Places, Exchange, Buffers, Registered
  <2> QED
    BY <2>3, <2>4, <2>5, <2>6, <2>7, <2>8, <2>9, <2>10 DEF IInv
<1>2. CASE path # NoFile
  <2>1. /\ DOMAIN pc' = DOMAIN pc
        /\ pc'["main"] = pc["main"]
        /\ pc'["child"] = "read_answer"
        /\ pc'["thread"] = pc["thread"]
        /\ pc'["listener"] = pc["listener"]
    BY <1>2, Basics DEF OpenAnswer, go, Contents
  <2>2. /\ at("child", "open_answer")
        /\ path = made /\ made \in Fifo
        /\ \A f \in Fifo : \A x : x \in readers'[f] <=>
               x \in readers[f] \/ (f = made /\ x = "child")
        /\ \A x : x \in blocked' <=>
               (x \in blocked /\ x \notin writers[made]) \/ (x = "child" /\ writers[made] = {})
        /\ writers[made] = {} <=> "child" \notin writers[made] /\ "answer" \notin writers[made]
        /\ UNCHANGED <<path, made, writers, buffer>>
        /\ PipeTypeOK(Message)'
        /\ UNCHANGED <<registered, response, child_read>>
    BY <1>2, OpenReadingEffect DEF OpenAnswer, HandshakeAssumption
  <2>3. TypeOK'
    BY Basics, <1>2, <2>1, <2>2 DEF IInv, TypeOK, PipeTypeOK, Message
  <2>4. Places'
    BY <1>2, <2>1, <2>2 DEF IInv, Places, Exchange, Buffers
  <2>5. Paths'
    BY <1>2, <2>1, <2>2 DEF IInv, Places, Paths, Exchange, HandshakeAssumption
  <2>6. Ends'
    BY <1>2, <2>1, <2>2 DEF IInv, Places, Paths, Ends, Waits, Exchange
  <2>7. Waits'
    BY <1>2, <2>1, <2>2 DEF IInv, Places, Paths, Ends, Waits, Exchange
  <2>8. Exchange'
    BY <1>2, <2>1, <2>2 DEF IInv, Places, Paths, Ends, Waits, Exchange, Buffers
  <2>9. Buffers'
    BY <1>2, <2>1, <2>2 DEF IInv, HandshakeAssumption, Places, Paths, Exchange, Buffers
  <2>10. Registered'
    BY <1>2, <2>1, <2>2 DEF IInv, Places, Exchange, Buffers, Registered
  <2> QED
    BY <2>3, <2>4, <2>5, <2>6, <2>7, <2>8, <2>9, <2>10 DEF IInv
<1> QED
  BY <1>1, <1>2 DEF OpenAnswer

LEMMA ReadAnswerStep == ASSUME HandshakeAssumption, IInv, ReadAnswer PROVE IInv'
<1>0. FileOf("child") = made /\ made \in Fifo
  BY FileOfOpen DEF ReadAnswer, IsOpen, IInv, Ends, Waits, Exchange
<1>1. /\ DOMAIN pc' = DOMAIN pc
      /\ pc'["main"] = pc["main"]
      /\ pc'["child"] = "close_answer"
      /\ pc'["thread"] = pc["thread"]
      /\ pc'["listener"] = pc["listener"]
  BY <1>0, Basics DEF ReadAnswer, go, Contents
<1>2. /\ at("child", "read_answer")
      /\ "child" \notin blocked
      /\ buffer[made] # <<>> \/ writers[made] = {}
      /\ \A f \in Fifo : buffer'[f] = IF f = made THEN <<>> ELSE buffer[f]
      /\ UNCHANGED <<path, made, readers, writers, blocked>>
      /\ PipeTypeOK(Message)'
      /\ child_read' = buffer[made]
      /\ UNCHANGED <<registered, response>>
  BY <1>0, ReadEffect DEF ReadAnswer, IsOpen, CanRead, Contents
<1>3. TypeOK'
  BY Basics, <1>0, <1>1, <1>2 DEF IInv, TypeOK, PipeTypeOK, Message
<1>4. Places'
  BY <1>0, <1>1, <1>2 DEF IInv, Places, Exchange, Buffers
<1>5. Paths'
  BY <1>0, <1>1, <1>2 DEF IInv, Places, Paths, Exchange, HandshakeAssumption
<1>6. Ends'
  BY <1>0, <1>1, <1>2 DEF IInv, Places, Paths, Ends, Waits, Exchange
<1>7. Waits'
  BY <1>0, <1>1, <1>2 DEF IInv, Places, Paths, Ends, Waits, Exchange
<1>8. Exchange'
  BY <1>0, <1>1, <1>2 DEF IInv, Places, Paths, Ends, Waits, Exchange, Buffers
<1>9. Buffers'
  BY <1>0, <1>1, <1>2 DEF IInv, HandshakeAssumption, Places, Paths, Exchange, Buffers
<1>10. Registered'
  BY <1>0, <1>1, <1>2 DEF IInv, Places, Exchange, Buffers, Registered
<1> QED
  BY <1>3, <1>4, <1>5, <1>6, <1>7, <1>8, <1>9, <1>10 DEF IInv

LEMMA CloseAnswerStep == ASSUME HandshakeAssumption, IInv, CloseAnswer PROVE IInv'
<1>1. /\ DOMAIN pc' = DOMAIN pc
      /\ pc'["main"] = pc["main"]
      /\ pc'["child"] =
             IF \E i \in DOMAIN child_read : child_read[i] = "GRANT" THEN "running" ELSE "dead"
      /\ pc'["thread"] = pc["thread"]
      /\ pc'["listener"] = pc["listener"]
  BY Basics DEF CloseAnswer, go, Contents
<1>2. /\ at("child", "close_answer")
      /\ \A f \in Fifo : readers'[f] = readers[f] \ {"child"}
             /\ writers'[f] = writers[f] \ {"child"}
      /\ \A f \in Fifo : buffer'[f] \in {buffer[f], <<>>}
      /\ blocked' = blocked \ {"child"}
      /\ UNCHANGED <<path, made>>
      /\ PipeTypeOK(Message)'
      /\ UNCHANGED <<registered, response, child_read>>
  BY CloseEffect DEF CloseAnswer
<1>3. TypeOK'
  BY Basics, <1>1, <1>2 DEF IInv, TypeOK, PipeTypeOK, Message
<1>4. Places'
  BY <1>1, <1>2 DEF IInv, Places, Exchange, Buffers
<1>5. Paths'
  BY <1>1, <1>2 DEF IInv, Places, Paths, Exchange, HandshakeAssumption
<1>6. Ends'
  BY <1>1, <1>2 DEF IInv, Places, Paths, Ends, Waits, Exchange
<1>7. Waits'
  BY <1>1, <1>2 DEF IInv, Places, Paths, Ends, Waits, Exchange
<1>8. Exchange'
  BY <1>1, <1>2 DEF IInv, Places, Paths, Ends, Waits, Exchange, Buffers
<1>9. Buffers'
  BY <1>1, <1>2 DEF IInv, HandshakeAssumption, Places, Paths, Exchange, Buffers
<1>10. Registered'
  BY <1>1, <1>2 DEF IInv, Places, Exchange, Buffers, Registered
<1> QED
  BY <1>3, <1>4, <1>5, <1>6, <1>7, <1>8, <1>9, <1>10 DEF IInv

LEMMA TerminationMakesPipeStep == ASSUME HandshakeAssumption, IInv,
    TerminationMakesPipe PROVE IInv'
<1>1. /\ DOMAIN pc' = DOMAIN pc
      /\ pc'["main"] = pc["main"]
      /\ pc'["child"] = "open_notice"
      /\ pc'["thread"] = pc["thread"]
      /\ pc'["listener"] = pc["listener"]
  BY Basics DEF TerminationMakesPipe, go, Contents
<1>2. /\ at("child", "running")
      /\ path' = IF path = NoFile THEN made + 1 ELSE path
      /\ made' = IF path = NoFile THEN made + 1 ELSE made
      /\ path' = made' /\ made' \in Fifo
      /\ UNCHANGED <<readers, writers, blocked, buffer>>
      /\ PipeTypeOK(Message)'
      /\ UNCHANGED <<registered, response, child_read>>
  BY MkfifoEffect DEF TerminationMakesPipe, IInv, Paths, Places
<1>3. TypeOK'
  BY Basics, <1>1, <1>2 DEF IInv, TypeOK, PipeTypeOK, Message
<1>4. Places'
  BY <1>1, <1>2 DEF IInv, Places, Exchange, Buffers
<1>5. Paths'
  BY <1>1, <1>2 DEF IInv, Places, Paths, Exchange, HandshakeAssumption
<1>6. Ends'
  BY <1>1, <1>2 DEF IInv, Places, Paths, Ends, Waits, Exchange
<1>7. Waits'
  BY <1>1, <1>2 DEF IInv, Places, Paths, Ends, Waits, Exchange
<1>8. Exchange'
  BY <1>1, <1>2 DEF IInv, Places, Paths, Ends, Waits, Exchange, Buffers
<1>9. Buffers'
  <2>1. path = NoFile => \A f \in Fifo : buffer[f] = <<>>
    BY <1>1, <1>2 DEF IInv, HandshakeAssumption, Places, Paths, Exchange, Buffers
  <2>2. CASE path = NoFile
    <3>1. made' > 0 /\ \A f \in Fifo : buffer'[f] = <<>>
      BY <2>1, <2>2, <1>1, <1>2 DEF HandshakeAssumption
    <3>2. buffer'[made'] = <<>>
      BY <1>1, <1>2, <3>1
    <3>3. \A message : <<message>> # <<>>
      OBVIOUS
    <3> QED
      BY <3>1, <3>2, <3>3 DEF Buffers
  <2>3. CASE path # NoFile
    <3>1. UNCHANGED <<made, buffer>> /\ (pc'["child"] = pc["child"] \/ pc["child"] \in Fresh
        \/ pc["child"] = "running")
      BY <2>3, <1>1, <1>2
    <3> QED
      BY <1>1, <1>2, <2>3, <3>1 DEF IInv, HandshakeAssumption, Places, Paths, Exchange, Buffers
  <2> QED
    BY <2>2, <2>3
<1>10. Registered'
  BY <1>1, <1>2 DEF IInv, Places, Exchange, Buffers, Registered
<1> QED
  BY <1>3, <1>4, <1>5, <1>6, <1>7, <1>8, <1>9, <1>10 DEF IInv

LEMMA OpenNoticeStep == ASSUME HandshakeAssumption, IInv, OpenNotice PROVE IInv'
<1>1. CASE path # NoFile /\ readers[path] # {}
  <2>1. /\ DOMAIN pc' = DOMAIN pc
        /\ pc'["main"] = pc["main"]
        /\ pc'["child"] = "write_notice"
        /\ pc'["thread"] = pc["thread"]
        /\ pc'["listener"] = pc["listener"]
    BY <1>1, Basics DEF OpenNotice, go, Contents
  <2>2. /\ at("child", "open_notice")
        /\ path = made /\ made \in Fifo
        /\ \A f \in Fifo : \A x : x \in writers'[f] <=>
               x \in writers[f] \/ (f = made /\ x = "child")
        /\ \A x : x \in blocked' <=>
               (x \in blocked /\ x \notin readers[made]) \/ (x = "child" /\ readers[made] = {})
        /\ readers[made] = {} <=>
               "child" \notin readers[made]
                   /\ "thread" \notin readers[made] /\ "listener" \notin readers[made]
        /\ UNCHANGED <<path, made, readers, buffer>>
        /\ PipeTypeOK(Message)'
        /\ UNCHANGED <<registered, response, child_read>>
    BY <1>1, OpenWritingEffect DEF OpenNotice, HandshakeAssumption
  <2>3. TypeOK'
    BY Basics, <1>1, <2>1, <2>2 DEF IInv, TypeOK, PipeTypeOK, Message
  <2>4. Places'
    BY <1>1, <2>1, <2>2 DEF IInv, Places, Exchange, Buffers
  <2>5. Paths'
    BY <1>1, <2>1, <2>2 DEF IInv, Places, Paths, Exchange, HandshakeAssumption
  <2>6. Ends'
    BY <1>1, <2>1, <2>2 DEF IInv, Places, Paths, Ends, Waits, Exchange
  <2>7. Waits'
    BY <1>1, <2>1, <2>2 DEF IInv, Places, Paths, Ends, Waits, Exchange
  <2>8. Exchange'
    BY <1>1, <2>1, <2>2 DEF IInv, Places, Paths, Ends, Waits, Exchange, Buffers
  <2>9. Buffers'
    BY <1>1, <2>1, <2>2 DEF IInv, HandshakeAssumption, Places, Paths, Exchange, Buffers
  <2>10. Registered'
    BY <1>1, <2>1, <2>2 DEF IInv, Places, Exchange, Buffers, Registered
  <2> QED
    BY <2>3, <2>4, <2>5, <2>6, <2>7, <2>8, <2>9, <2>10 DEF IInv
<1>2. CASE ~(path # NoFile /\ readers[path] # {})
  <2>1. /\ DOMAIN pc' = DOMAIN pc
        /\ pc'["main"] = pc["main"]
        /\ pc'["child"] = "unlink"
        /\ pc'["thread"] = pc["thread"]
        /\ pc'["listener"] = pc["listener"]
    BY <1>2, Basics DEF OpenNotice, go, Contents
  <2>2. /\ at("child", "open_notice")
        /\ UNCHANGED <<path, made, readers, writers, blocked, buffer>>
        /\ UNCHANGED <<registered, response, child_read>>
    BY <1>2 DEF OpenNotice, pipe
  <2>3. TypeOK'
    BY Basics, <1>2, <2>1, <2>2 DEF IInv, TypeOK, PipeTypeOK, Message
  <2>4. Places'
    BY <1>2, <2>1, <2>2 DEF IInv, Places, Exchange, Buffers
  <2>5. Paths'
    BY <1>2, <2>1, <2>2 DEF IInv, Places, Paths, Exchange, HandshakeAssumption
  <2>6. Ends'
    BY <1>2, <2>1, <2>2 DEF IInv, Places, Paths, Ends, Waits, Exchange
  <2>7. Waits'
    BY <1>2, <2>1, <2>2 DEF IInv, Places, Paths, Ends, Waits, Exchange
  <2>8. Exchange'
    BY <1>2, <2>1, <2>2 DEF IInv, Places, Paths, Ends, Waits, Exchange, Buffers
  <2>9. Buffers'
    BY <1>2, <2>1, <2>2 DEF IInv, HandshakeAssumption, Places, Paths, Exchange, Buffers
  <2>10. Registered'
    BY <1>2, <2>1, <2>2 DEF IInv, Places, Exchange, Buffers, Registered
  <2> QED
    BY <2>3, <2>4, <2>5, <2>6, <2>7, <2>8, <2>9, <2>10 DEF IInv
<1> QED
  BY <1>1, <1>2 DEF OpenNotice

LEMMA WriteNoticeStep == ASSUME HandshakeAssumption, IInv, WriteNotice PROVE IInv'
<1>1. CASE CanWrite("child")
  <2>0. FileOf("child") = made /\ made \in Fifo /\ buffer[made] = <<>>
    <3>1. FileOf("child") = made /\ made \in Fifo
      BY <1>1, FileOfOpen DEF WriteNotice, IsOpen, IInv, Ends, Waits, Exchange
    <3> QED
      BY <1>1, <3>1 DEF WriteNotice, IInv, Places, Paths, Ends, Waits, Exchange, Buffers,
         Registered
  <2>1. /\ DOMAIN pc' = DOMAIN pc
        /\ pc'["main"] = pc["main"]
        /\ pc'["child"] = "close_notice"
        /\ pc'["thread"] = pc["thread"]
        /\ pc'["listener"] = pc["listener"]
    BY <1>1, <2>0, Basics DEF WriteNotice, go, Contents
  <2>2. /\ at("child", "write_notice")
        /\ \A f \in Fifo : buffer'[f] = IF f = made THEN <<"TERM">> ELSE buffer[f]
        /\ UNCHANGED <<path, made, readers, writers, blocked>>
        /\ PipeTypeOK(Message)'
        /\ UNCHANGED <<registered, response, child_read>>
    BY <1>1, <2>0, WriteEffect DEF WriteNotice, Message
  <2>3. TypeOK'
    BY Basics, <1>1, <2>0, <2>1, <2>2 DEF IInv, TypeOK, PipeTypeOK, Message
  <2>4. Places'
    BY <1>1, <2>0, <2>1, <2>2 DEF IInv, Places, Exchange, Buffers
  <2>5. Paths'
    BY <1>1, <2>0, <2>1, <2>2 DEF IInv, Places, Paths, Exchange, HandshakeAssumption
  <2>6. Ends'
    BY <1>1, <2>0, <2>1, <2>2 DEF IInv, Places, Paths, Ends, Waits, Exchange
  <2>7. Waits'
    BY <1>1, <2>0, <2>1, <2>2 DEF IInv, Places, Paths, Ends, Waits, Exchange
  <2>8. Exchange'
    BY <1>1, <2>0, <2>1, <2>2 DEF IInv, Places, Paths, Ends, Waits, Exchange, Buffers
  <2>9. Buffers'
    BY <1>1, <2>0, <2>1, <2>2 DEF IInv, HandshakeAssumption, Places, Paths, Exchange, Buffers
  <2>10. Registered'
    BY <1>1, <2>0, <2>1, <2>2 DEF IInv, Places, Exchange, Buffers, Registered
  <2> QED
    BY <2>3, <2>4, <2>5, <2>6, <2>7, <2>8, <2>9, <2>10 DEF IInv
<1>2. CASE ~CanWrite("child")
  <2>1. /\ DOMAIN pc' = DOMAIN pc
        /\ pc'["main"] = pc["main"]
        /\ pc'["child"] = "dead"
        /\ pc'["thread"] = pc["thread"]
        /\ pc'["listener"] = pc["listener"]
    BY <1>2, Basics DEF WriteNotice, go, Contents
  <2>2. /\ at("child", "write_notice")
        /\ \A f \in Fifo : readers'[f] = readers[f] \ {"child"}
               /\ writers'[f] = writers[f] \ {"child"}
        /\ \A f \in Fifo : buffer'[f] \in {buffer[f], <<>>}
        /\ blocked' = blocked \ {"child"}
        /\ UNCHANGED <<path, made>>
        /\ PipeTypeOK(Message)'
        /\ UNCHANGED <<registered, response, child_read>>
    BY <1>2, CloseEffect DEF WriteNotice
  <2>3. TypeOK'
    BY Basics, <1>2, <2>1, <2>2 DEF IInv, TypeOK, PipeTypeOK, Message
  <2>4. Places'
    BY <1>2, <2>1, <2>2 DEF IInv, Places, Exchange, Buffers
  <2>5. Paths'
    BY <1>2, <2>1, <2>2 DEF IInv, Places, Paths, Exchange, HandshakeAssumption
  <2>6. Ends'
    BY <1>2, <2>1, <2>2 DEF IInv, Places, Paths, Ends, Waits, Exchange
  <2>7. Waits'
    BY <1>2, <2>1, <2>2 DEF IInv, Places, Paths, Ends, Waits, Exchange
  <2>8. Exchange'
    BY <1>2, <2>1, <2>2 DEF IInv, Places, Paths, Ends, Waits, Exchange, Buffers
  <2>9. Buffers'
    BY <1>2, <2>1, <2>2 DEF IInv, HandshakeAssumption, Places, Paths, Exchange, Buffers
  <2>10. Registered'
    BY <1>2, <2>1, <2>2 DEF IInv, Places, Exchange, Buffers, Registered
  <2> QED
    BY <2>3, <2>4, <2>5, <2>6, <2>7, <2>8, <2>9, <2>10 DEF IInv
<1> QED
  BY <1>1, <1>2 DEF WriteNotice

LEMMA CloseNoticeStep == ASSUME HandshakeAssumption, IInv, CloseNotice PROVE IInv'
<1>1. /\ DOMAIN pc' = DOMAIN pc
      /\ pc'["main"] = pc["main"]
      /\ pc'["child"] = "unlink"
      /\ pc'["thread"] = pc["thread"]
      /\ pc'["listener"] = pc["listener"]
  BY Basics DEF CloseNotice, go, Contents
<1>2. /\ at("child", "close_notice")
      /\ \A f \in Fifo : readers'[f] = readers[f] \ {"child"}
             /\ writers'[f] = writers[f] \ {"child"}
      /\ \A f \in Fifo : buffer'[f] \in {buffer[f], <<>>}
      /\ blocked' = blocked \ {"child"}
      /\ UNCHANGED <<path, made>>
      /\ PipeTypeOK(Message)'
      /\ UNCHANGED <<registered, response, child_read>>
  BY CloseEffect DEF CloseNotice
<1>3. TypeOK'
  BY Basics, <1>1, <1>2 DEF IInv, TypeOK, PipeTypeOK, Message
<1>4. Places'
  BY <1>1, <1>2 DEF IInv, Places, Exchange, Buffers
<1>5. Paths'
  BY <1>1, <1>2 DEF IInv, Places, Paths, Exchange, HandshakeAssumption
<1>6. Ends'
  BY <1>1, <1>2 DEF IInv, Places, Paths, Ends, Waits, Exchange
<1>7. Waits'
  BY <1>1, <1>2 DEF IInv, Places, Paths, Ends, Waits, Exchange
<1>8. Exchange'
  BY <1>1, <1>2 DEF IInv, Places, Paths, Ends, Waits, Exchange, Buffers
<1>9. Buffers'
  BY <1>1, <1>2 DEF IInv, HandshakeAssumption, Places, Paths, Exchange, Buffers
<1>10. Registered'
  BY <1>1, <1>2 DEF IInv, Places, Exchange, Buffers, Registered
<1> QED
  BY <1>3, <1>4, <1>5, <1>6, <1>7, <1>8, <1>9, <1>10 DEF IInv

LEMMA ChildUnlinksStep == ASSUME HandshakeAssumption, IInv, ChildUnlinks PROVE IInv'
<1>1. /\ DOMAIN pc' = DOMAIN pc
      /\ pc'["main"] = pc["main"]
      /\ pc'["child"] = "dead"
      /\ pc'["thread"] = pc["thread"]
      /\ pc'["listener"] = pc["listener"]
  BY Basics DEF ChildUnlinks, go, Contents
<1>2. /\ at("child", "unlink")
      /\ path' = NoFile
      /\ UNCHANGED <<made, readers, writers, blocked, buffer>>
      /\ UNCHANGED <<registered, response, child_read>>
  BY  DEF ChildUnlinks, unlink
<1>3. TypeOK'
  BY Basics, <1>1, <1>2 DEF IInv, TypeOK, PipeTypeOK, Message
<1>4. Places'
  BY <1>1, <1>2 DEF IInv, Places, Exchange, Buffers
<1>5. Paths'
  BY <1>1, <1>2 DEF IInv, Places, Paths, Exchange, HandshakeAssumption
<1>6. Ends'
  BY <1>1, <1>2 DEF IInv, Places, Paths, Ends, Waits, Exchange
<1>7. Waits'
  BY <1>1, <1>2 DEF IInv, Places, Paths, Ends, Waits, Exchange
<1>8. Exchange'
  BY <1>1, <1>2 DEF IInv, Places, Paths, Ends, Waits, Exchange, Buffers
<1>9. Buffers'
  BY <1>1, <1>2 DEF IInv, HandshakeAssumption, Places, Paths, Exchange, Buffers
<1>10. Registered'
  BY <1>1, <1>2 DEF IInv, Places, Exchange, Buffers, Registered
<1> QED
  BY <1>3, <1>4, <1>5, <1>6, <1>7, <1>8, <1>9, <1>10 DEF IInv

LEMMA ChildDiesStep == ASSUME HandshakeAssumption, IInv, ChildDies PROVE IInv'
<1>1. /\ DOMAIN pc' = DOMAIN pc
      /\ pc'["main"] = pc["main"]
      /\ pc'["child"] = "dead"
      /\ pc'["thread"] = pc["thread"]
      /\ pc'["listener"] = pc["listener"]
  BY Basics DEF ChildDies, go, Contents
<1>2. /\ pc["child"] \notin {"unborn", "dead", "reaped"}
      /\ \A f \in Fifo : readers'[f] = readers[f] \ {"child"}
             /\ writers'[f] = writers[f] \ {"child"}
      /\ \A f \in Fifo : buffer'[f] \in {buffer[f], <<>>}
      /\ blocked' = blocked \ {"child"}
      /\ UNCHANGED <<path, made>>
      /\ PipeTypeOK(Message)'
      /\ UNCHANGED <<registered, response, child_read>>
  BY CloseEffect DEF ChildDies, ChildAlive
<1>3. TypeOK'
  BY Basics, <1>1, <1>2 DEF IInv, TypeOK, PipeTypeOK, Message
<1>4. Places'
  BY <1>1, <1>2 DEF IInv, Places, Exchange, Buffers
<1>5. Paths'
  BY <1>1, <1>2 DEF IInv, Places, Paths, Exchange, HandshakeAssumption
<1>6. Ends'
  BY <1>1, <1>2 DEF IInv, Places, Paths, Ends, Waits, Exchange
<1>7. Waits'
  BY <1>1, <1>2 DEF IInv, Places, Paths, Ends, Waits, Exchange
<1>8. Exchange'
  BY <1>1, <1>2 DEF IInv, Places, Paths, Ends, Waits, Exchange, Buffers
<1>9. Buffers'
  BY <1>1, <1>2 DEF IInv, HandshakeAssumption, Places, Paths, Exchange, Buffers
<1>10. Registered'
  BY <1>1, <1>2 DEF IInv, Places, Exchange, Buffers, Registered
<1> QED
  BY <1>3, <1>4, <1>5, <1>6, <1>7, <1>8, <1>9, <1>10 DEF IInv

LEMMA ThreadOpensStep == ASSUME HandshakeAssumption, IInv, ThreadOpens PROVE IInv'
<1>1. CASE path = NoFile
  <2>1. /\ DOMAIN pc' = DOMAIN pc
        /\ pc'["main"] = pc["main"]
        /\ pc'["child"] = pc["child"]
        /\ pc'["thread"] = "done"
        /\ pc'["listener"] = pc["listener"]
    BY <1>1, Basics DEF ThreadOpens, go, Contents
  <2>2. /\ at("thread", "open")
        /\ UNCHANGED <<path, made, readers, writers, blocked, buffer>>
        /\ UNCHANGED <<registered, response, child_read>>
    BY <1>1 DEF ThreadOpens, pipe
  <2>3. TypeOK'
    BY Basics, <1>1, <2>1, <2>2 DEF IInv, TypeOK, PipeTypeOK, Message
  <2>4. Places'
    BY <1>1, <2>1, <2>2 DEF IInv, Places, Exchange, Buffers
  <2>5. Paths'
    BY <1>1, <2>1, <2>2 DEF IInv, Places, Paths, Exchange, HandshakeAssumption
  <2>6. Ends'
    BY <1>1, <2>1, <2>2 DEF IInv, Places, Paths, Ends, Waits, Exchange
  <2>7. Waits'
    BY <1>1, <2>1, <2>2 DEF IInv, Places, Paths, Ends, Waits, Exchange
  <2>8. Exchange'
    BY <1>1, <2>1, <2>2 DEF IInv, Places, Paths, Ends, Waits, Exchange, Buffers
  <2>9. Buffers'
    BY <1>1, <2>1, <2>2 DEF IInv, HandshakeAssumption, Places, Paths, Exchange, Buffers
  <2>10. Registered'
    BY <1>1, <2>1, <2>2 DEF IInv, Places, Exchange, Buffers, Registered
  <2> QED
    BY <2>3, <2>4, <2>5, <2>6, <2>7, <2>8, <2>9, <2>10 DEF IInv
<1>2. CASE path # NoFile
  <2>1. /\ DOMAIN pc' = DOMAIN pc
        /\ pc'["main"] = pc["main"]
        /\ pc'["child"] = pc["child"]
        /\ pc'["thread"] = "read"
        /\ pc'["listener"] = pc["listener"]
    BY <1>2, Basics DEF ThreadOpens, go, Contents
  <2>2. /\ at("thread", "open")
        /\ path = made /\ made \in Fifo
        /\ \A f \in Fifo : \A x : x \in readers'[f] <=>
               x \in readers[f] \/ (f = made /\ x = "thread")
        /\ \A x : x \in blocked' <=>
               (x \in blocked /\ x \notin writers[made]) \/ (x = "thread" /\ writers[made] = {})
        /\ writers[made] = {} <=> "child" \notin writers[made] /\ "answer" \notin writers[made]
        /\ UNCHANGED <<path, made, writers, buffer>>
        /\ PipeTypeOK(Message)'
        /\ UNCHANGED <<registered, response, child_read>>
    BY <1>2, OpenReadingEffect DEF ThreadOpens, HandshakeAssumption
  <2>3. TypeOK'
    BY Basics, <1>2, <2>1, <2>2 DEF IInv, TypeOK, PipeTypeOK, Message
  <2>4. Places'
    BY <1>2, <2>1, <2>2 DEF IInv, Places, Exchange, Buffers
  <2>5. Paths'
    BY <1>2, <2>1, <2>2 DEF IInv, Places, Paths, Exchange, HandshakeAssumption
  <2>6. Ends'
    BY <1>2, <2>1, <2>2 DEF IInv, Places, Paths, Ends, Waits, Exchange
  <2>7. Waits'
    BY <1>2, <2>1, <2>2 DEF IInv, Places, Paths, Ends, Waits, Exchange
  <2>8. Exchange'
    BY <1>2, <2>1, <2>2 DEF IInv, Places, Paths, Ends, Waits, Exchange, Buffers
  <2>9. Buffers'
    BY <1>2, <2>1, <2>2 DEF IInv, HandshakeAssumption, Places, Paths, Exchange, Buffers
  <2>10. Registered'
    BY <1>2, <2>1, <2>2 DEF IInv, Places, Exchange, Buffers, Registered
  <2> QED
    BY <2>3, <2>4, <2>5, <2>6, <2>7, <2>8, <2>9, <2>10 DEF IInv
<1> QED
  BY <1>1, <1>2 DEF ThreadOpens

LEMMA ThreadReadsStep == ASSUME HandshakeAssumption, IInv, ThreadReads PROVE IInv'
<1>0. FileOf("thread") = made /\ made \in Fifo
  BY FileOfOpen DEF ThreadReads, IsOpen, IInv, Ends, Waits, Exchange
<1>1. /\ DOMAIN pc' = DOMAIN pc
      /\ pc'["main"] = pc["main"]
      /\ pc'["child"] = pc["child"]
      /\ pc'["thread"] =
             IF buffer[made] = <<>> THEN "close" ELSE IF buffer[made][1] = "REQ"
                 THEN "allocate" ELSE IF buffer[made][1] = "TERM" THEN "remove" ELSE "close"
      /\ pc'["listener"] = pc["listener"]
  BY <1>0, Basics DEF ThreadReads, go, Contents
<1>2. /\ at("thread", "read")
      /\ "thread" \notin blocked
      /\ buffer[made] # <<>> \/ writers[made] = {}
      /\ \A f \in Fifo : buffer'[f] = IF f = made THEN <<>> ELSE buffer[f]
      /\ UNCHANGED <<path, made, readers, writers, blocked>>
      /\ PipeTypeOK(Message)'
      /\ UNCHANGED <<registered, response, child_read>>
  BY <1>0, ReadEffect DEF ThreadReads, IsOpen, CanRead, Contents
<1>3. TypeOK'
  BY Basics, <1>0, <1>1, <1>2 DEF IInv, TypeOK, PipeTypeOK, Message
<1>4. Places'
  BY <1>0, <1>1, <1>2 DEF IInv, Places, Exchange, Buffers
<1>5. Paths'
  BY <1>0, <1>1, <1>2 DEF IInv, Places, Paths, Exchange, HandshakeAssumption
<1>6. Ends'
  BY <1>0, <1>1, <1>2 DEF IInv, Places, Paths, Ends, Waits, Exchange, Buffers
<1>7. Waits'
  BY <1>0, <1>1, <1>2 DEF IInv, Places, Paths, Ends, Waits, Exchange, Buffers
<1>8. Exchange'
  BY <1>0, <1>1, <1>2 DEF IInv, Places, Paths, Ends, Waits, Exchange, Buffers
<1>9. Buffers'
  BY <1>0, <1>1, <1>2 DEF IInv, HandshakeAssumption, Places, Paths, Exchange, Buffers
<1>10. Registered'
  BY <1>0, <1>1, <1>2 DEF IInv, Places, Exchange, Buffers, Registered
<1> QED
  BY <1>3, <1>4, <1>5, <1>6, <1>7, <1>8, <1>9, <1>10 DEF IInv

LEMMA AllocateStep == ASSUME HandshakeAssumption, IInv, Allocate PROVE IInv'
<1>1. /\ DOMAIN pc' = DOMAIN pc
      /\ pc'["main"] = pc["main"]
      /\ pc'["child"] = pc["child"]
      /\ pc'["thread"] = IF response' = "GRANT" THEN "create_pcb" ELSE "open_answer"
      /\ pc'["listener"] = pc["listener"]
  BY Basics DEF Allocate, go, Contents
<1>2. /\ at("thread", "allocate")
      /\ UNCHANGED <<path, made, readers, writers, blocked, buffer>>
      /\ response' \in {"GRANT", "DENY"}
      /\ UNCHANGED <<registered, child_read>>
  BY  DEF Allocate, pipe
<1>3. TypeOK'
  BY Basics, <1>1, <1>2 DEF IInv, TypeOK, PipeTypeOK, Message
<1>4. Places'
  BY <1>1, <1>2 DEF IInv, Places, Exchange, Buffers
<1>5. Paths'
  BY <1>1, <1>2 DEF IInv, Places, Paths, Exchange, HandshakeAssumption
<1>6. Ends'
  BY <1>1, <1>2 DEF IInv, Places, Paths, Ends, Waits, Exchange
<1>7. Waits'
  BY <1>1, <1>2 DEF IInv, Places, Paths, Ends, Waits, Exchange
<1>8. Exchange'
  BY <1>1, <1>2 DEF IInv, Places, Paths, Ends, Waits, Exchange, Buffers
<1>9. Buffers'
  BY <1>1, <1>2 DEF IInv, HandshakeAssumption, Places, Paths, Exchange, Buffers
<1>10. Registered'
  BY <1>1, <1>2 DEF IInv, Places, Exchange, Buffers, Registered
<1> QED
  BY <1>3, <1>4, <1>5, <1>6, <1>7, <1>8, <1>9, <1>10 DEF IInv

LEMMA CreatePcbStep == ASSUME HandshakeAssumption, IInv, CreatePcb PROVE IInv'
<1>1. /\ DOMAIN pc' = DOMAIN pc
      /\ pc'["main"] = pc["main"]
      /\ pc'["child"] = pc["child"]
      /\ pc'["thread"] = "open_answer"
      /\ pc'["listener"] = pc["listener"]
  BY Basics DEF CreatePcb, go, Contents
<1>2. /\ at("thread", "create_pcb")
      /\ UNCHANGED <<path, made, readers, writers, blocked, buffer>>
      /\ registered' \in {"held", "dropped"}
      /\ UNCHANGED <<response, child_read>>
  BY  DEF CreatePcb, pipe
<1>3. TypeOK'
  BY Basics, <1>1, <1>2 DEF IInv, TypeOK, PipeTypeOK, Message
<1>4. Places'
  BY <1>1, <1>2 DEF IInv, Places, Exchange, Buffers
<1>5. Paths'
  BY <1>1, <1>2 DEF IInv, Places, Paths, Exchange, HandshakeAssumption
<1>6. Ends'
  BY <1>1, <1>2 DEF IInv, Places, Paths, Ends, Waits, Exchange
<1>7. Waits'
  BY <1>1, <1>2 DEF IInv, Places, Paths, Ends, Waits, Exchange
<1>8. Exchange'
  BY <1>1, <1>2 DEF IInv, Places, Paths, Ends, Waits, Exchange, Buffers
<1>9. Buffers'
  BY <1>1, <1>2 DEF IInv, HandshakeAssumption, Places, Paths, Exchange, Buffers
<1>10. Registered'
  BY <1>1, <1>2 DEF IInv, Places, Exchange, Buffers, Registered
<1> QED
  BY <1>3, <1>4, <1>5, <1>6, <1>7, <1>8, <1>9, <1>10 DEF IInv

LEMMA ThreadOpensAnswerStep == ASSUME HandshakeAssumption, IInv, ThreadOpensAnswer PROVE IInv'
<1>1. CASE path = NoFile
  <2>1. /\ DOMAIN pc' = DOMAIN pc
        /\ pc'["main"] = pc["main"]
        /\ pc'["child"] = pc["child"]
        /\ pc'["thread"] = "close"
        /\ pc'["listener"] = pc["listener"]
    BY <1>1, Basics DEF ThreadOpensAnswer, go, Contents
  <2>2. /\ at("thread", "open_answer")
        /\ UNCHANGED <<path, made, readers, writers, blocked, buffer>>
        /\ UNCHANGED <<registered, response, child_read>>
    BY <1>1 DEF ThreadOpensAnswer, pipe
  <2>3. TypeOK'
    BY Basics, <1>1, <2>1, <2>2 DEF IInv, TypeOK, PipeTypeOK, Message
  <2>4. Places'
    BY <1>1, <2>1, <2>2 DEF IInv, Places, Exchange, Buffers
  <2>5. Paths'
    BY <1>1, <2>1, <2>2 DEF IInv, Places, Paths, Exchange, HandshakeAssumption
  <2>6. Ends'
    BY <1>1, <2>1, <2>2 DEF IInv, Places, Paths, Ends, Waits, Exchange
  <2>7. Waits'
    BY <1>1, <2>1, <2>2 DEF IInv, Places, Paths, Ends, Waits, Exchange
  <2>8. Exchange'
    BY <1>1, <2>1, <2>2 DEF IInv, Places, Paths, Ends, Waits, Exchange, Buffers
  <2>9. Buffers'
    BY <1>1, <2>1, <2>2 DEF IInv, HandshakeAssumption, Places, Paths, Exchange, Buffers
  <2>10. Registered'
    BY <1>1, <2>1, <2>2 DEF IInv, Places, Exchange, Buffers, Registered
  <2> QED
    BY <2>3, <2>4, <2>5, <2>6, <2>7, <2>8, <2>9, <2>10 DEF IInv
<1>2. CASE path # NoFile
  <2>1. /\ DOMAIN pc' = DOMAIN pc
        /\ pc'["main"] = pc["main"]
        /\ pc'["child"] = pc["child"]
        /\ pc'["thread"] = "write_answer"
        /\ pc'["listener"] = pc["listener"]
    BY <1>2, Basics DEF ThreadOpensAnswer, go, Contents
  <2>2. /\ at("thread", "open_answer")
        /\ path = made /\ made \in Fifo
        /\ \A f \in Fifo : \A x : x \in writers'[f] <=>
               x \in writers[f] \/ (f = made /\ x = "answer")
        /\ \A x : x \in blocked' <=>
               (x \in blocked /\ x \notin readers[made]) \/ (x = "answer" /\ readers[made] = {})
        /\ readers[made] = {} <=>
               "child" \notin readers[made]
                   /\ "thread" \notin readers[made] /\ "listener" \notin readers[made]
        /\ UNCHANGED <<path, made, readers, buffer>>
        /\ PipeTypeOK(Message)'
        /\ UNCHANGED <<registered, response, child_read>>
    BY <1>2, OpenWritingEffect DEF ThreadOpensAnswer, HandshakeAssumption
  <2>3. TypeOK'
    BY Basics, <1>2, <2>1, <2>2 DEF IInv, TypeOK, PipeTypeOK, Message
  <2>4. Places'
    BY <1>2, <2>1, <2>2 DEF IInv, Places, Exchange, Buffers
  <2>5. Paths'
    BY <1>2, <2>1, <2>2 DEF IInv, Places, Paths, Exchange, HandshakeAssumption
  <2>6. Ends'
    BY <1>2, <2>1, <2>2 DEF IInv, Places, Paths, Ends, Waits, Exchange
  <2>7. Waits'
    BY <1>2, <2>1, <2>2 DEF IInv, Places, Paths, Ends, Waits, Exchange
  <2>8. Exchange'
    BY <1>2, <2>1, <2>2 DEF IInv, Places, Paths, Ends, Waits, Exchange, Buffers
  <2>9. Buffers'
    BY <1>2, <2>1, <2>2 DEF IInv, HandshakeAssumption, Places, Paths, Exchange, Buffers
  <2>10. Registered'
    BY <1>2, <2>1, <2>2 DEF IInv, Places, Exchange, Buffers, Registered
  <2> QED
    BY <2>3, <2>4, <2>5, <2>6, <2>7, <2>8, <2>9, <2>10 DEF IInv
<1> QED
  BY <1>1, <1>2 DEF ThreadOpensAnswer

LEMMA ThreadWritesStep == ASSUME HandshakeAssumption, IInv, ThreadWrites PROVE IInv'
<1>1. CASE CanWrite("answer")
  <2>0. FileOf("answer") = made /\ made \in Fifo /\ buffer[made] = <<>>
    <3>1. FileOf("answer") = made /\ made \in Fifo
      BY <1>1, FileOfOpen DEF ThreadWrites, IsOpen, IInv, Ends, Waits, Exchange
    <3> QED
      BY <1>1, <3>1 DEF ThreadWrites, IInv, Places, Paths, Ends, Waits, Exchange, Buffers,
         Registered
  <2>1. /\ DOMAIN pc' = DOMAIN pc
        /\ pc'["main"] = pc["main"]
        /\ pc'["child"] = pc["child"]
        /\ pc'["thread"] = "close_answer"
        /\ pc'["listener"] = pc["listener"]
    BY <1>1, <2>0, Basics DEF ThreadWrites, go, Contents
  <2>2. /\ at("thread", "write_answer")
        /\ response \in {"GRANT", "DENY"}
        /\ \A f \in Fifo : buffer'[f] = IF f = made THEN <<response>> ELSE buffer[f]
        /\ UNCHANGED <<path, made, readers, writers, blocked>>
        /\ PipeTypeOK(Message)'
        /\ UNCHANGED <<registered, response, child_read>>
    BY <1>1, <2>0, WriteEffect DEF ThreadWrites, Message, IInv, TypeOK, Exchange
  <2>3. TypeOK'
    BY Basics, <1>1, <2>0, <2>1, <2>2 DEF IInv, TypeOK, PipeTypeOK, Message
  <2>4. Places'
    BY <1>1, <2>0, <2>1, <2>2 DEF IInv, Places, Exchange, Buffers
  <2>5. Paths'
    BY <1>1, <2>0, <2>1, <2>2 DEF IInv, Places, Paths, Exchange, HandshakeAssumption
  <2>6. Ends'
    BY <1>1, <2>0, <2>1, <2>2 DEF IInv, Places, Paths, Ends, Waits, Exchange
  <2>7. Waits'
    BY <1>1, <2>0, <2>1, <2>2 DEF IInv, Places, Paths, Ends, Waits, Exchange
  <2>8. Exchange'
    BY <1>1, <2>0, <2>1, <2>2 DEF IInv, Places, Paths, Ends, Waits, Exchange, Buffers
  <2>9. Buffers'
    BY <1>1, <2>0, <2>1, <2>2 DEF IInv, HandshakeAssumption, Places, Paths, Exchange, Buffers
  <2>10. Registered'
    BY <1>1, <2>0, <2>1, <2>2 DEF IInv, Places, Exchange, Buffers, Registered
  <2> QED
    BY <2>3, <2>4, <2>5, <2>6, <2>7, <2>8, <2>9, <2>10 DEF IInv
<1>2. CASE ~CanWrite("answer")
  <2>1. FileOf("answer") = made /\ made \in Fifo
    BY FileOfOpen DEF ThreadWrites
  <2>2. "thread" \in readers[made]
    BY <2>1 DEF ThreadWrites, IInv, Ends, Waits
  <2> QED
    BY <1>2, <2>1, <2>2 DEF CanWrite
<1> QED
  BY <1>1, <1>2 DEF ThreadWrites

LEMMA ThreadClosesAnswerStep == ASSUME HandshakeAssumption, IInv, ThreadClosesAnswer PROVE IInv'
<1>1. /\ DOMAIN pc' = DOMAIN pc
      /\ pc'["main"] = pc["main"]
      /\ pc'["child"] = pc["child"]
      /\ pc'["thread"] = "close"
      /\ pc'["listener"] = pc["listener"]
  BY Basics DEF ThreadClosesAnswer, go, Contents
<1>2. /\ at("thread", "close_answer")
      /\ \A f \in Fifo : readers'[f] = readers[f] \ {"answer"}
             /\ writers'[f] = writers[f] \ {"answer"}
      /\ \A f \in Fifo : buffer'[f] \in {buffer[f], <<>>}
      /\ blocked' = blocked \ {"answer"}
      /\ UNCHANGED <<path, made>>
      /\ PipeTypeOK(Message)'
      /\ UNCHANGED <<registered, response, child_read>>
  BY CloseEffect DEF ThreadClosesAnswer
<1>3. TypeOK'
  BY Basics, <1>1, <1>2 DEF IInv, TypeOK, PipeTypeOK, Message
<1>4. Places'
  BY <1>1, <1>2 DEF IInv, Places, Exchange, Buffers
<1>5. Paths'
  BY <1>1, <1>2 DEF IInv, Places, Paths, Exchange, HandshakeAssumption
<1>6. Ends'
  BY <1>1, <1>2 DEF IInv, Places, Paths, Ends, Waits, Exchange
<1>7. Waits'
  BY <1>1, <1>2 DEF IInv, Places, Paths, Ends, Waits, Exchange
<1>8. Exchange'
  BY <1>1, <1>2 DEF IInv, Places, Paths, Ends, Waits, Exchange, Buffers
<1>9. Buffers'
  BY <1>1, <1>2 DEF IInv, HandshakeAssumption, Places, Paths, Exchange, Buffers
<1>10. Registered'
  BY <1>1, <1>2 DEF IInv, Places, Exchange, Buffers, Registered
<1> QED
  BY <1>3, <1>4, <1>5, <1>6, <1>7, <1>8, <1>9, <1>10 DEF IInv

LEMMA ThreadClosesStep == ASSUME HandshakeAssumption, IInv, ThreadCloses PROVE IInv'
<1>0. ~at("thread", "remove") /\ at("thread", "close")
  BY DEF ThreadCloses, IInv, Places
<1>1. /\ DOMAIN pc' = DOMAIN pc
      /\ pc'["main"] = pc["main"]
      /\ pc'["child"] = pc["child"]
      /\ pc'["thread"] = "done"
      /\ pc'["listener"] = pc["listener"]
  BY <1>0, Basics DEF ThreadCloses, go, Contents
<1>2. /\ at("thread", "close")
      /\ \A f \in Fifo : readers'[f] = readers[f] \ {"thread"}
             /\ writers'[f] = writers[f] \ {"thread"}
      /\ \A f \in Fifo : buffer'[f] \in {buffer[f], <<>>}
      /\ blocked' = blocked \ {"thread"}
      /\ UNCHANGED <<path, made>>
      /\ PipeTypeOK(Message)'
      /\ UNCHANGED <<registered, response, child_read>>
  BY <1>0, CloseEffect DEF ThreadCloses
<1>3. TypeOK'
  BY Basics, <1>0, <1>1, <1>2 DEF IInv, TypeOK, PipeTypeOK, Message
<1>4. Places'
  BY <1>0, <1>1, <1>2 DEF IInv, Places, Exchange, Buffers
<1>5. Paths'
  BY <1>0, <1>1, <1>2 DEF IInv, Places, Paths, Exchange, HandshakeAssumption
<1>6. Ends'
  BY <1>0, <1>1, <1>2 DEF IInv, Places, Paths, Ends, Waits, Exchange
<1>7. Waits'
  BY <1>0, <1>1, <1>2 DEF IInv, Places, Paths, Ends, Waits, Exchange
<1>8. Exchange'
  BY <1>0, <1>1, <1>2 DEF IInv, Places, Paths, Ends, Waits, Exchange, Buffers
<1>9. Buffers'
  BY <1>0, <1>1, <1>2 DEF IInv, HandshakeAssumption, Places, Paths, Exchange, Buffers
<1>10. Registered'
  BY <1>0, <1>1, <1>2 DEF IInv, Places, Exchange, Buffers, Registered
<1> QED
  BY <1>3, <1>4, <1>5, <1>6, <1>7, <1>8, <1>9, <1>10 DEF IInv

LEMMA ListenerSeesStep == ASSUME HandshakeAssumption, IInv, ListenerSees PROVE IInv'
<1>1. /\ DOMAIN pc' = DOMAIN pc
      /\ pc'["main"] = pc["main"]
      /\ pc'["child"] = pc["child"]
      /\ pc'["thread"] = pc["thread"]
      /\ pc'["listener"] = "open"
  BY Basics DEF ListenerSees, go, Contents
<1>2. /\ at("listener", "copy_pids") /\ registered = "held"
      /\ UNCHANGED <<path, made, readers, writers, blocked, buffer>>
      /\ UNCHANGED <<registered, response, child_read>>
  BY  DEF ListenerSees, pipe
<1>3. TypeOK'
  BY Basics, <1>1, <1>2 DEF IInv, TypeOK, PipeTypeOK, Message
<1>4. Places'
  BY <1>1, <1>2 DEF IInv, Places, Exchange, Buffers
<1>5. Paths'
  BY <1>1, <1>2 DEF IInv, Places, Paths, Exchange, HandshakeAssumption
<1>6. Ends'
  BY <1>1, <1>2 DEF IInv, Places, Paths, Ends, Waits, Exchange
<1>7. Waits'
  BY <1>1, <1>2 DEF IInv, Places, Paths, Ends, Waits, Exchange
<1>8. Exchange'
  BY <1>1, <1>2 DEF IInv, Places, Paths, Ends, Waits, Exchange, Buffers
<1>9. Buffers'
  BY <1>1, <1>2 DEF IInv, HandshakeAssumption, Places, Paths, Exchange, Buffers
<1>10. Registered'
  BY <1>1, <1>2 DEF IInv, Places, Exchange, Buffers, Registered
<1> QED
  BY <1>3, <1>4, <1>5, <1>6, <1>7, <1>8, <1>9, <1>10 DEF IInv

LEMMA ListenerOpensStep == ASSUME HandshakeAssumption, IInv, ListenerOpens PROVE IInv'
<1>1. CASE path = NoFile
  <2>1. /\ DOMAIN pc' = DOMAIN pc
        /\ pc'["main"] = pc["main"]
        /\ pc'["child"] = pc["child"]
        /\ pc'["thread"] = pc["thread"]
        /\ pc'["listener"] = "copy_pids"
    BY <1>1, Basics DEF ListenerOpens, go, Contents
  <2>2. /\ at("listener", "open")
        /\ UNCHANGED <<path, made, readers, writers, blocked, buffer>>
        /\ UNCHANGED <<registered, response, child_read>>
    BY <1>1 DEF ListenerOpens, pipe
  <2>3. TypeOK'
    BY Basics, <1>1, <2>1, <2>2 DEF IInv, TypeOK, PipeTypeOK, Message
  <2>4. Places'
    BY <1>1, <2>1, <2>2 DEF IInv, Places, Exchange, Buffers
  <2>5. Paths'
    BY <1>1, <2>1, <2>2 DEF IInv, Places, Paths, Exchange, HandshakeAssumption
  <2>6. Ends'
    BY <1>1, <2>1, <2>2 DEF IInv, Places, Paths, Ends, Waits, Exchange
  <2>7. Waits'
    BY <1>1, <2>1, <2>2 DEF IInv, Places, Paths, Ends, Waits, Exchange
  <2>8. Exchange'
    BY <1>1, <2>1, <2>2 DEF IInv, Places, Paths, Ends, Waits, Exchange, Buffers
  <2>9. Buffers'
    BY <1>1, <2>1, <2>2 DEF IInv, HandshakeAssumption, Places, Paths, Exchange, Buffers
  <2>10. Registered'
    BY <1>1, <2>1, <2>2 DEF IInv, Places, Exchange, Buffers, Registered
  <2> QED
    BY <2>3, <2>4, <2>5, <2>6, <2>7, <2>8, <2>9, <2>10 DEF IInv
<1>2. CASE path # NoFile
  <2>1. /\ DOMAIN pc' = DOMAIN pc
        /\ pc'["main"] = pc["main"]
        /\ pc'["child"] = pc["child"]
        /\ pc'["thread"] = pc["thread"]
        /\ pc'["listener"] = "read"
    BY <1>2, Basics DEF ListenerOpens, go, Contents
  <2>2. /\ at("listener", "open")
        /\ path = made /\ made \in Fifo
        /\ \A f \in Fifo : \A x : x \in readers'[f] <=>
               x \in readers[f] \/ (f = made /\ x = "listener")
        /\ \A x : x \in blocked' <=> (x \in blocked /\ x \notin writers[made])
        /\ writers[made] = {} <=> "child" \notin writers[made] /\ "answer" \notin writers[made]
        /\ UNCHANGED <<path, made, writers, buffer>>
        /\ PipeTypeOK(Message)'
        /\ UNCHANGED <<registered, response, child_read>>
    BY <1>2, OpenReadingEffect DEF ListenerOpens, HandshakeAssumption
  <2>3. TypeOK'
    BY Basics, <1>2, <2>1, <2>2 DEF IInv, TypeOK, PipeTypeOK, Message
  <2>4. Places'
    BY <1>2, <2>1, <2>2 DEF IInv, Places, Exchange, Buffers
  <2>5. Paths'
    BY <1>2, <2>1, <2>2 DEF IInv, Places, Paths, Exchange, HandshakeAssumption
  <2>6. Ends'
    BY <1>2, <2>1, <2>2 DEF IInv, Places, Paths, Ends, Waits, Exchange
  <2>7. Waits'
    BY <1>2, <2>1, <2>2 DEF IInv, Places, Paths, Ends, Waits, Exchange, Registered
  <2>8. Exchange'
    BY <1>2, <2>1, <2>2 DEF IInv, Places, Paths, Ends, Waits, Exchange, Buffers, Registered
  <2>9. Buffers'
    BY <1>2, <2>1, <2>2 DEF IInv, HandshakeAssumption, Places, Paths, Exchange, Buffers
  <2>10. Registered'
    BY <1>2, <2>1, <2>2 DEF IInv, Places, Exchange, Buffers, Registered
  <2> QED
    BY <2>3, <2>4, <2>5, <2>6, <2>7, <2>8, <2>9, <2>10 DEF IInv
<1> QED
  BY <1>1, <1>2 DEF ListenerOpens

LEMMA ListenerReadsStep == ASSUME HandshakeAssumption, IInv, ListenerReads PROVE IInv'
<1>0. FileOf("listener") = made /\ made \in Fifo
  BY FileOfOpen DEF ListenerReads, IsOpen, IInv, Ends, Waits, Exchange
<1>1. /\ DOMAIN pc' = DOMAIN pc
      /\ pc'["main"] = pc["main"]
      /\ pc'["child"] = pc["child"]
      /\ pc'["thread"] = pc["thread"]
      /\ pc'["listener"] =
             IF buffer[made] # <<>> /\ buffer[made][1] = "TERM" THEN "remove" ELSE "close"
  BY <1>0, Basics DEF ListenerReads, go, Contents
<1>2. /\ at("listener", "read")
      /\ \A f \in Fifo : buffer'[f] = IF f = made THEN <<>> ELSE buffer[f]
      /\ UNCHANGED <<path, made, readers, writers, blocked>>
      /\ PipeTypeOK(Message)'
      /\ UNCHANGED <<registered, response, child_read>>
  BY <1>0, ReadEffect DEF ListenerReads
<1>3. TypeOK'
  BY Basics, <1>0, <1>1, <1>2 DEF IInv, TypeOK, PipeTypeOK, Message
<1>4. Places'
  BY <1>0, <1>1, <1>2 DEF IInv, Places, Exchange, Buffers
<1>5. Paths'
  BY <1>0, <1>1, <1>2 DEF IInv, Places, Paths, Exchange, HandshakeAssumption
<1>6. Ends'
  BY <1>0, <1>1, <1>2 DEF IInv, Places, Paths, Ends, Waits, Exchange
<1>7. Waits'
  BY <1>0, <1>1, <1>2 DEF IInv, Places, Paths, Ends, Waits, Exchange
<1>8. Exchange'
  BY <1>0, <1>1, <1>2 DEF IInv, Places, Paths, Ends, Waits, Exchange, Buffers
<1>9. Buffers'
  BY <1>0, <1>1, <1>2 DEF IInv, HandshakeAssumption, Places, Paths, Exchange, Buffers
<1>10. Registered'
  BY <1>0, <1>1, <1>2 DEF IInv, Places, Exchange, Buffers, Registered
<1> QED
  BY <1>3, <1>4, <1>5, <1>6, <1>7, <1>8, <1>9, <1>10 DEF IInv

LEMMA ListenerRemovesStep == ASSUME HandshakeAssumption, IInv, ListenerRemoves PROVE IInv'
<1>1. /\ DOMAIN pc' = DOMAIN pc
      /\ pc'["main"] = pc["main"]
      /\ pc'["child"] = pc["child"]
      /\ pc'["thread"] = pc["thread"]
      /\ pc'["listener"] = "close"
  BY Basics DEF ListenerRemoves, go, Contents
<1>2. /\ at("listener", "remove")
      /\ path' = NoFile
      /\ UNCHANGED <<made, readers, writers, blocked, buffer>>
      /\ registered' = IF registered = "held" THEN "released" ELSE registered
      /\ UNCHANGED <<response, child_read>>
  BY  DEF ListenerRemoves, unlink, remove_pcb
<1>3. TypeOK'
  BY Basics, <1>1, <1>2 DEF IInv, TypeOK, PipeTypeOK, Message
<1>4. Places'
  BY <1>1, <1>2 DEF IInv, Places, Exchange, Buffers
<1>5. Paths'
  BY <1>1, <1>2 DEF IInv, Places, Paths, Exchange, HandshakeAssumption, Registered
<1>6. Ends'
  BY <1>1, <1>2 DEF IInv, Places, Paths, Ends, Waits, Exchange
<1>7. Waits'
  BY <1>1, <1>2 DEF IInv, Places, Paths, Ends, Waits, Exchange
<1>8. Exchange'
  BY <1>1, <1>2 DEF IInv, Places, Paths, Ends, Waits, Exchange, Buffers
<1>9. Buffers'
  BY <1>1, <1>2 DEF IInv, HandshakeAssumption, Places, Paths, Exchange, Buffers
<1>10. Registered'
  BY <1>1, <1>2 DEF IInv, Places, Exchange, Buffers, Registered
<1> QED
  BY <1>3, <1>4, <1>5, <1>6, <1>7, <1>8, <1>9, <1>10 DEF IInv

LEMMA ListenerClosesStep == ASSUME HandshakeAssumption, IInv, ListenerCloses PROVE IInv'
<1>1. /\ DOMAIN pc' = DOMAIN pc
      /\ pc'["main"] = pc["main"]
      /\ pc'["child"] = pc["child"]
      /\ pc'["thread"] = pc["thread"]
      /\ pc'["listener"] = "copy_pids"
  BY Basics DEF ListenerCloses, go, Contents
<1>2. /\ at("listener", "close")
      /\ \A f \in Fifo : readers'[f] = readers[f] \ {"listener"}
             /\ writers'[f] = writers[f] \ {"listener"}
      /\ \A f \in Fifo : buffer'[f] \in {buffer[f], <<>>}
      /\ blocked' = blocked \ {"listener"}
      /\ UNCHANGED <<path, made>>
      /\ PipeTypeOK(Message)'
      /\ UNCHANGED <<registered, response, child_read>>
  BY CloseEffect DEF ListenerCloses
<1>3. TypeOK'
  BY Basics, <1>1, <1>2 DEF IInv, TypeOK, PipeTypeOK, Message
<1>4. Places'
  BY <1>1, <1>2 DEF IInv, Places, Exchange, Buffers
<1>5. Paths'
  BY <1>1, <1>2 DEF IInv, Places, Paths, Exchange, HandshakeAssumption
<1>6. Ends'
  BY <1>1, <1>2 DEF IInv, Places, Paths, Ends, Waits, Exchange
<1>7. Waits'
  BY <1>1, <1>2 DEF IInv, Places, Paths, Ends, Waits, Exchange
<1>8. Exchange'
  BY <1>1, <1>2 DEF IInv, Places, Paths, Ends, Waits, Exchange, Buffers
<1>9. Buffers'
  BY <1>1, <1>2 DEF IInv, HandshakeAssumption, Places, Paths, Exchange, Buffers
<1>10. Registered'
  BY <1>1, <1>2 DEF IInv, Places, Exchange, Buffers, Registered
<1> QED
  BY <1>3, <1>4, <1>5, <1>6, <1>7, <1>8, <1>9, <1>10 DEF IInv

-----------------------------------------------------------------------------
(* The invariant of the handshake *)

LEMMA HandshakeInit == ASSUME HandshakeAssumption, Init PROVE IInv
<1>1. /\ path = NoFile /\ made = 0 /\ blocked = {}
      /\ readers = [f \in Fifo |-> {}] /\ writers = [f \in Fifo |-> {}]
      /\ buffer = [f \in Fifo |-> <<>>]
      /\ registered = "never" /\ response = "none" /\ child_read = <<>>
  BY DEF Init, PipeInit
<1>2. /\ DOMAIN pc = {"main", "child", "thread", "listener"}
      /\ pc["main"] = "fork" /\ pc["child"] = "unborn"
      /\ pc["thread"] = "none" /\ pc["listener"] = "copy_pids"
  BY DEF Init
<1>3. TypeOK
  BY <1>1, <1>2 DEF HandshakeAssumption, TypeOK, PipeTypeOK, Message
<1>4. Places /\ Paths /\ Waits
  BY <1>1, <1>2 DEF Places, Paths, Waits
<1>5. Ends
  BY <1>1, <1>2 DEF Ends
<1>6. Exchange /\ Buffers /\ Registered
  BY <1>1, <1>2 DEF Exchange, Buffers, Registered
<1> QED
  BY <1>3, <1>4, <1>5, <1>6 DEF IInv

LEMMA HandshakeStep == ASSUME HandshakeAssumption, IInv, [Next]_vars PROVE IInv'
<1>1. CASE MainStep
  BY <1>1, ForkStep, UnlinkOldStep, MakePipeStep, CreateThreadStep, MinimizeStep,
     ResumeStep, RemoveDeadStep, CleanUpStep DEF MainStep
<1>2. CASE ChildStep
  BY <1>2, ChildMakesPipeStep, OpenRequestStep, WriteRequestStep, CloseRequestStep,
     OpenAnswerStep, ReadAnswerStep, CloseAnswerStep, TerminationMakesPipeStep,
     OpenNoticeStep, WriteNoticeStep, CloseNoticeStep, ChildUnlinksStep, ChildDiesStep
  DEF ChildStep
<1>3. CASE ThreadStep
  BY <1>3, ThreadOpensStep, ThreadReadsStep, AllocateStep, CreatePcbStep,
     ThreadOpensAnswerStep, ThreadWritesStep, ThreadClosesAnswerStep, ThreadClosesStep
  DEF ThreadStep
<1>4. CASE ListenerStep
  BY <1>4, ListenerSeesStep, ListenerOpensStep, ListenerReadsStep, ListenerRemovesStep,
     ListenerClosesStep DEF ListenerStep
<1>5. CASE UNCHANGED vars
  <2>1. UNCHANGED <<path, made, readers, writers, blocked, buffer, pc, registered, response,
                    child_read>>
    BY <1>5 DEF vars, pipe
  <2> QED
    BY <2>1 DEF IInv, TypeOK, PipeTypeOK, Places, Paths, Ends, Waits, Exchange, Buffers,
       Registered
<1> QED
  BY <1>1, <1>2, <1>3, <1>4, <1>5 DEF Next

\* The strengthening of what follows is an invariant of ipc_manager.cpp and ipc_manager.h.
THEOREM HandshakeInvariant == HandshakeAssumption /\ Spec => []IInv
<1> SUFFICES ASSUME HandshakeAssumption PROVE Spec => []IInv
  OBVIOUS
<1>1. Init => IInv
  BY HandshakeInit
<1>2. IInv /\ [Next]_vars => IInv'
  BY HandshakeStep
<1> QED
  BY <1>1, <1>2, PTL DEF Spec

\* ipc_manager.cpp: handle_ipc_request opens its writing end without waiting, and its
\* write never ends the system with a SIGPIPE.
THEOREM AnswersWithoutWaiting == HandshakeAssumption /\ Spec => []AnswerNeedsNoWait
<1> SUFFICES ASSUME HandshakeAssumption PROVE Spec => []AnswerNeedsNoWait
  OBVIOUS
<1>1. ASSUME IInv PROVE AnswerNeedsNoWait
  <2>1. "answer" \notin blocked /\ ~at("thread", "killed")
    BY <1>1 DEF IInv, Waits, Places
  <2>2. ASSUME at("thread", "write_answer") PROVE CanWrite("answer")
    <3>1. FileOf("answer") = made /\ made \in Fifo
      BY <1>1, <2>2, FileOfOpen
    <3>2. "thread" \in readers[made]
      BY <1>1, <2>2, <3>1 DEF IInv, Ends
    <3> QED
      BY <3>1, <3>2 DEF CanWrite
  <2> QED
    BY <2>1, <2>2 DEF AnswerNeedsNoWait
<1> QED
  BY <1>1, HandshakeInvariant, PTL

\* ipc_manager.cpp, ipc_manager.h: both directions use one FIFO, and no two messages
\* ever meet in it.
THEOREM NothingMixes == HandshakeAssumption /\ Spec => []MessagesNeverMix
<1> SUFFICES ASSUME HandshakeAssumption PROVE Spec => []MessagesNeverMix
  OBVIOUS
<1>1. ASSUME IInv PROVE MessagesNeverMix
  <2>1. child_read \in {<<>>, <<"GRANT">>, <<"DENY">>} /\ ~at("thread", "remove") /\ TypeOK
    BY <1>1 DEF IInv, Exchange, Places
  <2>2. ASSUME NEW f \in Fifo PROVE Len(buffer[f]) <= 1
    <3>1. CASE buffer[f] = <<>>
      BY <3>1
    <3>2. CASE buffer[f] # <<>>
      <4>1. f = made
        BY <1>1, <3>2 DEF IInv, Buffers
      <4>2. made > 0
        BY <4>1, <2>2 DEF HandshakeAssumption
      <4>3. buffer[f] \in {<<>>, <<"REQ">>, <<"GRANT">>, <<"DENY">>, <<"TERM">>}
        BY <1>1, <4>1, <4>2 DEF IInv, Buffers
      <4>4. /\ Len(<<>>) <= 1 /\ Len(<<"REQ">>) <= 1 /\ Len(<<"GRANT">>) <= 1
            /\ Len(<<"DENY">>) <= 1 /\ Len(<<"TERM">>) <= 1
        OBVIOUS
      <4> QED
        BY <4>3, <4>4, Zenon
    <3> QED
      BY <3>1, <3>2
  <2> QED
    BY <2>1, <2>2 DEF MessagesNeverMix
<1> QED
  BY <1>1, HandshakeInvariant, PTL

-----------------------------------------------------------------------------
(* The handshake implements GrantProtocol *)

task ==
    CASE pc["child"] \in {"open_notice", "write_notice", "close_notice", "unlink", "dead",
        "reaped"}
           -> "gone"
      [] at("child", "running") -> "running"
      [] OTHER -> "waiting"

LEMMA ProtocolStep ==
    ASSUME HandshakeAssumption, IInv, [Next]_vars
    PROVE  [Protocol!Next]_<<task, registered>>
<1> DEFINE gone == {"open_notice", "write_notice", "close_notice", "unlink", "dead", "reaped"}
<1>0. /\ DOMAIN pc = {"main", "child", "thread", "listener"}
      /\ registered \in {"never", "held", "released", "dropped"}
      /\ task = IF pc["child"] \in gone THEN "gone"
                ELSE IF pc["child"] = "running" THEN "running" ELSE "waiting"
      /\ task' = IF pc'["child"] \in gone THEN "gone"
                 ELSE IF pc'["child"] = "running" THEN "running" ELSE "waiting"
  BY DEF IInv, TypeOK, task
<1>p. /\ Protocol!Run <=> /\ task = "waiting" /\ registered \in {"held", "dropped"}
                          /\ task' = "running" /\ UNCHANGED registered
      /\ Protocol!Leave <=> task # "gone" /\ task' = "gone" /\ UNCHANGED registered
      /\ Protocol!Release <=> /\ task = "gone" /\ registered = "held"
                              /\ registered' = "released" /\ UNCHANGED task
  BY DEF Protocol!Run, Protocol!Leave, Protocol!Release, task
<1> HIDE DEF gone, task
<1>1. ASSUME pc'["child"] = pc["child"] \/ (pc["child"] \in gone /\ pc'["child"] \in gone),
             registered' = registered
      PROVE  UNCHANGED <<task, registered>>
  BY <1>0, <1>1 DEF gone
<1>2. ASSUME pc["child"] \in gone, pc'["child"] \in gone,
             registered' = IF registered = "held" THEN "released" ELSE registered
      PROVE  [Protocol!Release]_<<task, registered>>
  BY <1>0, <1>2, <1>p
<1>3. CASE MainStep
  <2>1. CASE RemoveDead
    BY <1>0, <1>2, <2>1 DEF RemoveDead, remove_pcb, go, gone, Protocol!Next
  <2>2. CASE CleanUp
    BY <1>0, <1>2, <2>2 DEF CleanUp, remove_pcb, go, gone, Protocol!Next
  <2>3. CASE Fork
    BY <1>0, <2>3 DEF Fork, gone, IInv, Paths
  <2>4. CASE UnlinkOld \/ MakePipe \/ CreateThread \/ Minimize \/ Resume
    BY <1>0, <1>1, <2>4 DEF UnlinkOld, MakePipe, CreateThread, Minimize, Resume, go
  <2> QED
    BY <1>3, <2>1, <2>2, <2>3, <2>4 DEF MainStep
<1>4. CASE ChildStep
  <2>1. registered' = registered
    BY <1>4 DEF ChildStep, ChildMakesPipe, OpenRequest, WriteRequest, CloseRequest, OpenAnswer,
       ReadAnswer, CloseAnswer, TerminationMakesPipe, OpenNotice, WriteNotice, CloseNotice,
       ChildUnlinks, ChildDies
  <2>2. ASSUME pc'["child"] \in gone PROVE [Protocol!Leave]_<<task, registered>>
    BY <1>0, <2>1, <2>2, <1>p
  <2>3. CASE ChildMakesPipe \/ OpenRequest \/ CloseRequest \/ ReadAnswer
    BY <1>0, <2>1, <2>3 DEF ChildMakesPipe, OpenRequest, CloseRequest, ReadAnswer, go, gone
  <2>4. CASE WriteRequest \/ OpenAnswer
    <3>1. pc["child"] \in {"write_request", "open_answer"}
          /\ pc'["child"] \in {"close_request", "read_answer", "dead"}
      BY <1>0, <2>4 DEF WriteRequest, OpenAnswer, go
    <3>2. CASE pc'["child"] = "dead"
      BY <2>2, <3>2 DEF gone, Protocol!Next
    <3>3. CASE pc'["child"] # "dead"
      BY <1>0, <2>1, <3>1, <3>3 DEF gone
    <3> QED
      BY <3>2, <3>3
  <2>5. CASE CloseAnswer
    <3>1. CASE \E i \in DOMAIN child_read : child_read[i] = "GRANT"
      <4>1. child_read = <<"GRANT">>
        <5>1. child_read \in {<<>>, <<"GRANT">>, <<"DENY">>}
          BY DEF IInv, Exchange
        <5>2. DOMAIN <<>> = {} /\ DOMAIN <<"DENY">> = {1}
          OBVIOUS
        <5> QED
          BY <3>1, <5>1, <5>2
      <4>2. pc["child"] = "close_answer" /\ pc'["child"] = "running"
        BY <1>0, <2>5, <3>1 DEF CloseAnswer, go
      <4>3. registered \in {"held", "dropped"}
        BY <1>0, <4>1, <4>2 DEF IInv, Registered
      <4>4. task = "waiting" /\ task' = "running"
        BY <1>0, <4>2 DEF gone
      <4> QED
        BY <2>1, <4>3, <4>4, <1>p DEF Protocol!Next
    <3>2. CASE ~\E i \in DOMAIN child_read : child_read[i] = "GRANT"
      <4>1. pc'["child"] = "dead"
        BY <1>0, <2>5, <3>2 DEF CloseAnswer, go
      <4> QED
        BY <2>2, <4>1 DEF gone, Protocol!Next
    <3> QED
      BY <3>1, <3>2
  <2>6. CASE TerminationMakesPipe \/ OpenNotice \/ WriteNotice \/ CloseNotice
      \/ ChildUnlinks \/ ChildDies
    <3>1. pc'["child"] \in gone
      BY <1>0, <2>6 DEF TerminationMakesPipe, OpenNotice, WriteNotice, CloseNotice,
         ChildUnlinks, ChildDies, go, gone
    <3> QED
      BY <2>2, <3>1 DEF Protocol!Next
  <2> QED
    BY <1>4, <2>3, <2>4, <2>5, <2>6 DEF ChildStep
<1>5. CASE ThreadStep
  <2>1. CASE CreatePcb
    <3>1. /\ registered = "never" /\ registered' \in {"held", "dropped"}
          /\ pc'["child"] = pc["child"]
      BY <1>0, <2>1 DEF CreatePcb, go, IInv, Registered
    <3> QED
      BY <1>0, <3>1 DEF Protocol!Next, Protocol!Register
  <2>2. CASE ThreadCloses
    <3>1. ~at("thread", "remove")
      BY DEF IInv, Places
    <3> QED
      BY <1>0, <1>1, <2>2, <3>1 DEF ThreadCloses, go
  <2>3. CASE ThreadOpens \/ ThreadReads \/ Allocate
    <3>1. pc'["child"] = pc["child"] /\ registered' = registered
      BY <1>0, <2>3 DEF ThreadOpens, ThreadReads, Allocate, go
    <3> QED
      BY <1>1, <3>1
  <2>4. CASE ThreadOpensAnswer \/ ThreadWrites \/ ThreadClosesAnswer
    BY <1>0, <1>1, <2>4 DEF ThreadOpensAnswer, ThreadWrites, ThreadClosesAnswer, go
  <2> QED
    BY <1>5, <2>1, <2>2, <2>3, <2>4 DEF ThreadStep
<1>6. CASE ListenerStep
  <2>1. CASE ListenerRemoves
    <3>1. pc["child"] \in gone /\ pc'["child"] = pc["child"]
      BY <1>0, <2>1 DEF ListenerRemoves, go, IInv, Registered, gone
    <3> QED
      BY <1>2, <2>1, <3>1 DEF ListenerRemoves, remove_pcb, Protocol!Next
  <2>2. CASE ListenerSees \/ ListenerOpens \/ ListenerReads \/ ListenerCloses
    BY <1>0, <1>1, <2>2 DEF ListenerSees, ListenerOpens, ListenerReads, ListenerCloses, go
  <2> QED
    BY <1>6, <2>1, <2>2 DEF ListenerStep
<1>7. CASE UNCHANGED vars
  BY <1>1, <1>7 DEF vars
<1> QED
  BY <1>3, <1>4, <1>5, <1>6, <1>7 DEF Next

\* ipc_manager.cpp, ipc_manager.h: whatever is lost on the way, a task runs only behind the
\* one create_pcb made for it, without a PCB only if the table had no room there, and its
\* PCB is not removed before it has begun to leave.
THEOREM ProtocolIsImplemented == HandshakeAssumption /\ Spec => ImplementsGrantProtocol
<1> SUFFICES ASSUME HandshakeAssumption PROVE Spec => ImplementsGrantProtocol
  OBVIOUS
<1>1. Init => Protocol!Init
  BY DEF Init, Protocol!Init
<1>2. IInv /\ [Next]_vars => [Protocol!Next]_<<task, registered>>
  BY ProtocolStep
<1>3. ImplementsGrantProtocol <=> Protocol!Init /\ [][Protocol!Next]_<<task, registered>>
  BY DEF ImplementsGrantProtocol, Protocol!Spec, task
<1> QED
  BY <1>1, <1>2, <1>3, HandshakeInvariant, PTL DEF Spec
=============================================================================
