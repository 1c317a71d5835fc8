----------------------------- MODULE VirtualHdd -----------------------------
(***************************************************************************)
(* The tools that work on nebula_hdd, each in a window of its own: they    *)
(* list the directory or check a name, wait for the user, and then act on  *)
(* names that may mean another file by then.  A name is the name a user    *)
(* types followed by the endings that copies and compressed files get; a   *)
(* text is a sequence of blocks, as copy_file reads it.                    *)
(***************************************************************************)
EXTENDS HddFiles

CONSTANTS
    Window,
    Typed,          \* the names a user types
    Block,          \* what a file may hold at first
    MaxBlocks,      \* of a file at first
    MaxEndings,     \* of a name
    MaxCommands     \* bounds the tools started and the terminal's commands

\* The disk is never full: a tool makes one file or folder at most, and so does a command.
ASSUME HddAssumption ==
    /\ IsFiniteSet(Name) /\ IsFiniteSet(Window) /\ IsFiniteSet(Inode)
    /\ Root \in Inode /\ Nil \notin Inode
    /\ Typed \subseteq Name /\ \E n, m \in Typed : n # m
    /\ \A n \in Name : Len(n) <= MaxEndings => {Append(n, "_copy"), Append(n, ".neb")} \subseteq Name
    /\ MaxCommands \in Nat /\ Cardinality(Inode) >= MaxCommands + 4

VARIABLES
    disk,
    win,            \* what each window has reached
    commands,
    undisturbed,    \* the windows whose files nobody wrote but to make the same copy, undisturbed
    overtaken       \* the windows whose check another one's step has made stale

vars == <<disk, win, commands, undisturbed, overtaken>>

Closed == [tool |-> "none", pc |-> "closed", files |-> {}, name |-> Nil, target |-> Nil,
           src |-> Nil, dst |-> Nil, at |-> 0, buffer |-> Nil]

name_copy(n) == Append(n, "_copy")
name_neb(n) == Append(n, ".neb")

\* What file_compression writes of the first 1024 bytes it reads, behind its header.
Compressed(text) ==
    <<"[NEBULA_COMPRESSED]">> \o (IF text = <<>> THEN <<>> ELSE <<"half">>)

Opened(windows) == {windows[w].src : w \in Window} \union {windows[w].dst : w \in Window}

\* Window w goes on as next, and the disk is what its system call made of it.
Becomes(w, next, disk1) ==
    /\ win' = [win EXCEPT ![w] = next]
    /\ disk' = Collected(disk1, Opened(win') \ {Nil})
    /\ overtaken' = IF disk1 = disk THEN overtaken \ {w} ELSE (overtaken \union Window) \ {w}

Exits(w, disk1) == Becomes(w, Closed, disk1)

\* w writes i: that disturbs who reads i, and who makes a copy there, unless w makes the
\* same copy and is undisturbed itself.
Disturbs(w, i) ==
    undisturbed' = {v \in undisturbed : v # w /\ i # Nil =>
        /\ win[v].src # i
        /\ win[v].dst = i =>
              w \in undisturbed /\ win[w].tool = win[v].tool /\ win[w].src = win[v].src}

Quietly == UNCHANGED undisturbed

-----------------------------------------------------------------------------

\* The menu starts a tool; all but two list the directory first.
Start(w, tool) ==
    /\ win[w].pc = "closed"
    /\ commands < MaxCommands
    /\ tool \notin {"create_file", "mini_terminal"} => Listed(disk) # {}
    /\ Becomes(w, [Closed EXCEPT !.tool = tool, !.pc = "ask", !.files = Listed(disk)], disk)
    /\ commands' = commands + 1
    /\ Quietly

Asks(w, tool) == win[w].pc = "ask" /\ win[w].tool = tool /\ UNCHANGED commands

\* Mutant: the name is not looked up.
create_file_unchecked(w, n) ==
    /\ Asks(w, "create_file")
    /\ Becomes(w, [win[w] EXCEPT !.pc = "create", !.name = n], disk)
    /\ Quietly

\* create_file: a name that stat does not find.
create_file(w, n) ==
    /\ Asks(w, "create_file")
    /\ IF At(disk, n) # Nil THEN Exits(w, disk)
       ELSE Becomes(w, [win[w] EXCEPT !.pc = "create", !.name = n], disk)
    /\ Quietly

CreatesIt(w) ==
    /\ win[w].pc = "create"
    /\ Disturbs(w, At(disk, win[w].name))
    /\ Exits(w, truncate(disk, win[w].name))
    /\ UNCHANGED commands

\* rename_file: a file of the list and a new name that stat does not find.
rename_file(w, old, new) ==
    /\ Asks(w, "rename_file") /\ old \in win[w].files
    /\ IF At(disk, new) # Nil THEN Exits(w, disk)
       ELSE Becomes(w, [win[w] EXCEPT !.pc = "rename", !.name = old, !.target = new], disk)
    /\ Quietly

RenamesIt(w) ==
    /\ win[w].pc = "rename"
    /\ Exits(w, rename(disk, win[w].name, Root, win[w].target))
    /\ Quietly /\ UNCHANGED commands

\* delete_file: a file of the list, confirmed or not.
delete_file(w, n) ==
    /\ Asks(w, "delete_file") /\ n \in win[w].files
    /\ Exits(w, remove(disk, n)) \/ Exits(w, disk)
    /\ Quietly

\* move_file: the folder is made unless something has its name.
move_file(w, n, folder) ==
    /\ Asks(w, "move_file") /\ n \in win[w].files
    /\ Becomes(w, [win[w] EXCEPT !.pc = "move", !.name = n, !.target = folder],
               mkdir(disk, folder))
    /\ Quietly

MovesIt(w) ==
    /\ win[w].pc = "move"
    /\ Exits(w, rename(disk, win[w].name, At(disk, win[w].target), win[w].name))
    /\ Quietly /\ UNCHANGED commands

\* file_info, print_file, text_search: they look, and change nothing.
Reads(w) ==
    /\ Asks(w, "reader")
    /\ Exits(w, disk)
    /\ Quietly

-----------------------------------------------------------------------------
(* copy_file and file_compression: both files are opened before either is  *)
(* looked at, so that the copy is made, or emptied, without a source too.  *)

Target(tool, n) == IF tool = "copy_file" THEN name_copy(n) ELSE name_neb(n)

OpensSource(w, tool, n) ==
    /\ tool \in {"copy_file", "file_compression"}
    /\ Asks(w, tool) /\ n \in win[w].files /\ Len(n) <= MaxEndings
    /\ Becomes(w, [win[w] EXCEPT !.pc = "open", !.src = At(disk, n),
                                 !.target = Target(tool, n)], disk)
    /\ undisturbed' = undisturbed \union {w}

OpensTarget(w) ==
    /\ win[w].pc = "open"
    /\ Disturbs(w, At(disk, win[w].target))
    /\ LET disk1 == truncate(disk, win[w].target)
       IN  IF win[w].src # Nil /\ OpensForWriting(disk, win[w].target)
           THEN Becomes(w, [win[w] EXCEPT !.pc = "read", !.dst = At(disk1, win[w].target)], disk1)
           ELSE Exits(w, disk1)
    /\ UNCHANGED commands

\* Mutant: a block that is not full ends the loop before it is written.
ReadsBlock_short(w) ==
    /\ win[w].pc = "read" /\ win[w].tool = "copy_file"
    /\ LET text == Contents(disk, win[w].src)
           next == win[w].at + 1
       IN  Becomes(w, IF next < Len(text)
                      THEN [win[w] EXCEPT !.pc = "write", !.at = next, !.buffer = text[next]]
                      ELSE [win[w] EXCEPT !.pc = "close"], disk)
    /\ Quietly /\ UNCHANGED commands

\* fread comes to the next block, or to the end, where the loop ends.  A last block that
\* is not full has shown fread the end, and fwrite keeps it until fclose.
ReadsBlock(w) ==
    /\ win[w].pc = "read" /\ win[w].tool = "copy_file"
    /\ LET text == Contents(disk, win[w].src)
           next == win[w].at + 1
           Holds(pc) == [win[w] EXCEPT !.pc = pc, !.at = next, !.buffer = text[next]]
       IN  \/ next <= Len(text) /\ Becomes(w, Holds("write"), disk)
           \/ next = Len(text) /\ Becomes(w, Holds("flush"), disk)
           \/ next > Len(text) /\ Becomes(w, [win[w] EXCEPT !.pc = "close"], disk)
    /\ Quietly /\ UNCHANGED commands

WritesBlock(w) ==
    /\ win[w].pc \in {"write", "flush"}
    /\ Disturbs(w, win[w].dst)
    /\ Becomes(w, [win[w] EXCEPT !.pc = IF @ = "write" THEN "read" ELSE "close"],
               write(disk, win[w].dst, win[w].at, win[w].buffer))
    /\ UNCHANGED commands

\* file_compression writes once, when it closes the file.
CompressesIt(w) ==
    /\ win[w].pc = "read" /\ win[w].tool = "file_compression"
    /\ Disturbs(w, win[w].dst)
    /\ Becomes(w, [win[w] EXCEPT !.pc = "close"],
               LET text == Compressed(Contents(disk, win[w].src))
                   first == write(disk, win[w].dst, 1, text[1])
               IN  IF Len(text) = 1 THEN first ELSE write(first, win[w].dst, 2, text[2]))
    /\ UNCHANGED commands

ClosesBoth(w) ==
    /\ win[w].pc = "close"
    /\ Exits(w, disk)
    /\ Quietly /\ UNCHANGED commands

-----------------------------------------------------------------------------
(* mini_terminal: ls and cat read, mkdir and echo > change the directory.   *)

Commands(w) ==
    /\ win[w].pc = "ask" /\ win[w].tool = "mini_terminal"
    /\ commands < MaxCommands /\ commands' = commands + 1

cmd_mkdir(w, n) ==
    /\ Commands(w)
    /\ Becomes(w, win[w], mkdir(disk, n))
    /\ Quietly

cmd_echo(w, n) ==
    /\ Commands(w)
    /\ Disturbs(w, At(disk, n))
    /\ LET disk1 == truncate(disk, n)
       IN  Becomes(w, IF OpensForWriting(disk, n)
                      THEN [win[w] EXCEPT !.pc = "echo", !.dst = At(disk1, n)]
                      ELSE win[w], disk1)

EchoCloses(w) ==
    /\ win[w].pc = "echo"
    /\ Disturbs(w, win[w].dst)
    /\ Becomes(w, [win[w] EXCEPT !.pc = "ask", !.dst = Nil],
               write(disk, win[w].dst, 1, "echoed"))
    /\ UNCHANGED commands

\* exit, or the end of the input.
LeavesTerminal(w) ==
    /\ Asks(w, "mini_terminal")
    /\ Exits(w, disk)
    /\ Quietly

\* Ctrl+C, or the end of the input in a dialogue.
Dies(w) ==
    /\ win[w].pc # "closed"
    /\ Exits(w, disk)
    /\ undisturbed' = {v \in undisturbed : win[w].dst = Nil \/ win[v].dst # win[w].dst}
    /\ UNCHANGED commands

-----------------------------------------------------------------------------

\* init_storage makes the directory if there is none; former sessions have left the rest.
init_storage(found) == IF found = Nil THEN [i \in Inode |-> IF i = Root THEN EmptyDir ELSE Free]
                       ELSE found

\* A disk with one file in the directory, and perhaps one of the same name in a folder.
FormerDisk(text, other) ==
    LET nothing == init_storage(Nil)
        file == CHOOSE n \in Typed : TRUE
        folder == CHOOSE n \in Typed : n # file
        one == Made(nothing, file, File(text))
        two == Made(one, folder, EmptyDir)
    IN  IF other = Nil THEN one
        ELSE [Linked(two, At(two, folder), file, NewInode(two)) EXCEPT
                 ![NewInode(two)] = File(other)]

FormerDisks ==
    {Nil} \union {FormerDisk(text, other) :
        text \in BoundedSeq(Block, MaxBlocks), other \in {Nil} \union BoundedSeq(Block, 1)}

Init ==
    /\ \E found \in FormerDisks : disk = init_storage(found)
    /\ win = [w \in Window |-> Closed]
    /\ commands = 0 /\ undisturbed = {} /\ overtaken = {}

Tool == {"create_file", "rename_file", "delete_file", "move_file", "copy_file",
         "file_compression", "reader", "mini_terminal"}

Dialogue(w) ==
    \/ \E tool \in Tool : Start(w, tool)
    \/ \E n \in Typed : create_file(w, n)
    \/ \E old \in win[w].files, new \in Typed : rename_file(w, old, new) \/ move_file(w, old, new)
    \/ \E n \in win[w].files : delete_file(w, n) \/ \E tool \in Tool : OpensSource(w, tool, n)
    \/ Reads(w)
    \/ \E n \in Typed : cmd_mkdir(w, n) \/ cmd_echo(w, n)
    \/ LeavesTerminal(w)
    \/ Dies(w)

Acts(w) ==
    \/ CreatesIt(w) \/ RenamesIt(w) \/ MovesIt(w)
    \/ OpensTarget(w) \/ ReadsBlock(w) \/ WritesBlock(w) \/ CompressesIt(w) \/ ClosesBoth(w)
    \/ EchoCloses(w)

Next == \E w \in Window : Dialogue(w) \/ Acts(w)

Spec == Init /\ [][Next]_vars

-----------------------------------------------------------------------------

Datum == Block \union {"hole", "echoed", "half", "[NEBULA_COMPRESSED]"}
Texts == Seq(Datum)

\* Every name leads to something, nothing has two names, and who is open exists.
TypeOK ==
    /\ \A i \in Inode :
        \/ disk[i] = Free /\ i # Root
        \/ disk[i].kind = "file" /\ disk[i].text \in Texts
        \/ disk[i].kind = "dir" /\ disk[i].entry \in [Name -> Inode \union {Nil}]
    /\ Cardinality(Links(disk)) = Cardinality(Named(disk))
    /\ \A i \in (Named(disk) \union Opened(win)) \ {Nil} : disk[i] # Free

\* Who has copied a file has a copy of it, although the source may have been renamed,
\* moved or deleted meanwhile and others may have made the same copy at the same time:
\* a copy they empty they fill again.  Only the last to write can tell.
CopiesAgree ==
    /\ TypeOK
    /\ \A w \in undisturbed :
        /\ win[w].pc = "close" /\ win[w].tool = "copy_file"
        /\ \A v \in Window \ {w} : win[v].dst # win[w].dst
        => Contents(disk, win[w].dst) = Contents(disk, win[w].src)

\* The files whose data w's next step may destroy: on a confirmed deletion any of the list,
\* the target of a copy, a compression or an echo, also where its name is derived from that
\* of a source which is gone, what a move replaces in its folder, and what others have put
\* under a name since w has found it free.
MayDestroy(w) ==
    CASE win[w].pc = "ask" /\ win[w].tool = "delete_file" ->
            {At(disk, n) : n \in win[w].files}
      [] win[w].pc = "ask" /\ win[w].tool = "mini_terminal" -> {At(disk, n) : n \in Typed}
      [] win[w].pc = "open" -> {At(disk, win[w].target)}
      [] win[w].pc \in {"read", "write", "flush", "echo"} -> {win[w].dst}
      [] win[w].pc = "move" -> {Lookup(disk, At(disk, win[w].target), win[w].name)}
      [] win[w].pc = "create" /\ w \in overtaken -> {At(disk, win[w].name)}
      [] win[w].pc = "rename" /\ w \in overtaken -> {At(disk, win[w].target)}
      [] OTHER -> {}

\* No tool destroys data but where MayDestroy says, whatever the windows do at the same
\* time: create_file and rename_file never do on a check that still holds, what is
\* only read loses nothing, and what is in a folder stays, even if the folder is moved,
\* renamed or to be deleted.  Writes do not fail: the disk is never full.
KeepsData ==
    [][\A i \in {f \in Named(disk) : Contents(disk, f) # <<>>} :
          ~(i \in Named(disk') /\ IsPrefix(Contents(disk, i), Contents(disk', i)))
              => \E w \in Window : win'[w] # win[w] /\ i \in MayDestroy(w)]_vars

\* "Error: New name already exists." (rename_file.cpp:56): renaming a file replaces none.
RenameReplacesNone ==
    [][\A w \in Window : win[w].pc = "rename" /\ win'[w].pc = "closed" =>
          Named(disk) \subseteq Named(disk')]_vars
=============================================================================
