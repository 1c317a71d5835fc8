------------------------------ MODULE HddFiles ------------------------------
(***************************************************************************)
(* The directory nebula_hdd as the system calls of the file tools see it:  *)
(* names in directories, and inodes that live on without a name as long as *)
(* somebody has them open.  A disk is a function from inodes to what they  *)
(* hold; each operator returns the disk after a call, and the same disk if *)
(* the call fails.                                                         *)
(***************************************************************************)
EXTENDS Integers, SequencesExt, FiniteSets

CONSTANTS Name, Inode, Root, Nil

Free == [kind |-> "free"]
File(text) == [kind |-> "file", text |-> text]
EmptyDir == [kind |-> "dir", entry |-> [n \in Name |-> Nil]]

IsDir(disk, i) == i # Nil /\ disk[i].kind = "dir"
IsFile(disk, i) == i # Nil /\ disk[i].kind = "file"

\* The inode a name leads to, and what stat, readdir and fopen find in nebula_hdd.
Lookup(disk, dir, n) == IF IsDir(disk, dir) THEN disk[dir].entry[n] ELSE Nil
At(disk, n) == Lookup(disk, Root, n)
Listed(disk) == {n \in Name : At(disk, n) # Nil}

Links(disk) == {link \in Inode \X Name : Lookup(disk, link[1], link[2]) # Nil}
Named(disk) == {Lookup(disk, link[1], link[2]) : link \in Links(disk)}
IsEmpty(disk, dir) == \A n \in Name : disk[dir].entry[n] = Nil

Contents(disk, i) == IF IsFile(disk, i) THEN disk[i].text ELSE <<>>

\* What has no name and is not open gives its inode back.
Collected(disk, opened) ==
    LET kept == {Root} \union opened \union Named(disk)
    IN  [i \in Inode |-> IF i \in kept THEN disk[i] ELSE Free]

NewInode(disk) == CHOOSE i \in Inode : disk[i] = Free

Linked(disk, dir, n, i) == [disk EXCEPT ![dir].entry[n] = i]
Made(disk, n, what) == [Linked(disk, Root, n, NewInode(disk)) EXCEPT ![NewInode(disk)] = what]

mkdir(disk, n) == IF At(disk, n) = Nil THEN Made(disk, n, EmptyDir) ELSE disk

\* fopen(n, "w"): the file is made or emptied; a directory cannot be opened for writing.
OpensForWriting(disk, n) == ~IsDir(disk, At(disk, n))
truncate(disk, n) ==
    IF At(disk, n) = Nil THEN Made(disk, n, File(<<>>))
    ELSE IF OpensForWriting(disk, n) THEN [disk EXCEPT ![At(disk, n)] = File(<<>>)]
    ELSE disk

\* A write at a position behind the end, where somebody emptied the file, leaves a hole.
write(disk, i, at, block) ==
    LET text == disk[i].text
        size == IF Len(text) > at THEN Len(text) ELSE at
    IN  [disk EXCEPT ![i].text = [k \in 1..size |-> IF k = at THEN block
                                     ELSE IF k <= Len(text) THEN text[k] ELSE "hole"]]

\* rename(nebula_hdd/n, dir/m): a file replaces a file, a directory an empty one.
Renames(disk, n, dir, m) ==
    LET old == At(disk, n)
        new == Lookup(disk, dir, m)
    IN  /\ old # Nil
        /\ IsDir(disk, dir) /\ dir # old
        /\ \/ new = Nil
           \/ IsFile(disk, old) /\ IsFile(disk, new)
           \/ IsDir(disk, old) /\ IsDir(disk, new) /\ IsEmpty(disk, new)
rename(disk, n, dir, m) ==
    IF Renames(disk, n, dir, m) /\ At(disk, n) # Lookup(disk, dir, m)
    THEN Linked(Linked(disk, dir, m, At(disk, n)), Root, n, Nil)
    ELSE disk

remove(disk, n) ==
    IF IsFile(disk, At(disk, n)) \/ (IsDir(disk, At(disk, n)) /\ IsEmpty(disk, At(disk, n)))
    THEN Linked(disk, Root, n, Nil) ELSE disk
=============================================================================
