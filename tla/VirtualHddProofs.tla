-------------------------- MODULE VirtualHddProofs --------------------------
(***************************************************************************)
(* What the file tools promise of nebula_hdd, proved for every number of   *)
(* windows, names and commands: the directories stay a tree of names, a    *)
(* copy that nobody disturbed is a copy, and no tool destroys what its     *)
(* user did not name.                                                      *)
(***************************************************************************)
EXTENDS VirtualHdd, FiniteSetTheorems, TLAPS

-----------------------------------------------------------------------------
(* What each call makes of a disk *)

Thing == {Free} \union [kind : {"file"}, text : Texts]
                \union [kind : {"dir"}, entry : [Name -> Inode \union {Nil}]]

Disks == [Inode -> Thing]

IsNamed(d, x) == \E j \in Inode, m \in Name : Lookup(d, j, m) = x

\* What has a name has one, and exists; the directory itself has none; and a folder
\* that has lost its name was empty.
Tree(d) ==
    /\ d \in Disks
    /\ d[Root].kind = "dir"
    /\ \A i \in Inode, n \in Name : Lookup(d, i, n) # Nil =>
          Lookup(d, i, n) # Root /\ d[Lookup(d, i, n)].kind # "free"
    /\ \A i, j \in Inode, n, m \in Name :
          Lookup(d, i, n) # Nil /\ Lookup(d, i, n) = Lookup(d, j, m) => i = j /\ n = m
    /\ \A i \in Inode, n \in Name : Lookup(d, i, n) # Nil => i = Root \/ IsNamed(d, i)

LEMMA ThingKinds ==
    ASSUME NEW t \in Thing
    PROVE  /\ t.kind \in {"free", "file", "dir"}
           /\ t.kind = "free" <=> t = Free
           /\ t.kind = "file" => t.text \in Texts /\ t = File(t.text)
           /\ t.kind = "dir" => t.entry \in [Name -> Inode \union {Nil}]
                                /\ t = [kind |-> "dir", entry |-> t.entry]
  BY DEF Thing, Free, File

LEMMA LookupType ==
    ASSUME NEW d \in Disks, NEW i \in Inode \union {Nil}, NEW n \in Name
    PROVE  /\ Lookup(d, i, n) \in Inode \union {Nil}
           /\ Lookup(d, i, n) # Nil => i \in Inode /\ d[i].kind = "dir"
<1>1. CASE IsDir(d, i)
  <2>1. i \in Inode /\ d[i] \in Thing /\ d[i].kind = "dir"
    BY <1>1 DEF IsDir, Disks
  <2>2. d[i].entry \in [Name -> Inode \union {Nil}]
    BY <2>1, ThingKinds
  <2> QED
    BY <1>1, <2>1, <2>2 DEF Lookup
<1>2. CASE ~IsDir(d, i)
  BY <1>2 DEF Lookup
<1> QED
  BY <1>1, <1>2

\* Linked changes one name.
LEMMA LinkedLooks ==
    ASSUME NEW d \in Disks, NEW dir \in Inode, d[dir].kind = "dir", NEW n \in Name,
           NEW x \in Inode \union {Nil}
    PROVE  /\ Linked(d, dir, n, x) \in Disks
           /\ \A i \in Inode : Linked(d, dir, n, x)[i].kind = d[i].kind
           /\ \A i \in Inode : Contents(Linked(d, dir, n, x), i) = Contents(d, i)
           /\ \A i \in Inode, m \in Name :
                 Lookup(Linked(d, dir, n, x), i, m)
                   = IF i = dir /\ m = n THEN x ELSE Lookup(d, i, m)
<1> DEFINE e == Linked(d, dir, n, x)
           old == d[dir].entry
           new == [kind |-> "dir", entry |-> [old EXCEPT ![n] = x]]
<1>1. old \in [Name -> Inode \union {Nil}] /\ d[dir] = [kind |-> "dir", entry |-> old]
  BY ThingKinds DEF Disks
<1>2. new \in Thing
  BY <1>1 DEF Thing
<1>3. e = [d EXCEPT ![dir] = new]
  <2>1. e = [d EXCEPT ![dir] = [d[dir] EXCEPT !.entry = [d[dir].entry EXCEPT ![n] = x]]]
    BY DEF Linked
  <2>2. [d[dir] EXCEPT !.entry = [d[dir].entry EXCEPT ![n] = x]] = new
    BY <1>1
  <2> QED
    BY <2>1, <2>2
<1>4. new.kind = "dir" /\ \A m \in Name : new.entry[m] = IF m = n THEN x ELSE old[m]
  BY <1>1
<1> HIDE DEF e, old, new
<1>5. e \in Disks /\ e[dir] = new /\ \A i \in Inode : i # dir => e[i] = d[i]
  BY <1>2, <1>3 DEF Disks
<1>6. \A i \in Inode : e[i].kind = d[i].kind
  BY <1>4, <1>5
<1>7. \A i \in Inode : Contents(e, i) = Contents(d, i)
  BY <1>4, <1>5 DEF Contents, IsFile
<1>8. dir # Nil
  BY HddAssumption
<1>9. ASSUME NEW i \in Inode, NEW m \in Name
      PROVE  Lookup(e, i, m) = IF i = dir /\ m = n THEN x ELSE Lookup(d, i, m)
  <2>1. CASE i = dir
    BY <1>4, <1>5, <1>8, <2>1 DEF Lookup, IsDir, old
  <2>2. CASE i # dir
    BY <1>5, <2>2 DEF Lookup, IsDir
  <2> QED
    BY <2>1, <2>2
<1> QED
  BY <1>5, <1>6, <1>7, <1>9 DEF e

\* A new text changes no name.
Filled(d, i, text) == [d EXCEPT ![i] = File(text)]

LEMMA FilledLooks ==
    ASSUME NEW d \in Disks, NEW i \in Inode, d[i].kind # "dir", NEW text \in Texts,
           NEW e, e = Filled(d, i, text)
    PROVE  /\ e \in Disks /\ e[i].kind = "file" /\ Contents(e, i) = text
           /\ \A j \in Inode : j # i => e[j] = d[j] /\ Contents(e, j) = Contents(d, j)
           /\ \A j \in Inode, m \in Name : Lookup(e, j, m) = Lookup(d, j, m)
<1>1. e \in Disks /\ e[i] = File(text) /\ \A j \in Inode : j # i => e[j] = d[j]
  BY DEF Filled, Disks, Thing, File
<1>2. e[i].kind = "file" /\ e[i].text = text
  BY <1>1 DEF File
<1>3. Contents(e, i) = text
  BY <1>2, HddAssumption DEF Contents, IsFile
<1>4. \A j \in Inode : j # i => Contents(e, j) = Contents(d, j)
  BY <1>1 DEF Contents, IsFile
<1>5. \A j \in Inode, m \in Name : Lookup(e, j, m) = Lookup(d, j, m)
  BY <1>1, <1>2 DEF Lookup, IsDir
<1> QED
  BY <1>1, <1>2, <1>3, <1>4, <1>5

\* A tree is one by its names and by what exists.
LEMMA SameTree ==
    ASSUME NEW d, Tree(d), NEW e \in Disks,
           \A i \in Inode, n \in Name : Lookup(e, i, n) = Lookup(d, i, n),
           e[Root].kind = "dir",
           \A i \in Inode : IsNamed(d, i) => e[i].kind # "free"
    PROVE  Tree(e)
<1>1. ASSUME NEW i \in Inode, NEW n \in Name, Lookup(e, i, n) # Nil
      PROVE  /\ Lookup(e, i, n) # Root /\ e[Lookup(e, i, n)].kind # "free"
             /\ i = Root \/ IsNamed(e, i)
  <2>1. /\ Lookup(d, i, n) # Root /\ Lookup(e, i, n) = Lookup(d, i, n)
        /\ i = Root \/ IsNamed(d, i)
    BY <1>1 DEF Tree
  <2>2. Lookup(e, i, n) \in Inode
    BY <1>1, LookupType
  <2>3. IsNamed(d, Lookup(e, i, n))
    BY <2>1 DEF IsNamed
  <2>4. IsNamed(d, i) => IsNamed(e, i)
    BY DEF IsNamed
  <2> QED
    BY <2>1, <2>2, <2>3, <2>4
<1>2. \A i, j \in Inode, n, m \in Name :
         Lookup(e, i, n) # Nil /\ Lookup(e, i, n) = Lookup(e, j, m) => i = j /\ n = m
  BY DEF Tree
<1> QED
  BY <1>1, <1>2 DEF Tree

Used(d) == {i \in Inode : d[i].kind # "free"}

\* A call leaves what exists of its kind, and makes one thing at most.
Follows(d, e) ==
    /\ Tree(e)
    /\ \A i \in Inode : d[i].kind # "free" => e[i].kind = d[i].kind
    /\ \E x \in Inode : \A i \in Inode : e[i].kind # "free" => d[i].kind # "free" \/ i = x

HasRoom(d) == \E i \in Inode : d[i] = Free

\* What is made, in the directory or in a folder, gets a name of its own.
MadeIn(d, dir, n, what) == [Linked(d, dir, n, NewInode(d)) EXCEPT ![NewInode(d)] = what]

LEMMA MadeInAdds ==
    ASSUME NEW d, Tree(d), HasRoom(d), NEW dir \in Inode, d[dir].kind = "dir",
           dir = Root \/ IsNamed(d, dir), NEW n \in Name, Lookup(d, dir, n) = Nil,
           NEW what \in {EmptyDir} \union {File(text) : text \in Texts}
    PROVE  /\ Follows(d, MadeIn(d, dir, n, what))
           /\ d[NewInode(d)].kind = "free" /\ NewInode(d) \in Inode
           /\ MadeIn(d, dir, n, what)[NewInode(d)] = what
           /\ \A i \in Inode : i # NewInode(d) =>
                 Contents(MadeIn(d, dir, n, what), i) = Contents(d, i)
           /\ \A i \in Inode, m \in Name :
                 Lookup(MadeIn(d, dir, n, what), i, m)
                   = IF i = dir /\ m = n THEN NewInode(d) ELSE Lookup(d, i, m)
<1> DEFINE new == NewInode(d)
           l == Linked(d, dir, n, new)
           e == MadeIn(d, dir, n, what)
<1>1. new \in Inode /\ d[new] = Free
  BY DEF NewInode, HasRoom
<1>2. d \in Disks /\ d[Root].kind = "dir" /\ Root \in Inode /\ Nil \notin Inode
  BY HddAssumption DEF Tree
<1>3. d[new].kind = "free" /\ new # Root /\ new # Nil /\ new # dir
  BY <1>1, <1>2 DEF Free
<1>4. e = [l EXCEPT ![new] = what]
  BY DEF MadeIn
<1> HIDE DEF new, e
<1>5. /\ l \in Disks
      /\ \A i \in Inode : l[i].kind = d[i].kind
      /\ \A i \in Inode : Contents(l, i) = Contents(d, i)
      /\ \A i \in Inode, m \in Name :
            Lookup(l, i, m) = IF i = dir /\ m = n THEN new ELSE Lookup(d, i, m)
  BY <1>1, <1>2, LinkedLooks
<1> HIDE DEF l
<1>6. what \in Thing /\ what.kind # "free"
  <2>1. EmptyDir \in Thing /\ EmptyDir.kind # "free"
    BY DEF Thing, EmptyDir
  <2>2. \A text \in Texts : File(text) \in Thing /\ File(text).kind = "file"
    BY DEF Thing, File
  <2> QED
    BY <2>1, <2>2
<1>7. /\ e \in Disks /\ e[new] = what /\ \A i \in Inode : i # new => e[i] = l[i]
  BY <1>1, <1>4, <1>5, <1>6 DEF Disks
<1>8. \A i \in Inode : i # new => Contents(e, i) = Contents(d, i)
  BY <1>5, <1>7 DEF Contents, IsFile
<1>9. \A i \in Inode, m \in Name :
         Lookup(e, i, m) = IF i = dir /\ m = n THEN new ELSE Lookup(d, i, m)
  <2>1. \A m \in Name : Lookup(e, new, m) = Nil /\ Lookup(d, new, m) = Nil
    BY <1>3, <1>7 DEF Lookup, IsDir, EmptyDir, File
  <2>2. \A i \in Inode, m \in Name : i # new => Lookup(e, i, m) = Lookup(l, i, m)
    BY <1>7 DEF Lookup, IsDir
  <2> QED
    BY <1>3, <1>5, <2>1, <2>2
<1>10. \A i \in Inode : i # new => e[i].kind = d[i].kind
  BY <1>5, <1>7
<1>11. \A i \in Inode, m \in Name : Lookup(d, i, m) # new
  BY <1>3 DEF Tree
<1>12. Lookup(d, dir, n) = Nil
  OBVIOUS
<1>13. Tree(e)
  <2>1. ASSUME NEW i \in Inode, NEW m \in Name, Lookup(e, i, m) # Nil
        PROVE  /\ Lookup(e, i, m) # Root /\ e[Lookup(e, i, m)].kind # "free"
               /\ i = Root \/ IsNamed(e, i)
    <3>1. CASE i = dir /\ m = n
      <4>1. IsNamed(d, dir) => IsNamed(e, dir)
        BY <1>2, <1>9, <1>12 DEF IsNamed
      <4> QED
        BY <1>3, <1>6, <1>7, <1>9, <3>1, <4>1
    <3>2. CASE ~(i = dir /\ m = n)
      <4>1. /\ Lookup(e, i, m) = Lookup(d, i, m) /\ Lookup(d, i, m) # Root
            /\ d[Lookup(d, i, m)].kind # "free" /\ (i = Root \/ IsNamed(d, i))
        BY <1>9, <2>1, <3>2 DEF Tree
      <4>2. Lookup(d, i, m) \in Inode
        BY <1>2, <2>1, <4>1, LookupType
      <4>3. e[Lookup(e, i, m)].kind # "free"
        BY <1>3, <1>10, <4>1, <4>2
      <4>4. IsNamed(d, i) => IsNamed(e, i)
        BY <1>2, <1>9, <1>12 DEF IsNamed
      <4> QED
        BY <4>1, <4>3, <4>4
    <3> QED
      BY <3>1, <3>2
  <2>2. ASSUME NEW i \in Inode, NEW j \in Inode, NEW m \in Name, NEW k \in Name,
               Lookup(e, i, m) # Nil, Lookup(e, i, m) = Lookup(e, j, k)
        PROVE  i = j /\ m = k
    BY <1>9, <1>11, <2>2 DEF Tree
  <2>3. e[Root].kind = "dir"
    BY <1>2, <1>3, <1>10
  <2> QED
    BY <1>7, <2>1, <2>2, <2>3 DEF Tree
<1>14. Follows(d, e)
  <2>1. \A i \in Inode : d[i].kind # "free" => e[i].kind = d[i].kind
    BY <1>3, <1>10
  <2>2. \A i \in Inode : e[i].kind # "free" => d[i].kind # "free" \/ i = new
    BY <1>10
  <2> QED
    BY <1>1, <1>13, <2>1, <2>2 DEF Follows
<1> QED
  BY <1>1, <1>3, <1>7, <1>8, <1>9, <1>14 DEF e, new

LEMMA MadeAdds ==
    ASSUME NEW d, Tree(d), HasRoom(d), NEW n \in Name, At(d, n) = Nil,
           NEW what \in {EmptyDir, File(<<>>)}
    PROVE  /\ Follows(d, Made(d, n, what))
           /\ d[NewInode(d)].kind = "free" /\ NewInode(d) \in Inode
           /\ Made(d, n, what)[NewInode(d)] = what
           /\ \A i \in Inode : Contents(Made(d, n, what), i) = Contents(d, i)
           /\ \A i \in Inode, m \in Name :
                 Lookup(Made(d, n, what), i, m)
                   = IF i = Root /\ m = n THEN NewInode(d) ELSE Lookup(d, i, m)
<1>1. Root \in Inode /\ d[Root].kind = "dir" /\ Lookup(d, Root, n) = Nil
  BY HddAssumption DEF Tree, At
<1>2. what \in {EmptyDir} \union {File(text) : text \in Texts}
  <2>1. <<>> \in Texts
    BY DEF Texts
  <2> QED
    BY <2>1
<1>3. Made(d, n, what) = MadeIn(d, Root, n, what)
  BY DEF Made, MadeIn
<1> DEFINE new == NewInode(d)
           e == Made(d, n, what)
<1>4. /\ Follows(d, e) /\ d[new].kind = "free" /\ new \in Inode /\ e[new] = what
      /\ \A i \in Inode : i # new => Contents(e, i) = Contents(d, i)
      /\ \A i \in Inode, m \in Name :
            Lookup(e, i, m) = IF i = Root /\ m = n THEN new ELSE Lookup(d, i, m)
  BY <1>1, <1>2, <1>3, MadeInAdds
<1> HIDE DEF new, e
<1>5. Contents(e, new) = <<>> /\ Contents(d, new) = <<>>
  BY <1>4 DEF Contents, IsFile, EmptyDir, File
<1>6. \A i \in Inode : Contents(e, i) = Contents(d, i)
  BY <1>4, <1>5
<1> QED
  BY <1>4, <1>6 DEF e, new

\* What is there keeps its name.
KeepsNames(d, e) ==
    \A i \in Inode, m \in Name : Lookup(d, i, m) # Nil => Lookup(e, i, m) = Lookup(d, i, m)

LEMMA NothingChanges ==
    ASSUME NEW d, Tree(d)
    PROVE  Follows(d, d) /\ KeepsNames(d, d)
  BY HddAssumption DEF Follows, KeepsNames

LEMMA FilledFollows ==
    ASSUME NEW d, Tree(d), NEW x \in Inode, d[x].kind = "file", NEW text \in Texts,
           NEW e, e = Filled(d, x, text)
    PROVE  /\ Follows(d, e) /\ KeepsNames(d, e) /\ KeepsNames(e, d) /\ Used(e) \subseteq Used(d)
           /\ e[x].kind = "file" /\ Contents(e, x) = text
           /\ \A i \in Inode : i # x => Contents(e, i) = Contents(d, i)
<1>0. d \in Disks /\ Root \in Inode /\ Nil \notin Inode /\ x # Root
  BY HddAssumption DEF Tree
<1>1. /\ e \in Disks /\ e[x].kind = "file" /\ Contents(e, x) = text
      /\ \A j \in Inode : j # x => e[j] = d[j] /\ Contents(e, j) = Contents(d, j)
      /\ \A j \in Inode, m \in Name : Lookup(e, j, m) = Lookup(d, j, m)
  BY <1>0, FilledLooks
<1>2. \A i \in Inode : e[i].kind = d[i].kind
  BY <1>1
<1>3. \A i \in Inode : IsNamed(d, i) => e[i].kind # "free"
  BY <1>0, <1>2 DEF Tree, IsNamed
<1>4. Tree(e)
  <2>1. e[Root].kind = "dir" /\ \A j \in Inode, m \in Name : Lookup(e, j, m) = Lookup(d, j, m)
    BY <1>0, <1>1, <1>2 DEF Tree
  <2>2. Tree(d) /\ e \in Disks
    BY <1>1
  <2> QED
    BY <1>3, <2>1, <2>2, SameTree
<1> QED
  BY <1>0, <1>1, <1>2, <1>4 DEF Follows, KeepsNames, Used

LEMMA MkdirMakes ==
    ASSUME NEW d, Tree(d), HasRoom(d), NEW n \in Name
    PROVE  /\ Follows(d, mkdir(d, n)) /\ KeepsNames(d, mkdir(d, n))
           /\ \A i \in Inode : Contents(mkdir(d, n), i) = Contents(d, i)
<1>1. CASE At(d, n) = Nil
  <2>1. mkdir(d, n) = Made(d, n, EmptyDir)
    BY <1>1 DEF mkdir
  <2> QED
    BY <1>1, <2>1, MadeAdds DEF KeepsNames, At
<1>2. CASE At(d, n) # Nil
  BY <1>2, NothingChanges DEF mkdir
<1> QED
  BY <1>1, <1>2

LEMMA TruncateEmpties ==
    ASSUME NEW d, Tree(d), HasRoom(d), NEW n \in Name
    PROVE  /\ Follows(d, truncate(d, n)) /\ KeepsNames(d, truncate(d, n))
           /\ \A i \in Inode : i # At(d, n) => Contents(truncate(d, n), i) = Contents(d, i)
           /\ OpensForWriting(d, n) =>
                 /\ At(truncate(d, n), n) \in Inode
                 /\ truncate(d, n)[At(truncate(d, n), n)].kind = "file"
                 /\ Contents(truncate(d, n), At(truncate(d, n), n)) = <<>>
                 /\ IF At(d, n) = Nil THEN d[At(truncate(d, n), n)].kind = "free"
                    ELSE At(truncate(d, n), n) = At(d, n)
<1> DEFINE e == truncate(d, n)
<1>0. d \in Disks /\ Root \in Inode /\ Nil \notin Inode /\ File(<<>>).kind = "file" /\ <<>> \in Texts
  BY HddAssumption DEF Tree, File, Texts
<1>1. CASE At(d, n) = Nil
  <2>1. e = Made(d, n, File(<<>>))
    BY <1>1 DEF truncate
  <2>2. /\ Follows(d, e) /\ NewInode(d) \in Inode /\ d[NewInode(d)].kind = "free"
        /\ e[NewInode(d)] = File(<<>>)
        /\ \A i \in Inode : Contents(e, i) = Contents(d, i)
        /\ \A i \in Inode, m \in Name :
              Lookup(e, i, m) = IF i = Root /\ m = n THEN NewInode(d) ELSE Lookup(d, i, m)
    BY <1>1, <2>1, MadeAdds
  <2> HIDE DEF e
  <2>3. At(e, n) = NewInode(d) /\ KeepsNames(d, e)
    BY <1>0, <1>1, <2>2 DEF At, KeepsNames
  <2>4. Contents(e, NewInode(d)) = <<>>
    BY <2>2 DEF Contents, IsFile
  <2> QED
    BY <1>0, <1>1, <2>2, <2>3, <2>4 DEF e, Contents, IsFile, File
<1>2. CASE At(d, n) # Nil /\ OpensForWriting(d, n)
  <2> DEFINE x == At(d, n)
  <2>1. x \in Inode /\ d[x].kind # "free"
    BY <1>0, <1>2, LookupType DEF At, Tree
  <2>2. d[x].kind = "file"
    BY <1>0, <1>2, <2>1, ThingKinds DEF OpensForWriting, IsDir, Disks
  <2> DEFINE none == <<>>
  <2>3. e = Filled(d, x, none) /\ none \in Texts
    BY <1>0, <1>2 DEF truncate, Filled
  <2> HIDE DEF x, e, none
  <2>4. /\ Follows(d, e) /\ KeepsNames(d, e)
        /\ e[x].kind = "file" /\ Contents(e, x) = none
        /\ \A j \in Inode : j # x => Contents(e, j) = Contents(d, j)
    BY <2>1, <2>2, <2>3, FilledFollows
  <2>8. At(e, n) = x
    BY <1>0, <1>2, <2>4 DEF At, KeepsNames, x
  <2> QED
    BY <1>2, <2>1, <2>4, <2>8 DEF e, x, none
<1>3. CASE At(d, n) # Nil /\ ~OpensForWriting(d, n)
  BY <1>3, NothingChanges DEF truncate
<1> QED
  BY <1>1, <1>2, <1>3

\* What stands in a file behind a write at a place.
Size(text, at) == IF Len(text) > at THEN Len(text) ELSE at

LEMMA WriteFills ==
    ASSUME NEW d, Tree(d), NEW x \in Inode, d[x].kind = "file",
           NEW at \in Nat \ {0}, NEW block \in Datum
    PROVE  /\ Follows(d, write(d, x, at, block)) /\ Used(write(d, x, at, block)) \subseteq Used(d)
           /\ KeepsNames(d, write(d, x, at, block)) /\ KeepsNames(write(d, x, at, block), d)
           /\ write(d, x, at, block)[x].kind = "file"
           /\ \A i \in Inode : i # x => Contents(write(d, x, at, block), i) = Contents(d, i)
           /\ Len(Contents(write(d, x, at, block), x)) = Size(Contents(d, x), at)
           /\ \A k \in 1..Size(Contents(d, x), at) :
                 Contents(write(d, x, at, block), x)[k]
                   = IF k = at THEN block
                     ELSE IF k <= Len(Contents(d, x)) THEN Contents(d, x)[k] ELSE "hole"
<1> DEFINE old == d[x].text
           size == Size(old, at)
           new == [k \in 1..size |-> IF k = at THEN block
                                     ELSE IF k <= Len(old) THEN old[k] ELSE "hole"]
           e == write(d, x, at, block)
<1>1. d[x] \in Thing /\ old \in Texts /\ d[x] = File(old) /\ x # Nil
  BY ThingKinds, HddAssumption DEF Tree, Disks
<1>2. Contents(d, x) = old
  BY <1>1 DEF Contents, IsFile
<1>3. size \in Nat /\ Len(old) \in Nat /\ size >= Len(old) /\ size >= at
  BY <1>1 DEF Texts, Size
<1>4. new \in Texts /\ Len(new) = size
  <2>1. \A k \in 1..size : (IF k = at THEN block
                            ELSE IF k <= Len(old) THEN old[k] ELSE "hole") \in Datum
    BY <1>1, <1>3 DEF Texts, Datum
  <2> HIDE DEF size, old
  <2>2. new \in [1..size -> Datum]
    BY <2>1
  <2> QED
    BY <1>3, <2>2 DEF Texts
<1>5. e = Filled(d, x, new)
  <2>1. e = [d EXCEPT ![x].text = new]
    BY DEF write, Size
  <2>2. [d[x] EXCEPT !.text = new] = File(new)
    <3> HIDE DEF new, old
    <3> QED
      BY <1>1 DEF File
  <2>3. e = [d EXCEPT ![x] = [d[x] EXCEPT !.text = new]]
    <3> HIDE DEF new, e
    <3> QED
      BY <2>1
  <2> HIDE DEF new, e
  <2> QED
    BY <2>2, <2>3 DEF Filled
<1>6. \A k \in 1..size : new[k] = IF k = at THEN block
                                  ELSE IF k <= Len(old) THEN old[k] ELSE "hole"
  OBVIOUS
<1> HIDE DEF old, size, new, e
<1>7. /\ Follows(d, e) /\ KeepsNames(d, e) /\ KeepsNames(e, d) /\ Used(e) \subseteq Used(d)
      /\ e[x].kind = "file" /\ Contents(e, x) = new
      /\ \A i \in Inode : i # x => Contents(e, i) = Contents(d, i)
  BY <1>4, <1>5, FilledFollows
<1> QED
  BY <1>2, <1>4, <1>6, <1>7 DEF size, e

\* rename gives what has one name another, and takes the name from what had it.
LEMMA RenameMoves ==
    ASSUME NEW d, Tree(d), NEW n \in Name, NEW dir \in Inode \union {Nil}, NEW m \in Name,
           dir \in {Root, Nil} \/ \E k \in Name : dir = At(d, k)
    PROVE  /\ Follows(d, rename(d, n, dir, m)) /\ Used(rename(d, n, dir, m)) \subseteq Used(d)
           /\ \A i \in Inode : Contents(rename(d, n, dir, m), i) = Contents(d, i)
           /\ \A i \in Inode : IsNamed(d, i) =>
                 IsNamed(rename(d, n, dir, m), i) \/ i = Lookup(d, dir, m)
<1> DEFINE e == rename(d, n, dir, m)
<1>1. CASE ~(Renames(d, n, dir, m) /\ At(d, n) # Lookup(d, dir, m))
  BY <1>1, NothingChanges DEF rename
<1>2. CASE Renames(d, n, dir, m) /\ At(d, n) # Lookup(d, dir, m)
  <2> DEFINE old == At(d, n)
             new == Lookup(d, dir, m)
             l == Linked(d, dir, m, old)
  <2>0. d \in Disks /\ d[Root].kind = "dir" /\ Root \in Inode /\ Nil \notin Inode
    BY HddAssumption DEF Tree
  <2>1. e = Linked(l, Root, n, Nil)
    BY <1>2 DEF rename
  <2>2. /\ old # Nil /\ old # new /\ dir \in Inode /\ d[dir].kind = "dir" /\ dir # old
        /\ new = Nil \/ d[new].kind # "dir" \/ IsEmpty(d, new)
    BY <1>2 DEF Renames, IsDir, IsFile
  <2>3. old \in Inode /\ d[old].kind # "free" /\ new \in Inode \union {Nil} /\ old # Root
    BY <2>0, <2>2, LookupType DEF At, Tree
  <2>4. old = Lookup(d, Root, n) /\ new = Lookup(d, dir, m)
    BY DEF At
  <2> HIDE DEF old, new, l, e
  <2>5. /\ l \in Disks /\ \A i \in Inode : l[i].kind = d[i].kind
        /\ \A i \in Inode : Contents(l, i) = Contents(d, i)
        /\ \A i \in Inode, k \in Name :
              Lookup(l, i, k) = IF i = dir /\ k = m THEN old ELSE Lookup(d, i, k)
    BY <2>0, <2>2, <2>3, LinkedLooks DEF l
  <2>6. /\ e \in Disks /\ \A i \in Inode : e[i].kind = l[i].kind
        /\ \A i \in Inode : Contents(e, i) = Contents(l, i)
        /\ \A i \in Inode, k \in Name :
              Lookup(e, i, k) = IF i = Root /\ k = n THEN Nil ELSE Lookup(l, i, k)
    BY <2>0, <2>1, <2>5, LinkedLooks
  <2>7. ~(dir = Root /\ m = n)
    BY <2>2, <2>4
  <2>8. /\ \A i \in Inode : e[i].kind = d[i].kind /\ Contents(e, i) = Contents(d, i)
        /\ \A i \in Inode, k \in Name :
              Lookup(e, i, k) = IF i = dir /\ k = m THEN old
                                ELSE IF i = Root /\ k = n THEN Nil ELSE Lookup(d, i, k)
    BY <2>5, <2>6, <2>7
  <2>9. \A i \in Inode : IsNamed(d, i) => IsNamed(e, i) \/ i = new
    <3>1. SUFFICES ASSUME NEW i \in Inode, NEW j \in Inode, NEW k \in Name,
                          Lookup(d, j, k) = i, i # new
                   PROVE  IsNamed(e, i)
      BY DEF IsNamed
    <3>2. CASE j = Root /\ k = n
      BY <2>2, <2>4, <2>8, <3>1, <3>2 DEF IsNamed
    <3>3. CASE ~(j = Root /\ k = n)
      <4>1. ~(j = dir /\ k = m)
        BY <2>4, <3>1
      <4>2. Lookup(e, j, k) = i
        BY <2>8, <3>1, <3>3, <4>1
      <4> QED
        BY <4>2 DEF IsNamed
    <3> QED
      BY <3>2, <3>3
  <2>10. Tree(e)
    <3>1. ASSUME NEW i \in Inode, NEW k \in Name, Lookup(e, i, k) # Nil
          PROVE  /\ Lookup(e, i, k) # Root /\ e[Lookup(e, i, k)].kind # "free"
                 /\ i = Root \/ IsNamed(e, i)
      <4>1. CASE i = dir /\ k = m
        <5>1. Lookup(e, i, k) = old
          BY <2>8, <4>1
        <5>2. i # Root => IsNamed(e, i)
          <6>1. SUFFICES ASSUME i # Root PROVE IsNamed(e, i)
            OBVIOUS
          <6>2. PICK h \in Name : dir = Lookup(d, Root, h)
            BY <2>0, <2>2, <4>1, <6>1 DEF At
          <6>3. Lookup(d, Root, h) # Nil /\ IsNamed(d, dir)
            BY <2>0, <2>2, <6>2 DEF IsNamed
          <6>4. dir # new
            BY <2>0, <2>2, <2>4, <4>1, <6>1, <6>2, <6>3 DEF Tree
          <6> QED
            BY <2>2, <2>9, <4>1, <6>3, <6>4
        <5> QED
          BY <2>3, <2>8, <5>1, <5>2
      <4>2. CASE ~(i = dir /\ k = m)
        <5>1. Lookup(e, i, k) = Lookup(d, i, k)
          BY <2>8, <3>1, <4>2
        <5>2. /\ Lookup(d, i, k) # Root /\ d[Lookup(d, i, k)].kind # "free"
              /\ i = Root \/ IsNamed(d, i)
          BY <3>1, <5>1 DEF Tree
        <5>3. Lookup(d, i, k) \in Inode
          BY <2>0, <3>1, <5>1, LookupType
        <5>4. i # new
          <6>1. CASE new = Nil
            BY <2>0, <6>1
          <6>2. CASE new # Nil /\ i = new
            <7>1. d[i].kind = "dir"
              BY <2>0, <3>1, <5>1, LookupType
            <7>2. IsEmpty(d, i)
              BY <2>2, <6>2, <7>1
            <7>3. d[i].entry[k] = Nil
              BY <7>2 DEF IsEmpty
            <7>4. Lookup(d, i, k) = Nil
              BY <7>1, <7>3 DEF Lookup
            <7> QED
              BY <3>1, <5>1, <7>4
          <6> QED
            BY <6>1, <6>2
        <5> QED
          BY <2>8, <2>9, <5>1, <5>2, <5>3, <5>4
      <4> QED
        BY <4>1, <4>2
    <3>2. ASSUME NEW i \in Inode, NEW j \in Inode, NEW k \in Name, NEW h \in Name,
                 Lookup(e, i, k) # Nil, Lookup(e, i, k) = Lookup(e, j, h)
          PROVE  i = j /\ k = h
      BY <2>0, <2>4, <2>8, <3>2 DEF Tree
    <3>3. e[Root].kind = "dir"
      BY <2>0, <2>8
    <3> QED
      BY <2>6, <3>1, <3>2, <3>3 DEF Tree
  <2>11. Follows(d, e) /\ Used(e) \subseteq Used(d)
    BY <2>0, <2>8, <2>10 DEF Follows, Used
  <2> QED
    BY <2>8, <2>9, <2>11 DEF e, new
<1> QED
  BY <1>1, <1>2

\* remove takes a name from a file or an empty folder.
LEMMA RemoveUnlinks ==
    ASSUME NEW d, Tree(d), NEW n \in Name
    PROVE  /\ Follows(d, remove(d, n)) /\ Used(remove(d, n)) \subseteq Used(d)
           /\ \A i \in Inode : Contents(remove(d, n), i) = Contents(d, i)
           /\ \A i \in Inode : IsNamed(d, i) => IsNamed(remove(d, n), i) \/ i = At(d, n)
<1> DEFINE e == remove(d, n)
           old == At(d, n)
           Goes == IsFile(d, old) \/ (IsDir(d, old) /\ IsEmpty(d, old))
<1>1. CASE ~Goes
  <2>1. e = d
    BY <1>1 DEF remove
  <2> QED
    BY <2>1, NothingChanges
<1>2. CASE Goes
  <2>0. d \in Disks /\ d[Root].kind = "dir" /\ Root \in Inode /\ Nil \notin Inode
    BY HddAssumption DEF Tree
  <2>1. e = Linked(d, Root, n, Nil)
    BY <1>2 DEF remove
  <2>2. old # Nil /\ (d[old].kind = "dir" => IsEmpty(d, old))
    BY <1>2 DEF IsFile, IsDir
  <2>3. old = Lookup(d, Root, n) /\ old \in Inode
    BY <2>0, <2>2, LookupType DEF At
  <2> HIDE DEF old, e
  <2>4. /\ e \in Disks
        /\ \A i \in Inode : e[i].kind = d[i].kind /\ Contents(e, i) = Contents(d, i)
        /\ \A i \in Inode, k \in Name :
              Lookup(e, i, k) = IF i = Root /\ k = n THEN Nil ELSE Lookup(d, i, k)
    BY <2>0, <2>1, LinkedLooks
  <2>5. \A i \in Inode : IsNamed(d, i) => IsNamed(e, i) \/ i = old
    BY <2>3, <2>4 DEF IsNamed
  <2>6. Tree(e)
    <3>1. ASSUME NEW i \in Inode, NEW k \in Name, Lookup(e, i, k) # Nil
          PROVE  /\ Lookup(e, i, k) # Root /\ e[Lookup(e, i, k)].kind # "free"
                 /\ i = Root \/ IsNamed(e, i)
      <4>1. Lookup(e, i, k) = Lookup(d, i, k)
        BY <2>4, <3>1
      <4>2. /\ Lookup(d, i, k) # Root /\ d[Lookup(d, i, k)].kind # "free"
            /\ i = Root \/ IsNamed(d, i)
        BY <3>1, <4>1 DEF Tree
      <4>3. Lookup(d, i, k) \in Inode /\ d[i].kind = "dir" /\ i # Nil
        BY <2>0, <3>1, <4>1, LookupType
      <4>4. i # old
        <5>1. d[i].entry[k] # Nil
          BY <3>1, <4>1, <4>3 DEF Lookup, IsDir
        <5> QED
          BY <2>2, <4>3, <5>1 DEF IsEmpty
      <4> QED
        BY <2>4, <2>5, <4>1, <4>2, <4>3, <4>4
    <3>2. ASSUME NEW i \in Inode, NEW j \in Inode, NEW k \in Name, NEW h \in Name,
                 Lookup(e, i, k) # Nil, Lookup(e, i, k) = Lookup(e, j, h)
          PROVE  i = j /\ k = h
      BY <2>4, <3>2 DEF Tree
    <3>3. e[Root].kind = "dir"
      BY <2>0, <2>4
    <3> QED
      BY <2>4, <3>1, <3>2, <3>3 DEF Tree
  <2>7. Follows(d, e) /\ Used(e) \subseteq Used(d)
    BY <2>0, <2>4, <2>6 DEF Follows, Used
  <2> QED
    BY <2>4, <2>5, <2>7 DEF e, old
<1> QED
  BY <1>1, <1>2

LEMMA NamedIs ==
    ASSUME NEW d \in Disks
    PROVE  /\ Named(d) = {i \in Inode : IsNamed(d, i)}
           /\ Links(d) = {link \in Inode \X Name : Lookup(d, link[1], link[2]) # Nil}
<1>1. \A x \in Named(d) : x \in Inode /\ IsNamed(d, x)
  BY LookupType DEF Named, Links, IsNamed
<1>2. ASSUME NEW x \in Inode, IsNamed(d, x) PROVE x \in Named(d)
  <2>1. PICK j \in Inode, m \in Name : Lookup(d, j, m) = x
    BY <1>2 DEF IsNamed
  <2>2. <<j, m>> \in Links(d)
    BY <2>1, HddAssumption DEF Links
  <2> QED
    BY <2>1, <2>2 DEF Named
<1> QED
  BY <1>1, <1>2 DEF Links

\* Giving inodes back takes no name away: what loses its inode was empty.
LEMMA CollectedLooks ==
    ASSUME NEW d, Tree(d), NEW opened \in SUBSET Inode
    PROVE  /\ Tree(Collected(d, opened))
           /\ KeepsNames(d, Collected(d, opened)) /\ KeepsNames(Collected(d, opened), d)
           /\ \A i \in Inode : i \in opened \/ IsNamed(d, i) => Collected(d, opened)[i] = d[i]
           /\ \A i \in Inode : Collected(d, opened)[i].kind # "free" => d[i].kind # "free"
<1> DEFINE e == Collected(d, opened)
           kept == {Root} \union opened \union Named(d)
<1>0. d \in Disks /\ d[Root].kind = "dir" /\ Root \in Inode /\ Nil \notin Inode
  BY HddAssumption DEF Tree
<1>1. e = [i \in Inode |-> IF i \in kept THEN d[i] ELSE Free]
  BY DEF Collected
<1>2. kept = {Root} \union opened \union {i \in Inode : IsNamed(d, i)}
  BY <1>0, NamedIs
<1> HIDE DEF kept
<1>3. e \in Disks /\ \A i \in Inode : e[i] = IF i \in kept THEN d[i] ELSE Free
  BY <1>0, <1>1 DEF Disks, Thing
<1> HIDE DEF e
<1>4. ASSUME NEW i \in Inode, NEW m \in Name PROVE Lookup(e, i, m) = Lookup(d, i, m)
  <2>1. CASE i \in kept
    BY <1>3, <2>1 DEF Lookup, IsDir
  <2>2. CASE i \notin kept
    <3>1. i # Root /\ ~IsNamed(d, i)
      BY <1>2, <2>2
    <3>2. Lookup(d, i, m) = Nil
      BY <3>1 DEF Tree
    <3>3. Lookup(e, i, m) = Nil
      BY <1>3, <2>2 DEF Lookup, IsDir, Free
    <3> QED
      BY <3>2, <3>3
  <2> QED
    BY <2>1, <2>2
<1>5. \A i \in Inode : i \in opened \/ IsNamed(d, i) => e[i] = d[i]
  BY <1>2, <1>3
<1>6. \A i \in Inode : e[i].kind # "free" => d[i].kind # "free"
  BY <1>3 DEF Free
<1>7. \A i \in Inode : IsNamed(d, i) => e[i].kind # "free"
  BY <1>0, <1>5 DEF Tree, IsNamed
<1>8. e[Root].kind = "dir"
  BY <1>0, <1>2, <1>3
<1>9. Tree(e)
  <2>1. Tree(d)
    OBVIOUS
  <2> QED
    BY <1>3, <1>4, <1>7, <1>8, <2>1, SameTree
<1> QED
  BY <1>0, <1>4, <1>5, <1>6, <1>9 DEF e, KeepsNames

\* TypeOK counts what Tree says name by name.
LEMMA TreesCount ==
    ASSUME NEW d, Tree(d)
    PROVE  Cardinality(Links(d)) = Cardinality(Named(d))
<1> DEFINE f == [link \in Links(d) |-> Lookup(d, link[1], link[2])]
<1>0. d \in Disks /\ Links(d) \subseteq Inode \X Name
  BY DEF Tree, Links
<1>1. IsFiniteSet(Links(d))
  <2>1. IsFiniteSet(Inode \X Name)
    BY HddAssumption, FS_Product
  <2> QED
    BY <1>0, <2>1, FS_Subset
<1>2. f \in [Links(d) -> Named(d)]
  BY DEF Named
<1>3. \A a, b \in Links(d) : f[a] = f[b] => a = b
  <2>1. ASSUME NEW a \in Links(d), NEW b \in Links(d), f[a] = f[b] PROVE a = b
    <3>1. /\ a = <<a[1], a[2]>> /\ a[1] \in Inode /\ a[2] \in Name
          /\ b = <<b[1], b[2]>> /\ b[1] \in Inode /\ b[2] \in Name
      BY <1>0
    <3>2. Lookup(d, a[1], a[2]) # Nil /\ Lookup(d, a[1], a[2]) = Lookup(d, b[1], b[2])
      BY <2>1 DEF Links
    <3>3. a[1] = b[1] /\ a[2] = b[2]
      BY <3>1, <3>2 DEF Tree
    <3> QED
      BY <3>1, <3>3
  <2> QED
    BY <2>1
<1>4. \A x \in Named(d) : \E a \in Links(d) : f[a] = x
  BY DEF Named
<1> HIDE DEF f
<1>5. f \in Bijection(Links(d), Named(d))
  BY <1>2, <1>3, <1>4 DEF Bijection, Injection, Surjection, IsInjective
<1> QED
  BY <1>1, <1>5, FS_Bijection DEF ExistsBijection

-----------------------------------------------------------------------------
(* What a step of a window may be *)

Rec == [tool : Tool \union {"none"},
        pc : {"closed", "ask", "create", "rename", "move", "open", "read", "write", "flush",
              "close", "echo"},
        files : SUBSET Name, name : Name \union {Nil}, target : Name \union {Nil},
        src : Inode \union {Nil}, dst : Inode \union {Nil},
        at : Nat, buffer : Datum \union {Nil}]

\* What a window knows where it is.
RecOK(r) ==
    /\ r \in Rec
    /\ r.pc \in {"create", "rename", "move"} => r.name \in Name
    /\ r.pc \in {"rename", "move", "open"} => r.target \in Name
    /\ r.pc \in {"closed", "ask", "create", "rename", "move"} => r.src = Nil /\ r.dst = Nil
    /\ r.pc \in {"ask", "open", "echo"} => r.at = 0
    /\ r.pc = "open" => r.dst = Nil
    /\ r.pc \in {"read", "write", "flush", "close"} => r.src # Nil /\ r.dst # Nil
    /\ r.pc \in {"open", "read", "write", "flush", "close"} =>
          r.tool \in {"copy_file", "file_compression"}
    /\ r.pc \in {"write", "flush"} => r.at # 0 /\ r.buffer \in Datum /\ r.tool = "copy_file"
    /\ r.pc = "create" => r.tool = "create_file"
    /\ r.pc = "echo" => r.src = Nil /\ r.dst # Nil /\ r.tool = "mini_terminal"

\* What it has open is there.
Opens(r, d) ==
    /\ r.src # Nil => d[r.src].kind # "free"
    /\ r.dst # Nil => d[r.dst].kind = "file"

\* It may still make a file or a folder for the command it was started by.
Makes(r) == r.pc \in {"create", "open"} \/ (r.pc = "ask" /\ r.tool # "mini_terminal")

Makers == {w \in Window : Makes(win[w])}

\* There is room for what may still be made.
Room == Cardinality(Used(disk)) + Cardinality(Makers) <= commands + 4

\* A check that nobody has overtaken holds.
Checked(r, d) ==
    /\ r.pc = "create" => At(d, r.name) = Nil
    /\ r.pc = "rename" => At(d, r.target) = Nil

HddInv ==
    /\ Tree(disk)
    /\ win \in [Window -> Rec] /\ commands \in 0..MaxCommands
    /\ \A w \in Window : RecOK(win[w]) /\ Opens(win[w], disk)
    /\ \A w \in Window \ overtaken : Checked(win[w], disk)
    /\ Room

\* What w's step leaves as it was.
Spares(w, next, disk1) ==
    \A i \in Inode : IsNamed(disk, i) /\ Contents(disk, i) # <<>> =>
        \/ IsNamed(disk1, i) /\ Contents(disk1, i) = Contents(disk, i)
        \/ next # win[w] /\ i \in MayDestroy(w)

Step(w, next, disk1) ==
    /\ Becomes(w, next, disk1)
    /\ Follows(disk, disk1) /\ RecOK(next) /\ Opens(next, disk1) /\ Checked(next, disk1)
    /\ Spares(w, next, disk1)
    /\ commands' \in 0..MaxCommands
    /\ \/ commands' = commands /\ (Makes(next) => Makes(win[w])) /\ Used(disk1) \subseteq Used(disk)
       \/ commands' = commands /\ ~Makes(next) /\ Makes(win[w])
       \/ commands' = commands + 1 /\ (Makes(next) => Makes(win[w]))
       \/ commands' = commands + 1 /\ Used(disk1) \subseteq Used(disk)

LEMMA FewUsed ==
    ASSUME NEW d \in Disks
    PROVE  IsFiniteSet(Used(d)) /\ Cardinality(Used(d)) \in Nat
<1>1. Used(d) \subseteq Inode
  BY DEF Used
<1> QED
  BY <1>1, HddAssumption, FS_Subset, FS_CardinalityType

LEMMA FewMakers == IsFiniteSet(Makers) /\ Cardinality(Makers) \in Nat
<1>1. Makers \subseteq Window
  BY DEF Makers
<1> QED
  BY <1>1, HddAssumption, FS_Subset, FS_CardinalityType

LEMMA OneMore ==
    ASSUME NEW S, IsFiniteSet(S), NEW x
    PROVE  /\ IsFiniteSet(S \union {x}) /\ Cardinality(S \union {x}) \in Nat
           /\ Cardinality(S \union {x}) <= Cardinality(S) + 1
<1>1. IsFiniteSet(S \union {x})
  BY FS_AddElement
<1>2. Cardinality(S) \in Nat /\ Cardinality(S \union {x}) \in Nat
  BY <1>1, FS_CardinalityType
<1>3. Cardinality(S \union {x}) = IF x \in S THEN Cardinality(S) ELSE Cardinality(S) + 1
  BY FS_AddElement
<1> QED
  BY <1>1, <1>2, <1>3

\* Who may make something finds room for it.
LEMMA RoomForOne ==
    ASSUME HddInv, commands < MaxCommands \/ Makers # {}
    PROVE  HasRoom(disk)
<1>1. disk \in Disks /\ commands \in 0..MaxCommands /\ Room
  BY DEF HddInv, Tree
<1>2. /\ IsFiniteSet(Used(disk)) /\ Cardinality(Used(disk)) \in Nat
      /\ IsFiniteSet(Makers) /\ Cardinality(Makers) \in Nat
  BY <1>1, FewUsed, FewMakers
<1>3. Makers # {} => Cardinality(Makers) # 0
  BY <1>2, FS_EmptySet
<1>4. Cardinality(Used(disk)) < MaxCommands + 4
  BY <1>1, <1>2, <1>3, HddAssumption DEF Room
<1>5. SUFFICES ASSUME \A i \in Inode : disk[i] # Free PROVE FALSE
  BY DEF HasRoom
<1>6. Used(disk) = Inode
  BY <1>1, <1>5, ThingKinds DEF Used, Disks
<1>7. Cardinality(Inode) \in Nat
  BY HddAssumption, FS_CardinalityType
<1> QED
  BY <1>2, <1>4, <1>6, <1>7, HddAssumption

\* Every step that is one of these keeps the invariant.
LEMMA StepKeeps ==
    ASSUME HddInv, NEW w \in Window, NEW next, NEW disk1, Step(w, next, disk1)
    PROVE  /\ HddInv'
           /\ win' = [win EXCEPT ![w] = next]
           /\ KeepsNames(disk1, disk') /\ KeepsNames(disk', disk1)
           /\ \A i \in Inode : i \in Opened(win') \/ IsNamed(disk1, i) => disk'[i] = disk1[i]
<1> DEFINE opened == Opened(win') \ {Nil}
<1>1. /\ Tree(disk) /\ win \in [Window -> Rec] /\ commands \in 0..MaxCommands
      /\ \A v \in Window : RecOK(win[v]) /\ Opens(win[v], disk)
      /\ \A v \in Window \ overtaken : Checked(win[v], disk)
      /\ Room
  BY DEF HddInv
<1>2. /\ win' = [win EXCEPT ![w] = next] /\ disk' = Collected(disk1, opened)
      /\ overtaken' = IF disk1 = disk THEN overtaken \ {w} ELSE (overtaken \union Window) \ {w}
      /\ Follows(disk, disk1) /\ RecOK(next) /\ Opens(next, disk1) /\ Checked(next, disk1)
      /\ commands' \in 0..MaxCommands
  BY DEF Step, Becomes
<1>3. win' \in [Window -> Rec] /\ \A v \in Window : win'[v] = IF v = w THEN next ELSE win[v]
  BY <1>1, <1>2 DEF RecOK
<1>4. opened \subseteq Inode
  BY <1>3 DEF Opened, Rec
<1>5. /\ Tree(disk') /\ KeepsNames(disk1, disk') /\ KeepsNames(disk', disk1)
      /\ \A i \in Inode : i \in opened \/ IsNamed(disk1, i) => disk'[i] = disk1[i]
      /\ \A i \in Inode : disk'[i].kind # "free" => disk1[i].kind # "free"
  <2>1. Tree(disk1)
    BY <1>2 DEF Follows
  <2> HIDE DEF opened
  <2> QED
    BY <1>2, <1>4, <2>1, CollectedLooks
<1>6. ASSUME NEW v \in Window PROVE RecOK(win'[v]) /\ Opens(win'[v], disk')
  <2>1. RecOK(win'[v])
    BY <1>1, <1>2, <1>3
  <2>2. Opens(win'[v], disk1)
    <3>1. CASE v = w
      BY <1>2, <1>3, <3>1
    <3>2. CASE v # w
      <4>1. win'[v] = win[v] /\ win[v].src \in Inode \union {Nil} /\ win[v].dst \in Inode \union {Nil}
        BY <1>1, <1>3, <3>2 DEF Rec
      <4>2. \A i \in Inode : disk[i].kind # "free" => disk1[i].kind = disk[i].kind
        BY <1>2 DEF Follows
      <4> QED
        BY <1>1, <4>1, <4>2 DEF Opens
    <3> QED
      BY <3>1, <3>2
  <2>3. win'[v].src \in opened \union {Nil} /\ win'[v].dst \in opened \union {Nil}
    BY DEF Opened
  <2>4. \A i \in opened : disk'[i] = disk1[i]
    BY <1>4, <1>5
  <2> HIDE DEF opened
  <2> QED
    BY <2>1, <2>2, <2>3, <2>4 DEF Opens
<1>7. ASSUME NEW v \in Window \ overtaken' PROVE Checked(win'[v], disk')
  <2>1. \A n \in Name : At(disk', n) = At(disk1, n)
    <3>1. \A n \in Name : Lookup(disk', Root, n) \in Inode \union {Nil}
                          /\ Lookup(disk1, Root, n) \in Inode \union {Nil}
      BY <1>2, <1>5, LookupType, HddAssumption DEF Follows, Tree
    <3> QED
      BY <1>5, HddAssumption DEF KeepsNames, At
  <2>2. Checked(win'[v], disk1)
    <3>1. CASE v = w
      BY <1>2, <1>3, <3>1
    <3>2. CASE v # w
      <4>1. disk1 = disk /\ v \notin overtaken
        BY <1>2, <3>2
      <4> QED
        BY <1>1, <1>3, <3>2, <4>1
    <3> QED
      BY <3>1, <3>2
  <2>3. RecOK(win'[v])
    BY <1>6
  <2> QED
    BY <2>1, <2>2, <2>3 DEF Checked, RecOK
<1>8. Room'
  <2>0. /\ disk \in Disks /\ disk' \in Disks /\ disk1 \in Disks
    BY <1>1, <1>2, <1>5 DEF Tree, Follows
  <2> DEFINE used == Cardinality(Used(disk))
             used1 == Cardinality(Used(disk'))
             makers == Cardinality(Makers)
             makers1 == Cardinality(Makers')
  <2>1. /\ IsFiniteSet(Used(disk)) /\ used \in Nat /\ IsFiniteSet(Used(disk')) /\ used1 \in Nat
        /\ IsFiniteSet(Makers) /\ makers \in Nat
    BY <2>0, FewUsed, FewMakers
  <2>2. PICK x \in Inode : \A i \in Inode : disk1[i].kind # "free" => disk[i].kind # "free" \/ i = x
    BY <1>2 DEF Follows
  <2>3. Used(disk') \subseteq Used(disk1) /\ Used(disk1) \subseteq Used(disk) \union {x}
    BY <1>5, <2>2 DEF Used
  <2>4. used1 <= used + 1
    <3>1. /\ IsFiniteSet(Used(disk) \union {x}) /\ Cardinality(Used(disk) \union {x}) \in Nat
          /\ Cardinality(Used(disk) \union {x}) <= used + 1
      BY <2>1, OneMore
    <3>2. used1 <= Cardinality(Used(disk) \union {x})
      BY <2>3, <3>1, FS_Subset
    <3> HIDE DEF used, used1
    <3> QED
      BY <2>1, <3>1, <3>2
  <2>5. Used(disk1) \subseteq Used(disk) => used1 <= used
    BY <2>1, <2>3, FS_Subset
  <2>6. Makers' \subseteq Makers \union {w} /\ (~Makes(next) => Makers' \subseteq Makers \ {w})
        /\ ((Makes(next) => Makes(win[w])) => Makers' \subseteq Makers)
    BY <1>3 DEF Makers
  <2>7. makers1 \in Nat /\ makers1 <= makers + 1
    <3>1. /\ IsFiniteSet(Makers \union {w}) /\ Cardinality(Makers \union {w}) \in Nat
          /\ Cardinality(Makers \union {w}) <= makers + 1
      BY <2>1, OneMore
    <3>2. IsFiniteSet(Makers') /\ makers1 <= Cardinality(Makers \union {w})
      BY <2>6, <3>1, FS_Subset
    <3>3. makers1 \in Nat
      BY <3>2, FS_CardinalityType
    <3> HIDE DEF makers, makers1
    <3> QED
      BY <2>1, <3>1, <3>2, <3>3
  <2>8. (Makes(next) => Makes(win[w])) => makers1 <= makers
    BY <2>1, <2>6, FS_Subset
  <2>9. ~Makes(next) /\ Makes(win[w]) => makers1 <= makers - 1
    <3>1. SUFFICES ASSUME ~Makes(next), Makes(win[w]) PROVE makers1 <= makers - 1
      OBVIOUS
    <3>2. w \in Makers
      BY <3>1 DEF Makers
    <3>3. IsFiniteSet(Makers \ {w}) /\ Cardinality(Makers \ {w}) = makers - 1
      BY <2>1, <3>2, FS_RemoveElement
    <3> QED
      BY <2>6, <3>1, <3>3, FS_Subset
  <2>10. commands \in Nat /\ used + makers <= commands + 4
    BY <1>1 DEF Room
  <2> HIDE DEF used, used1, makers, makers1
  <2>11. used1 + makers1 <= commands' + 4
    <3>1. CASE commands' = commands /\ (Makes(next) => Makes(win[w])) /\ Used(disk1) \subseteq Used(disk)
      BY <2>1, <2>5, <2>7, <2>8, <2>10, <3>1
    <3>2. CASE commands' = commands /\ ~Makes(next) /\ Makes(win[w])
      BY <2>1, <2>4, <2>7, <2>9, <2>10, <3>2
    <3>3. CASE commands' = commands + 1 /\ (Makes(next) => Makes(win[w]))
      BY <2>1, <2>4, <2>7, <2>8, <2>10, <3>3
    <3>4. CASE commands' = commands + 1 /\ Used(disk1) \subseteq Used(disk)
      BY <2>1, <2>5, <2>7, <2>10, <3>4
    <3> QED
      BY <3>1, <3>2, <3>3, <3>4 DEF Step
  <2> QED
    BY <2>11 DEF Room, used1, makers1
<1>9. HddInv'
  BY <1>2, <1>3, <1>5, <1>6, <1>7, <1>8 DEF HddInv
<1>10. \A i \in Inode : i \in Opened(win') \/ IsNamed(disk1, i) => disk'[i] = disk1[i]
  <2>1. \A i \in Inode : i # Nil
    BY HddAssumption
  <2> QED
    BY <1>5, <2>1
<1> QED
  BY <1>2, <1>5, <1>9, <1>10

-----------------------------------------------------------------------------
(* The steps, one by one *)

Copying(r) == r.tool = "copy_file" /\ r.pc \in {"read", "write", "flush", "close"}

\* A step that is nobody's copying: it writes one file at most, which disturbs who reads it
\* or copies to it.
Bystands(w, next, disk1) ==
    /\ ~(Copying(win[w]) /\ win[w].pc # "close") /\ ~Copying(next)
    /\ \/ /\ undisturbed' \ {w} = undisturbed \ {w}
          /\ \A i \in Inode : disk[i].kind # "free" => Contents(disk1, i) = Contents(disk, i)
       \/ \E x \in Inode \union {Nil} :
             /\ Disturbs(w, x) /\ win[w].tool # "copy_file"
             /\ \A i \in Inode : disk[i].kind # "free" /\ i # x =>
                   Contents(disk1, i) = Contents(disk, i)

LEMMA ClosedOK == RecOK(Closed) /\ ~Makes(Closed) /\ ~Copying(Closed)
                  /\ \A d : Opens(Closed, d) /\ Checked(Closed, d)
  BY DEF Closed, RecOK, Rec, Makes, Copying, Opens, Checked

\* A step that leaves the disk as it is.
LEMMA LookStep ==
    ASSUME HddInv, NEW w \in Window, NEW next, Becomes(w, next, disk),
           RecOK(next), Opens(next, disk), Checked(next, disk),
           \/ commands' = commands /\ (Makes(next) => Makes(win[w]))
           \/ commands' = commands + 1 /\ commands < MaxCommands
    PROVE  Step(w, next, disk)
<1>1. Follows(disk, disk)
  BY NothingChanges DEF HddInv
<1>2. Spares(w, next, disk)
  BY DEF Spares
<1>3. commands \in 0..MaxCommands /\ commands' \in 0..MaxCommands
  BY HddAssumption DEF HddInv
<1> QED
  BY <1>1, <1>2, <1>3 DEF Step

LEMMA LookExits ==
    ASSUME HddInv, NEW w \in Window, Exits(w, disk), UNCHANGED commands
    PROVE  Step(w, Closed, disk)
  BY ClosedOK, LookStep DEF Exits

LEMMA StartStep ==
    ASSUME HddInv, NEW w \in Window, NEW tool \in Tool, Start(w, tool)
    PROVE  \E next, disk1 : Step(w, next, disk1) /\ Bystands(w, next, disk1)
<1> DEFINE next == [Closed EXCEPT !.tool = tool, !.pc = "ask", !.files = Listed(disk)]
<1>1. RecOK(next) /\ Opens(next, disk) /\ Checked(next, disk) /\ ~Copying(next)
  BY DEF RecOK, Rec, Closed, Listed, Opens, Checked, Copying
<1>2. Becomes(w, next, disk) /\ commands' = commands + 1 /\ commands < MaxCommands
      /\ undisturbed' = undisturbed /\ win[w].pc = "closed"
  BY DEF Start, Quietly
<1> HIDE DEF next
<1>3. Step(w, next, disk)
  BY <1>1, <1>2, LookStep
<1>4. Bystands(w, next, disk)
  BY <1>1, <1>2 DEF Bystands, Copying
<1> QED
  BY <1>3, <1>4

LEMMA create_fileStep ==
    ASSUME HddInv, NEW w \in Window, NEW n \in Typed, create_file(w, n)
    PROVE  \E next, disk1 : Step(w, next, disk1) /\ Bystands(w, next, disk1)
<1> DEFINE next == [win[w] EXCEPT !.pc = "create", !.name = n]
<1>1. /\ win[w].pc = "ask" /\ win[w].tool = "create_file" /\ commands' = commands
      /\ undisturbed' = undisturbed /\ RecOK(win[w]) /\ n \in Name
  BY HddAssumption DEF create_file, Asks, Quietly, HddInv
<1>2. CASE At(disk, n) # Nil
  <2>1. Step(w, Closed, disk)
    BY <1>1, <1>2, LookExits DEF create_file
  <2>2. Bystands(w, Closed, disk)
    BY <1>1, ClosedOK DEF Bystands, Copying
  <2> QED
    BY <2>1, <2>2
<1>3. CASE At(disk, n) = Nil
  <2>1. /\ RecOK(next) /\ Opens(next, disk) /\ Checked(next, disk) /\ ~Copying(next)
        /\ Makes(win[w])
    BY <1>1, <1>3 DEF RecOK, Rec, Opens, Checked, Copying, Makes
  <2>2. Becomes(w, next, disk)
    BY <1>3 DEF create_file
  <2> HIDE DEF next
  <2>3. Step(w, next, disk)
    BY <1>1, <2>1, <2>2, LookStep
  <2>4. Bystands(w, next, disk)
    BY <1>1, <2>1 DEF Bystands, Copying
  <2> QED
    BY <2>3, <2>4
<1> QED
  BY <1>2, <1>3

LEMMA CreatesStep ==
    ASSUME HddInv, NEW w \in Window, CreatesIt(w)
    PROVE  \E next, disk1 : Step(w, next, disk1) /\ Bystands(w, next, disk1)
<1> DEFINE n == win[w].name
           disk1 == truncate(disk, n)
<1>1. /\ win[w].pc = "create" /\ commands' = commands /\ commands \in 0..MaxCommands
      /\ Becomes(w, Closed, disk1) /\ Disturbs(w, At(disk, n))
      /\ Tree(disk) /\ RecOK(win[w]) /\ (w \notin overtaken => Checked(win[w], disk))
  BY DEF CreatesIt, Exits, HddInv
<1>2. n \in Name /\ win[w].tool = "create_file" /\ Makes(win[w]) /\ Closed # win[w]
  BY <1>1 DEF RecOK, Makes, Closed
<1>3. HasRoom(disk)
  BY <1>2, RoomForOne DEF Makers
<1> HIDE DEF n, disk1
<1>4. /\ Follows(disk, disk1) /\ KeepsNames(disk, disk1)
      /\ \A i \in Inode : i # At(disk, n) => Contents(disk1, i) = Contents(disk, i)
  BY <1>1, <1>2, <1>3, TruncateEmpties DEF disk1
<1>5. Spares(w, Closed, disk1)
  <2>1. SUFFICES ASSUME NEW i \in Inode, IsNamed(disk, i),
                        ~(IsNamed(disk1, i) /\ Contents(disk1, i) = Contents(disk, i))
                 PROVE  i \in MayDestroy(w)
    BY <1>2 DEF Spares
  <2>2. IsNamed(disk1, i)
    BY <1>4, <2>1, HddAssumption DEF IsNamed, KeepsNames
  <2>3. i = At(disk, n) /\ At(disk, n) # Nil
    BY <1>4, <2>1, <2>2, HddAssumption
  <2>4. w \in overtaken
    BY <1>1, <2>3 DEF Checked, n
  <2> QED
    BY <1>1, <2>3, <2>4 DEF MayDestroy, n
<1>6. Step(w, Closed, disk1)
  BY <1>1, <1>2, <1>4, <1>5, ClosedOK DEF Step
<1>7. At(disk, n) \in Inode \union {Nil}
  BY <1>1, <1>2, LookupType, HddAssumption DEF At, Tree
<1>8. Bystands(w, Closed, disk1)
  BY <1>1, <1>2, <1>4, <1>7, ClosedOK DEF Bystands, Copying
<1> QED
  BY <1>6, <1>8

LEMMA rename_fileStep ==
    ASSUME HddInv, NEW w \in Window, NEW old \in win[w].files, NEW new \in Typed,
           rename_file(w, old, new)
    PROVE  \E next, disk1 : Step(w, next, disk1) /\ Bystands(w, next, disk1)
<1> DEFINE next == [win[w] EXCEPT !.pc = "rename", !.name = old, !.target = new]
<1>1. /\ win[w].pc = "ask" /\ win[w].tool = "rename_file" /\ commands' = commands
      /\ undisturbed' = undisturbed /\ RecOK(win[w]) /\ new \in Name /\ old \in Name
  BY HddAssumption DEF rename_file, Asks, Quietly, HddInv, RecOK, Rec
<1>2. CASE At(disk, new) # Nil
  <2>1. Step(w, Closed, disk)
    BY <1>1, <1>2, LookExits DEF rename_file
  <2>2. Bystands(w, Closed, disk)
    BY <1>1, ClosedOK DEF Bystands, Copying
  <2> QED
    BY <2>1, <2>2
<1>3. CASE At(disk, new) = Nil
  <2>1. /\ RecOK(next) /\ Opens(next, disk) /\ Checked(next, disk) /\ ~Copying(next)
        /\ Makes(win[w])
    BY <1>1, <1>3 DEF RecOK, Rec, Opens, Checked, Copying, Makes
  <2>2. Becomes(w, next, disk)
    BY <1>3 DEF rename_file
  <2> HIDE DEF next
  <2>3. Step(w, next, disk)
    BY <1>1, <2>1, <2>2, LookStep
  <2>4. Bystands(w, next, disk)
    BY <1>1, <2>1 DEF Bystands, Copying
  <2> QED
    BY <2>3, <2>4
<1> QED
  BY <1>2, <1>3

\* A step that moves a name: what it replaces is all that goes.
LEMMA MoveStep ==
    ASSUME HddInv, NEW w \in Window, NEW dir \in Inode \union {Nil},
           dir \in {Root, Nil} \/ \E k \in Name : dir = At(disk, k),
           NEW n \in Name, NEW m \in Name,
           win[w].pc \in {"rename", "move"}, Exits(w, rename(disk, n, dir, m)),
           UNCHANGED <<commands, undisturbed>>,
           Lookup(disk, dir, m) # Nil => Lookup(disk, dir, m) \in MayDestroy(w)
    PROVE  \E next, disk1 : Step(w, next, disk1) /\ Bystands(w, next, disk1)
<1> DEFINE disk1 == rename(disk, n, dir, m)
<1>1. /\ commands' = commands /\ commands \in 0..MaxCommands /\ Becomes(w, Closed, disk1)
      /\ Tree(disk) /\ Closed # win[w]
  BY DEF Exits, HddInv, Closed
<1> HIDE DEF disk1
<1>2. /\ Follows(disk, disk1) /\ Used(disk1) \subseteq Used(disk)
      /\ \A i \in Inode : Contents(disk1, i) = Contents(disk, i)
      /\ \A i \in Inode : IsNamed(disk, i) => IsNamed(disk1, i) \/ i = Lookup(disk, dir, m)
  BY <1>1, RenameMoves DEF disk1
<1>3. Spares(w, Closed, disk1)
  BY <1>1, <1>2, HddAssumption DEF Spares
<1>4. Step(w, Closed, disk1)
  BY <1>1, <1>2, <1>3, ClosedOK DEF Step
<1>5. Bystands(w, Closed, disk1)
  BY <1>2, ClosedOK DEF Bystands, Copying
<1> QED
  BY <1>4, <1>5

LEMMA RenamesStep ==
    ASSUME HddInv, NEW w \in Window, RenamesIt(w)
    PROVE  \E next, disk1 : Step(w, next, disk1) /\ Bystands(w, next, disk1)
<1>1. /\ win[w].pc = "rename" /\ Exits(w, rename(disk, win[w].name, Root, win[w].target))
      /\ UNCHANGED <<commands, undisturbed>>
  BY DEF RenamesIt, Quietly
<1>2. RecOK(win[w]) /\ (w \notin overtaken => Checked(win[w], disk))
  BY DEF HddInv
<1>3. win[w].name \in Name /\ win[w].target \in Name /\ Root \in Inode
  BY <1>1, <1>2, HddAssumption DEF RecOK
<1>4. Lookup(disk, Root, win[w].target) # Nil => Lookup(disk, Root, win[w].target) \in MayDestroy(w)
  BY <1>1, <1>2 DEF Checked, MayDestroy, At
<1> QED
  BY <1>1, <1>3, <1>4, MoveStep

LEMMA MovesStep ==
    ASSUME HddInv, NEW w \in Window, MovesIt(w)
    PROVE  \E next, disk1 : Step(w, next, disk1) /\ Bystands(w, next, disk1)
<1> DEFINE dir == At(disk, win[w].target)
<1>1. /\ win[w].pc = "move" /\ Exits(w, rename(disk, win[w].name, dir, win[w].name))
      /\ UNCHANGED <<commands, undisturbed>>
  BY DEF MovesIt, Quietly
<1>2. win[w].name \in Name /\ win[w].target \in Name
  BY <1>1 DEF HddInv, RecOK
<1>3. dir \in Inode \union {Nil} /\ \E k \in Name : dir = At(disk, k)
  BY <1>2, LookupType, HddAssumption DEF At, HddInv, Tree
<1>4. Lookup(disk, dir, win[w].name) \in MayDestroy(w)
  BY <1>1 DEF MayDestroy
<1> HIDE DEF dir
<1> QED
  BY <1>1, <1>2, <1>3, <1>4, MoveStep

LEMMA delete_fileStep ==
    ASSUME HddInv, NEW w \in Window, NEW n \in win[w].files, delete_file(w, n)
    PROVE  \E next, disk1 : Step(w, next, disk1) /\ Bystands(w, next, disk1)
<1> DEFINE disk1 == remove(disk, n)
<1>1. /\ win[w].pc = "ask" /\ win[w].tool = "delete_file" /\ commands' = commands
      /\ undisturbed' = undisturbed /\ commands \in 0..MaxCommands /\ Tree(disk)
      /\ Exits(w, disk1) \/ Exits(w, disk)
      /\ n \in Name
  BY DEF delete_file, Asks, Quietly, HddInv, RecOK, Rec
<1>2. CASE Exits(w, disk)
  <2>1. Step(w, Closed, disk)
    BY <1>1, <1>2, LookExits
  <2>2. Bystands(w, Closed, disk)
    BY <1>1, ClosedOK DEF Bystands, Copying
  <2> QED
    BY <2>1, <2>2
<1>3. CASE Exits(w, disk1)
  <2>1. Becomes(w, Closed, disk1) /\ Closed # win[w] /\ At(disk, n) \in MayDestroy(w)
    BY <1>1, <1>3 DEF Exits, Closed, MayDestroy
  <2> HIDE DEF disk1
  <2>2. /\ Follows(disk, disk1) /\ Used(disk1) \subseteq Used(disk)
        /\ \A i \in Inode : Contents(disk1, i) = Contents(disk, i)
        /\ \A i \in Inode : IsNamed(disk, i) => IsNamed(disk1, i) \/ i = At(disk, n)
    BY <1>1, RemoveUnlinks DEF disk1
  <2>3. Spares(w, Closed, disk1)
    BY <2>1, <2>2 DEF Spares
  <2>4. Step(w, Closed, disk1)
    BY <1>1, <2>1, <2>2, <2>3, ClosedOK DEF Step
  <2>5. Bystands(w, Closed, disk1)
    BY <1>1, <2>2, ClosedOK DEF Bystands, Copying
  <2> QED
    BY <2>4, <2>5
<1> QED
  BY <1>1, <1>2, <1>3

\* A step that keeps all names and all data but of one file.
LEMMA FillStep ==
    ASSUME HddInv, NEW w \in Window, NEW next, NEW disk1, NEW x,
           Becomes(w, next, disk1), Follows(disk, disk1), KeepsNames(disk, disk1),
           \A i \in Inode : i # x => Contents(disk1, i) = Contents(disk, i),
           x \in Inode => next # win[w] /\ x \in MayDestroy(w),
           RecOK(next), Opens(next, disk1), Checked(next, disk1),
           \/ commands' = commands /\ (Makes(next) => Makes(win[w])) /\ Used(disk1) \subseteq Used(disk)
           \/ commands' = commands /\ ~Makes(next) /\ Makes(win[w])
           \/ commands' = commands + 1 /\ commands < MaxCommands /\ ~Makes(next)
    PROVE  Step(w, next, disk1)
<1>1. Spares(w, next, disk1)
  <2>1. \A i \in Inode : IsNamed(disk, i) => IsNamed(disk1, i)
    BY HddAssumption DEF IsNamed, KeepsNames
  <2> QED
    BY <2>1 DEF Spares
<1>2. commands' \in 0..MaxCommands /\ commands \in 0..MaxCommands
  BY HddAssumption DEF HddInv
<1> QED
  BY <1>1, <1>2 DEF Step

LEMMA move_fileStep ==
    ASSUME HddInv, NEW w \in Window, NEW n \in win[w].files, NEW folder \in Typed,
           move_file(w, n, folder)
    PROVE  \E next, disk1 : Step(w, next, disk1) /\ Bystands(w, next, disk1)
<1> DEFINE next == [win[w] EXCEPT !.pc = "move", !.name = n, !.target = folder]
           disk1 == mkdir(disk, folder)
<1>1. /\ win[w].pc = "ask" /\ win[w].tool = "move_file" /\ commands' = commands
      /\ undisturbed' = undisturbed /\ RecOK(win[w]) /\ folder \in Name /\ n \in Name
      /\ Becomes(w, next, disk1) /\ Tree(disk)
  BY HddAssumption DEF move_file, Asks, Quietly, HddInv, RecOK, Rec
<1>2. /\ RecOK(next) /\ \A d : Opens(next, d) /\ Checked(next, d)
      /\ ~Copying(next) /\ Makes(win[w]) /\ ~Makes(next)
  BY <1>1 DEF RecOK, Rec, Opens, Checked, Copying, Makes
<1>3. HasRoom(disk)
  BY <1>2, RoomForOne DEF Makers
<1> HIDE DEF next, disk1
<1>4. /\ Follows(disk, disk1) /\ KeepsNames(disk, disk1)
      /\ \A i \in Inode : Contents(disk1, i) = Contents(disk, i)
  BY <1>1, <1>3, MkdirMakes DEF disk1
<1>5. Step(w, next, disk1)
  BY <1>1, <1>2, <1>4, HddAssumption, FillStep
<1>6. Bystands(w, next, disk1)
  BY <1>1, <1>2, <1>4 DEF Bystands, Copying
<1> QED
  BY <1>5, <1>6

LEMMA ReadsStep ==
    ASSUME HddInv, NEW w \in Window, Reads(w) \/ LeavesTerminal(w) \/ ClosesBoth(w)
    PROVE  \E next, disk1 : Step(w, next, disk1) /\ Bystands(w, next, disk1)
<1>1. /\ Exits(w, disk) /\ commands' = commands /\ undisturbed' = undisturbed
      /\ win[w].pc \in {"ask", "close"}
  BY DEF Reads, LeavesTerminal, ClosesBoth, Asks, Quietly
<1>2. Step(w, Closed, disk)
  BY <1>1, LookExits
<1>3. Bystands(w, Closed, disk)
  BY <1>1, ClosedOK DEF Bystands, Copying
<1> QED
  BY <1>2, <1>3

LEMMA OpensSourceStep ==
    ASSUME HddInv, NEW w \in Window, NEW tool \in Tool, NEW n \in win[w].files,
           OpensSource(w, tool, n)
    PROVE  \E next, disk1 : Step(w, next, disk1) /\ Bystands(w, next, disk1)
<1> DEFINE next == [win[w] EXCEPT !.pc = "open", !.src = At(disk, n), !.target = Target(tool, n)]
<1>1. /\ win[w].pc = "ask" /\ win[w].tool = tool /\ tool \in {"copy_file", "file_compression"}
      /\ commands' = commands /\ undisturbed' = undisturbed \union {w}
      /\ Tree(disk) /\ RecOK(win[w]) /\ n \in Name /\ Len(n) <= MaxEndings
      /\ Becomes(w, next, disk)
  BY DEF OpensSource, Asks, HddInv, RecOK, Rec
<1>2. Target(tool, n) \in Name
  BY <1>1, HddAssumption DEF Target, name_copy, name_neb
<1>3. /\ At(disk, n) \in Inode \union {Nil}
      /\ At(disk, n) # Nil => disk[At(disk, n)].kind # "free"
  BY <1>1, LookupType, HddAssumption DEF At, Tree
<1>4. /\ RecOK(next) /\ Opens(next, disk) /\ Checked(next, disk)
      /\ ~Copying(next) /\ Makes(win[w])
  BY <1>1, <1>2, <1>3 DEF RecOK, Rec, Opens, Checked, Copying, Makes
<1> HIDE DEF next
<1>5. Step(w, next, disk)
  BY <1>1, <1>4, LookStep
<1>6. Bystands(w, next, disk)
  BY <1>1, <1>4 DEF Bystands, Copying
<1> QED
  BY <1>5, <1>6

LEMMA FollowsOn ==
    ASSUME NEW d, NEW e, NEW f, Follows(d, e), Follows(e, f),
           Used(e) \subseteq Used(d), Used(f) \subseteq Used(e)
    PROVE  Follows(d, f) /\ Used(f) \subseteq Used(d)
<1>1. \A i \in Inode : d[i].kind # "free" => f[i].kind = d[i].kind
  BY DEF Follows
<1>2. \A i \in Inode : f[i].kind # "free" => d[i].kind # "free"
  BY DEF Used
<1> QED
  BY <1>1, <1>2, HddAssumption DEF Follows

LEMMA CompressesStep ==
    ASSUME HddInv, NEW w \in Window, CompressesIt(w)
    PROVE  \E next, disk1 : Step(w, next, disk1) /\ Bystands(w, next, disk1)
<1> DEFINE next == [win[w] EXCEPT !.pc = "close"]
           dst == win[w].dst
           text == Compressed(Contents(disk, win[w].src))
           first == write(disk, dst, 1, text[1])
           disk1 == IF Len(text) = 1 THEN first ELSE write(first, dst, 2, text[2])
<1>1. /\ win[w].pc = "read" /\ win[w].tool = "file_compression"
      /\ Disturbs(w, dst) /\ commands' = commands /\ Tree(disk)
      /\ RecOK(win[w]) /\ Opens(win[w], disk)
      /\ Becomes(w, next, disk1)
  BY DEF CompressesIt, HddInv
<1>2. /\ text[1] = "[NEBULA_COMPRESSED]" /\ (Len(text) = 1 \/ text[2] = "half")
      /\ text[1] \in Datum /\ (Len(text) # 1 => text[2] \in Datum)
  BY DEF Compressed, Datum
<1>3. dst \in Inode /\ disk[dst].kind = "file" /\ dst # Nil
  BY <1>1 DEF RecOK, Rec, Opens
<1> HIDE DEF dst, text, first, disk1
<1>4. /\ Follows(disk, first) /\ Used(first) \subseteq Used(disk)
      /\ KeepsNames(disk, first) /\ first[dst].kind = "file" /\ Tree(first)
      /\ \A i \in Inode : i # dst => Contents(first, i) = Contents(disk, i)
  <2>1. first = write(disk, dst, 1, text[1]) /\ 1 \in Nat \ {0} /\ text[1] \in Datum
    BY <1>2 DEF first
  <2>2. /\ Follows(disk, first) /\ Used(first) \subseteq Used(disk)
        /\ KeepsNames(disk, first) /\ first[dst].kind = "file"
        /\ \A i \in Inode : i # dst => Contents(first, i) = Contents(disk, i)
    <3>1. Tree(disk) /\ dst \in Inode /\ disk[dst].kind = "file"
      BY <1>1, <1>3
    <3> QED
      BY <2>1, <3>1, WriteFills
  <2> QED
    BY <2>2 DEF Follows
<1>5. ASSUME Len(text) # 1
      PROVE  /\ Follows(first, disk1) /\ Used(disk1) \subseteq Used(first)
             /\ KeepsNames(first, disk1)
             /\ \A i \in Inode : i # dst => Contents(disk1, i) = Contents(first, i)
  BY <1>2, <1>3, <1>4, <1>5, WriteFills DEF disk1
<1>6. /\ Follows(disk, disk1) /\ Used(disk1) \subseteq Used(disk) /\ KeepsNames(disk, disk1)
      /\ \A i \in Inode : i # dst => Contents(disk1, i) = Contents(disk, i)
  <2>1. CASE Len(text) = 1
    BY <1>4, <2>1 DEF disk1
  <2>2. CASE Len(text) # 1
    <3>1. Follows(disk, disk1) /\ Used(disk1) \subseteq Used(disk)
      BY <1>4, <1>5, <2>2, FollowsOn
    <3>2. KeepsNames(disk, disk1)
      BY <1>4, <1>5, <2>2 DEF KeepsNames
    <3> QED
      BY <1>4, <1>5, <2>2, <3>1, <3>2
  <2> QED
    BY <2>1, <2>2
<1>7. /\ RecOK(next) /\ Opens(next, disk1) /\ Checked(next, disk1)
      /\ ~Copying(next) /\ ~Makes(next) /\ next # win[w]
  <2>1. Opens(next, disk1)
    <3>1. next.src = win[w].src /\ next.dst = win[w].dst
          /\ win[w].src \in Inode \union {Nil} /\ win[w].dst \in Inode \union {Nil}
      BY <1>1 DEF RecOK, Rec
    <3> QED
      BY <1>1, <1>6, <3>1 DEF Opens, Follows
  <2> QED
    BY <1>1, <2>1 DEF RecOK, Rec, Checked, Copying, Makes
<1>8. dst \in MayDestroy(w)
  BY <1>1 DEF MayDestroy, dst
<1> HIDE DEF next
<1>9. Step(w, next, disk1)
  BY <1>1, <1>3, <1>6, <1>7, <1>8, FillStep
<1>10. Bystands(w, next, disk1)
  BY <1>1, <1>3, <1>6, <1>7 DEF Bystands, Copying
<1> QED
  BY <1>9, <1>10

LEMMA cmd_mkdirStep ==
    ASSUME HddInv, NEW w \in Window, NEW n \in Typed, cmd_mkdir(w, n)
    PROVE  \E next, disk1 : Step(w, next, disk1) /\ Bystands(w, next, disk1)
<1> DEFINE disk1 == mkdir(disk, n)
<1>1. /\ win[w].pc = "ask" /\ win[w].tool = "mini_terminal" /\ commands' = commands + 1
      /\ commands < MaxCommands /\ undisturbed' = undisturbed /\ RecOK(win[w])
      /\ n \in Name /\ Becomes(w, win[w], disk1) /\ Tree(disk)
  BY HddAssumption DEF cmd_mkdir, Commands, Quietly, HddInv
<1>2. /\ \A d : Opens(win[w], d) /\ Checked(win[w], d)
      /\ ~Copying(win[w]) /\ ~Makes(win[w])
  BY <1>1 DEF RecOK, Opens, Checked, Copying, Makes
<1>3. HasRoom(disk)
  BY <1>1, RoomForOne
<1> HIDE DEF disk1
<1>4. /\ Follows(disk, disk1) /\ KeepsNames(disk, disk1)
      /\ \A i \in Inode : Contents(disk1, i) = Contents(disk, i)
  BY <1>1, <1>3, MkdirMakes DEF disk1
<1>5. Step(w, win[w], disk1)
  BY <1>1, <1>2, <1>4, HddAssumption, FillStep
<1>6. Bystands(w, win[w], disk1)
  BY <1>1, <1>2, <1>4 DEF Bystands
<1> QED
  BY <1>5, <1>6

\* What fopen for writing makes of the disk, if there is room.
LEMMA OpensFile ==
    ASSUME HddInv, NEW w \in Window, NEW n \in Name, HasRoom(disk)
    PROVE  /\ Follows(disk, truncate(disk, n)) /\ KeepsNames(disk, truncate(disk, n))
           /\ At(disk, n) \in Inode \union {Nil}
           /\ \A i \in Inode : i # At(disk, n) =>
                 Contents(truncate(disk, n), i) = Contents(disk, i)
           /\ IF OpensForWriting(disk, n)
              THEN /\ At(truncate(disk, n), n) \in Inode
                   /\ truncate(disk, n)[At(truncate(disk, n), n)].kind = "file"
              ELSE truncate(disk, n) = disk
<1>1. Tree(disk) /\ Root \in Inode /\ Nil \notin Inode
  BY HddAssumption DEF HddInv
<1>2. At(disk, n) \in Inode \union {Nil}
  BY <1>1, LookupType DEF At, Tree
<1>3. ~OpensForWriting(disk, n) => truncate(disk, n) = disk
  BY DEF OpensForWriting, truncate, IsDir
<1> QED
  BY <1>1, <1>2, <1>3, TruncateEmpties

LEMMA cmd_echoStep ==
    ASSUME HddInv, NEW w \in Window, NEW n \in Typed, cmd_echo(w, n)
    PROVE  \E next, disk1 : Step(w, next, disk1) /\ Bystands(w, next, disk1)
<1> DEFINE disk1 == truncate(disk, n)
           echo == [win[w] EXCEPT !.pc = "echo", !.dst = At(disk1, n)]
<1>1. /\ win[w].pc = "ask" /\ win[w].tool = "mini_terminal" /\ commands' = commands + 1
      /\ commands < MaxCommands /\ Disturbs(w, At(disk, n)) /\ RecOK(win[w])
      /\ n \in Name /\ Becomes(w, IF OpensForWriting(disk, n) THEN echo ELSE win[w], disk1)
      /\ Tree(disk)
  BY HddAssumption DEF cmd_echo, Commands, HddInv
<1>2. HasRoom(disk)
  BY <1>1, RoomForOne
<1>3. At(disk, n) \in MayDestroy(w)
  BY <1>1 DEF MayDestroy
<1>4. CASE OpensForWriting(disk, n)
  <2> HIDE DEF disk1
  <2>1. /\ Follows(disk, disk1) /\ KeepsNames(disk, disk1) /\ At(disk, n) \in Inode \union {Nil}
        /\ \A i \in Inode : i # At(disk, n) => Contents(disk1, i) = Contents(disk, i)
        /\ At(disk1, n) \in Inode /\ disk1[At(disk1, n)].kind = "file"
    BY <1>1, <1>2, <1>4, OpensFile DEF disk1
  <2>2. /\ RecOK(echo) /\ Opens(echo, disk1) /\ Checked(echo, disk1)
        /\ ~Copying(echo) /\ ~Makes(echo) /\ echo # win[w] /\ ~Copying(win[w])
    BY <1>1, <2>1, HddAssumption DEF RecOK, Rec, Opens, Checked, Copying, Makes
  <2> HIDE DEF echo
  <2>3. Becomes(w, echo, disk1)
    BY <1>1, <1>4
  <2>4. Step(w, echo, disk1)
    BY <1>1, <1>3, <2>1, <2>2, <2>3, FillStep
  <2>5. Bystands(w, echo, disk1)
    BY <1>1, <2>1, <2>2 DEF Bystands
  <2> QED
    BY <2>4, <2>5
<1>5. CASE ~OpensForWriting(disk, n)
  <2>1. Becomes(w, win[w], disk) /\ At(disk, n) \in Inode \union {Nil}
    BY <1>1, <1>2, <1>5, OpensFile
  <2>2. /\ Opens(win[w], disk) /\ Checked(win[w], disk) /\ ~Copying(win[w])
    BY <1>1 DEF RecOK, Opens, Checked, Copying
  <2>3. Step(w, win[w], disk)
    BY <1>1, <2>1, <2>2, LookStep
  <2>4. Bystands(w, win[w], disk)
    BY <1>1, <2>1, <2>2 DEF Bystands
  <2> QED
    BY <2>3, <2>4
<1> QED
  BY <1>4, <1>5

\* What a window writes to the file it has open.
LEMMA WriteStep ==
    ASSUME HddInv, NEW w \in Window, win[w].dst # Nil,
           win[w].pc \in {"write", "flush", "echo"},
           NEW at \in Nat \ {0}, NEW block \in Datum, NEW next,
           Becomes(w, next, write(disk, win[w].dst, at, block)), UNCHANGED commands,
           RecOK(next), next.src = win[w].src, next.dst \in {win[w].dst, Nil},
           next.pc \in {"ask", "read", "close"}, next.pc = "ask" => next.tool = "mini_terminal"
    PROVE  /\ Step(w, next, write(disk, win[w].dst, at, block))
           /\ \A i \in Inode : i # win[w].dst =>
                 Contents(write(disk, win[w].dst, at, block), i) = Contents(disk, i)
<1> DEFINE disk1 == write(disk, win[w].dst, at, block)
<1>1. /\ Tree(disk) /\ RecOK(win[w]) /\ Opens(win[w], disk) /\ commands' = commands
      /\ Becomes(w, next, disk1)
  BY DEF HddInv
<1>2. /\ win[w].dst \in Inode /\ disk[win[w].dst].kind = "file"
      /\ win[w].src \in Inode \union {Nil}
  BY <1>1 DEF RecOK, Rec, Opens
<1> HIDE DEF disk1
<1>3. /\ Follows(disk, disk1) /\ Used(disk1) \subseteq Used(disk) /\ KeepsNames(disk, disk1)
      /\ disk1[win[w].dst].kind = "file"
      /\ \A i \in Inode : i # win[w].dst => Contents(disk1, i) = Contents(disk, i)
  BY <1>1, <1>2, WriteFills DEF disk1
<1>4. Opens(next, disk1) /\ Checked(next, disk1)
  BY <1>1, <1>2, <1>3, HddAssumption DEF Opens, Follows, Checked
<1>5. next # win[w] /\ ~Makes(next) /\ win[w].dst \in MayDestroy(w)
  BY DEF Makes, MayDestroy
<1>6. Step(w, next, disk1)
  BY <1>1, <1>3, <1>4, <1>5, FillStep
<1> QED
  BY <1>3, <1>6 DEF disk1

LEMMA EchoClosesStep ==
    ASSUME HddInv, NEW w \in Window, EchoCloses(w)
    PROVE  \E next, disk1 : Step(w, next, disk1) /\ Bystands(w, next, disk1)
<1> DEFINE next == [win[w] EXCEPT !.pc = "ask", !.dst = Nil]
           block == "echoed"
           disk1 == write(disk, win[w].dst, 1, block)
<1>1. /\ win[w].pc = "echo" /\ Disturbs(w, win[w].dst) /\ commands' = commands
      /\ RecOK(win[w]) /\ Becomes(w, next, disk1)
  BY DEF EchoCloses, HddInv
<1>2. /\ win[w].dst # Nil /\ win[w].dst \in Inode /\ win[w].tool = "mini_terminal"
  BY <1>1 DEF RecOK, Rec
<1>3. /\ RecOK(next) /\ next.src = win[w].src /\ next.dst = Nil /\ next.pc = "ask"
      /\ next.tool = "mini_terminal" /\ ~Copying(next)
  BY <1>1, <1>2 DEF RecOK, Rec, Copying
<1>4. block \in Datum /\ 1 \in Nat \ {0}
  BY DEF Datum
<1> HIDE DEF next, block
<1>5. /\ Step(w, next, disk1)
      /\ \A i \in Inode : i # win[w].dst => Contents(disk1, i) = Contents(disk, i)
  BY <1>1, <1>2, <1>3, <1>4, WriteStep
<1>6. Bystands(w, next, disk1)
  BY <1>1, <1>2, <1>3, <1>5 DEF Bystands, Copying
<1> QED
  BY <1>5, <1>6

\* Where the window is when both files are open, or one could not be opened.
Aimed(w) ==
    IF win[w].src # Nil /\ OpensForWriting(disk, win[w].target)
    THEN [win[w] EXCEPT !.pc = "read",
                        !.dst = At(truncate(disk, win[w].target), win[w].target)]
    ELSE Closed

LEMMA OpensTargetStep ==
    ASSUME HddInv, NEW w \in Window, OpensTarget(w)
    PROVE  /\ Step(w, Aimed(w), truncate(disk, win[w].target))
           /\ win[w].target \in Name /\ HasRoom(disk) /\ win[w].at = 0
<1> DEFINE n == win[w].target
           disk1 == truncate(disk, n)
           next == Aimed(w)
<1>1. /\ win[w].pc = "open" /\ commands' = commands /\ Becomes(w, next, disk1)
      /\ RecOK(win[w]) /\ Opens(win[w], disk)
  BY DEF OpensTarget, Aimed, Exits, HddInv
<1>2. /\ n \in Name /\ win[w].at = 0 /\ Makes(win[w]) /\ win[w].src \in Inode \union {Nil}
  BY <1>1 DEF RecOK, Rec, Makes
<1>3. HasRoom(disk)
  BY <1>2, RoomForOne DEF Makers
<1>4. At(disk, n) \in MayDestroy(w)
  BY <1>1 DEF MayDestroy
<1>5. /\ Follows(disk, disk1) /\ KeepsNames(disk, disk1) /\ At(disk, n) \in Inode \union {Nil}
      /\ \A i \in Inode : i # At(disk, n) => Contents(disk1, i) = Contents(disk, i)
      /\ OpensForWriting(disk, n) => At(disk1, n) \in Inode /\ disk1[At(disk1, n)].kind = "file"
  <2> HIDE DEF n
  <2> QED
    BY <1>2, <1>3, OpensFile
<1>6. /\ RecOK(next) /\ Opens(next, disk1) /\ Checked(next, disk1)
      /\ ~Makes(next) /\ next # win[w]
  <2>1. CASE win[w].src # Nil /\ OpensForWriting(disk, n)
    <3>1. next = [win[w] EXCEPT !.pc = "read", !.dst = At(disk1, n)]
      BY <2>1 DEF Aimed
    <3> HIDE DEF next, disk1, n
    <3>2. /\ next.src = win[w].src /\ next.dst = At(disk1, n) /\ next.pc = "read"
          /\ At(disk1, n) \in Inode /\ disk1[At(disk1, n)].kind = "file"
      BY <1>1, <1>5, <2>1, <3>1 DEF RecOK, Rec
    <3>3. RecOK(next)
      BY <1>1, <2>1, <3>1, <3>2, HddAssumption DEF RecOK, Rec
    <3>4. Opens(next, disk1)
      BY <1>1, <1>2, <1>5, <3>2 DEF Opens, Follows
    <3> QED
      BY <1>1, <3>2, <3>3, <3>4 DEF Checked, Makes
  <2>2. CASE ~(win[w].src # Nil /\ OpensForWriting(disk, n))
    <3>1. next = Closed
      BY <2>2 DEF Aimed
    <3>2. Closed # win[w]
      BY <1>1 DEF Closed
    <3> QED
      BY <3>1, <3>2, ClosedOK
  <2> QED
    BY <2>1, <2>2
<1> HIDE DEF n, disk1, next
<1>7. Step(w, next, disk1)
  BY <1>1, <1>2, <1>4, <1>5, <1>6, FillStep
<1> QED
  BY <1>2, <1>3, <1>7 DEF n, disk1, next

\* Where fread brings the window.
Holding(r, text, pc) == [r EXCEPT !.pc = pc, !.at = r.at + 1, !.buffer = text[r.at + 1]]

ReadOn(r, text, next) ==
    \/ r.at + 1 <= Len(text) /\ next = Holding(r, text, "write")
    \/ r.at + 1 = Len(text) /\ next = Holding(r, text, "flush")
    \/ r.at + 1 > Len(text) /\ next = [r EXCEPT !.pc = "close"]

LEMMA ReadsBlockStep ==
    ASSUME HddInv, NEW w \in Window, ReadsBlock(w)
    PROVE  \E next : Step(w, next, disk) /\ ReadOn(win[w], Contents(disk, win[w].src), next)
<1> DEFINE text == Contents(disk, win[w].src)
<1>1. /\ win[w].pc = "read" /\ win[w].tool = "copy_file" /\ commands' = commands
      /\ RecOK(win[w]) /\ Opens(win[w], disk) /\ disk \in Disks
  BY DEF ReadsBlock, HddInv, Tree
<1>2. PICK next : Becomes(w, next, disk) /\ ReadOn(win[w], text, next)
  BY DEF ReadsBlock, ReadOn, Holding
<1>3. text \in Seq(Datum) /\ win[w].at \in Nat /\ win[w].src # Nil
  <2>1. win[w].src \in Inode /\ win[w].at \in Nat
    BY <1>1 DEF RecOK, Rec
  <2>2. disk[win[w].src] \in Thing
    BY <1>1, <2>1 DEF Disks
  <2> QED
    BY <2>1, <2>2, ThingKinds, HddAssumption DEF Contents, IsFile, Texts
<1> HIDE DEF text
<1>4. /\ next.src = win[w].src /\ next.dst = win[w].dst /\ next.pc \in {"write", "flush", "close"}
      /\ next.tool = win[w].tool /\ next \in Rec
      /\ next.pc \in {"write", "flush"} => next.at # 0 /\ next.buffer \in Datum
  <2>1. ASSUME NEW pc \in {"write", "flush"}, win[w].at + 1 <= Len(text),
               next = Holding(win[w], text, pc)
        PROVE  /\ next.src = win[w].src /\ next.dst = win[w].dst /\ next.pc = pc
               /\ next.tool = win[w].tool /\ next \in Rec
               /\ next.at # 0 /\ next.buffer \in Datum
    <3>1. text[win[w].at + 1] \in Datum
      BY <1>3, <2>1
    <3>2. next = [win[w] EXCEPT !.pc = pc, !.at = win[w].at + 1, !.buffer = text[win[w].at + 1]]
      BY <2>1 DEF Holding
    <3> DEFINE block == text[win[w].at + 1]
               at == win[w].at + 1
    <3>3. win[w] \in Rec /\ at \in Nat /\ at # 0
      BY <1>1, <1>3 DEF RecOK
    <3>4. block \in Datum /\ next = [win[w] EXCEPT !.pc = pc, !.at = at, !.buffer = block]
      BY <3>1, <3>2
    <3> HIDE DEF block, at
    <3> QED
      BY <3>3, <3>4 DEF Rec
  <2>2. CASE next = [win[w] EXCEPT !.pc = "close"]
    BY <1>1, <2>2 DEF RecOK, Rec
  <2> QED
    BY <1>2, <1>3, <2>1, <2>2 DEF ReadOn
<1>5. RecOK(next) /\ Opens(next, disk) /\ Checked(next, disk) /\ ~Makes(next)
  BY <1>1, <1>4 DEF RecOK, Opens, Checked, Makes
<1>6. Step(w, next, disk)
  BY <1>1, <1>2, <1>5, LookStep
<1> QED
  BY <1>2, <1>6 DEF text

LEMMA WritesBlockStep ==
    ASSUME HddInv, NEW w \in Window, WritesBlock(w)
    PROVE  Step(w, [win[w] EXCEPT !.pc = IF @ = "write" THEN "read" ELSE "close"],
                write(disk, win[w].dst, win[w].at, win[w].buffer))
<1> DEFINE next == [win[w] EXCEPT !.pc = IF @ = "write" THEN "read" ELSE "close"]
<1>1. /\ win[w].pc \in {"write", "flush"} /\ UNCHANGED commands /\ RecOK(win[w])
      /\ Becomes(w, next, write(disk, win[w].dst, win[w].at, win[w].buffer))
  BY DEF WritesBlock, HddInv
<1>2. /\ win[w].dst # Nil /\ win[w].at \in Nat \ {0} /\ win[w].buffer \in Datum
  BY <1>1 DEF RecOK, Rec
<1>3. /\ RecOK(next) /\ next.src = win[w].src /\ next.dst = win[w].dst
      /\ next.pc \in {"read", "close"}
  BY <1>1 DEF RecOK, Rec
<1> HIDE DEF next
<1>4. Step(w, next, write(disk, win[w].dst, win[w].at, win[w].buffer))
  BY <1>1, <1>2, <1>3, WriteStep
<1> QED
  BY <1>4 DEF next

LEMMA DiesStep ==
    ASSUME HddInv, NEW w \in Window, Dies(w)
    PROVE  Step(w, Closed, disk)
<1>1. Exits(w, disk) /\ UNCHANGED commands
  BY DEF Dies
<1> QED
  BY <1>1, LookExits

-----------------------------------------------------------------------------
(* The invariant *)

\* Every step of a window is one of these, and all but copy_file's stand by.
LEMMA EveryStep ==
    ASSUME HddInv, Next
    PROVE  \E w \in Window :
              \/ \E next, disk1 : Step(w, next, disk1) /\ Bystands(w, next, disk1)
              \/ OpensTarget(w) \/ ReadsBlock(w) \/ WritesBlock(w) \/ Dies(w)
<1>1. PICK w \in Window : Dialogue(w) \/ Acts(w)
  BY DEF Next
<1> DEFINE Stands == \E next, disk1 : Step(w, next, disk1) /\ Bystands(w, next, disk1)
<1>2. ASSUME Dialogue(w) PROVE Stands \/ Dies(w)
  <2>1. ASSUME NEW tool \in Tool, Start(w, tool) PROVE Stands
    BY <2>1, StartStep
  <2>2. ASSUME NEW n \in Typed, create_file(w, n) PROVE Stands
    BY <2>2, create_fileStep
  <2>3. ASSUME NEW old \in win[w].files, NEW new \in Typed, rename_file(w, old, new) PROVE Stands
    BY <2>3, rename_fileStep
  <2>4. ASSUME NEW old \in win[w].files, NEW new \in Typed, move_file(w, old, new) PROVE Stands
    BY <2>4, move_fileStep
  <2>5. ASSUME NEW n \in win[w].files, delete_file(w, n) PROVE Stands
    BY <2>5, delete_fileStep
  <2>6. ASSUME NEW n \in win[w].files, NEW tool \in Tool, OpensSource(w, tool, n) PROVE Stands
    BY <2>6, OpensSourceStep
  <2>7. ASSUME Reads(w) \/ LeavesTerminal(w) PROVE Stands
    BY <2>7, ReadsStep
  <2>8. ASSUME NEW n \in Typed, cmd_mkdir(w, n) PROVE Stands
    BY <2>8, cmd_mkdirStep
  <2>9. ASSUME NEW n \in Typed, cmd_echo(w, n) PROVE Stands
    BY <2>9, cmd_echoStep
  <2> HIDE DEF Stands
  <2> QED
    BY <1>2, <2>1, <2>2, <2>3, <2>4, <2>5, <2>6, <2>7, <2>8, <2>9 DEF Dialogue
<1>3. ASSUME Acts(w)
      PROVE  Stands \/ OpensTarget(w) \/ ReadsBlock(w) \/ WritesBlock(w)
  <2>1. CreatesIt(w) => Stands
    BY CreatesStep
  <2>2. RenamesIt(w) => Stands
    BY RenamesStep
  <2>3. MovesIt(w) => Stands
    BY MovesStep
  <2>4. CompressesIt(w) => Stands
    BY CompressesStep
  <2>5. ClosesBoth(w) => Stands
    BY ReadsStep
  <2>6. EchoCloses(w) => Stands
    BY EchoClosesStep
  <2> HIDE DEF Stands
  <2> QED
    BY <1>3, <2>1, <2>2, <2>3, <2>4, <2>5, <2>6 DEF Acts
<1> QED
  BY <1>1, <1>2, <1>3

LEMMA SomeStep ==
    ASSUME HddInv, Next
    PROVE  \E w \in Window : \E next, disk1 : Step(w, next, disk1)
<1>1. PICK w \in Window :
              \/ \E next, disk1 : Step(w, next, disk1) /\ Bystands(w, next, disk1)
              \/ OpensTarget(w) \/ ReadsBlock(w) \/ WritesBlock(w) \/ Dies(w)
  BY EveryStep
<1>2. OpensTarget(w) => \E next, disk1 : Step(w, next, disk1)
  BY OpensTargetStep
<1>3. ReadsBlock(w) => \E next, disk1 : Step(w, next, disk1)
  BY ReadsBlockStep
<1>4. WritesBlock(w) => \E next, disk1 : Step(w, next, disk1)
  BY WritesBlockStep
<1>5. Dies(w) => \E next, disk1 : Step(w, next, disk1)
  BY DiesStep
<1> QED
  BY <1>1, <1>2, <1>3, <1>4, <1>5

\* The disk of a former session is small.
Small(d, k) == Tree(d) /\ Cardinality(Used(d)) <= k

LEMMA SmallHasRoom ==
    ASSUME NEW d, NEW k \in 0..3, Small(d, k)
    PROVE  HasRoom(d)
<1>1. d \in Disks
  BY DEF Small, Tree
<1>2. SUFFICES ASSUME \A i \in Inode : d[i] # Free PROVE FALSE
  BY DEF HasRoom
<1>3. Used(d) = Inode
  BY <1>1, <1>2, ThingKinds DEF Used, Disks
<1>4. Cardinality(Inode) \in Nat /\ Cardinality(Inode) >= MaxCommands + 4 /\ MaxCommands \in Nat
  BY HddAssumption, FS_CardinalityType
<1>5. Cardinality(Inode) <= k
  BY <1>3 DEF Small
<1> QED
  BY <1>4, <1>5

LEMMA SmallGrows ==
    ASSUME NEW d, NEW k \in 0..3, Small(d, k), NEW e, Follows(d, e)
    PROVE  Small(e, k + 1)
<1>1. PICK x \in Inode : \A i \in Inode : e[i].kind # "free" => d[i].kind # "free" \/ i = x
  BY DEF Follows
<1>2. Used(e) \subseteq Used(d) \union {x}
  BY <1>1 DEF Used
<1>3. IsFiniteSet(Used(d)) /\ Cardinality(Used(d)) \in Nat /\ Cardinality(Used(d)) <= k
  BY FewUsed DEF Small, Tree
<1>4. /\ IsFiniteSet(Used(d) \union {x}) /\ Cardinality(Used(d) \union {x}) \in Nat
      /\ Cardinality(Used(d) \union {x}) <= Cardinality(Used(d)) + 1
  BY <1>3, OneMore
<1>5. Cardinality(Used(e)) <= Cardinality(Used(d) \union {x}) /\ Cardinality(Used(e)) \in Nat
  BY <1>2, <1>4, FS_Subset, FS_CardinalityType
<1> QED
  BY <1>3, <1>4, <1>5 DEF Small, Follows

LEMMA FirstDisk == Small(init_storage(Nil), 1)
<1> DEFINE d == init_storage(Nil)
<1>1. d = [i \in Inode |-> IF i = Root THEN EmptyDir ELSE Free]
  BY DEF init_storage
<1> HIDE DEF d
<1>2. d \in Disks /\ Root \in Inode
  BY <1>1, HddAssumption DEF Disks, Thing, EmptyDir
<1>3. d[Root].kind = "dir" /\ \A i \in Inode \ {Root} : d[i].kind = "free"
  BY <1>1, <1>2 DEF EmptyDir, Free
<1>4. \A i \in Inode, n \in Name : Lookup(d, i, n) = Nil
  BY <1>1, <1>2, <1>3 DEF Lookup, IsDir, EmptyDir
<1>5. Tree(d)
  BY <1>2, <1>3, <1>4 DEF Tree
<1>6. Used(d) = {Root}
  BY <1>2, <1>3 DEF Used
<1>7. Cardinality({Root}) = 1
  BY FS_Singleton
<1> QED
  BY <1>5, <1>6, <1>7 DEF Small, d

LEMMA SmallTexts ==
    ASSUME NEW n, NEW text \in BoundedSeq(Block, n)
    PROVE  text \in Texts
<1>1. PICK k \in 0..n : text \in [1..k -> Block]
  BY DEF BoundedSeq, SeqOf
<1>2. k \in Nat /\ Block \subseteq Datum
  BY <1>1 DEF Datum
<1>3. text \in [1..k -> Datum]
  BY <1>1, <1>2
<1> QED
  BY <1>2, <1>3 DEF Texts

LEMMA FormerSmall ==
    ASSUME NEW text \in Texts, NEW other \in {Nil} \union Texts
    PROVE  Small(FormerDisk(text, other), 4)
<1> DEFINE nothing == init_storage(Nil)
           file == CHOOSE n \in Typed : TRUE
           folder == CHOOSE n \in Typed : n # file
           one == Made(nothing, file, File(text))
           two == Made(one, folder, EmptyDir)
           three == MadeIn(two, At(two, folder), file, File(other))
<1>1. /\ file \in Typed /\ folder \in Typed /\ folder # file
      /\ file \in Name /\ folder \in Name
      /\ Root \in Inode /\ Nil \notin Inode
  <2>1. file \in Typed
    BY HddAssumption
  <2>2. \E n \in Typed : n # file
    BY HddAssumption
  <2> HIDE DEF file
  <2>3. folder \in Typed /\ folder # file
    BY <2>2
  <2> QED
    BY <2>1, <2>3, HddAssumption
<1> HIDE DEF file, folder
<1>2. Small(nothing, 1) /\ HasRoom(nothing) /\ Tree(nothing)
  BY FirstDisk, SmallHasRoom DEF Small
<1>3. \A i \in Inode, n \in Name : Lookup(nothing, i, n) = Nil
  BY <1>1 DEF Lookup, IsDir, init_storage, EmptyDir, Free
<1>4. one = MadeIn(nothing, Root, file, File(text))
  BY DEF Made, MadeIn
<1>5. two = MadeIn(one, Root, folder, EmptyDir)
  BY DEF Made, MadeIn
<1>6. FormerDisk(text, other) = IF other = Nil THEN one ELSE three
  BY DEF FormerDisk, MadeIn, file, folder
<1> HIDE DEF nothing, one, two
<1>7. /\ Follows(nothing, one)
      /\ \A i \in Inode, m \in Name :
            Lookup(one, i, m) = IF i = Root /\ m = file THEN NewInode(nothing)
                                ELSE Lookup(nothing, i, m)
  <2>1. nothing[Root].kind = "dir"
    BY <1>2 DEF Tree
  <2>2. File(text) \in {EmptyDir} \union {File(t) : t \in Texts}
    OBVIOUS
  <2> QED
    BY <1>1, <1>2, <1>3, <1>4, <2>1, <2>2, MadeInAdds
<1>8. Small(one, 2) /\ HasRoom(one) /\ Tree(one) /\ one[Root].kind = "dir"
  <2>1. Small(one, 1 + 1)
    BY <1>2, <1>7, SmallGrows
  <2> QED
    BY <2>1, SmallHasRoom DEF Small, Tree
<1>9. /\ Follows(one, two) /\ NewInode(one) \in Inode /\ two[NewInode(one)] = EmptyDir
      /\ \A i \in Inode, m \in Name :
            Lookup(two, i, m) = IF i = Root /\ m = folder THEN NewInode(one)
                                ELSE Lookup(one, i, m)
  <2>1. Lookup(one, Root, folder) = Nil
    BY <1>1, <1>3, <1>7
  <2>2. EmptyDir \in {EmptyDir} \union {File(t) : t \in Texts}
    OBVIOUS
  <2> QED
    BY <1>1, <1>5, <1>8, <2>1, <2>2, MadeInAdds
<1>10. Small(two, 3) /\ HasRoom(two) /\ Tree(two)
  <2>1. Small(two, 2 + 1)
    BY <1>8, <1>9, SmallGrows
  <2> QED
    BY <2>1, SmallHasRoom DEF Small
<1>11. ASSUME other # Nil PROVE Small(three, 4)
  <2> DEFINE dir == At(two, folder)
  <2>1. dir = NewInode(one)
    BY <1>1, <1>9 DEF At
  <2>2. dir \in Inode /\ two[dir] = EmptyDir /\ IsNamed(two, dir)
    BY <1>1, <1>9, <2>1 DEF IsNamed
  <2>3. two[dir].kind = "dir" /\ Lookup(two, dir, file) = Nil
    BY <1>1, <2>2 DEF EmptyDir, Lookup
  <2>4. File(other) \in {EmptyDir} \union {File(t) : t \in Texts}
    BY <1>11
  <2> HIDE DEF dir
  <2>5. Follows(two, MadeIn(two, dir, file, File(other)))
    BY <1>1, <1>10, <2>2, <2>3, <2>4, MadeInAdds
  <2>6. Small(three, 3 + 1)
    BY <1>10, <2>5, SmallGrows DEF dir
  <2> QED
    BY <2>6
<1> HIDE DEF three
<1>12. Small(one, 4)
  <2>1. Cardinality(Used(one)) \in Nat
    BY <1>8, FewUsed DEF Tree
  <2> QED
    BY <1>8, <2>1 DEF Small
<1> QED
  BY <1>6, <1>11, <1>12

LEMMA HddInit == ASSUME Init PROVE HddInv
<1>1. PICK found \in FormerDisks : disk = init_storage(found)
  BY DEF Init
<1>2. Small(disk, 4)
  <2>1. CASE found = Nil
    <3>1. Small(disk, 1) /\ disk \in Disks
      BY <1>1, <2>1, FirstDisk DEF Small, Tree
    <3>2. Cardinality(Used(disk)) \in Nat
      BY <3>1, FewUsed
    <3> QED
      BY <3>1, <3>2 DEF Small
  <2>2. CASE found # Nil
    <3>1. PICK text \in BoundedSeq(Block, MaxBlocks), other \in {Nil} \union BoundedSeq(Block, 1) :
             found = FormerDisk(text, other)
      BY <1>1, <2>2 DEF FormerDisks
    <3>2. text \in Texts /\ other \in {Nil} \union Texts
      BY SmallTexts
    <3>3. disk = FormerDisk(text, other)
      BY <1>1, <2>2, <3>1 DEF init_storage
    <3> QED
      BY <3>2, <3>3, FormerSmall
  <2> QED
    BY <2>1, <2>2
<1>3. /\ win = [w \in Window |-> Closed] /\ commands = 0 /\ MaxCommands \in Nat
  BY HddAssumption DEF Init
<1>4. \A w \in Window : win[w] = Closed
  BY <1>3
<1>5. Makers = {}
  BY <1>4, ClosedOK DEF Makers
<1>6. Cardinality(Makers) = 0 /\ Cardinality(Used(disk)) \in Nat /\ Cardinality(Used(disk)) <= 4
  BY <1>2, <1>5, FewUsed, FS_EmptySet DEF Small, Tree
<1>7. Room
  BY <1>3, <1>6 DEF Room
<1>8. win \in [Window -> Rec] /\ commands \in 0..MaxCommands
  BY <1>3, ClosedOK DEF RecOK
<1>9. \A w \in Window : RecOK(win[w]) /\ Opens(win[w], disk) /\ Checked(win[w], disk)
  BY <1>4, ClosedOK
<1> QED
  BY <1>2, <1>7, <1>8, <1>9 DEF HddInv, Small

LEMMA HddNext == ASSUME HddInv, [Next]_vars PROVE HddInv'
<1>1. CASE Next
  BY <1>1, SomeStep, StepKeeps
<1>2. CASE UNCHANGED vars
  BY <1>2 DEF vars, HddInv, Room, Makers
<1> QED
  BY <1>1, <1>2

LEMMA HddHolds == Spec => []HddInv
<1>1. Init => HddInv
  BY HddInit
<1>2. HddInv /\ [Next]_vars => HddInv'
  BY HddNext
<1> QED
  BY <1>1, <1>2, PTL DEF Spec

\* What no step of any window takes away: a file that has data keeps its name and its data,
\* or has lost them to a window that moves and may destroy it: on a confirmed deletion, as
\* the target of its tool, or where a check had found nothing and another was quicker.
DataKept ==
    \A i \in {f \in Named(disk) : Contents(disk, f) # <<>>} :
          ~(i \in Named(disk') /\ IsPrefix(Contents(disk, i), Contents(disk', i)))
              => \E w \in Window : win'[w] # win[w] /\ i \in MayDestroy(w)

LEMMA StepKeepsData == ASSUME HddInv, Next PROVE DataKept
<1>1. PICK w \in Window : \E next, disk1 : Step(w, next, disk1)
  BY SomeStep
<1>2. PICK next, disk1 : Step(w, next, disk1)
  BY <1>1
<1>3. /\ HddInv' /\ win' = [win EXCEPT ![w] = next]
      /\ KeepsNames(disk1, disk')
      /\ \A i \in Inode : i \in Opened(win') \/ IsNamed(disk1, i) => disk'[i] = disk1[i]
  BY <1>2, StepKeeps
<1>4. disk \in Disks /\ disk' \in Disks /\ win \in [Window -> Rec]
  BY <1>3 DEF HddInv, Tree
<1>5. SUFFICES ASSUME NEW i \in Named(disk), Contents(disk, i) # <<>>,
                      ~(i \in Named(disk') /\ IsPrefix(Contents(disk, i), Contents(disk', i)))
               PROVE  win'[w] # win[w] /\ i \in MayDestroy(w)
  BY DEF DataKept
<1>6. i \in Inode /\ IsNamed(disk, i) /\ (IsNamed(disk', i) => i \in Named(disk'))
  BY <1>4, <1>5, NamedIs
<1>7. CASE IsNamed(disk1, i) /\ Contents(disk1, i) = Contents(disk, i)
  <2>1. IsNamed(disk', i)
    BY <1>3, <1>6, <1>7, HddAssumption DEF IsNamed, KeepsNames
  <2>2. Contents(disk', i) = Contents(disk, i)
    BY <1>3, <1>6, <1>7 DEF Contents, IsFile
  <2>3. disk[i] \in Thing
    BY <1>4, <1>6 DEF Disks
  <2>4. Contents(disk, i) \in Seq(Datum)
    BY <1>6, <2>3, ThingKinds, HddAssumption DEF Contents, IsFile, Texts
  <2>5. IsPrefix(Contents(disk, i), Contents(disk', i))
    BY <2>2, <2>4 DEF IsPrefix
  <2> QED
    BY <1>5, <1>6, <2>1, <2>5
<1>8. CASE next # win[w] /\ i \in MayDestroy(w)
  BY <1>3, <1>4, <1>8
<1> QED
  BY <1>2, <1>5, <1>6, <1>7, <1>8 DEF Step, Spares

\* KeepsData: no tool destroys more than MayDestroy says, whatever the other windows do
\* between its check or its list and its act; create_file and rename_file destroy a file
\* only if another window has changed the directory since they looked.
THEOREM DataIsKept == Spec => KeepsData
<1>1. HddInv /\ [Next]_vars => [DataKept]_vars
  BY StepKeepsData
<1> QED
  BY <1>1, HddHolds, PTL DEF Spec, KeepsData, DataKept

-----------------------------------------------------------------------------
(* Copies *)

\* A window that copies has blocks before it that it will still write.
Awaits(r, k) == (r.pc = "read" /\ k > r.at) \/ (r.pc \in {"write", "flush"} /\ k >= r.at)

SameCopy(r, q) == Copying(r) /\ r.src = q.src /\ r.dst = q.dst

Awaited(v, k) == \E u \in undisturbed : SameCopy(win[u], win[v]) /\ Awaits(win[u], k)

\* Of the source, the copy has each block, or somebody will still write it: the text that
\* is read, and what of it has been written already, are the same for all who copy it.
CopyGrows(v) ==
    LET r == win[v]
        source == Contents(disk, r.src)
        copy == Contents(disk, r.dst)
    IN  /\ r.at <= Len(source)
        /\ r.pc \in {"write", "flush"} => r.buffer = source[r.at]
        /\ r.pc = "flush" => r.at = Len(source)
        /\ Len(copy) <= Len(source)
        /\ \A k \in 1..Len(source) : (k <= Len(copy) /\ copy[k] = source[k]) \/ Awaited(v, k)

CopyInv ==
    /\ undisturbed \subseteq Window
    /\ \A v \in undisturbed : Copying(win[v]) /\ win[v].src # win[v].dst => CopyGrows(v)

LEMMA ContentsType ==
    ASSUME NEW d \in Disks, NEW i \in Inode
    PROVE  Contents(d, i) \in Seq(Datum)
<1>1. d[i] \in Thing
  BY DEF Disks
<1> QED
  BY <1>1, ThingKinds DEF Contents, IsFile, Texts

\* Who copies has two files open.
LEMMA CopyingOpens ==
    ASSUME HddInv, NEW v \in Window, Copying(win[v])
    PROVE  /\ win[v].src \in Inode /\ win[v].dst \in Inode /\ win[v].at \in Nat
           /\ disk[win[v].src].kind # "free" /\ disk[win[v].dst].kind = "file"
           /\ Contents(disk, win[v].src) \in Seq(Datum)
           /\ Contents(disk, win[v].dst) \in Seq(Datum)
<1>1. RecOK(win[v]) /\ Opens(win[v], disk) /\ disk \in Disks
  BY DEF HddInv, Tree
<1>2. /\ win[v].src \in Inode /\ win[v].dst \in Inode /\ win[v].at \in Nat
      /\ disk[win[v].src].kind # "free" /\ disk[win[v].dst].kind = "file"
  BY <1>1 DEF Copying, RecOK, Rec, Opens
<1> QED
  BY <1>1, <1>2, ContentsType

\* What a step shows to the windows that have files open.
LEMMA StepShows ==
    ASSUME HddInv, NEW w \in Window, NEW next, NEW disk1, Step(w, next, disk1)
    PROVE  /\ HddInv' /\ \A v \in Window : win'[v] = IF v = w THEN next ELSE win[v]
           /\ \A v \in Window : Copying(win'[v]) =>
                 /\ Contents(disk', win'[v].src) = Contents(disk1, win'[v].src)
                 /\ Contents(disk', win'[v].dst) = Contents(disk1, win'[v].dst)
<1>1. /\ HddInv' /\ win' = [win EXCEPT ![w] = next]
      /\ \A i \in Inode : i \in Opened(win') \/ IsNamed(disk1, i) => disk'[i] = disk1[i]
  BY StepKeeps
<1>2. \A v \in Window : win'[v] = IF v = w THEN next ELSE win[v]
  BY <1>1 DEF HddInv
<1>3. ASSUME NEW v \in Window, Copying(win'[v])
      PROVE  /\ Contents(disk', win'[v].src) = Contents(disk1, win'[v].src)
             /\ Contents(disk', win'[v].dst) = Contents(disk1, win'[v].dst)
  <2>1. RecOK(win'[v])
    BY <1>1 DEF HddInv
  <2>2. win'[v].src \in Inode /\ win'[v].dst \in Inode
    BY <1>3, <2>1 DEF Copying, RecOK, Rec
  <2>3. disk'[win'[v].src] = disk1[win'[v].src] /\ disk'[win'[v].dst] = disk1[win'[v].dst]
    BY <1>1, <2>2 DEF Opened
  <2> QED
    BY <2>3 DEF Contents, IsFile
<1> QED
  BY <1>1, <1>2, <1>3

\* A copy grows on if its files are as they were, and so are those who make it.
LEMMA GrowsOn ==
    ASSUME HddInv, CopyInv, NEW v \in Window, v \in undisturbed, Copying(win[v]),
           win[v].src # win[v].dst, win'[v] = win[v],
           Contents(disk', win[v].src) = Contents(disk, win[v].src),
           Contents(disk', win[v].dst) = Contents(disk, win[v].dst),
           \A k \in 1..Len(Contents(disk, win[v].src)) : Awaited(v, k) => Awaited(v, k)'
    PROVE  CopyGrows(v)'
<1>1. CopyGrows(v)
  BY DEF CopyInv
<1> QED
  BY <1>1 DEF CopyGrows

\* Who is not disturbed by a write to x, by one who makes another copy or none.
LEMMA StaysUndisturbed ==
    ASSUME HddInv, CopyInv, NEW w \in Window, NEW x \in Inode \union {Nil}, Disturbs(w, x),
           NEW v \in Window, v # w, v \in undisturbed', Copying(win[v]), win[v].dst # x,
           NEW u \in undisturbed, SameCopy(win[u], win[v])
    PROVE  u \in undisturbed'
  BY DEF Disturbs, SameCopy

LEMMA BystandsKeeps ==
    ASSUME HddInv, CopyInv, NEW w \in Window, NEW next, NEW disk1,
           Step(w, next, disk1), Bystands(w, next, disk1)
    PROVE  CopyInv'
<1>1. /\ HddInv' /\ \A v \in Window : win'[v] = IF v = w THEN next ELSE win[v]
      /\ \A v \in Window : Copying(win'[v]) =>
            /\ Contents(disk', win'[v].src) = Contents(disk1, win'[v].src)
            /\ Contents(disk', win'[v].dst) = Contents(disk1, win'[v].dst)
  BY StepShows
<1>2. undisturbed' \subseteq Window
  BY DEF Bystands, Disturbs, CopyInv
<1>3. ASSUME NEW v \in undisturbed', Copying(win'[v]), win'[v].src # win'[v].dst
      PROVE  CopyGrows(v)'
  <2>1. v \in Window /\ v # w /\ win'[v] = win[v] /\ v \in undisturbed
    BY <1>1, <1>2, <1>3 DEF Bystands, Disturbs
  <2>2. /\ win[v].src \in Inode /\ win[v].dst \in Inode /\ win[v].src # Nil /\ win[v].dst # Nil
        /\ disk[win[v].src].kind # "free" /\ disk[win[v].dst].kind # "free"
    BY <1>3, <2>1, CopyingOpens, HddAssumption
  <2>3. \A u \in undisturbed, k \in Nat :
           SameCopy(win[u], win[v]) /\ Awaits(win[u], k) => u # w /\ u \in Window
    BY DEF Bystands, SameCopy, Copying, Awaits, CopyInv
  <2>4. /\ Contents(disk1, win[v].src) = Contents(disk, win[v].src)
        /\ Contents(disk1, win[v].dst) = Contents(disk, win[v].dst)
        /\ \A u \in undisturbed, k \in Nat :
              SameCopy(win[u], win[v]) /\ Awaits(win[u], k) => u \in undisturbed'
    <3>1. CASE /\ undisturbed' \ {w} = undisturbed \ {w}
               /\ \A i \in Inode : disk[i].kind # "free" => Contents(disk1, i) = Contents(disk, i)
      BY <2>2, <2>3, <3>1
    <3>2. ASSUME NEW x \in Inode \union {Nil}, Disturbs(w, x), win[w].tool # "copy_file",
                 \A i \in Inode : disk[i].kind # "free" /\ i # x =>
                    Contents(disk1, i) = Contents(disk, i)
          PROVE  /\ Contents(disk1, win[v].src) = Contents(disk, win[v].src)
                 /\ Contents(disk1, win[v].dst) = Contents(disk, win[v].dst)
                 /\ \A u \in undisturbed, k \in Nat :
                       SameCopy(win[u], win[v]) /\ Awaits(win[u], k) => u \in undisturbed'
      <4>1. win[v].src # x /\ win[v].dst # x
        BY <1>3, <2>1, <2>2, <3>2 DEF Disturbs, Copying
      <4>2. \A u \in undisturbed : SameCopy(win[u], win[v]) => u \in undisturbed'
        BY <1>3, <2>1, <3>2, <4>1, StaysUndisturbed
      <4> QED
        BY <2>2, <3>2, <4>1, <4>2
    <3> QED
      BY <3>1, <3>2 DEF Bystands
  <2>5. \A k \in Nat : Awaited(v, k) => Awaited(v, k)'
    BY <1>1, <2>1, <2>3, <2>4 DEF Awaited
  <2>6. Len(Contents(disk, win[v].src)) \in Nat
    BY <1>3, <2>1, CopyingOpens
  <2> QED
    BY <1>1, <1>3, <2>1, <2>4, <2>5, <2>6, GrowsOn
<1> QED
  BY <1>2, <1>3 DEF CopyInv

\* Who dies leaves nobody undisturbed whose copy it was making.
LEMMA DiesKeeps ==
    ASSUME HddInv, CopyInv, NEW w \in Window, Dies(w)
    PROVE  CopyInv'
<1>0. Step(w, Closed, disk)
  BY DiesStep
<1>1. /\ HddInv' /\ \A v \in Window : win'[v] = IF v = w THEN Closed ELSE win[v]
      /\ \A v \in Window : Copying(win'[v]) =>
            /\ Contents(disk', win'[v].src) = Contents(disk, win'[v].src)
            /\ Contents(disk', win'[v].dst) = Contents(disk, win'[v].dst)
  BY <1>0, StepShows
<1>2. undisturbed' = {v \in undisturbed : win[w].dst = Nil \/ win[v].dst # win[w].dst}
  BY DEF Dies
<1>3. ASSUME NEW v \in undisturbed', Copying(win'[v]), win'[v].src # win'[v].dst
      PROVE  CopyGrows(v)'
  <2>1. v \in Window /\ v # w /\ win'[v] = win[v] /\ v \in undisturbed
    BY <1>1, <1>2, <1>3, ClosedOK DEF CopyInv
  <2>2. win[v].dst # Nil
    BY <1>3, <2>1, CopyingOpens, HddAssumption
  <2>3. \A u \in undisturbed : SameCopy(win[u], win[v]) =>
           u \in undisturbed' /\ u \in Window /\ win'[u] = win[u]
    BY <1>1, <1>2, <2>1, <2>2 DEF SameCopy, CopyInv
  <2>4. \A k : Awaited(v, k) => Awaited(v, k)'
    BY <2>1, <2>3 DEF Awaited
  <2> QED
    BY <1>1, <1>3, <2>1, <2>4, GrowsOn
<1> QED
  BY <1>2, <1>3 DEF CopyInv

\* Who reads a block holds it until it has written it.
LEMMA ReadsKeeps ==
    ASSUME HddInv, CopyInv, NEW w \in Window, ReadsBlock(w)
    PROVE  CopyInv'
<1> DEFINE text == Contents(disk, win[w].src)
<1>0. PICK next : Step(w, next, disk) /\ ReadOn(win[w], text, next)
  BY ReadsBlockStep
<1>1. /\ HddInv' /\ \A v \in Window : win'[v] = IF v = w THEN next ELSE win[v]
      /\ \A v \in Window : Copying(win'[v]) =>
            /\ Contents(disk', win'[v].src) = Contents(disk, win'[v].src)
            /\ Contents(disk', win'[v].dst) = Contents(disk, win'[v].dst)
  BY <1>0, StepShows
<1>2. /\ undisturbed' = undisturbed /\ undisturbed \subseteq Window
      /\ win[w].pc = "read" /\ win[w].tool = "copy_file" /\ Copying(win[w])
  BY DEF ReadsBlock, Quietly, CopyInv, Copying
<1>3. /\ win[w].src \in Inode /\ win[w].dst \in Inode /\ win[w].at \in Nat
      /\ text \in Seq(Datum) /\ win[w] \in Rec
  BY <1>2, CopyingOpens DEF HddInv, RecOK
<1> DEFINE at == win[w].at
<1> HIDE DEF text
<1>4. /\ next.src = win[w].src /\ next.dst = win[w].dst /\ next.tool = "copy_file"
      /\ Copying(next)
      /\ \/ /\ at + 1 <= Len(text) /\ next.at = at + 1 /\ next.buffer = text[at + 1]
            /\ next.pc = "write" \/ (next.pc = "flush" /\ at + 1 = Len(text))
         \/ at + 1 > Len(text) /\ next.pc = "close" /\ next.at = at
  <2>1. ASSUME NEW pc \in {"write", "flush"}, next = Holding(win[w], text, pc)
        PROVE  /\ next.src = win[w].src /\ next.dst = win[w].dst /\ next.tool = "copy_file"
               /\ next.at = at + 1 /\ next.buffer = text[at + 1] /\ next.pc = pc
    <3> DEFINE block == text[at + 1]
               on == at + 1
    <3>1. next = [win[w] EXCEPT !.pc = pc, !.at = on, !.buffer = block]
      BY <2>1 DEF Holding
    <3> HIDE DEF block, on
    <3>2. /\ next.src = win[w].src /\ next.dst = win[w].dst /\ next.tool = "copy_file"
          /\ next.at = on /\ next.buffer = block /\ next.pc = pc
      BY <1>2, <1>3, <3>1 DEF Rec
    <3> QED
      BY <3>2 DEF block, on
  <2>2. ASSUME next = [win[w] EXCEPT !.pc = "close"]
        PROVE  /\ next.src = win[w].src /\ next.dst = win[w].dst /\ next.tool = "copy_file"
               /\ next.at = at /\ next.pc = "close"
    BY <1>2, <1>3, <2>2 DEF Rec
  <2> HIDE DEF at
  <2>3. \/ /\ at + 1 <= Len(text) /\ next = Holding(win[w], text, "write")
        \/ /\ at + 1 = Len(text) /\ next = Holding(win[w], text, "flush")
        \/ /\ at + 1 > Len(text) /\ next = [win[w] EXCEPT !.pc = "close"]
    BY <1>0 DEF ReadOn, at
  <2>4. at \in Nat /\ Len(text) \in Nat
    BY <1>3 DEF at
  <2> QED
    BY <2>1, <2>2, <2>3, <2>4 DEF Copying
<1>5. ASSUME NEW v \in undisturbed, SameCopy(win[w], win[v]), NEW k \in 1..Len(text),
             Awaits(win[w], k)
      PROVE  SameCopy(next, win[v]) /\ Awaits(next, k)
  <2>1. k > at /\ k \in Nat /\ k <= Len(text) /\ Len(text) \in Nat /\ at \in Nat
    BY <1>2, <1>3, <1>5 DEF Awaits
  <2>2. SameCopy(next, win[v])
    BY <1>4, <1>5 DEF SameCopy
  <2>3. next.pc \in {"write", "flush"} /\ next.at = at + 1
    BY <1>4, <2>1
  <2> QED
    BY <2>1, <2>2, <2>3 DEF Awaits
<1>6. ASSUME NEW v \in undisturbed, Copying(win[v]), NEW k \in 1..Len(Contents(disk, win[v].src)),
             Awaited(v, k)
      PROVE  \E u \in undisturbed : SameCopy(win'[u], win[v]) /\ Awaits(win'[u], k)
  <2>1. PICK u \in undisturbed : SameCopy(win[u], win[v]) /\ Awaits(win[u], k)
    BY <1>6 DEF Awaited
  <2>2. CASE u = w
    <3>1. Contents(disk, win[v].src) = text
      BY <2>1, <2>2 DEF SameCopy, text
    <3> QED
      BY <1>1, <1>2, <1>5, <1>6, <2>1, <2>2, <3>1
  <2>3. CASE u # w
    BY <1>1, <1>2, <2>1, <2>3
  <2> QED
    BY <2>2, <2>3
<1>7. ASSUME NEW v \in undisturbed', Copying(win'[v]), win'[v].src # win'[v].dst
      PROVE  CopyGrows(v)'
  <2>1. v \in undisturbed /\ v \in Window
    BY <1>2
  <2>2. CASE v # w
    <3>1. win'[v] = win[v] /\ Copying(win[v])
      BY <1>1, <1>7, <2>1, <2>2
    <3>2. \A k \in 1..Len(Contents(disk, win[v].src)) : Awaited(v, k) => Awaited(v, k)'
      BY <1>2, <1>6, <2>1, <3>1 DEF Awaited
    <3> QED
      BY <1>1, <1>7, <2>1, <3>1, <3>2, GrowsOn
  <2>3. CASE v = w
    <3> DEFINE copy == Contents(disk, win[w].dst)
    <3>1. /\ win'[w] = next /\ Contents(disk', next.src) = text /\ Contents(disk', next.dst) = copy
      BY <1>1, <1>4, <2>3 DEF text
    <3>2. CopyGrows(w)
      BY <1>2, <1>4, <1>7, <2>1, <2>3, <3>1 DEF CopyInv
    <3>3. /\ at <= Len(text) /\ Len(copy) <= Len(text)
          /\ \A k \in 1..Len(text) : (k <= Len(copy) /\ copy[k] = text[k]) \/ Awaited(w, k)
      BY <3>2 DEF CopyGrows, text
    <3>4. \A k \in 1..Len(text) : Awaited(w, k) =>
             \E u \in undisturbed : SameCopy(win'[u], next) /\ Awaits(win'[u], k)
      <4>1. \A r : SameCopy(r, win[w]) => SameCopy(r, next)
        BY <1>4 DEF SameCopy
      <4> QED
        BY <1>2, <1>6, <2>1, <2>3, <4>1 DEF text
    <3>5. at \in Nat /\ Len(text) \in Nat
      BY <1>3
    <3> HIDE DEF copy, at
    <3>6. /\ next.at <= Len(text)
          /\ next.pc \in {"write", "flush"} => next.buffer = text[next.at]
          /\ next.pc = "flush" => next.at = Len(text)
      BY <1>4, <3>3, <3>5
    <3>7. \A k \in 1..Len(text) : (k <= Len(copy) /\ copy[k] = text[k]) \/ Awaited(w, k)'
      BY <1>2, <3>1, <3>3, <3>4 DEF Awaited
    <3> QED
      BY <2>3, <3>1, <3>3, <3>6, <3>7 DEF CopyGrows
  <2> QED
    BY <2>2, <2>3
<1> QED
  BY <1>2, <1>7 DEF CopyInv

\* Who empties a copy that others make is one of those who fill it again.
LEMMA OpensKeeps ==
    ASSUME HddInv, CopyInv, NEW w \in Window, OpensTarget(w)
    PROVE  CopyInv'
<1> DEFINE n == win[w].target
           disk1 == truncate(disk, n)
           next == Aimed(w)
           x == At(disk, n)
           made == At(disk1, n)
<1>1. /\ Step(w, next, disk1) /\ n \in Name /\ HasRoom(disk) /\ win[w].at = 0
      /\ Disturbs(w, x) /\ win[w].pc = "open" /\ Tree(disk) /\ win[w] \in Rec
  BY OpensTargetStep DEF OpensTarget, HddInv, RecOK
<1>2. next = IF win[w].src # Nil /\ OpensForWriting(disk, n)
             THEN [win[w] EXCEPT !.pc = "read", !.dst = made] ELSE Closed
  BY DEF Aimed
<1> HIDE DEF next
<1>3. /\ HddInv' /\ \A v \in Window : win'[v] = IF v = w THEN next ELSE win[v]
      /\ \A v \in Window : Copying(win'[v]) =>
            /\ Contents(disk', win'[v].src) = Contents(disk1, win'[v].src)
            /\ Contents(disk', win'[v].dst) = Contents(disk1, win'[v].dst)
  <2> HIDE DEF disk1
  <2> QED
    BY <1>1, StepShows
<1>4. /\ x \in Inode \union {Nil}
      /\ \A i \in Inode : i # x => Contents(disk1, i) = Contents(disk, i)
  <2> HIDE DEF n
  <2> QED
    BY <1>1, OpensFile
<1>5. OpensForWriting(disk, n) =>
         /\ made \in Inode /\ Contents(disk1, made) = <<>>
         /\ IF x = Nil THEN disk[made].kind = "free" ELSE made = x
  <2> HIDE DEF n
  <2> QED
    BY <1>1, TruncateEmpties
<1>6. OpensForWriting(disk, n) <=> ~(x # Nil /\ disk[x].kind = "dir")
  BY DEF OpensForWriting, IsDir
<1> HIDE DEF n, disk1, x, made
<1>7. undisturbed' \subseteq undisturbed /\ undisturbed \subseteq Window
  BY <1>1 DEF Disturbs, CopyInv
<1>8. next # Closed =>
         /\ next.src = win[w].src /\ next.dst = made /\ next.pc = "read" /\ next.at = 0
         /\ next.tool = win[w].tool
  BY <1>1, <1>2 DEF Rec
<1>9. \A k : ~Awaits(win[w], k)
  BY <1>1 DEF Awaits
<1>10. ASSUME NEW v \in undisturbed', Copying(win'[v]), win'[v].src # win'[v].dst
       PROVE  CopyGrows(v)'
  <2>1. v \in undisturbed /\ v \in Window
    BY <1>7
  <2> DEFINE text == Contents(disk', win'[v].src)
             copy == Contents(disk', win'[v].dst)
  <2>2. ASSUME next # Closed, w \in undisturbed', next.tool = "copy_file",
               win'[v].src = next.src, win'[v].dst = made, win'[v].at <= Len(text),
               win'[v].pc \in {"write", "flush"} => win'[v].buffer = text[win'[v].at],
               win'[v].pc = "flush" => win'[v].at = Len(text)
        PROVE  CopyGrows(v)'
    <3>1. copy = <<>> /\ Len(copy) = 0
      <4>1. OpensForWriting(disk, n)
        BY <1>2, <2>2
      <4> QED
        BY <1>3, <1>5, <1>10, <2>1, <2>2, <4>1
    <3>2. win'[w] = next /\ SameCopy(win'[w], win'[v]) /\ \A k \in Nat \ {0} : Awaits(win'[w], k)
      BY <1>3, <1>8, <2>2 DEF SameCopy, Copying, Awaits
    <3>3. Len(text) \in Nat
      BY <1>3, <1>10, <2>1, CopyingOpens, ContentsType DEF HddInv, Tree, RecOK, Rec, Copying
    <3>4. \A k \in 1..Len(text) : Awaited(v, k)'
      BY <2>2, <3>2, <3>3 DEF Awaited
    <3> HIDE DEF text, copy
    <3>5. Len(copy) <= Len(text)
      BY <3>1, <3>3
    <3> QED
      BY <2>2, <3>4, <3>5 DEF CopyGrows, text, copy
  <2>3. CASE v = w
    <3>1. next # Closed /\ win'[w] = next
      BY <1>3, <1>10, <2>1, <2>3, ClosedOK
    <3>2. 0 <= Len(text)
      BY <1>3, <1>10, <2>1, CopyingOpens, ContentsType DEF HddInv, Tree, RecOK, Rec, Copying
    <3> HIDE DEF text
    <3> QED
      BY <1>8, <1>10, <2>2, <2>3, <3>1, <3>2 DEF Copying
  <2>4. CASE v # w
    <3>1. win'[v] = win[v] /\ Copying(win[v])
      BY <1>3, <1>10, <2>1, <2>4
    <3>2. /\ win[v].src \in Inode /\ win[v].dst \in Inode
          /\ win[v].src # Nil /\ win[v].dst # Nil
          /\ disk[win[v].src].kind # "free" /\ disk[win[v].dst].kind = "file"
      BY <2>1, <3>1, CopyingOpens, HddAssumption
    <3>3. CopyGrows(v)
      BY <1>10, <2>1, <3>1 DEF CopyInv
    <3>4. win[v].src # x
      BY <1>1, <2>4, <3>2 DEF Disturbs
    <3>5. text = Contents(disk, win[v].src)
      BY <1>3, <1>4, <1>10, <2>1, <3>1, <3>2, <3>4
    <3>6. CASE win[v].dst = x
      <4>1. w \in undisturbed /\ win[w].tool = "copy_file" /\ win[w].src = win[v].src
        BY <1>1, <2>4, <3>1, <3>2, <3>6 DEF Disturbs, Copying
      <4>2. OpensForWriting(disk, n) /\ win[w].src # Nil /\ x # Nil
        BY <1>6, <3>2, <3>6, <4>1
      <4>3. next # Closed
        BY <1>2, <1>1, <4>2 DEF Closed
      <4>4. w \in undisturbed' /\ made = x
        BY <1>1, <1>5, <4>1, <4>2 DEF Disturbs
      <4> HIDE DEF text
      <4> QED
        BY <1>8, <2>2, <3>1, <3>3, <3>5, <3>6, <4>1, <4>3, <4>4 DEF CopyGrows
    <3>7. CASE win[v].dst # x
      <4>1. copy = Contents(disk, win[v].dst)
        BY <1>3, <1>4, <1>10, <2>1, <3>1, <3>2, <3>7
      <4>2. \A u \in undisturbed : SameCopy(win[u], win[v]) => u \in undisturbed'
        BY <1>1, <1>4, <2>1, <2>4, <3>1, <3>7, StaysUndisturbed
      <4>3. ASSUME NEW k, Awaited(v, k) PROVE Awaited(v, k)'
        <5>1. PICK u \in undisturbed : SameCopy(win[u], win[v]) /\ Awaits(win[u], k)
          BY <4>3 DEF Awaited
        <5>2. u # w /\ win'[u] = win[u] /\ u \in undisturbed'
          BY <1>3, <1>7, <1>9, <4>2, <5>1
        <5> QED
          BY <3>1, <5>1, <5>2 DEF Awaited
      <4> QED
        BY <1>10, <2>1, <3>1, <3>5, <4>1, <4>3, GrowsOn
    <3> QED
      BY <3>6, <3>7
  <2> QED
    BY <2>3, <2>4
<1> QED
  BY <1>7, <1>10 DEF CopyInv

\* Who writes what it holds writes what the source has there.
LEMMA WritesKeeps ==
    ASSUME HddInv, CopyInv, NEW w \in Window, WritesBlock(w)
    PROVE  CopyInv'
<1> DEFINE x == win[w].dst
           at == win[w].at
           next == [win[w] EXCEPT !.pc = IF @ = "write" THEN "read" ELSE "close"]
           disk1 == write(disk, x, at, win[w].buffer)
<1>1. /\ Step(w, next, disk1) /\ Disturbs(w, x) /\ win[w].pc \in {"write", "flush"}
      /\ win[w] \in Rec /\ RecOK(win[w]) /\ Opens(win[w], disk) /\ Tree(disk)
  BY WritesBlockStep DEF WritesBlock, HddInv, RecOK
<1>2. /\ x \in Inode /\ x # Nil /\ at \in Nat \ {0} /\ win[w].buffer \in Datum
      /\ win[w].tool = "copy_file" /\ Copying(win[w]) /\ disk[x].kind = "file"
  BY <1>1 DEF RecOK, Rec, Copying, Opens
<1>3. /\ next.src = win[w].src /\ next.dst = x /\ next.tool = "copy_file" /\ next.at = at
      /\ next.pc = (IF win[w].pc = "write" THEN "read" ELSE "close") /\ Copying(next)
  BY <1>1, <1>2 DEF Rec, Copying
<1> HIDE DEF next
<1>4. /\ HddInv' /\ \A v \in Window : win'[v] = IF v = w THEN next ELSE win[v]
      /\ \A v \in Window : Copying(win'[v]) =>
            /\ Contents(disk', win'[v].src) = Contents(disk1, win'[v].src)
            /\ Contents(disk', win'[v].dst) = Contents(disk1, win'[v].dst)
  <2> HIDE DEF disk1
  <2> QED
    BY <1>1, StepShows
<1>5. /\ \A i \in Inode : i # x => Contents(disk1, i) = Contents(disk, i)
      /\ Len(Contents(disk1, x)) = Size(Contents(disk, x), at)
      /\ \A k \in 1..Size(Contents(disk, x), at) :
            Contents(disk1, x)[k] = IF k = at THEN win[w].buffer
                                    ELSE IF k <= Len(Contents(disk, x)) THEN Contents(disk, x)[k]
                                    ELSE "hole"
  <2> DEFINE block == win[w].buffer
  <2>1. block \in Datum /\ x \in Inode /\ at \in Nat \ {0} /\ disk[x].kind = "file" /\ Tree(disk)
    BY <1>1, <1>2
  <2> HIDE DEF x, at, block
  <2> QED
    BY <2>1, WriteFills DEF block
<1> HIDE DEF disk1
<1>6. undisturbed' \subseteq undisturbed /\ undisturbed \subseteq Window
  BY <1>1 DEF Disturbs, CopyInv
<1>7. ASSUME NEW v \in undisturbed', Copying(win'[v]), win'[v].src # win'[v].dst
      PROVE  CopyGrows(v)'
  <2>1. v \in undisturbed /\ v \in Window
    BY <1>6
  <2>2. /\ Copying(win[v]) /\ win'[v].src = win[v].src /\ win'[v].dst = win[v].dst
    BY <1>2, <1>3, <1>4, <1>7, <2>1
  <2>3. /\ win[v].src \in Inode /\ win[v].dst \in Inode /\ win[v].at \in Nat
        /\ win[v].src # Nil /\ win[v].dst # Nil
        /\ Contents(disk, win[v].src) \in Seq(Datum) /\ Contents(disk, win[v].dst) \in Seq(Datum)
    BY <2>1, <2>2, CopyingOpens, HddAssumption
  <2>4. CopyGrows(v)
    BY <1>7, <2>1, <2>2 DEF CopyInv
  <2>5. win[v].src # x
    BY <1>1, <1>2, <1>7, <2>1, <2>2 DEF Disturbs
  <2> DEFINE text == Contents(disk, win[v].src)
             copy == Contents(disk, win[v].dst)
             copy1 == Contents(disk', win[v].dst)
  <2>6. Contents(disk', win'[v].src) = text
    BY <1>4, <1>5, <1>7, <2>1, <2>2, <2>3, <2>5
  <2>7. CASE win[v].dst # x
    <3>1. v # w /\ win'[v] = win[v] /\ copy1 = copy
      BY <1>4, <1>5, <1>7, <2>1, <2>2, <2>3, <2>7
    <3>2. ASSUME NEW k, Awaited(v, k) PROVE Awaited(v, k)'
      <4>1. PICK u \in undisturbed : SameCopy(win[u], win[v]) /\ Awaits(win[u], k)
        BY <3>2 DEF Awaited
      <4>2. u # w /\ win'[u] = win[u]
        BY <1>4, <1>6, <2>7, <4>1 DEF SameCopy
      <4>3. u \in undisturbed'
        BY <1>1, <1>2, <2>1, <2>2, <2>7, <3>1, <4>1, StaysUndisturbed
      <4> QED
        BY <3>1, <4>1, <4>2, <4>3 DEF Awaited
    <3> QED
      BY <1>7, <2>1, <2>2, <2>6, <3>1, <3>2, GrowsOn
  <2>8. CASE win[v].dst = x
    <3>1. w \in undisturbed /\ win[w].src = win[v].src
      BY <1>1, <1>2, <2>1, <2>8 DEF Disturbs
    <3>2. CopyGrows(w)
      BY <1>2, <1>7, <2>2, <2>8, <3>1 DEF CopyInv
    <3>3. /\ at <= Len(text) /\ win[w].buffer = text[at]
          /\ win[w].pc = "flush" => at = Len(text)
      BY <1>1, <3>1, <3>2 DEF CopyGrows
    <3>4. /\ Len(copy) <= Len(text)
          /\ \A k \in 1..Len(text) : (k <= Len(copy) /\ copy[k] = text[k]) \/ Awaited(v, k)
          /\ win[v].at <= Len(text)
          /\ win[v].pc \in {"write", "flush"} => win[v].buffer = text[win[v].at]
          /\ win[v].pc = "flush" => win[v].at = Len(text)
      BY <2>4 DEF CopyGrows
    <3>5. /\ Len(copy1) = Size(copy, at)
          /\ \A k \in 1..Size(copy, at) :
                copy1[k] = IF k = at THEN win[w].buffer
                           ELSE IF k <= Len(copy) THEN copy[k] ELSE "hole"
      <4>1. copy1 = Contents(disk1, x)
        BY <1>4, <1>7, <2>1, <2>2, <2>8
      <4> QED
        BY <1>5, <2>8, <4>1
    <3>6. Len(text) \in Nat /\ Len(copy) \in Nat /\ at \in Nat \ {0}
      BY <1>2, <2>3
    <3>7. \A u \in undisturbed : SameCopy(win[u], win[v]) => u \in undisturbed'
      BY <1>1, <1>2, <2>5, <2>8, <3>1 DEF Disturbs, SameCopy, Copying
    <3>8. ASSUME NEW k \in 1..Len(text)
          PROVE  (k <= Len(copy1) /\ copy1[k] = text[k]) \/ Awaited(v, k)'
      <4> HIDE DEF text, copy, copy1, at
      <4>1. CASE k = at
        BY <3>3, <3>5, <3>6, <4>1 DEF Size
      <4>2. CASE k # at /\ k <= Len(copy) /\ copy[k] = text[k]
        BY <3>5, <3>6, <4>2 DEF Size
      <4>3. CASE k # at /\ Awaited(v, k)
        <5>1. PICK u \in undisturbed : SameCopy(win[u], win[v]) /\ Awaits(win[u], k)
          BY <4>3 DEF Awaited
        <5>2. u \in undisturbed' /\ u \in Window
          BY <1>6, <3>7, <5>1
        <5>3. SameCopy(win'[u], win[v]) /\ Awaits(win'[u], k)
          <6>1. CASE u # w
            BY <1>4, <5>1, <5>2, <6>1
          <6>2. CASE u = w
            <7>1. k >= at
              BY <1>1, <5>1, <6>2 DEF Awaits, at
            <7>2. win[w].pc = "write" /\ k > at
              BY <1>1, <3>3, <3>6, <4>3, <7>1
            <7>3. win'[w] = next /\ SameCopy(next, win[v])
              BY <1>3, <1>4, <2>8, <3>1 DEF SameCopy
            <7>4. next.pc = "read" /\ next.at = at
              BY <1>3, <7>2 DEF at
            <7> QED
              BY <6>2, <7>2, <7>3, <7>4 DEF Awaits
          <6> QED
            BY <6>1, <6>2
        <5> QED
          BY <2>2, <5>2, <5>3 DEF Awaited, SameCopy
      <4> QED
        BY <3>4, <4>1, <4>2, <4>3
    <3>9. (win'[v].at = win[v].at) /\ (win'[v].pc \in {"write", "flush"} => win'[v] = win[v])
      <4>1. CASE v = w
        BY <1>3, <1>4, <2>1, <4>1
      <4>2. CASE v # w
        BY <1>4, <2>1, <4>2
      <4> QED
        BY <4>1, <4>2
    <3> HIDE DEF at
    <3>10. Len(copy1) <= Len(text)
      BY <3>3, <3>4, <3>5, <3>6 DEF Size
    <3> QED
      BY <2>2, <2>6, <3>4, <3>8, <3>9, <3>10 DEF CopyGrows
  <2> QED
    BY <2>7, <2>8
<1> QED
  BY <1>6, <1>7 DEF CopyInv

LEMMA CopyNext == ASSUME HddInv, CopyInv, [Next]_vars PROVE CopyInv'
<1>1. CASE Next
  <2>1. PICK w \in Window :
              \/ \E next, disk1 : Step(w, next, disk1) /\ Bystands(w, next, disk1)
              \/ OpensTarget(w) \/ ReadsBlock(w) \/ WritesBlock(w) \/ Dies(w)
    BY <1>1, EveryStep
  <2> QED
    BY <2>1, BystandsKeeps, OpensKeeps, ReadsKeeps, WritesKeeps, DiesKeeps
<1>2. CASE UNCHANGED vars
  BY <1>2 DEF vars, CopyInv, CopyGrows, Awaited
<1> QED
  BY <1>1, <1>2

LEMMA TypeHolds == ASSUME HddInv PROVE TypeOK
<1>1. Tree(disk) /\ disk \in Disks /\ disk[Root].kind = "dir" /\ Nil \notin Inode
  BY HddAssumption DEF HddInv, Tree
<1>2. ASSUME NEW i \in Inode
      PROVE  \/ disk[i] = Free /\ i # Root
             \/ disk[i].kind = "file" /\ disk[i].text \in Texts
             \/ disk[i].kind = "dir" /\ disk[i].entry \in [Name -> Inode \union {Nil}]
  <2>1. disk[i] \in Thing
    BY <1>1 DEF Disks
  <2> QED
    BY <1>1, <2>1, ThingKinds
<1>3. \A i \in Inode : disk[i].kind # "free" => disk[i] # Free
  BY DEF Free
<1>4. \A i \in Named(disk) : disk[i] # Free
  <2>1. \A i \in Named(disk) : i \in Inode /\ IsNamed(disk, i)
    BY <1>1, NamedIs
  <2> QED
    BY <1>1, <1>3, <2>1 DEF Tree, IsNamed
<1>5. ASSUME NEW w \in Window
      PROVE  /\ win[w].src # Nil => disk[win[w].src] # Free
             /\ win[w].dst # Nil => disk[win[w].dst] # Free
  <2>1. RecOK(win[w]) /\ Opens(win[w], disk)
    BY DEF HddInv
  <2> QED
    BY <1>3, <2>1 DEF RecOK, Rec, Opens
<1>6. \A i \in Opened(win) \ {Nil} : disk[i] # Free
  BY <1>5 DEF Opened
<1> QED
  BY <1>1, <1>2, <1>4, <1>6, TreesCount DEF TypeOK

LEMMA CopiesDone == ASSUME HddInv, CopyInv PROVE CopiesAgree
<1>1. SUFFICES ASSUME NEW w \in undisturbed, win[w].pc = "close", win[w].tool = "copy_file",
                      \A v \in Window \ {w} : win[v].dst # win[w].dst
               PROVE  Contents(disk, win[w].dst) = Contents(disk, win[w].src)
  BY TypeHolds DEF CopiesAgree
<1> DEFINE text == Contents(disk, win[w].src)
           copy == Contents(disk, win[w].dst)
<1>2. w \in Window /\ Copying(win[w])
  BY <1>1 DEF CopyInv, Copying
<1>3. text \in Seq(Datum) /\ copy \in Seq(Datum)
  BY <1>2, CopyingOpens
<1>4. CASE win[w].src = win[w].dst
  BY <1>4
<1>5. CASE win[w].src # win[w].dst
  <2>1. \A k : ~Awaited(w, k)
    BY <1>1, <1>2 DEF Awaited, SameCopy, Awaits, CopyInv
  <2>2. /\ Len(copy) <= Len(text)
        /\ \A k \in 1..Len(text) : k <= Len(copy) /\ copy[k] = text[k]
    BY <1>2, <1>5, <2>1 DEF CopyInv, CopyGrows
  <2> HIDE DEF text, copy
  <2>3. Len(copy) = Len(text)
    <3>1. Len(copy) \in Nat /\ Len(text) \in Nat
      BY <1>3
    <3> QED
      BY <2>2, <3>1
  <2>4. copy = text
    BY <1>3, <2>2, <2>3
  <2> QED
    BY <2>4 DEF text, copy
<1> QED
  BY <1>4, <1>5

\* CopiesAgree: who has copied a file without being disturbed has a copy of it when it is
\* done, for every number of windows and blocks, and with it the type invariant: the
\* directories are a tree of names, nothing has two, and what is open exists.
THEOREM CopiesAreCopies == Spec => []CopiesAgree
<1>1. Init => CopyInv
  BY DEF Init, CopyInv
<1>2. HddInv /\ CopyInv /\ [Next]_vars => CopyInv'
  BY CopyNext
<1>3. HddInv /\ CopyInv => CopiesAgree
  BY CopiesDone
<1> QED
  BY <1>1, <1>2, <1>3, HddHolds, PTL DEF Spec
=============================================================================
