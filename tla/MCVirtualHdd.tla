---------------------------- MODULE MCVirtualHdd ----------------------------
(***************************************************************************)
(* Instances of VirtualHdd for TLC: a file and a folder the user names,    *)
(* and their copies and compressed files.                                  *)
(***************************************************************************)
EXTENDS VirtualHdd

\* The names the user types, and all names with up to one ending.
MC_Typed == {<<"file">>, <<"folder">>}
MC_Name == MC_Typed \union {name_copy(n) : n \in MC_Typed} \union {name_neb(n) : n \in MC_Typed}

\* The windows are alike, and so are the blocks.
MC_Symmetry == Permutations(Window) \union Permutations(Block)
=============================================================================
