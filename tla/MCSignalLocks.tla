--------------------------- MODULE MCSignalLocks ----------------------------
(***************************************************************************)
(* Instances of SignalLocks for TLC: threads named for what they run.      *)
(***************************************************************************)
EXTENDS SignalLocks

\* Each thread runs the role it is named for.
MC_Thread == {"menu", "ipc"}
MC_role == [t \in MC_Thread |-> t]
=============================================================================
