--------------------------- MODULE GrantProtocol ----------------------------
(***************************************************************************)
(* What the IPC of README.md promises about one task and what the kernel   *)
(* holds for it, as far as the kernel keeps it: the kernel tries once to   *)
(* register the task, and may find no room; the task runs only after that, *)
(* registered unless there was none; what it holds is given back at most   *)
(* once and never under a task that has not begun to leave.                *)
(***************************************************************************)
VARIABLES task, registered

Register == registered = "never" /\ registered' \in {"held", "dropped"} /\ UNCHANGED task

Run ==
    /\ task = "waiting" /\ registered \in {"held", "dropped"}
    /\ task' = "running"
    /\ UNCHANGED registered

Leave == task # "gone" /\ task' = "gone" /\ UNCHANGED registered

Release == task = "gone" /\ registered = "held" /\ registered' = "released" /\ UNCHANGED task

Init == task = "waiting" /\ registered = "never"

Next == Register \/ Run \/ Leave \/ Release

Spec == Init /\ [][Next]_<<task, registered>>
=============================================================================
