--------------------------- MODULE MCNebulaKernel ---------------------------
(***************************************************************************)
(* Small instances of NebulaKernel for TLC: a Clock daemon and two tasks   *)
(* that ask for one unit of memory each (two for the last), with the       *)
(* aging constants shortened so that promotions happen within few steps.   *)
(***************************************************************************)
EXTENDS NebulaKernel

CONSTANTS clock, log_daemon, sys_monitor, note, copy

Names == clock :> "Clock" @@ log_daemon :> "Log Daemon" @@ sys_monitor :> "System Monitor"
         @@ note :> "Notepad" @@ copy :> "Copy File"
MC_task_name == [p \in Pid |-> Names[p]]
MC_two_notepads == [p \in Pid |-> "Notepad"]
MC_two_copies == [p \in Pid |-> "Copy File"]
MC_ram_req == [p \in Pid |-> IF p = copy THEN 2 ELSE 1]
MC_hdd_req == [p \in Pid |-> IF p = clock THEN 0 ELSE 1]

\* Children of the same kind are interchangeable.
MC_symmetry == Permutations({note, copy})
=============================================================================
