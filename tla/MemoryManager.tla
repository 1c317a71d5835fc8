--------------------------- MODULE MemoryManager ----------------------------
(***************************************************************************)
(* memory_manager.cpp: the counters of free RAM, HDD and cores.  Each      *)
(* function is one critical section of resource_lock or core_mutex; the    *)
(* actions below say what it does to the counters and leave everything     *)
(* else to whoever calls it.                                               *)
(***************************************************************************)
EXTENDS Kernel

\* Mutant: only the HDD is looked at.
CanAllocate_hddOnly(ram, hdd) == free_HDD >= hdd

CanAllocate(ram, hdd) == free_RAM >= ram /\ free_HDD >= hdd

\* The branch of allocate_resources that returns true; the other one changes nothing.
allocate_resources(ram, hdd) ==
    /\ CanAllocate(ram, hdd)
    /\ free_RAM' = free_RAM - ram
    /\ free_HDD' = free_HDD - hdd

\* Mutant: the arguments mixed up.
reclaim_resources_swapped(ram, hdd) ==
    /\ free_RAM' = free_RAM + hdd
    /\ free_HDD' = free_HDD + ram

reclaim_resources(ram, hdd) ==
    /\ free_RAM' = free_RAM + ram
    /\ free_HDD' = free_HDD + hdd

\* acquire_core waits on core_cv while no core is free.
acquire_core ==
    /\ free_cores > 0
    /\ free_cores' = free_cores - 1

release_core == free_cores' = free_cores + 1
=============================================================================
