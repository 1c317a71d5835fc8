----------------------------- MODULE LockBodies -----------------------------
(***************************************************************************)
(* Which mutexes the kernel's functions lock and unlock, and in which      *)
(* order: each function is the sequence of its operations on locks, and a  *)
(* branch that locks something is a parameter.  A call stands for the      *)
(* operations of the function called.                                      *)
(***************************************************************************)
EXTENDS Integers, SequencesExt

Lock == {"pcb_lock", "resource_lock", "queue_mutex", "core_mutex", "log_lock"}

Acquire(l) == [op |-> "lock", lock |-> l]
Release(l) == [op |-> "unlock", lock |-> l]

\* What is done between a lock and its unlock.
Section(l, inside) == <<Acquire(l)>> \o inside \o <<Release(l)>>

-----------------------------------------------------------------------------

log_event == Section("log_lock", <<>>)

allocate_resources(success) ==
    Section("resource_lock", <<>>) \o (IF success THEN log_event ELSE <<>>)

reclaim_resources == Section("resource_lock", <<>>) \o log_event

release_core == Section("core_mutex", <<>>)

create_pcb == Section("pcb_lock", <<>>) \o Section("queue_mutex", <<>>) \o log_event

\* Mutant: the memory is given back while the table is still locked.
remove_pcb_nested(found) ==
    Section("pcb_lock", IF found THEN reclaim_resources \o log_event ELSE <<>>)

remove_pcb(found) ==
    Section("pcb_lock", <<>>) \o (IF found THEN reclaim_resources \o log_event ELSE <<>>)

update_state(found) == Section("pcb_lock", IF found THEN log_event ELSE <<>>)

unblock_after_delay(found) == Section("pcb_lock", IF found THEN log_event ELSE <<>>)

send_minimize(on_core) == Section("pcb_lock", IF on_core THEN release_core ELSE <<>>)

send_interrupt(on_core) == Section("pcb_lock", IF on_core THEN release_core ELSE <<>>)

\* send_resume, show_kernel_mode, get_all_pcbs_copy and set_process_priority.
ReadOrSetPcb == Section("pcb_lock", <<>>)

\* One round of the loop; pthread_cond_timedwait unlocks queue_mutex while it waits.
scheduler_round(dispatched) ==
    IF dispatched
    THEN Section("pcb_lock", log_event)
    ELSE Section("pcb_lock", <<>>) \o Section("queue_mutex", <<>>) \o Section("queue_mutex", <<>>)

aging_round == Section("pcb_lock", <<>>)

run_detection(found) == Section("pcb_lock", <<>>) \o (IF found THEN log_event ELSE <<>>)

handle_ipc_request(granted) ==
    allocate_resources(granted) \o (IF granted THEN create_pcb ELSE <<>>)

\* stop_scheduler and stop_deadlock_detector.
shutdown_os == log_event \o log_event

\* One child of sigchld_handler's loop.
handle_child(found) == log_event \o remove_pcb(found)

-----------------------------------------------------------------------------
(* The threads, and what each calls outside of any lock. *)

Calls == [
    menu      |-> {ReadOrSetPcb, shutdown_os} \union {send_minimize(b) : b \in BOOLEAN}
                  \union {remove_pcb(b) : b \in BOOLEAN},
    scheduler |-> {scheduler_round(b) : b \in BOOLEAN},
    aging     |-> {aging_round},
    detector  |-> {run_detection(b) : b \in BOOLEAN},
    listener  |-> {ReadOrSetPcb} \union {remove_pcb(b) : b \in BOOLEAN},
    ipc       |-> {handle_ipc_request(b) : b \in BOOLEAN} \union {remove_pcb(b) : b \in BOOLEAN},
    timer     |-> {unblock_after_delay(b) : b \in BOOLEAN},
    \* A thread that calls what nothing in the repository calls, acquire_core excepted.
    api       |-> {ReadOrSetPcb} \union {send_interrupt(b) : b \in BOOLEAN}
                  \union {update_state(b) : b \in BOOLEAN}]

Roles == DOMAIN Calls

HandlerCalls == {handle_child(b) : b \in BOOLEAN}

-----------------------------------------------------------------------------
(* What a thread has locked when it still has to run code. *)

Held(code) ==
    {l \in Lock : \E i \in 1..Len(code) :
        code[i] = Release(l) /\ \A j \in 1..(i - 1) : code[j] # Acquire(l)}

Wants(code, l) == code # <<>> /\ Head(code) = Acquire(l)

\* All that may be left of a call.
CodeOf(role) == UNION {Suffixes(body) : body \in Calls[role]} \union {<<>>}
MainCode == UNION {CodeOf(role) : role \in Roles}
HandlerCode == UNION {Suffixes(body) : body \in HandlerCalls} \union {<<>>}

\* The locks the handler has taken, for one child, before code is left.
Passed(code) ==
    {l \in Lock : \A body \in HandlerCalls : code \in Suffixes(body) =>
        \E i \in 1..(Len(body) - Len(code)) : body[i] = Acquire(l)}

\* The order in which nested locks are taken.
Rank(l) == CASE l = "queue_mutex" -> 1 [] l = "resource_lock" -> 2 [] l = "pcb_lock" -> 3
             [] l = "core_mutex" -> 4 [] l = "log_lock" -> 5
=============================================================================
