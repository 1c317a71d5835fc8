---------------------------- MODULE SignalLocks -----------------------------
(***************************************************************************)
(* The kernel's threads and their mutexes, with sigchld_handler running on *)
(* whichever thread the signal interrupts: anywhere, also while the thread *)
(* holds locks that the handler is going to take.  The mutexes are         *)
(* PTHREAD_MUTEX_INITIALIZER ones: who locks what it holds waits for ever. *)
(***************************************************************************)
EXTENDS LockBodies

CONSTANTS Thread, role, Nobody, MaxDeaths

ASSUME ThreadAssumption == role \in [Thread -> Roles] /\ Nobody \notin Thread

VARIABLES
    holder,     \* of each lock
    main,       \* what is left of the function the thread runs
    handling,   \* the threads on which sigchld_handler runs
    handler,    \* what is left of its work on one child
    pending,    \* whether SIGCHLD waits to be delivered; it is not queued
    zombies,    \* children that died and were not waited for
    deaths      \* bounds the model

vars == <<holder, main, handling, handler, pending, zombies, deaths>>

-----------------------------------------------------------------------------

\* What the thread executes now: the handler, if it was interrupted.
Code(t) == IF t \in handling THEN handler[t] ELSE main[t]

Goes(t) ==
    IF t \in handling
    THEN handler' = [handler EXCEPT ![t] = Tail(@)] /\ UNCHANGED main
    ELSE main' = [main EXCEPT ![t] = Tail(@)] /\ UNCHANGED handler

TakesLock(t) ==
    /\ \E l \in Lock :
        /\ Wants(Code(t), l)
        /\ holder[l] = Nobody
        /\ holder' = [holder EXCEPT ![l] = t]
    /\ Goes(t)
    /\ UNCHANGED <<handling, pending, zombies, deaths>>

GivesLock(t) ==
    /\ \E l \in Lock :
        /\ Code(t) # <<>> /\ Head(Code(t)) = Release(l)
        /\ holder' = [holder EXCEPT ![l] = Nobody]
    /\ Goes(t)
    /\ UNCHANGED <<handling, pending, zombies, deaths>>

CallsFunction(t) ==
    /\ t \notin handling /\ main[t] = <<>>
    /\ \E body \in Calls[role[t]] : main' = [main EXCEPT ![t] = body]
    /\ UNCHANGED <<holder, handling, handler, pending, zombies, deaths>>

\* foreground_task's waitpid finds the child before the handler does.
ForegroundReaps(t) ==
    /\ role[t] = "menu"
    /\ t \notin handling /\ main[t] = <<>>
    /\ zombies > 0
    /\ zombies' = zombies - 1
    /\ \E found \in BOOLEAN : main' = [main EXCEPT ![t] = remove_pcb(found)]
    /\ UNCHANGED <<holder, handling, handler, pending, deaths>>

ChildDies ==
    /\ deaths < MaxDeaths
    /\ deaths' = deaths + 1
    /\ zombies' = zombies + 1
    /\ pending' = TRUE
    /\ UNCHANGED <<holder, main, handling, handler>>

-----------------------------------------------------------------------------
(* sigchld_handler.  While it runs on a thread SIGCHLD is blocked there.    *)

Interrupts(t) ==
    /\ pending
    /\ t \notin handling
    /\ pending' = FALSE
    /\ handling' = handling \union {t}
    /\ UNCHANGED <<holder, main, handler, zombies, deaths>>

HandlerReaps(t) ==
    /\ t \in handling /\ handler[t] = <<>>
    /\ zombies > 0
    /\ zombies' = zombies - 1
    /\ \E body \in HandlerCalls : handler' = [handler EXCEPT ![t] = body]
    /\ UNCHANGED <<holder, main, handling, pending, deaths>>

\* Mutant: waitpid is called once for each signal.
HandlerReturns_unlooped(t) ==
    /\ t \in handling /\ handler[t] = <<>>
    /\ handling' = handling \ {t}
    /\ UNCHANGED <<holder, main, handler, pending, zombies, deaths>>

HandlerReturns(t) ==
    /\ t \in handling /\ handler[t] = <<>>
    /\ zombies = 0
    /\ handling' = handling \ {t}
    /\ UNCHANGED <<holder, main, handler, pending, zombies, deaths>>

-----------------------------------------------------------------------------

Init ==
    /\ holder = [l \in Lock |-> Nobody]
    /\ main = [t \in Thread |-> <<>>] /\ handler = [t \in Thread |-> <<>>]
    /\ handling = {} /\ pending = FALSE /\ zombies = 0 /\ deaths = 0

HandlerStep(t) == HandlerReaps(t) \/ HandlerReturns(t)
ThreadStep(t) ==
    TakesLock(t) \/ GivesLock(t) \/ CallsFunction(t) \/ ForegroundReaps(t) \/ HandlerStep(t)

Next == ChildDies \/ \E t \in Thread : ThreadStep(t) \/ Interrupts(t)

Spec == Init /\ [][Next]_vars

\* A thread leaves its critical sections and its handler, a signal is delivered, and who
\* wants a lock gets it some time if it is free again and again: every loop of the
\* kernel sleeps between two rounds, holding no lock.
FairSpec ==
    /\ Spec
    /\ WF_vars(\E t \in Thread : Interrupts(t))
    /\ \A t \in Thread :
        SF_vars(TakesLock(t)) /\ WF_vars(GivesLock(t)) /\ WF_vars(HandlerStep(t))

-----------------------------------------------------------------------------

TypeOK ==
    /\ holder \in [Lock -> Thread \union {Nobody}]
    /\ main \in [Thread -> MainCode]
    /\ handler \in [Thread -> HandlerCode]
    /\ handling \subseteq Thread
    /\ pending \in BOOLEAN
    /\ zombies \in Nat /\ deaths \in Nat

WaitsFor(t, u) == \E l \in Lock : Wants(Code(t), l) /\ holder[l] = u

\* Threads never wait for each other in a circle, whatever the handler interrupts: the
\* locks are taken in one order in all functions, the handler's included.
NoCircularWait ==
    \A S \in SUBSET Thread :
        S # {} => \E t \in S : \A u \in S \ {t} : ~WaitsFor(t, u)

WaitsForItself(t) == WaitsFor(t, t)

\* A thread stops for ever only at a lock it holds itself, and only in the handler.
OnlyHandlerBlocksItself ==
    /\ TypeOK
    /\ NoCircularWait
    /\ \A t \in Thread : WaitsForItself(t) => t \in handling

\* Every dead child is waited for, although several deaths may make one SIGCHLD only,
\* unless a thread has stopped in the handler.
DeadAreReaped ==
    zombies > 0 ~> (zombies = 0 \/ \E t \in Thread : WaitsForItself(t))

\* "SIGCHLD: Detect child termination, clean up PCB" (README.md:182): the handler comes to
\* the end of its work.
HandlerEnds == \A t \in Thread : t \in handling ~> t \notin handling
=============================================================================
