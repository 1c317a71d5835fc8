----------------------------- MODULE LockOrder ------------------------------
(***************************************************************************)
(* What the kernel's functions, written out in LockBodies, have in common: *)
(* locks are released by who took them, nested locks are taken in the      *)
(* order of Rank, and so are those the handler takes on top of what the    *)
(* code it interrupted holds, as long as it does not want one of these.    *)
(* The assumptions have no parameter: TLC evaluates them for good.         *)
(***************************************************************************)
EXTENDS LockBodies

\* The next operation of code takes a lock above all it holds, or gives one it holds.
InOrder(code) ==
    code # <<>> =>
        \E l \in Lock :
            \/ /\ Head(code) = Acquire(l)
               /\ Held(Tail(code)) = Held(code) \union {l}
               /\ \A k \in Held(code) : Rank(k) < Rank(l)
            \/ /\ Head(code) = Release(l)
               /\ l \in Held(code)
               /\ Held(Tail(code)) = Held(code) \ {l}

\* For the handler: what it has passed grows by what it takes.
PassesInOrder(code) ==
    code # <<>> =>
        /\ Held(code) \subseteq Passed(code)
        /\ \A l \in Lock :
            /\ Head(code) = Acquire(l) => Passed(Tail(code)) \subseteq Passed(code) \union {l}
            /\ Head(code) = Release(l) => Passed(Tail(code)) \subseteq Passed(code)

\* Where the handler wants l, having interrupted main: main holds l, or it holds one of
\* the locks the handler has passed, so that it never came here, or l is above them all.
InterruptsInOrder(main, code) ==
    \A l \in Lock : Wants(code, l) =>
        \/ l \in Held(main)
        \/ Held(main) \intersect Passed(code) # {}
        \/ \A k \in Held(main) : Rank(k) < Rank(l)

ASSUME BodiesInOrder ==
    /\ \A code \in MainCode : InOrder(code) /\ (code # <<>> => Tail(code) \in MainCode)
    /\ \A code \in HandlerCode :
        InOrder(code) /\ PassesInOrder(code) /\ (code # <<>> => Tail(code) \in HandlerCode)
    /\ \A m \in MainCode, h \in HandlerCode : InterruptsInOrder(m, h)

ASSUME BodiesHoldNothing ==
    /\ Held(<<>>) = {} /\ <<>> \in MainCode /\ <<>> \in HandlerCode
    /\ \A r \in Roles : \A body \in Calls[r] : body \in MainCode /\ Held(body) = {}
    /\ \A found \in BOOLEAN :
        remove_pcb(found) \in MainCode /\ Held(remove_pcb(found)) = {}
    /\ \A body \in HandlerCalls :
        body \in HandlerCode /\ body # <<>> /\ Held(body) = {} /\ Passed(body) = {}
=============================================================================
