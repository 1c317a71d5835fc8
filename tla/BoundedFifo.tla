---------------------------- MODULE BoundedFifo -----------------------------
(***************************************************************************)
(* What the users of KernelQueue count on: a bounded queue that serves     *)
(* first come, first served, says when it is full or empty, and can be     *)
(* walked from its front without being changed.                            *)
(***************************************************************************)
EXTENDS Integers, Sequences

CONSTANTS Item, None, Capacity

VARIABLES fifo, result

\* The entries of s but x, in their order.
Without(s, x) ==
    LET kept[n \in 0..Len(s)] ==
            IF n = 0 THEN <<>>
            ELSE IF s[n] = x THEN kept[n - 1] ELSE Append(kept[n - 1], s[n])
    IN  kept[Len(s)]

Push(x) ==
    /\ fifo' = IF Len(fifo) < Capacity THEN Append(fifo, x) ELSE fifo
    /\ result' = (Len(fifo) < Capacity)

Pop ==
    /\ fifo' = IF fifo = <<>> THEN fifo ELSE Tail(fifo)
    /\ result' = IF fifo = <<>> THEN None ELSE Head(fifo)

Peek(index) ==
    /\ result' = IF index + 1 \in DOMAIN fifo THEN fifo[index + 1] ELSE None
    /\ UNCHANGED fifo

\* Every copy of x goes; the others keep their order.
Discard(x) ==
    /\ fifo' = Without(fifo, x)
    /\ result' = None

Init == fifo = <<>> /\ result = None

Next ==
    \/ \E x \in Item : Push(x)
    \/ Pop
    \/ \E i \in -1..Capacity : Peek(i)
    \/ \E x \in Item \union {None} : Discard(x)

Spec == Init /\ [][Next]_<<fifo, result>>
=============================================================================
