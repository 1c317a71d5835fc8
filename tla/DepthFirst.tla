----------------------------- MODULE DepthFirst -----------------------------
(***************************************************************************)
(* The search of deadlock_detector.cpp, run_detection's last loop and dfs, *)
(* on any graph.  `calls' holds the local variables of the calls of dfs    *)
(* that have not returned: the node u and the v its loop has come to.  A   *)
(* step of the loop that finds nothing to do is skipped.                   *)
(***************************************************************************)
EXTENDS Integers, Sequences, FiniteSetsExt

CONSTANT GRAPH_SIZE

\* What is assumed of the constants, where they get their values.
GraphAssumption == GRAPH_SIZE \in Nat \ {0}

Node == 0..(GRAPH_SIZE - 1)

VARIABLES
    adj, visited, stack,
    calls,
    cycle,      \* the nodes written to cycle[]
    result      \* "searching", "found" while the calls return 1, "cycle", "none"

vars == <<adj, visited, stack, calls, cycle, result>>

Top == calls[Len(calls)]
Return == SubSeq(calls, 1, Len(calls) - 1)

\* A call of dfs: it marks its node.
dfs(u) ==
    /\ visited' = visited \union {u}
    /\ stack' = stack \union {u}
    /\ calls' = Append(calls, [u |-> u, v |-> 0])
    /\ UNCHANGED <<adj, cycle, result>>

\* The edges the innermost call has not looked at yet and will act upon.
Ahead == {v \in Node : v >= Top.v /\ <<Top.u, v>> \in adj /\ (v \notin visited \/ v \in stack)}

StartAtRoot ==
    /\ result = "searching" /\ calls = <<>>
    /\ Node \ visited # {}
    /\ dfs(Min(Node \ visited))

GoDeeper ==
    /\ result = "searching" /\ calls # <<>>
    /\ Ahead # {}
    /\ Min(Ahead) \notin visited
    /\ dfs(Min(Ahead))

BackEdge ==
    /\ result = "searching" /\ calls # <<>>
    /\ Ahead # {}
    /\ Min(Ahead) \in visited
    /\ cycle' = cycle \o <<Min(Ahead), Top.u>>
    /\ calls' = Return
    /\ result' = "found"
    /\ UNCHANGED <<adj, visited, stack>>

\* Mutants: stack[u] stays set, and the call does not return.
DeadEnd_keepsStack ==
    /\ result = "searching" /\ calls # <<>>
    /\ Ahead = {}
    /\ calls' = [i \in DOMAIN Return |->
                    IF i = Len(Return) THEN [Return[i] EXCEPT !.v = Top.u + 1] ELSE Return[i]]
    /\ UNCHANGED <<adj, visited, stack, cycle, result>>
DeadEnd_stays ==
    /\ result = "searching" /\ calls # <<>>
    /\ Ahead = {}
    /\ stack' = stack \ {Top.u}
    /\ UNCHANGED <<adj, visited, calls, cycle, result>>

\* The loop of the innermost call ends: it returns 0, and its caller goes on.
DeadEnd ==
    /\ result = "searching" /\ calls # <<>>
    /\ Ahead = {}
    /\ stack' = stack \ {Top.u}
    /\ calls' = [i \in DOMAIN Return |->
                    IF i = Len(Return) THEN [Return[i] EXCEPT !.v = Top.u + 1] ELSE Return[i]]
    /\ UNCHANGED <<adj, visited, cycle, result>>

Unwind ==
    /\ result = "found" /\ calls # <<>>
    /\ cycle' = Append(cycle, Top.u)
    /\ calls' = Return
    /\ UNCHANGED <<adj, visited, stack, result>>

Finish ==
    /\ calls = <<>>
    /\ \/ result = "found" /\ result' = "cycle"
       \/ result = "searching" /\ Node \subseteq visited /\ result' = "none"
    /\ UNCHANGED <<adj, visited, stack, calls, cycle>>

\* No node of the program's graphs has an edge to itself.
Init ==
    /\ adj \in SUBSET {e \in Node \X Node : e[1] # e[2]}
    /\ visited = {} /\ stack = {}
    /\ calls = <<>> /\ cycle = <<>>
    /\ result = "searching"

Next == StartAtRoot \/ GoDeeper \/ BackEdge \/ DeadEnd \/ Unwind \/ Finish

Spec == Init /\ [][Next]_vars

\* The detector's thread runs on: nothing in the search waits.
FairSpec == Spec /\ WF_vars(Next)

-----------------------------------------------------------------------------

TypeOK ==
    /\ adj \subseteq Node \X Node
    /\ visited \subseteq Node /\ stack \subseteq visited
    /\ calls \in Seq([u : Node, v : 0..GRAPH_SIZE])
    /\ cycle \in Seq(Node)
    /\ result \in {"searching", "found", "cycle", "none"}

\* stack[] marks the nodes of the calls under way, and these form a path.
StackIsPath ==
    result = "searching" =>
        /\ stack = {calls[i].u : i \in DOMAIN calls}
        /\ \A i, j \in DOMAIN calls : i # j => calls[i].u # calls[j].u
        /\ \A i \in DOMAIN calls : i > 1 => <<calls[i - 1].u, calls[i].u>> \in adj

\* A set of nodes that each have an edge to another one of the set.
HasCycle == \E S \in (SUBSET Node) \ {{}} : \A u \in S : \E v \in S : <<u, v>> \in adj

\* The search reports a cycle exactly when the graph has one, though it never clears
\* visited between two roots. cycle[] has GRAPH_SIZE entries; a cycle through every node
\* would write one more, but never two.
FindsExactlyCycles ==
    /\ TypeOK /\ StackIsPath
    /\ Len(cycle) <= GRAPH_SIZE + 1
    /\ result \in {"found", "cycle"} => HasCycle
    /\ result = "none" => ~HasCycle

\* The search ends, and with it run_detection.
Ends == <>(result \in {"cycle", "none"})
=============================================================================
