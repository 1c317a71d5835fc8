-------------------------- MODULE StandAloneProofs --------------------------
(***************************************************************************)
(* What MCStandAlone's run checks of the parts that stand alone, proved    *)
(* for every value of the constants.  A behaviour of the whole is, of each *)
(* part, a behaviour of that part or one in which it stays where it is.    *)
(***************************************************************************)
EXTENDS MCStandAlone, CountingLemmas, FiniteSetTheorems, SequenceTheorems,
        NaturalsInduction, WellFoundedInduction, TLAPS

HP == INSTANCE HandshakeProofs

-----------------------------------------------------------------------------
(* The handshake: HandshakeProofs *)

LEMMA HandshakeMoves == Spec => HP!Spec
<1>1. Init => HP!Init
  BY DEF Init, Handshake!Init, HP!Init, Handshake!PipeInit, HP!PipeInit,
     Handshake!NoFile, HP!NoFile, Handshake!Fifo, HP!Fifo
<1>2. [Next]_vars => [HP!Next]_(HP!vars)
  <2>1. CASE Handshake!Next
    <3>1. HP!Next <=> Handshake!Next
      BY DEF
        HP!Fork, HP!UnlinkOld, HP!MakePipe, HP!CreateThread, HP!Minimize, HP!Resume,
        HP!RemoveDead, HP!CleanUp, HP!ChildMakesPipe, HP!OpenRequest, HP!WriteRequest,
        HP!CloseRequest, HP!OpenAnswer, HP!ReadAnswer, HP!CloseAnswer,
        HP!TerminationMakesPipe, HP!OpenNotice, HP!WriteNotice, HP!CloseNotice,
        HP!ChildUnlinks, HP!ChildDies, HP!ThreadOpens, HP!ThreadReads, HP!Allocate,
        HP!CreatePcb, HP!ThreadOpensAnswer, HP!ThreadWrites, HP!ThreadClosesAnswer,
        HP!ThreadCloses, HP!ListenerSees, HP!ListenerOpens, HP!ListenerReads,
        HP!ListenerRemoves, HP!ListenerCloses, HP!MainStep, HP!ChildStep, HP!ThreadStep,
        HP!ListenerStep, HP!Next, HP!go, HP!at, HP!ChildAlive, HP!remove_pcb, HP!mkfifo,
        HP!unlink, HP!open_reading, HP!open_writing, HP!close, HP!write, HP!read, HP!Files,
        HP!FileOf, HP!IsOpen, HP!CanRead, HP!CanWrite, HP!Contents, HP!pipe, HP!NoFile,
        HP!Fifo,
        Handshake!Fork, Handshake!UnlinkOld, Handshake!MakePipe, Handshake!CreateThread,
        Handshake!Minimize, Handshake!Resume, Handshake!RemoveDead, Handshake!CleanUp,
        Handshake!ChildMakesPipe, Handshake!OpenRequest, Handshake!WriteRequest,
        Handshake!CloseRequest, Handshake!OpenAnswer, Handshake!ReadAnswer,
        Handshake!CloseAnswer, Handshake!TerminationMakesPipe, Handshake!OpenNotice,
        Handshake!WriteNotice, Handshake!CloseNotice, Handshake!ChildUnlinks,
        Handshake!ChildDies, Handshake!ThreadOpens, Handshake!ThreadReads,
        Handshake!Allocate, Handshake!CreatePcb, Handshake!ThreadOpensAnswer,
        Handshake!ThreadWrites, Handshake!ThreadClosesAnswer, Handshake!ThreadCloses,
        Handshake!ListenerSees, Handshake!ListenerOpens, Handshake!ListenerReads,
        Handshake!ListenerRemoves, Handshake!ListenerCloses, Handshake!MainStep,
        Handshake!ChildStep, Handshake!ThreadStep, Handshake!ListenerStep, Handshake!Next,
        Handshake!go, Handshake!at, Handshake!ChildAlive, Handshake!remove_pcb,
        Handshake!mkfifo, Handshake!unlink, Handshake!open_reading, Handshake!open_writing,
        Handshake!close, Handshake!write, Handshake!read, Handshake!Files, Handshake!FileOf,
        Handshake!IsOpen, Handshake!CanRead, Handshake!CanWrite, Handshake!Contents,
        Handshake!pipe, Handshake!NoFile, Handshake!Fifo
    <3> QED
      BY <2>1, <3>1
  <2>2. CASE UNCHANGED handshake
    BY <2>2 DEF handshake, HP!vars, HP!pipe
  <2> QED
    BY <2>1, <2>2 DEF Next, vars, Only, OnlyRing, OnlySearch, OnlyHandshake, OnlyEditor,
       OnlyClocks, OnlyMonths
<1> QED
  BY <1>1, <1>2, PTL DEF Spec, HP!Spec

\* ipc_manager.cpp: handle_ipc_request, which answers with its reading end open, never
\* waits for the child to open its own, and its write never ends the system.
THEOREM AnswersWithoutWaiting == Spec => []AnswerNeedsNoWait
<1>1. HP!HandshakeAssumption
  BY PartsAssumption DEF HP!HandshakeAssumption, Handshake!HandshakeAssumption
<1>2. HP!AnswerNeedsNoWait => AnswerNeedsNoWait
  BY DEF AnswerNeedsNoWait, HP!AnswerNeedsNoWait, Handshake!AnswerNeedsNoWait, HP!at,
     Handshake!at, HP!CanWrite, Handshake!CanWrite, HP!FileOf, Handshake!FileOf,
     HP!Files, Handshake!Files, HP!Fifo, Handshake!Fifo
<1>3. HP!HandshakeAssumption /\ HP!Spec => []HP!AnswerNeedsNoWait
  BY HP!AnswersWithoutWaiting
<1> QED
  BY <1>1, <1>2, <1>3, HandshakeMoves, PTL

\* ipc_manager.cpp, ipc_manager.h: one FIFO serves both directions and a read takes all
\* there is, yet no two messages ever meet and none is read by the wrong side.
THEOREM NothingMixes == Spec => []MessagesNeverMix
<1>1. HP!HandshakeAssumption
  BY PartsAssumption DEF HP!HandshakeAssumption, Handshake!HandshakeAssumption
<1>2. HP!MessagesNeverMix => MessagesNeverMix
  BY DEF MessagesNeverMix, HP!MessagesNeverMix, Handshake!MessagesNeverMix, HP!at,
     Handshake!at, HP!Fifo, Handshake!Fifo, HP!TypeOK, Handshake!TypeOK, HP!PipeTypeOK,
     Handshake!PipeTypeOK, HP!NoFile, Handshake!NoFile, HP!Message, Handshake!Message
<1>3. HP!HandshakeAssumption /\ HP!Spec => []HP!MessagesNeverMix
  BY HP!NothingMixes
<1> QED
  BY <1>1, <1>2, <1>3, HandshakeMoves, PTL

\* ipc_manager.cpp, ipc_manager.h: whatever is lost on the way, a task runs only behind the
\* one create_pcb made for it, without a PCB only if the table had no room there, and its
\* PCB is not removed before it has begun to leave.
THEOREM ProtocolIsImplemented == Spec => ImplementsGrantProtocol
<1>1. HP!HandshakeAssumption
  BY PartsAssumption DEF HP!HandshakeAssumption, Handshake!HandshakeAssumption
<1>2. HP!ImplementsGrantProtocol => ImplementsGrantProtocol
  BY DEF ImplementsGrantProtocol, HP!ImplementsGrantProtocol,
     Handshake!ImplementsGrantProtocol, HP!at, Handshake!at,
     HP!Protocol!Spec, HP!Protocol!Init, HP!Protocol!Next, HP!Protocol!Register,
     HP!Protocol!Run, HP!Protocol!Leave, HP!Protocol!Release,
     Handshake!Protocol!Spec, Handshake!Protocol!Init, Handshake!Protocol!Next,
     Handshake!Protocol!Register, Handshake!Protocol!Run, Handshake!Protocol!Leave,
     Handshake!Protocol!Release
<1>3. HP!HandshakeAssumption /\ HP!Spec => HP!ImplementsGrantProtocol
  BY HP!ProtocolIsImplemented
<1> QED
  BY <1>1, <1>2, <1>3, HandshakeMoves, PTL

-----------------------------------------------------------------------------
(***************************************************************************)
(* The detector's search, for a graph of any size.  A node is finished     *)
(* when its call has returned 0.  While the search goes on, a finished     *)
(* node has finished successors only and no cycle lies in the finished     *)
(* nodes, so a node that is visited and not in stack[] need never be       *)
(* looked at again, not even from another root.                            *)
(***************************************************************************)
finished == visited \ stack

\* Some nodes of S form a cycle.
CycleIn(S) == \E C \in (SUBSET S) \ {{}} : \A u \in C : \E v \in C : <<u, v>> \in adj

\* Where the loop of call i has come to: a call that has called another waits at its node.
LoopAt(i) == IF i < Len(calls) THEN calls[i + 1].u ELSE calls[i].v

Explored ==
    result = "searching" =>
        /\ \A u \in finished, v \in Search!Node : <<u, v>> \in adj => v \in finished
        /\ ~CycleIn(finished)
        /\ \A i \in DOMAIN calls, v \in Search!Node :
              <<calls[i].u, v>> \in adj /\ v < LoopAt(i) => v \in finished

\* cycle[] has room for what the calls under way will write.
Room ==
    IF result = "searching" THEN cycle = <<>>
    ELSE Len(cycle) + Len(calls) <= GRAPH_SIZE + 1

Verdict ==
    /\ result \in {"found", "cycle"} => Search!HasCycle
    /\ result = "none" => ~Search!HasCycle

SearchInv == Search!TypeOK /\ Search!StackIsPath /\ Explored /\ Room /\ Verdict

-----------------------------------------------------------------------------
(* Operators *)

\* The successor of a number below a bound.
LEMMA NextInRange ==
    ASSUME NEW max \in Nat, NEW i \in 0..(max - 1) PROVE i + 1 \in 0..max
  OBVIOUS

\* Min of a set of nodes.
LEMMA MinOfNodes ==
    ASSUME NEW S \in SUBSET Nat, S # {}
    PROVE  Search!Min(S) \in S /\ \A j \in S : Search!Min(S) <= j
<1>1. \E i \in S : \A j \in S : <<j, i>> \notin OpToRel(<, Nat)
  BY NatLessThanWellFounded, WFMin
<1>2. PICK i \in S : \A j \in S : <<j, i>> \notin OpToRel(<, Nat)
  BY <1>1
<1>3. ASSUME NEW j \in S PROVE i <= j
  <2>1. i \in Nat /\ j \in Nat
    OBVIOUS
  <2>2. ~(j < i)
    BY <1>2, <2>1 DEF OpToRel
  <2> QED
    BY <2>1, <2>2
<1>4. \E i2 \in S : \A j \in S : i2 <= j
  BY <1>3
<1> QED
  BY <1>4 DEF Search!Min

\* The innermost call, and what is left when it returns.
LEMMA Innermost ==
    ASSUME SearchInv, calls # <<>>
    PROVE  /\ Len(calls) \in Nat \ {0} /\ DOMAIN calls = 1..Len(calls)
           /\ Search!Top = calls[Len(calls)] /\ Search!Top.u \in Search!Node /\ Search!Top.v \in 0..GRAPH_SIZE
           /\ Len(Search!Return) = Len(calls) - 1 /\ DOMAIN Search!Return = 1..(Len(calls) - 1)
           /\ \A i \in 1..(Len(calls) - 1) : Search!Return[i] = calls[i]
           /\ Search!Return \in Seq([u : Search!Node, v : 0..GRAPH_SIZE])
<1>1. calls \in Seq([u : Search!Node, v : 0..GRAPH_SIZE])
  BY DEF SearchInv, Search!TypeOK
<1>2. Len(calls) \in Nat \ {0} /\ DOMAIN calls = 1..Len(calls)
  BY <1>1
<1>3. calls[Len(calls)] \in [u : Search!Node, v : 0..GRAPH_SIZE]
  <2>1. Len(calls) \in 1..Len(calls)
    BY <1>2
  <2> QED
    BY <1>1, <2>1, ElementOfSeq
<1>4. Search!Top = calls[Len(calls)] /\ Search!Top.u \in Search!Node /\ Search!Top.v \in 0..GRAPH_SIZE
  BY <1>3 DEF Search!Top
<1>5. /\ Len(Search!Return) = Len(calls) - 1 /\ DOMAIN Search!Return = 1..(Len(calls) - 1)
      /\ \A i \in 1..(Len(calls) - 1) : Search!Return[i] = calls[i]
  BY <1>1, <1>2 DEF Search!Return
<1>6. Search!Return \in Seq([u : Search!Node, v : 0..GRAPH_SIZE])
  <2> DEFINE Call == [u : Search!Node, v : 0..GRAPH_SIZE]
  <2>1. calls \in Seq(Call)
    BY <1>1
  <2> HIDE DEF Call
  <2>2. SubSeq(calls, 1, Len(calls) - 1) \in Seq(Call)
    BY <1>2, <2>1
  <2> QED
    BY <2>2 DEF Search!Return, Call
<1> QED
  BY <1>2, <1>4, <1>5, <1>6

\* The calls under way are of different nodes: the recursion is never deeper than the graph.
LEMMA DepthIsBounded ==
    ASSUME Search!GraphAssumption, SearchInv, result = "searching"
    PROVE  Len(calls) <= GRAPH_SIZE
<1>1. calls \in Seq([u : Search!Node, v : 0..GRAPH_SIZE]) /\ GRAPH_SIZE \in Nat
  BY DEF SearchInv, Search!TypeOK, Search!GraphAssumption
<1>2. Len(calls) \in Nat /\ DOMAIN calls = 1..Len(calls)
  BY <1>1
<1> DEFINE f == [i \in 1..Len(calls) |-> calls[i].u]
<1>3. f \in [1..Len(calls) -> 0..(GRAPH_SIZE - 1)]
  <2>1. \A i \in 1..Len(calls) : calls[i] \in [u : Search!Node, v : 0..GRAPH_SIZE]
    BY <1>1, ElementOfSeq
  <2> QED
    BY <2>1 DEF Search!Node
<1>4. \A i, j \in 1..Len(calls) : i # j => f[i] # f[j]
  BY <1>2 DEF SearchInv, Search!StackIsPath
<1>5. /\ IsFiniteSet(1..Len(calls)) /\ Cardinality(1..Len(calls)) = Len(calls)
      /\ IsFiniteSet(0..(GRAPH_SIZE - 1)) /\ Cardinality(0..(GRAPH_SIZE - 1)) = GRAPH_SIZE
  <2>1. /\ IsFiniteSet(1..Len(calls))
        /\ Cardinality(1..Len(calls)) = IF 1 > Len(calls) THEN 0 ELSE Len(calls) - 1 + 1
    BY <1>2, FS_Interval
  <2>2. /\ IsFiniteSet(0..(GRAPH_SIZE - 1))
        /\ Cardinality(0..(GRAPH_SIZE - 1))
             = IF 0 > GRAPH_SIZE - 1 THEN 0 ELSE GRAPH_SIZE - 1 - 0 + 1
    BY <1>1, FS_Interval
  <2> QED
    BY <1>1, <1>2, <2>1, <2>2
<1> HIDE DEF f
<1>6. CASE Len(calls) > GRAPH_SIZE
  <2>1. Cardinality(0..(GRAPH_SIZE - 1)) < Cardinality(1..Len(calls))
    BY <1>1, <1>2, <1>5, <1>6
  <2>2. \E x, z \in 1..Len(calls) : x # z /\ f[x] = f[z]
    BY <1>3, <1>5, <2>1, FS_PigeonHole
  <2> QED
    BY <1>4, <2>2
<1> QED
  BY <1>1, <1>2, <1>6

-----------------------------------------------------------------------------
(* One lemma per action *)

\* A call marks a node nobody has visited; its caller has looked at all it has before it.
LEMMA CallMade ==
    ASSUME Search!GraphAssumption, SearchInv, result = "searching", NEW u \in Search!Node \ visited, Search!dfs(u),
           calls # <<>> =>
              /\ <<Search!Top.u, u>> \in adj
              /\ \A v \in Search!Node : <<Search!Top.u, v>> \in adj /\ v < u => v \in finished
    PROVE  SearchInv'
<1> DEFINE n == Len(calls)
<1>0. /\ calls \in Seq([u : Search!Node, v : 0..GRAPH_SIZE]) /\ GRAPH_SIZE \in Nat
      /\ adj \subseteq Search!Node \X Search!Node /\ visited \subseteq Search!Node /\ stack \subseteq visited
      /\ n \in Nat /\ DOMAIN calls = 1..n
  BY DEF SearchInv, Search!TypeOK, Search!GraphAssumption
<1>1. /\ visited' = visited \union {u} /\ stack' = stack \union {u}
      /\ calls' = Append(calls, [u |-> u, v |-> 0])
      /\ UNCHANGED <<adj, cycle, result>>
  BY DEF Search!dfs
<1>2. [u |-> u, v |-> 0] \in [u : Search!Node, v : 0..GRAPH_SIZE]
  BY <1>0
<1>3. /\ calls' \in Seq([u : Search!Node, v : 0..GRAPH_SIZE])
      /\ Len(calls') = n + 1 /\ DOMAIN calls' = 1..(n + 1)
      /\ \A i \in 1..n : calls'[i] = calls[i]
      /\ calls'[n + 1] = [u |-> u, v |-> 0]
  BY <1>0, <1>1, <1>2
<1>4. finished' = finished
  BY <1>0, <1>1 DEF finished
<1>5. Search!TypeOK'
  BY <1>0, <1>1, <1>3 DEF SearchInv, Search!TypeOK
<1>6. Search!StackIsPath'
  <2>1. /\ stack = {calls[i].u : i \in 1..n}
        /\ \A i, j \in 1..n : i # j => calls[i].u # calls[j].u
        /\ \A i \in 1..n : i > 1 => <<calls[i - 1].u, calls[i].u>> \in adj
    BY <1>0 DEF SearchInv, Search!StackIsPath
  <2>2. calls'[n + 1].u = u /\ \A i \in 1..n : calls'[i].u = calls[i].u
    BY <1>3
  <2>3. stack' = {calls'[i].u : i \in 1..(n + 1)}
    BY <1>0, <1>1, <2>1, <2>2
  <2>4. \A i \in 1..n : calls[i].u # u
    BY <1>0, <2>1
  <2>5. \A i, j \in 1..(n + 1) : i # j => calls'[i].u # calls'[j].u
    <3>1. \A i \in 1..(n + 1) : i \in 1..n \/ i = n + 1
      BY <1>0
    <3>2. \A i \in 1..n : calls'[i].u # u
      BY <2>2, <2>4
    <3>3. \A i, j \in 1..n : i # j => calls'[i].u # calls'[j].u
      BY <2>1, <2>2
    <3>4. calls'[n + 1].u = u
      BY <2>2
    <3> QED
      BY <3>1, <3>2, <3>3, <3>4, Zenon
  <2>6. ASSUME NEW i \in 1..(n + 1), i > 1
        PROVE  <<calls'[i - 1].u, calls'[i].u>> \in adj'
    <3>1. CASE i = n + 1
      <4>1. calls # <<>> /\ n > 0 /\ Search!Top = calls[n]
        BY <1>0, <2>6, <3>1 DEF Search!Top
      <4>2. <<calls[n].u, u>> \in adj
        BY <4>1
      <4>3. n \in 1..n /\ i - 1 = n
        BY <1>0, <3>1, <4>1
      <4> QED
        BY <1>1, <2>2, <3>1, <4>2, <4>3
    <3>2. CASE i # n + 1
      <4>1. i \in 1..n /\ i - 1 \in 1..n
        BY <1>0, <2>6, <3>2
      <4> QED
        BY <1>1, <2>1, <2>2, <2>6, <4>1
    <3> QED
      BY <3>1, <3>2
  <2> QED
    BY <1>3, <2>3, <2>5, <2>6 DEF Search!StackIsPath
<1>7. Explored'
  <2>1. ASSUME NEW i \in 1..(n + 1), NEW v \in Search!Node,
               <<calls'[i].u, v>> \in adj', v < LoopAt(i)'
        PROVE  v \in finished
    <3>1. CASE i = n + 1
      <4>1. LoopAt(i)' = 0
        BY <1>0, <1>3, <3>1 DEF LoopAt
      <4> QED
        BY <1>0, <2>1, <4>1 DEF Search!Node
    <3>2. CASE i = n
      <4>1. calls # <<>> /\ Search!Top = calls[n] /\ calls'[i] = calls[n] /\ LoopAt(i)' = u
        BY <1>0, <1>3, <3>2, <2>1 DEF LoopAt, Search!Top
      <4> QED
        BY <1>1, <2>1, <4>1
    <3>3. CASE i # n /\ i # n + 1
      <4>1. i \in 1..n /\ i + 1 \in 1..n /\ i < n /\ i < n + 1
        <5>1. n \in Nat /\ i \in 1..(n + 1)
          BY <1>0, <2>1
        <5> HIDE DEF n
        <5> QED
          BY <3>3, <5>1
      <4>2. LoopAt(i)' = LoopAt(i) /\ calls'[i] = calls[i]
        BY <1>3, <4>1 DEF LoopAt
      <4> QED
        BY <1>0, <1>1, <2>1, <4>1, <4>2 DEF SearchInv, Explored
    <3> QED
      BY <3>1, <3>2, <3>3
  <2>2. \A x \in finished, v \in Search!Node : <<x, v>> \in adj' => v \in finished
    BY <1>1 DEF SearchInv, Explored
  <2>3. CycleIn(finished)' <=> CycleIn(finished)
    BY <1>1, <1>4 DEF CycleIn
  <2>4. ~CycleIn(finished)'
    BY <2>3 DEF SearchInv, Explored
  <2> QED
    BY <1>3, <1>4, <2>1, <2>2, <2>4 DEF Explored
<1>8. Room' /\ Verdict'
  BY <1>1 DEF SearchInv, Room, Verdict, Search!HasCycle
<1> QED
  BY <1>5, <1>6, <1>7, <1>8 DEF SearchInv


LEMMA StartAtRootStep == ASSUME Search!GraphAssumption, SearchInv, Search!StartAtRoot PROVE SearchInv'
<1>1. Search!Node \ visited # {} /\ Search!Node \ visited \in SUBSET Nat
  BY DEF Search!StartAtRoot, Search!Node, Search!GraphAssumption
<1>2. Search!Min(Search!Node \ visited) \in Search!Node \ visited
  BY <1>1, MinOfNodes
<1> QED
  BY <1>2, CallMade DEF Search!StartAtRoot

LEMMA GoDeeperStep == ASSUME Search!GraphAssumption, SearchInv, Search!GoDeeper PROVE SearchInv'
<1>1. Search!Ahead # {} /\ Search!Ahead \in SUBSET Nat /\ result = "searching" /\ calls # <<>>
  <2>1. Search!Node \subseteq Nat /\ Search!Ahead \subseteq Search!Node
    BY DEF Search!Node, Search!Ahead, Search!GraphAssumption
  <2> QED
    BY <2>1 DEF Search!GoDeeper
<1>2. Search!Min(Search!Ahead) \in Search!Ahead /\ \A v \in Search!Ahead : Search!Min(Search!Ahead) <= v
  BY <1>1, MinOfNodes
<1> DEFINE w == Search!Min(Search!Ahead)
<1>3. w \in Search!Node \ visited /\ <<Search!Top.u, w>> \in adj /\ Search!dfs(w)
  BY <1>2 DEF Search!GoDeeper, Search!Ahead
<1>4. ASSUME NEW v \in Search!Node, <<Search!Top.u, v>> \in adj, v < w PROVE v \in finished
  <2>1. v \notin Search!Ahead
    <3>1. v \in Int /\ w \in Int /\ ~(w <= v)
      BY <1>3, <1>4 DEF Search!Node
    <3> QED
      BY <1>2, <3>1
  <2>2. Search!Top.v \in Int /\ v \in Int /\ Len(calls) \in DOMAIN calls /\ Search!Top = calls[Len(calls)]
        /\ LoopAt(Len(calls)) = Search!Top.v
    BY <1>1, Innermost DEF LoopAt, Search!Node
  <2>3. CASE v < Search!Top.v
    BY <1>1, <1>4, <2>2, <2>3 DEF SearchInv, Explored
  <2>4. CASE ~(v < Search!Top.v)
    <3>1. v >= Search!Top.v
      BY <2>2, <2>4
    <3> QED
      BY <1>4, <2>1, <3>1 DEF Search!Ahead, finished
  <2> QED
    BY <2>3, <2>4
<1> HIDE DEF w
<1> QED
  BY <1>1, <1>3, <1>4, CallMade

\* The call that meets a node of the path closes a cycle of the path's nodes from there on.
LEMMA BackEdgeStep == ASSUME Search!GraphAssumption, SearchInv, Search!BackEdge PROVE SearchInv'
<1> DEFINE n == Len(calls)
           w == Search!Min(Search!Ahead)
<1>1. Search!Ahead # {} /\ Search!Ahead \in SUBSET Nat /\ result = "searching" /\ calls # <<>>
  <2>1. Search!Node \subseteq Nat /\ Search!Ahead \subseteq Search!Node
    BY DEF Search!Node, Search!Ahead, Search!GraphAssumption
  <2> QED
    BY <2>1 DEF Search!BackEdge
<1>2. w \in Search!Ahead
  BY <1>1, MinOfNodes
<1>3. w \in Search!Node /\ w \in stack /\ <<Search!Top.u, w>> \in adj
  BY <1>2 DEF Search!BackEdge, Search!Ahead
<1>4. /\ n \in Nat \ {0} /\ DOMAIN calls = 1..n /\ Search!Top = calls[n] /\ Search!Top.u \in Search!Node
      /\ Len(Search!Return) = n - 1 /\ Search!Return \in Seq([u : Search!Node, v : 0..GRAPH_SIZE])
  BY <1>1, Innermost
<1>5. /\ cycle' = cycle \o <<w, Search!Top.u>> /\ calls' = Search!Return /\ result' = "found"
      /\ UNCHANGED <<adj, visited, stack>>
  BY DEF Search!BackEdge
<1>6. Search!HasCycle
  <2>1. /\ stack = {calls[i].u : i \in 1..n}
        /\ \A i \in 1..n : i > 1 => <<calls[i - 1].u, calls[i].u>> \in adj
    BY <1>1, <1>4 DEF SearchInv, Search!StackIsPath
  <2>2. PICK k \in 1..n : w = calls[k].u
    BY <1>3, <2>1
  <2> DEFINE C == {calls[i].u : i \in k..n}
  <2>3. \A i \in k..n : i \in 1..n
    BY <1>4, <2>2
  <2>4. C \in SUBSET Search!Node
    <3>1. stack \subseteq Search!Node
      BY DEF SearchInv, Search!TypeOK
    <3> QED
      BY <2>1, <2>3, <3>1
  <2>5. w \in C
    <3>1. k \in k..n
      BY <1>4, <2>2
    <3> QED
      BY <2>2, <3>1
  <2>6. ASSUME NEW u \in C PROVE \E v \in C : <<u, v>> \in adj
    <3>1. PICK i \in k..n : u = calls[i].u
      OBVIOUS
    <3>2. CASE i = n
      BY <1>3, <1>4, <2>5, <3>1, <3>2
    <3>3. CASE i # n
      <4>1. i + 1 \in k..n /\ i + 1 \in 1..n /\ i + 1 > 1 /\ (i + 1) - 1 = i
        <5>1. n \in Nat /\ k \in 1..n /\ i \in k..n
          BY <1>4, <2>2, <3>1
        <5> HIDE DEF n, C
        <5> QED
          BY <3>3, <5>1
      <4>2. <<calls[i].u, calls[i + 1].u>> \in adj
        BY <2>1, <4>1
      <4>3. calls[i + 1].u \in C
        BY <4>1
      <4> QED
        BY <3>1, <4>2, <4>3
    <3> QED
      BY <3>2, <3>3
  <2> HIDE DEF C
  <2> QED
    BY <2>4, <2>5, <2>6 DEF Search!HasCycle
<1>7. Search!TypeOK'
  <2>1. cycle \o <<w, Search!Top.u>> \in Seq(Search!Node)
    BY <1>3, <1>4 DEF SearchInv, Search!TypeOK
  <2> QED
    BY <1>4, <1>5, <2>1 DEF SearchInv, Search!TypeOK
<1>8. Room'
  <2>1. n <= GRAPH_SIZE /\ GRAPH_SIZE \in Nat
    BY <1>1, DepthIsBounded DEF Search!GraphAssumption
  <2>2. Len(cycle') = 2
    <3>1. cycle = <<>>
      BY <1>1 DEF SearchInv, Room
    <3>2. cycle' = <<w, Search!Top.u>>
      BY <1>3, <1>4, <1>5, <3>1
    <3> QED
      BY <3>2
  <2>3. Len(cycle') + Len(calls') <= GRAPH_SIZE + 1
    BY <1>4, <1>5, <2>1, <2>2
  <2> QED
    BY <1>5, <2>3 DEF Room
<1>9. Search!StackIsPath' /\ Explored' /\ Verdict'
  BY <1>5, <1>6 DEF Search!StackIsPath, Explored, Verdict, Search!HasCycle
<1> QED
  BY <1>7, <1>8, <1>9 DEF SearchInv

\* A call that returns 0 has finished its node: whatever it leads to is finished, so no cycle
\* goes through it.
LEMMA DeadEndStep == ASSUME Search!GraphAssumption, SearchInv, Search!DeadEnd PROVE SearchInv'
<1> DEFINE n == Len(calls)
           u == Search!Top.u
<1>1. result = "searching" /\ calls # <<>> /\ Search!Ahead = {}
  BY DEF Search!DeadEnd
<1>2. /\ n \in Nat \ {0} /\ DOMAIN calls = 1..n /\ Search!Top = calls[n]
      /\ u \in Search!Node /\ Search!Top.v \in 0..GRAPH_SIZE
      /\ Len(Search!Return) = n - 1 /\ DOMAIN Search!Return = 1..(n - 1)
      /\ \A i \in 1..(n - 1) : Search!Return[i] = calls[i]
      /\ Search!Return \in Seq([u : Search!Node, v : 0..GRAPH_SIZE])
  BY <1>1, Innermost
<1>3. /\ stack' = stack \ {u}
      /\ calls' = [i \in 1..(n - 1) |->
                      IF i = n - 1 THEN [Search!Return[i] EXCEPT !.v = u + 1] ELSE Search!Return[i]]
      /\ UNCHANGED <<adj, visited, cycle, result>>
  BY <1>2 DEF Search!DeadEnd
<1>4. /\ stack = {calls[i].u : i \in 1..n}
      /\ \A i, j \in 1..n : i # j => calls[i].u # calls[j].u
      /\ \A i \in 1..n : i > 1 => <<calls[i - 1].u, calls[i].u>> \in adj
  BY <1>1, <1>2 DEF SearchInv, Search!StackIsPath
<1>5. /\ \A i \in 1..(n - 1) : i \in 1..n /\ calls'[i].u = calls[i].u
      /\ \A i \in 1..(n - 1) : calls'[i].v = IF i = n - 1 THEN u + 1 ELSE calls[i].v
      /\ DOMAIN calls' = 1..(n - 1) /\ Len(calls') = n - 1
      /\ calls' \in Seq([u : Search!Node, v : 0..GRAPH_SIZE])
  <2>1. ASSUME NEW i \in 1..(n - 1)
        PROVE  /\ i \in 1..n /\ Search!Return[i] = calls[i] /\ calls[i].u \in Search!Node
               /\ Search!Return[i] \in [u : Search!Node, v : 0..GRAPH_SIZE]
    <3>1. n \in Nat /\ i \in 1..(n - 1)
      BY <1>2, <2>1
    <3>2. i \in 1..n
      <4> HIDE DEF n
      <4> QED
        BY <3>1
    <3>3. Search!Return[i] \in [u : Search!Node, v : 0..GRAPH_SIZE]
      BY <1>2, <3>1, ElementOfSeq
    <3>4. Search!Return[i] = calls[i]
      BY <1>2, <3>1
    <3> QED
      BY <3>2, <3>3, <3>4
  <2>2. ASSUME NEW i \in 1..(n - 1)
        PROVE  /\ calls'[i].u = calls[i].u
               /\ calls'[i].v = IF i = n - 1 THEN u + 1 ELSE calls[i].v
               /\ calls'[i] \in [u : Search!Node, v : 0..GRAPH_SIZE]
    <3>1. calls'[i] = IF i = n - 1 THEN [Search!Return[i] EXCEPT !.v = u + 1] ELSE Search!Return[i]
      BY <1>3
    <3>2. u + 1 \in 0..GRAPH_SIZE
      <4>1. GRAPH_SIZE \in Nat /\ u \in 0..(GRAPH_SIZE - 1)
        BY <1>2 DEF Search!Node, Search!GraphAssumption
      <4> QED
        BY <4>1, NextInRange
    <3> QED
      BY <2>1, <3>1, <3>2
  <2>3. n - 1 \in Nat /\ DOMAIN calls' = 1..(n - 1)
    BY <1>2, <1>3
  <2> DEFINE Call == [u : Search!Node, v : 0..GRAPH_SIZE]
  <2>4. calls' \in [1..(n - 1) -> Call]
    BY <1>3, <2>2
  <2> HIDE DEF Call
  <2>5. calls' \in Seq(Call) /\ Len(calls') = n - 1
    BY <2>3, <2>4
  <2> QED
    BY <2>1, <2>2, <2>3, <2>5 DEF Call
<1>6. finished' = finished \union {u} /\ u \notin finished /\ u \in visited
  <2>1. u \in stack
    <3>1. n \in 1..n
      BY <1>2
    <3> QED
      BY <1>2, <1>4, <3>1
  <2> QED
    BY <1>3, <2>1 DEF finished, SearchInv, Search!TypeOK
<1>7. \A v \in Search!Node : <<u, v>> \in adj => v \in finished
  <2>1. ASSUME NEW v \in Search!Node, <<u, v>> \in adj PROVE v \in finished
    <3>1. LoopAt(n) = Search!Top.v /\ n \in DOMAIN calls /\ v \in Int /\ Search!Top.v \in Int
      BY <1>2 DEF LoopAt, Search!Node
    <3>2. CASE v < Search!Top.v
      BY <1>1, <1>2, <2>1, <3>1, <3>2 DEF SearchInv, Explored
    <3>3. CASE v >= Search!Top.v
      BY <1>1, <2>1, <3>3 DEF Search!Ahead, finished
    <3> QED
      BY <3>1, <3>2, <3>3
  <2> QED
    BY <2>1
<1>8. Search!TypeOK'
  BY <1>3, <1>5 DEF SearchInv, Search!TypeOK
<1>9. Search!StackIsPath'
  <2>1. stack' = {calls'[i].u : i \in 1..(n - 1)}
    <3>1. n \in Nat \ {0}
      BY <1>2
    <3>2. /\ \A i \in 1..n : i = n \/ i \in 1..(n - 1)
          /\ \A i \in 1..(n - 1) : i \in 1..n /\ i # n
          /\ n \in 1..n
      <4> HIDE DEF n
      <4> QED
        BY <3>1
    <3>3. calls[n].u = u
      BY <1>2
    <3>4. ASSUME NEW x \in stack' PROVE x \in {calls'[i].u : i \in 1..(n - 1)}
      <4>1. PICK i \in 1..n : x = calls[i].u
        BY <1>3, <1>4
      <4>2. i # n
        BY <1>3, <3>3, <4>1
      <4>3. i \in 1..(n - 1)
        BY <3>2, <4>2
      <4> QED
        BY <1>5, <4>1, <4>3
    <3>5. ASSUME NEW i \in 1..(n - 1) PROVE calls'[i].u \in stack'
      <4>1. calls'[i].u = calls[i].u /\ i \in 1..n /\ i # n
        BY <1>5, <3>2
      <4>2. calls[i].u # u /\ calls[i].u \in stack
        BY <1>4, <3>2, <3>3, <4>1
      <4> QED
        BY <1>3, <4>1, <4>2
    <3> QED
      BY <3>4, <3>5
  <2>2. \A i, j \in 1..(n - 1) : i # j => calls'[i].u # calls'[j].u
    BY <1>4, <1>5
  <2>3. \A i \in 1..(n - 1) : i > 1 => <<calls'[i - 1].u, calls'[i].u>> \in adj'
    <3>1. \A i \in 1..(n - 1) : i > 1 => i - 1 \in 1..(n - 1)
      BY <1>2
    <3> QED
      BY <1>3, <1>4, <1>5, <3>1
  <2> QED
    BY <1>5, <2>1, <2>2, <2>3 DEF Search!StackIsPath
<1>10. \A x \in finished, v \in Search!Node : <<x, v>> \in adj => v \in finished
  BY <1>1 DEF SearchInv, Explored
<1>11. ~CycleIn(finished)'
  <2>1. ASSUME NEW C \in SUBSET (finished \union {u}), C # {},
               \A x \in C : \E z \in C : <<x, z>> \in adj
        PROVE  FALSE
    <3> DEFINE D == C \ {u}
    <3>1. finished \subseteq Search!Node
      BY DEF finished, SearchInv, Search!TypeOK
    <3>2. \A x \in C : \E z \in D : <<x, z>> \in adj
      <4>1. ASSUME NEW x \in C PROVE \E z \in D : <<x, z>> \in adj
        <5>1. PICK z \in C : <<x, z>> \in adj
          BY <2>1
        <5>2. z \in Search!Node
          BY <1>2, <2>1, <3>1
        <5>3. z \in finished
          BY <1>7, <1>10, <2>1, <5>1, <5>2
        <5> QED
          BY <1>6, <5>1, <5>3
      <4> QED
        BY <4>1
    <3>3. D \in SUBSET finished /\ D # {}
      BY <2>1, <3>2
    <3>4. \A x \in D : \E z \in D : <<x, z>> \in adj
      BY <3>2
    <3> HIDE DEF D
    <3>5. CycleIn(finished)
      BY <3>3, <3>4 DEF CycleIn
    <3> QED
      BY <1>1, <3>5 DEF SearchInv, Explored
  <2>2. ~CycleIn(finished \union {u})
    <3>1. ASSUME CycleIn(finished \union {u}) PROVE FALSE
      <4>1. PICK C \in (SUBSET (finished \union {u})) \ {{}} :
               \A x \in C : \E z \in C : <<x, z>> \in adj
        BY <3>1 DEF CycleIn
      <4>2. C \in SUBSET (finished \union {u}) /\ C # {}
        OBVIOUS
      <4> QED
        BY <2>1, <4>1, <4>2
    <3> QED
      BY <3>1
  <2>3. CycleIn(finished)' <=> CycleIn(finished \union {u})
    BY <1>3, <1>6 DEF CycleIn
  <2> QED
    BY <2>2, <2>3
<1>12. ASSUME NEW i \in 1..(n - 1), NEW v \in Search!Node,
              <<calls'[i].u, v>> \in adj', v < LoopAt(i)'
       PROVE  v \in finished'
  <2>1. i \in 1..n /\ calls'[i].u = calls[i].u /\ i \in Int /\ n \in Int /\ i < n /\ v \in Int
    <3>1. n \in Nat \ {0} /\ i \in 1..(n - 1) /\ v \in Int
      BY <1>2, <1>12 DEF Search!Node
    <3>2. calls'[i].u = calls[i].u
      BY <1>5, <3>1
    <3> HIDE DEF n
    <3> QED
      BY <3>1, <3>2
  <2>2. LoopAt(i) = calls[i + 1].u
    BY <2>1 DEF LoopAt
  <2>3. CASE i = n - 1
    <3>1. LoopAt(i)' = u + 1 /\ LoopAt(i) = u /\ u \in Int
      <4>1. u \in Int /\ i + 1 = n /\ calls[n].u = u
        BY <1>2, <2>1, <2>3 DEF Search!Node
      <4>2. ~(i < Len(calls')) /\ calls'[i].v = u + 1
        BY <1>5, <1>12, <2>1, <2>3
      <4> QED
        BY <2>2, <4>1, <4>2 DEF LoopAt
    <3>2. v < u \/ v = u
      BY <1>12, <2>1, <3>1
    <3>3. v < u => v \in finished
      BY <1>1, <1>2, <1>3, <1>12, <2>1, <3>1 DEF SearchInv, Explored
    <3> QED
      BY <1>6, <3>2, <3>3
  <2>4. CASE i # n - 1
    <3>1. i + 1 \in 1..(n - 1) /\ i < n - 1
      BY <2>1, <2>4, <1>12
    <3>2. LoopAt(i)' = LoopAt(i)
      BY <1>5, <2>2, <3>1 DEF LoopAt
    <3>3. v \in finished
      BY <1>1, <1>2, <1>3, <1>12, <2>1, <3>2 DEF SearchInv, Explored
    <3> QED
      BY <1>6, <3>3
  <2> QED
    BY <2>3, <2>4
<1>13. Explored'
  <2>1. \A x \in finished', v \in Search!Node : <<x, v>> \in adj' => v \in finished'
    BY <1>3, <1>6, <1>7, <1>10
  <2> QED
    BY <1>5, <1>11, <1>12, <2>1 DEF Explored
<1>14. Room' /\ Verdict'
  BY <1>1, <1>3 DEF SearchInv, Room, Verdict, Search!HasCycle
<1> QED
  BY <1>8, <1>9, <1>13, <1>14 DEF SearchInv

LEMMA UnwindStep == ASSUME Search!GraphAssumption, SearchInv, Search!Unwind PROVE SearchInv'
<1>1. result = "found" /\ calls # <<>> /\ cycle' = Append(cycle, Search!Top.u) /\ calls' = Search!Return
      /\ UNCHANGED <<adj, visited, stack, result>>
  BY DEF Search!Unwind
<1>2. /\ Len(calls) \in Nat \ {0} /\ Search!Top.u \in Search!Node /\ Len(Search!Return) = Len(calls) - 1
      /\ Search!Return \in Seq([u : Search!Node, v : 0..GRAPH_SIZE])
  BY <1>1, Innermost
<1>3. cycle' \in Seq(Search!Node) /\ Len(cycle') = Len(cycle) + 1 /\ Len(cycle) \in Nat
  BY <1>1, <1>2 DEF SearchInv, Search!TypeOK
<1>4. Search!TypeOK'
  BY <1>1, <1>2, <1>3 DEF SearchInv, Search!TypeOK
<1>5. Room'
  BY <1>1, <1>2, <1>3 DEF SearchInv, Room, Search!GraphAssumption
<1>6. Search!StackIsPath' /\ Explored' /\ Verdict'
  BY <1>1 DEF SearchInv, Search!StackIsPath, Explored, Verdict, Search!HasCycle
<1> QED
  BY <1>4, <1>5, <1>6 DEF SearchInv

LEMMA FinishStep == ASSUME Search!GraphAssumption, SearchInv, Search!Finish PROVE SearchInv'
<1>1. calls = <<>> /\ UNCHANGED <<adj, visited, stack, calls, cycle>>
  BY DEF Search!Finish
<1>2. CASE result = "found" /\ result' = "cycle"
  BY <1>1, <1>2 DEF SearchInv, Search!TypeOK, Search!StackIsPath, Explored, Room, Verdict, Search!HasCycle
<1>3. CASE result = "searching" /\ Search!Node \subseteq visited /\ result' = "none"
  <2>1. stack = {}
    BY <1>1, <1>3 DEF SearchInv, Search!StackIsPath
  <2>2. finished = Search!Node
    BY <1>3, <2>1 DEF finished, SearchInv, Search!TypeOK
  <2>3. ~Search!HasCycle
    BY <1>3, <2>2 DEF SearchInv, Explored, CycleIn, Search!HasCycle
  <2>4. Len(cycle') + Len(calls') <= GRAPH_SIZE + 1
    BY <1>1, <1>3 DEF SearchInv, Room, Search!GraphAssumption
  <2> QED
    BY <1>1, <1>3, <2>3, <2>4 DEF SearchInv, Search!TypeOK, Search!StackIsPath, Explored, Room, Verdict, Search!HasCycle
<1> QED
  BY <1>2, <1>3 DEF Search!Finish

-----------------------------------------------------------------------------

LEMMA SearchStart == ASSUME Search!GraphAssumption, Search!Init PROVE SearchInv
<1>1. /\ adj \subseteq Search!Node \X Search!Node /\ visited = {} /\ stack = {}
      /\ calls = <<>> /\ cycle = <<>> /\ result = "searching"
  BY DEF Search!Init
<1>2. Search!TypeOK /\ Search!StackIsPath /\ Room /\ Verdict
  BY <1>1 DEF Search!TypeOK, Search!StackIsPath, Room, Verdict
<1>3. Explored
  <2>1. finished = {} /\ DOMAIN calls = {}
    BY <1>1 DEF finished
  <2>2. (SUBSET {}) \ {{}} = {}
    OBVIOUS
  <2>3. ~CycleIn({})
    BY <2>2 DEF CycleIn
  <2> QED
    BY <2>1, <2>3 DEF Explored
<1> QED
  BY <1>2, <1>3 DEF SearchInv

LEMMA SearchStep == ASSUME Search!GraphAssumption, SearchInv, [Search!Next]_(Search!vars) PROVE SearchInv'
<1>1. CASE UNCHANGED Search!vars
  <2>1. UNCHANGED <<adj, visited, stack, calls, cycle, result>>
    BY <1>1 DEF Search!vars
  <2>2. (Search!HasCycle' <=> Search!HasCycle) /\ (CycleIn(finished)' <=> CycleIn(finished))
    BY <2>1 DEF Search!HasCycle, CycleIn, finished
  <2>3. Explored'
    BY <2>1, <2>2 DEF SearchInv, Explored, finished, LoopAt
  <2>4. Search!TypeOK' /\ Search!StackIsPath' /\ Room' /\ Verdict'
    BY <2>1, <2>2 DEF SearchInv, Search!TypeOK, Search!StackIsPath, Room, Verdict
  <2> QED
    BY <2>3, <2>4 DEF SearchInv
<1>2. CASE Search!Next
  BY <1>2, StartAtRootStep, GoDeeperStep, BackEdgeStep, DeadEndStep, UnwindStep, FinishStep
  DEF Search!Next
<1> QED
  BY <1>1, <1>2

LEMMA SearchAlways == Spec => []SearchInv
<1>1. Search!GraphAssumption
  BY PartsAssumption
<1>2. Init => SearchInv
  BY <1>1, SearchStart DEF Init
<1>3. [Next]_vars => [Search!Next]_(Search!vars)
  <2> SUFFICES ASSUME [Next]_vars PROVE [Search!Next]_(Search!vars)
    OBVIOUS
  <2>1. Search!Next \/ UNCHANGED search
    BY DEF Next, vars, Only, OnlyRing, OnlyHandshake, OnlyEditor, OnlyClocks, OnlyMonths
  <2> QED
    BY <2>1 DEF search, Search!vars
<1>4. SearchInv /\ [Next]_vars => SearchInv'
  <2> SUFFICES ASSUME SearchInv, [Next]_vars PROVE SearchInv'
    OBVIOUS
  <2>1. [Search!Next]_(Search!vars)
    BY <1>3
  <2> QED
    BY <1>1, <2>1, SearchStep
<1> QED
  BY <1>2, <1>4, PTL DEF Spec

\* deadlock_detector.cpp, dfs: whatever the graph and its size, a cycle is reported exactly
\* when there is one, although visited[] is never cleared between two roots.
THEOREM ExactlyTheCycles == Spec => []FindsExactlyCycles
<1>1. ASSUME SearchInv PROVE Search!FindsExactlyCycles
  <2>1. Len(cycle) <= GRAPH_SIZE + 1
    <3>1. Len(cycle) \in Nat /\ Len(calls) \in Nat /\ GRAPH_SIZE \in Nat
      BY <1>1, PartsAssumption DEF SearchInv, Search!TypeOK, Search!GraphAssumption
    <3>2. result = "searching" => Len(cycle) = 0
      BY <1>1 DEF SearchInv, Room
    <3>3. result # "searching" => Len(cycle) + Len(calls) <= GRAPH_SIZE + 1
      BY <1>1 DEF SearchInv, Room
    <3> QED
      BY <3>1, <3>2, <3>3
  <2> QED
    BY <1>1, <2>1 DEF SearchInv, Verdict, Search!FindsExactlyCycles
<1>2. SearchInv => FindsExactlyCycles
  BY <1>1 DEF FindsExactlyCycles
<1> QED
  BY <1>2, SearchAlways, PTL

-----------------------------------------------------------------------------
(* The editor *)

\* What IsPrefix means, and how a save makes the file longer.
Prefix(p, s) == Len(p) <= Len(s) /\ \A i \in 1..Len(p) : p[i] = s[i]

LEMMA PrefixMeans ==
  ASSUME NEW S, NEW p \in Seq(S), NEW s \in Seq(S)
  PROVE  Editor!IsPrefix(p, s) <=> Prefix(p, s)
<1>1. SubSeq(p, 1, Len(p)) = p
  OBVIOUS
<1>2. ASSUME Len(p) <= Len(s)
      PROVE  /\ SubSeq(s, 1, Len(p)) \in Seq(S)
             /\ Len(SubSeq(s, 1, Len(p))) = Len(p)
             /\ \A i \in 1..Len(p) : SubSeq(s, 1, Len(p))[i] = s[i]
  BY <1>2
<1>3. ASSUME Len(p) <= Len(s), p = SubSeq(s, 1, Len(p)) PROVE Prefix(p, s)
  BY <1>2, <1>3 DEF Prefix
<1>4. ASSUME Prefix(p, s) PROVE p = SubSeq(s, 1, Len(p))
  <2> DEFINE q == SubSeq(s, 1, Len(p))
  <2>1. q \in Seq(S) /\ Len(q) = Len(p) /\ \A i \in 1..Len(p) : q[i] = p[i]
    BY <1>2, <1>4 DEF Prefix
  <2> HIDE DEF q
  <2>2. q = p
    BY <2>1
  <2> QED
    BY <2>2 DEF q
<1> QED
  BY <1>1, <1>3, <1>4 DEF Editor!IsPrefix, Prefix

LEMMA PrefixBegins == ASSUME NEW S, NEW s \in Seq(S) PROVE Prefix(<<>>, s)
  BY DEF Prefix

LEMMA PrefixGrows ==
  ASSUME NEW S, NEW p \in Seq(S), NEW s \in Seq(S), Prefix(p, s), Len(p) < Len(s)
  PROVE  Append(p, s[Len(p) + 1]) \in Seq(S) /\ Prefix(Append(p, s[Len(p) + 1]), s)
  BY DEF Prefix

LEMMA PrefixIsWhole ==
  ASSUME NEW S, NEW p \in Seq(S), NEW s \in Seq(S), Prefix(p, s), Len(p) >= Len(s)
  PROVE  p = s
<1>1. Len(p) = Len(s)
  BY DEF Prefix
<1> QED
  BY <1>1 DEF Prefix

\* The types of what TypeOK leaves open.
EditorTypes ==
    /\ Editor!TypeOK
    /\ text_buffer \in Seq(Line) /\ typed \in Seq(Line)
    /\ printed \in [Editor!Thread -> Seq(Line)]
    /\ file \in Seq(Line) \union {NoNote}
    /\ note_pc = [t \in Editor!Thread |-> note_pc[t]]
    /\ quitting \in BOOLEAN /\ failed \in BOOLEAN

\* Who prints holds the lock, nobody else does but the killed, and the process dies as a whole.
EditorLock ==
    /\ \A t \in Editor!Thread : note_pc[t] = "print" => buffer_lock = t
    /\ \A t \in Editor!Thread : buffer_lock = t => note_pc[t] \in {"print", "killed"}
    /\ note_pc["main"] = "killed" <=> note_pc["autosave"] = "killed"
    /\ note_pc["main"] = "done" => note_pc["autosave"] = "returned"

\* The file is a beginning of what the last save was to write, which is the buffer while it lasts.
EditorFile ==
    /\ file # NoNote => Prefix(file, typed) /\ (buffer_lock = "nobody" => file = typed)
    /\ \A t \in Editor!Thread :
          note_pc[t] = "print" => typed = text_buffer /\ Prefix(printed[t], text_buffer)

\* Behind :q the buffer stays what main saved, and every later save writes the same.
EditorQuits ==
    /\ quitting => note_pc["main"] # "edit"
    /\ quitting /\ ~failed /\ note_pc["main"] \in {"leave", "join", "done"} =>
          /\ typed = text_buffer
          /\ buffer_lock = "nobody" => file = typed

EditorInv == EditorTypes /\ EditorLock /\ EditorFile /\ EditorQuits

-----------------------------------------------------------------------------

\* The editor starts with an empty buffer and no file.
LEMMA EditorStart == Init => EditorInv
<1> SUFFICES ASSUME Init PROVE EditorInv
  OBVIOUS
<1> USE DEF Editor!Thread, Editor!Nobody
<1>1. /\ text_buffer = <<>> /\ notepad_running = TRUE /\ buffer_lock = "nobody"
      /\ note_pc = [t \in Editor!Thread |-> IF t = "main" THEN "edit" ELSE "wait"]
      /\ quitting = FALSE /\ printed = [t \in Editor!Thread |-> <<>>]
      /\ file = NoNote /\ typed = <<>> /\ failed = FALSE
  BY DEF Init, Editor!Init
<1>2. <<>> \in Seq(Line) /\ Len(<<>>) <= MAX_LINES
  BY PartsAssumption DEF Editor!NotepadAssumption
<1>3. EditorTypes
  BY <1>1, <1>2 DEF EditorTypes, Editor!TypeOK, Editor!line_count
<1>4. EditorLock /\ EditorQuits /\ EditorFile
  BY <1>1 DEF EditorLock, EditorQuits, EditorFile
<1> QED
  BY <1>3, <1>4 DEF EditorInv

\* The commands and lines of the user, whose thread neither saves nor holds the lock then.
LEMMA EditorUser == EditorInv /\ Editor!UserStep => EditorInv'
<1> SUFFICES ASSUME EditorInv, Editor!UserStep PROVE EditorInv'
  OBVIOUS
<1> USE DEF Editor!Thread, Editor!Nobody
<1>1. /\ note_pc["main"] = "edit" /\ buffer_lock # "main" /\ quitting = FALSE
      /\ UNCHANGED <<notepad_running, buffer_lock, printed, file, typed, failed>>
  BY DEF EditorInv, EditorTypes, EditorQuits, EditorLock, Editor!UserStep, Editor!Quit,
     Editor!Save, Editor!Clear, Editor!TypeLine, Editor!EndOfInput, Editor!others
<1>2. CASE /\ UNCHANGED text_buffer
           /\ \/ note_pc' = [note_pc EXCEPT !["main"] = "save"]
              \/ note_pc' = [note_pc EXCEPT !["main"] = "leave"] /\ quitting' = FALSE
           /\ quitting' \in BOOLEAN
  <2>1. /\ note_pc'["main"] \in {"save", "leave"} /\ note_pc'["autosave"] = note_pc["autosave"]
        /\ note_pc' = [t \in Editor!Thread |-> note_pc'[t]]
    BY <1>2 DEF EditorInv, EditorTypes
  <2>2. EditorTypes'
    BY <1>1, <1>2, <2>1 DEF EditorInv, EditorTypes, Editor!TypeOK, Editor!line_count
  <2>3. EditorLock'
    BY <1>1, <2>1 DEF EditorInv, EditorLock
  <2>4. EditorFile'
    BY <1>1, <1>2, <2>1 DEF EditorInv, EditorFile
  <2>5. EditorQuits'
    BY <1>1, <1>2, <2>1 DEF EditorInv, EditorQuits
  <2> QED
    BY <2>2, <2>3, <2>4, <2>5 DEF EditorInv
<1>3. CASE /\ UNCHANGED <<note_pc, quitting>> /\ buffer_lock = "nobody"
           /\ text_buffer' \in Seq(Line) /\ Len(text_buffer') <= MAX_LINES
  <2>1. EditorTypes'
    BY <1>1, <1>3 DEF EditorInv, EditorTypes, Editor!TypeOK, Editor!line_count
  <2>2. EditorLock'
    BY <1>1, <1>3 DEF EditorInv, EditorLock
  <2>3. \A t \in Editor!Thread : note_pc[t] # "print"
    BY <1>3 DEF EditorInv, EditorLock
  <2>4. EditorFile'
    BY <1>1, <1>3, <2>3 DEF EditorInv, EditorFile
  <2>5. EditorQuits'
    BY <1>1, <1>3 DEF EditorInv, EditorQuits
  <2> QED
    BY <2>1, <2>2, <2>4, <2>5 DEF EditorInv
<1>4. CASE Editor!Quit \/ Editor!Save \/ Editor!EndOfInput
  BY <1>1, <1>2, <1>4 DEF Editor!Quit, Editor!Save, Editor!EndOfInput, Editor!go
<1>5. CASE Editor!Clear
  <2>1. <<>> \in Seq(Line) /\ Len(<<>>) <= MAX_LINES
    BY PartsAssumption DEF Editor!NotepadAssumption
  <2> QED
    BY <1>3, <1>5, <2>1 DEF Editor!Clear
<1>6. ASSUME NEW l \in Line, Editor!TypeLine(l) PROVE EditorInv'
  <2>1. MAX_LINES \in Nat /\ text_buffer \in Seq(Line) /\ Len(text_buffer) <= MAX_LINES
    BY PartsAssumption DEF Editor!NotepadAssumption, EditorInv, EditorTypes, Editor!TypeOK,
       Editor!line_count
  <2>2. /\ Append(text_buffer, l) \in Seq(Line)
        /\ Len(text_buffer) < MAX_LINES => Len(Append(text_buffer, l)) <= MAX_LINES
    BY <2>1
  <2>3. text_buffer' \in Seq(Line) /\ Len(text_buffer') <= MAX_LINES
    BY <1>6, <2>1, <2>2 DEF Editor!TypeLine, Editor!line_count
  <2> QED
    BY <1>3, <1>6, <2>3 DEF Editor!TypeLine
<1> QED
  BY <1>4, <1>5, <1>6 DEF Editor!UserStep

\* A save, by either thread.
LEMMA EditorSaves ==
  ASSUME EditorInv, NEW t \in Editor!Thread, Editor!SaveStep(t) PROVE EditorInv'
<1> USE DEF Editor!Thread, Editor!Nobody
<1>1. /\ text_buffer \in Seq(Line) /\ typed \in Seq(Line) /\ file \in Seq(Line) \union {NoNote}
      /\ \A u \in Editor!Thread : printed[u] \in Seq(Line) /\ Len(printed[u]) <= MAX_LINES
      /\ Len(text_buffer) <= MAX_LINES
      /\ MAX_LINES \in Nat
  BY PartsAssumption DEF Editor!NotepadAssumption, EditorInv, EditorTypes, Editor!TypeOK,
     Editor!line_count
<1>2. UNCHANGED <<text_buffer, notepad_running, quitting>>
  BY DEF Editor!SaveStep, Editor!OpenFile, Editor!OpenFails, Editor!PrintLine, Editor!CloseFile
<1>3. CASE Editor!OpenFile(t)
  <2>1. /\ note_pc[t] = "save" /\ note_pc' = [note_pc EXCEPT ![t] = "print"]
        /\ buffer_lock = "nobody" /\ buffer_lock' = t
        /\ file' = <<>> /\ printed' = [printed EXCEPT ![t] = <<>>] /\ typed' = text_buffer
        /\ failed' = IF t = "main" THEN FALSE ELSE failed
    BY <1>3 DEF Editor!OpenFile, Editor!go
  <2>2. \A u \in Editor!Thread : note_pc[u] # "print"
    BY <2>1 DEF EditorInv, EditorLock
  <2>3. /\ note_pc' = [u \in Editor!Thread |-> note_pc'[u]] /\ note_pc'[t] = "print"
        /\ \A u \in Editor!Thread : u # t => note_pc'[u] = note_pc[u]
    BY <2>1 DEF EditorInv, EditorTypes
  <2>4. /\ printed' \in [Editor!Thread -> Seq(Line)] /\ printed'[t] = <<>>
        /\ \A u \in Editor!Thread : Len(printed'[u]) <= MAX_LINES
    <3>1. <<>> \in Seq(Line) /\ Len(<<>>) <= MAX_LINES
      BY <1>1
    <3> QED
      BY <1>1, <2>1, <3>1 DEF EditorInv, EditorTypes
  <2>5. EditorTypes'
    BY <1>1, <1>2, <2>1, <2>3, <2>4 DEF EditorInv, EditorTypes, Editor!TypeOK, Editor!line_count
  <2>6. EditorLock'
    BY <2>1, <2>2, <2>3 DEF EditorInv, EditorLock
  <2>7. EditorFile'
    BY <1>1, <1>2, <2>1, <2>2, <2>3, <2>4, PrefixBegins DEF EditorFile
  <2>8. EditorQuits'
    BY <1>2, <2>1, <2>3 DEF EditorInv, EditorQuits
  <2> QED
    BY <2>5, <2>6, <2>7, <2>8 DEF EditorInv
<1>4. CASE Editor!OpenFails(t)
  <2>1. /\ note_pc[t] = "save" /\ note_pc' = [note_pc EXCEPT ![t] = Editor!AfterSave(t)]
        /\ buffer_lock = "nobody"
        /\ failed' = IF t = "main" THEN TRUE ELSE failed
        /\ UNCHANGED <<buffer_lock, printed, file, typed>>
    BY <1>4 DEF Editor!OpenFails, Editor!go
  <2>2. /\ note_pc' = [u \in Editor!Thread |-> note_pc'[u]]
        /\ note_pc'[t] = Editor!AfterSave(t)
        /\ \A u \in Editor!Thread : u # t => note_pc'[u] = note_pc[u]
    BY <2>1 DEF EditorInv, EditorTypes
  <2>3. /\ t = "autosave" => note_pc'[t] = "wait"
        /\ t = "main" => note_pc'[t] = IF quitting THEN "leave" ELSE "edit"
    BY <2>2 DEF Editor!AfterSave
  <2>4. EditorTypes'
    BY <1>1, <1>2, <2>1, <2>2, <2>3 DEF EditorInv, EditorTypes, Editor!TypeOK, Editor!line_count
  <2>5. EditorLock'
    BY <2>1, <2>2, <2>3 DEF EditorInv, EditorLock
  <2>6. EditorFile'
    BY <1>2, <2>1, <2>2, <2>3 DEF EditorInv, EditorFile
  <2>7. EditorQuits'
    BY <1>2, <2>1, <2>2, <2>3 DEF EditorInv, EditorQuits
  <2> QED
    BY <2>4, <2>5, <2>6, <2>7 DEF EditorInv
<1>5. CASE Editor!PrintLine(t)
  <2> DEFINE more == Append(printed[t], text_buffer[Len(printed[t]) + 1])
  <2>1. /\ note_pc[t] = "print" /\ Len(printed[t]) < Len(text_buffer)
        /\ printed' = [printed EXCEPT ![t] = more]
        /\ file' \in {file, printed'[t]}
        /\ UNCHANGED <<note_pc, buffer_lock, typed, failed>>
    BY <1>5 DEF Editor!PrintLine, Editor!line_count
  <2>2. typed = text_buffer /\ Prefix(printed[t], text_buffer) /\ buffer_lock = t
    BY <2>1 DEF EditorInv, EditorFile, EditorLock
  <2>3. more \in Seq(Line) /\ Prefix(more, text_buffer)
    BY <1>1, <2>1, <2>2, PrefixGrows
  <2>4. Len(more) <= MAX_LINES
    BY <1>1, <2>3 DEF Prefix
  <2> HIDE DEF more
  <2>5. /\ printed' \in [Editor!Thread -> Seq(Line)] /\ printed'[t] = more
        /\ \A u \in Editor!Thread : u # t => printed'[u] = printed[u]
        /\ \A u \in Editor!Thread : Len(printed'[u]) <= MAX_LINES
    BY <1>1, <2>1, <2>3, <2>4 DEF EditorInv, EditorTypes
  <2>6. EditorTypes'
    BY <1>1, <1>2, <2>1, <2>3, <2>5 DEF EditorInv, EditorTypes, Editor!TypeOK, Editor!line_count
  <2>7. EditorLock' /\ EditorQuits'
    BY <1>2, <2>1, <2>2 DEF EditorInv, EditorLock, EditorQuits
  <2>8. EditorFile'
    BY <1>2, <2>1, <2>2, <2>3, <2>5 DEF EditorInv, EditorFile
  <2> QED
    BY <2>6, <2>7, <2>8 DEF EditorInv
<1>6. CASE Editor!CloseFile(t)
  <2>1. /\ note_pc[t] = "print" /\ note_pc' = [note_pc EXCEPT ![t] = Editor!AfterSave(t)]
        /\ Len(printed[t]) >= Len(text_buffer)
        /\ file' = printed[t] /\ buffer_lock' = "nobody"
        /\ UNCHANGED <<printed, typed, failed>>
    BY <1>6 DEF Editor!CloseFile, Editor!line_count, Editor!go
  <2>2. typed = text_buffer /\ Prefix(printed[t], text_buffer) /\ buffer_lock = t
    BY <2>1 DEF EditorInv, EditorFile, EditorLock
  <2>3. file' = text_buffer
    BY <1>1, <2>1, <2>2, PrefixIsWhole
  <2>4. /\ note_pc' = [u \in Editor!Thread |-> note_pc'[u]]
        /\ note_pc'[t] = Editor!AfterSave(t)
        /\ \A u \in Editor!Thread : u # t => note_pc'[u] = note_pc[u] /\ note_pc[u] # "print"
    BY <2>1, <2>2 DEF EditorInv, EditorTypes, EditorLock
  <2>5. /\ t = "autosave" => note_pc'[t] = "wait"
        /\ t = "main" => note_pc'[t] = IF quitting THEN "leave" ELSE "edit"
    BY <2>4 DEF Editor!AfterSave
  <2>6. EditorTypes'
    BY <1>1, <1>2, <2>1, <2>3, <2>4, <2>5
    DEF EditorInv, EditorTypes, Editor!TypeOK, Editor!line_count
  <2>7. EditorLock'
    BY <2>1, <2>4, <2>5 DEF EditorInv, EditorLock
  <2>8. EditorFile'
    <3>1. Prefix(text_buffer, text_buffer)
      BY <1>1 DEF Prefix
    <3> QED
      BY <1>2, <2>1, <2>2, <2>3, <2>4, <2>5, <3>1 DEF EditorFile
  <2>9. EditorQuits'
    BY <1>2, <2>1, <2>2, <2>3, <2>4, <2>5 DEF EditorInv, EditorQuits
  <2> QED
    BY <2>6, <2>7, <2>8, <2>9 DEF EditorInv
<1> QED
  BY <1>3, <1>4, <1>5, <1>6 DEF Editor!SaveStep

\* The end of the editor, the alarm of the autosave thread, and a kill.
LEMMA EditorEnds ==
  EditorInv /\ (Editor!StopRunning \/ Editor!Join \/ Editor!WakeUp \/ Editor!Die) => EditorInv'
<1> SUFFICES ASSUME EditorInv,
                    Editor!StopRunning \/ Editor!Join \/ Editor!WakeUp \/ Editor!Die
             PROVE  EditorInv'
  OBVIOUS
<1> USE DEF Editor!Thread, Editor!Nobody
<1>1. /\ UNCHANGED <<text_buffer, buffer_lock, quitting, printed, file, typed, failed>>
      /\ notepad_running' \in BOOLEAN
  BY DEF Editor!StopRunning, Editor!Join, Editor!WakeUp, Editor!Die, Editor!others, EditorInv,
     EditorTypes, Editor!TypeOK
<1>2. note_pc = [u \in Editor!Thread |-> note_pc[u]]
  BY DEF EditorInv, EditorTypes
<1>3. /\ note_pc' = [u \in Editor!Thread |-> note_pc'[u]]
      /\ \/ note_pc["main"] = "leave" /\ note_pc'["main"] = "join"
            /\ note_pc'["autosave"] = note_pc["autosave"]
         \/ note_pc["main"] = "join" /\ note_pc'["main"] = "done"
            /\ note_pc'["autosave"] = note_pc["autosave"] /\ note_pc["autosave"] = "returned"
         \/ note_pc["autosave"] = "wait" /\ note_pc'["autosave"] \in {"save", "wait", "returned"}
            /\ note_pc'["main"] = note_pc["main"]
         \/ note_pc["main"] # "done" /\ note_pc'["main"] = "killed"
            /\ note_pc'["autosave"] = "killed"
  <2>1. CASE Editor!StopRunning
    BY <1>2, <2>1 DEF Editor!StopRunning, Editor!go
  <2>2. CASE Editor!Join
    BY <1>2, <2>2 DEF Editor!Join, Editor!go
  <2>3. CASE Editor!WakeUp
    BY <1>2, <2>3 DEF Editor!WakeUp, Editor!go
  <2>4. CASE Editor!Die
    BY <1>2, <2>4 DEF Editor!Die
  <2> QED
    BY <2>1, <2>2, <2>3, <2>4
<1>4. EditorTypes'
  BY <1>1, <1>3 DEF EditorInv, EditorTypes, Editor!TypeOK, Editor!line_count
<1>5. EditorLock'
  BY <1>1, <1>3 DEF EditorInv, EditorLock
<1>6. EditorFile'
  BY <1>1, <1>3 DEF EditorInv, EditorFile
<1>7. EditorQuits'
  BY <1>1, <1>3 DEF EditorInv, EditorQuits
<1> QED
  BY <1>4, <1>5, <1>6, <1>7 DEF EditorInv

\* The other parts leave the editor alone.
LEMMA EditorHolds == Spec => []EditorInv
<1>1. EditorInv /\ [Next]_vars => EditorInv'
  <2>1. ASSUME EditorInv, Editor!Next PROVE EditorInv'
    <3>1. "main" \in Editor!Thread /\ "autosave" \in Editor!Thread
      BY DEF Editor!Thread
    <3> QED
      BY <2>1, <3>1, EditorUser, EditorSaves, EditorEnds
      DEF Editor!Next, Editor!MainStep, Editor!AutosaveStep
  <2>2. ASSUME EditorInv, UNCHANGED editor PROVE EditorInv'
    BY <2>2 DEF editor, EditorInv, EditorTypes, EditorLock, EditorFile, EditorQuits,
       Editor!TypeOK, Editor!line_count
  <2> QED
    BY <2>1, <2>2 DEF Next, vars, Only, OnlyRing, OnlySearch, OnlyHandshake, OnlyEditor,
       OnlyClocks, OnlyMonths
<1> QED
  BY <1>1, EditorStart, PTL DEF Spec

\* notepad.cpp, save_to_file: both threads empty and rewrite one file while the user types,
\* and a kill may come at any moment; the file is one text or the beginning of one.
THEOREM OneText == Spec => []FileIsOneText
<1>1. EditorInv => FileIsOneText
  <2> SUFFICES ASSUME EditorInv PROVE Editor!FileIsOneText
    BY DEF FileIsOneText
  <2>1. Editor!TypeOK /\ typed \in Seq(Line) /\ file \in Seq(Line) \union {NoNote}
    BY DEF EditorInv, EditorTypes
  <2>2. file # NoNote => Prefix(file, typed) /\ (buffer_lock = "nobody" => file = typed)
    BY DEF EditorInv, EditorFile
  <2>3. file # NoNote => Editor!IsPrefix(file, typed)
    BY <2>1, <2>2, PrefixMeans
  <2> QED
    BY <2>1, <2>2, <2>3 DEF Editor!FileIsOneText, Editor!Nobody
<1> QED
  BY <1>1, EditorHolds, PTL

\* notepad.cpp, main: when the editor has ended by :q the file is the buffer, though the
\* autosave thread may have emptied and rewritten it behind main's save.
THEOREM QuitSaves == Spec => []QuitSavesAll
<1>1. EditorInv => QuitSavesAll
  <2> SUFFICES ASSUME EditorInv, note_pc["main"] = "done", quitting, ~failed
               PROVE  file = text_buffer
    BY DEF QuitSavesAll, Editor!QuitSavesAll
  <2>1. typed = text_buffer /\ (buffer_lock = "nobody" => file = typed)
    BY DEF EditorInv, EditorQuits
  <2>2. buffer_lock = "nobody"
    BY DEF EditorInv, EditorTypes, EditorLock, Editor!TypeOK, Editor!Thread, Editor!Nobody
  <2> QED
    BY <2>1, <2>2
<1> QED
  BY <1>1, EditorHolds, PTL

-----------------------------------------------------------------------------
(* The timers *)

\* Where an alarm, a countdown or a daemon is when it has rung, or was cancelled.
ClocksRung ==
    /\ rung # "" => left = 0 /\ at \in {"enter", "ended"}
    /\ cancelled /\ tool = "alarm" => at = "ended" /\ rung = ""
    /\ at = "announce" => tool \in {"alarm", "countdown"}
    /\ at = "announce" /\ tool = "alarm" => left = 0
    /\ at = "announce" /\ left > 0 => cancelled
    /\ at \in {"enter", "ended"} /\ Clocks!Timed => rung = "terminal" \/ cancelled
    /\ at \in {"message", "choice"} => tool = "alarm"
    /\ at = "sleep" => tool = "alarm daemon"

ClocksInv == Clocks!TypeOK /\ ClocksRung

\* Sequences and seconds.
LEMMA TailOfSeq == ASSUME NEW S, NEW s \in Seq(S), s # <<>> PROVE Tail(s) \in Seq(S)
  OBVIOUS

LEMMA AppendToSeq == ASSUME NEW S, NEW s \in Seq(S), NEW e \in S PROVE Append(s, e) \in Seq(S)
  OBVIOUS

LEMMA Countdown ==
  ASSUME NEW n, NEW max \in Nat, n \in 0..max
  PROVE  /\ n = 0 \/ n > 0
         /\ n = 0 => ~(n > 0)
         /\ n > 0 => n - 1 \in 0..max
  OBVIOUS

\* A timer starts with nothing rung and nothing cancelled.
LEMMA ClocksStart == Init => ClocksInv
<1>1. 0 \in 0..MaxSeconds
  BY PartsAssumption DEF Clocks!TimersAssumption
<1>2. <<>> \in Seq({"q", "other", "long"}) /\ <<>> \in Seq({"other"})
  OBVIOUS
<1> QED
  BY <1>1, <1>2 DEF Init, Clocks!Init, ClocksInv, Clocks!TypeOK, ClocksRung, Clocks!Timed

\* What is read leaves the terminal, and of a long line a piece stays.
LEMMA ClocksAnswered ==
  ASSUME ClocksInv, Clocks!Answered \/ Clocks!Unanswered
  PROVE  keys' \in Seq({"q", "other", "long"}) /\ kept' \in Seq({"other"}) /\ eof' \in BOOLEAN
<1>1. CASE Clocks!Unanswered
  BY <1>1 DEF ClocksInv, Clocks!TypeOK, Clocks!Unanswered, Clocks!input
<1>2. CASE Clocks!Answered /\ kept # <<>>
  <2>1. kept' = Tail(kept) /\ keys' = keys /\ eof' = eof
    BY <1>2 DEF Clocks!Answered
  <2>2. Tail(kept) \in Seq({"other"})
    BY <1>2, TailOfSeq DEF ClocksInv, Clocks!TypeOK
  <2> QED
    BY <2>1, <2>2 DEF ClocksInv, Clocks!TypeOK
<1>3. CASE Clocks!Answered /\ kept = <<>>
  <2>1. keys' = Tail(keys) /\ keys # <<>> /\ kept' \in {<<>>, <<"other">>} /\ eof' = eof
    BY <1>3 DEF Clocks!Answered
  <2>2. Tail(keys) \in Seq({"q", "other", "long"})
    BY <2>1, TailOfSeq DEF ClocksInv, Clocks!TypeOK
  <2>3. kept' \in Seq({"other"})
    <3>1. <<>> \in Seq({"other"}) /\ <<"other">> \in Seq({"other"})
      OBVIOUS
    <3> QED
      BY <3>1, <2>1
  <2> QED
    BY <2>1, <2>2, <2>3 DEF ClocksInv, Clocks!TypeOK
<1> QED
  BY <1>1, <1>2, <1>3

\* One step of a timer, of its user or of the clock.
LEMMA ClocksStep == ClocksInv /\ Clocks!Next => ClocksInv'
<1> SUFFICES ASSUME ClocksInv, Clocks!Next PROVE ClocksInv'
  OBVIOUS
<1> USE DEF ClocksInv, Clocks!TypeOK, ClocksRung, Clocks!Timed
<1>a. MaxSeconds \in Nat
  BY PartsAssumption DEF Clocks!TimersAssumption
<1>c. /\ left = 0 \/ left > 0
      /\ left = 0 => ~(left > 0)
      /\ left > 0 => left # 0 /\ left - 1 \in 0..MaxSeconds
  BY <1>a, Countdown
<1>b. Clocks!Answered \/ Clocks!Unanswered =>
        keys' \in Seq({"q", "other", "long"}) /\ kept' \in Seq({"other"}) /\ eof' \in BOOLEAN
  BY ClocksAnswered
<1>1. CASE Clocks!Types
  <2>1. keys' \in Seq({"q", "other", "long"})
    <3>1. ASSUME NEW l \in {"q", "other", "long"}
          PROVE  Append(keys, l) \in Seq({"q", "other", "long"})
      BY AppendToSeq
    <3> QED
      BY <1>1, <3>1 DEF Clocks!Types
  <2> QED
    BY <1>1, <2>1 DEF Clocks!Types
<1>2. CASE Clocks!Tick
  <2>1. left > 0 /\ left' = left - 1
    BY <1>2 DEF Clocks!Tick
  <2>2. left # 0 /\ left' \in 0..MaxSeconds
    BY <2>1, <1>c
  <2>3. UNCHANGED <<tool, at, keys, kept, eof, rung, cancelled>>
    BY <1>2 DEF Clocks!Tick, Clocks!input
  <2> QED
    BY <2>1, <2>2, <2>3
<1>3. CASE Clocks!ChoosesTool
  BY <1>3, <1>b DEF Clocks!ChoosesTool
<1>4. CASE Clocks!AsksSeconds
  <2>1. rung = ""
    BY <1>4 DEF Clocks!AsksSeconds
  <2>2. ~(cancelled /\ tool = "alarm")
    BY <1>4 DEF Clocks!AsksSeconds
  <2>3. at' \in {"check", "quit", "refused", "message"}
    BY <1>4 DEF Clocks!AsksSeconds
  <2>5. at' = "message" => tool = "alarm"
    BY <1>4 DEF Clocks!AsksSeconds
  <2>6. left' \in 0..MaxSeconds
    BY <1>4, <1>a DEF Clocks!AsksSeconds
  <2>7. UNCHANGED <<tool, rung, cancelled>> /\ (Clocks!Answered \/ Clocks!Unanswered)
    BY <1>4 DEF Clocks!AsksSeconds
  <2>8. Clocks!TypeOK'
    BY <1>b, <2>3, <2>6, <2>7
  <2> QED
    BY <2>1, <2>2, <2>3, <2>5, <2>7, <2>8
<1>5. CASE Clocks!AsksMessage
  BY <1>5, <1>b DEF Clocks!AsksMessage
<1>6. CASE Clocks!Chooses
  BY <1>6, <1>b DEF Clocks!Chooses
<1>7. CASE Clocks!ChecksTime
  <2>1. UNCHANGED <<tool, left, keys, kept, eof, rung, cancelled>> /\ at = "check"
    BY <1>7 DEF Clocks!ChecksTime, Clocks!input
  <2>2. at' = "select" \/ (at' = "announce" /\ tool \in {"alarm", "countdown"} /\ left = 0)
    BY <1>7 DEF Clocks!ChecksTime
  <2> QED
    BY <1>c, <2>1, <2>2
<1>8. CASE Clocks!TimesOut
  BY <1>8 DEF Clocks!TimesOut, Clocks!input
<1>9. CASE Clocks!ReadsLine
  <2>1. cancelled' \in BOOLEAN
    BY <1>9 DEF Clocks!ReadsLine
  <2>2. at' = "announce" => tool = "countdown" /\ cancelled'
    BY <1>9 DEF Clocks!ReadsLine
  <2>3. at' \in {"check", "ended", "announce", "enter"}
    BY <1>9 DEF Clocks!ReadsLine
  <2>4. at' = "enter" => tool \notin {"alarm", "countdown"}
    BY <1>9 DEF Clocks!ReadsLine
  <2>5. cancelled' /\ tool = "alarm" => at' = "ended"
    BY <1>9 DEF Clocks!ReadsLine
  <2> QED
    BY <1>9, <1>b, <2>1, <2>2, <2>3, <2>4, <2>5 DEF Clocks!ReadsLine
<1>10. CASE Clocks!Announces
  <2>1. left = 0 \/ (left > 0 /\ cancelled /\ tool = "countdown")
    BY <1>10, <1>c DEF Clocks!Announces
  <2> QED
    BY <1>10, <2>1 DEF Clocks!Announces, Clocks!input
<1>11. CASE Clocks!DaemonRings
  BY <1>11 DEF Clocks!DaemonRings, Clocks!input
<1>12. CASE Clocks!PressEnter
  BY <1>12, <1>b DEF Clocks!PressEnter
<1> QED
  BY <1>1, <1>2, <1>3, <1>4, <1>5, <1>6, <1>7, <1>8, <1>9, <1>10, <1>11, <1>12
  DEF Clocks!Next, Clocks!Runs

\* alarm.cpp, stopwatch.cpp: nothing is announced before its time, no cancelled alarm is,
\* and no alarm or countdown leaves its loop unannounced that no 'q' has cancelled, however
\* lines, their pieces and the end of the input come in between.
THEOREM RingsWhenDue == Spec => []RingsInTime
<1>1. ClocksInv /\ [Next]_vars => ClocksInv'
  <2>1. CASE UNCHANGED clocks
    BY <2>1 DEF clocks, ClocksInv, Clocks!TypeOK, ClocksRung, Clocks!Timed
  <2> QED
    BY <2>1, ClocksStep DEF Next, vars, Only, OnlyRing, OnlySearch, OnlyHandshake, OnlyEditor,
       OnlyClocks, OnlyMonths
<1>2. ClocksInv => RingsInTime
  BY DEF ClocksInv, Clocks!TypeOK, ClocksRung, RingsInTime, Clocks!RingsInTime, Clocks!Timed
<1> QED
  BY <1>1, <1>2, ClocksStart, PTL DEF Spec

-----------------------------------------------------------------------------
(* The ring buffer *)

LEMMA RingMax == ASSUME NEW s PROVE Ring!Max(s) = Max(s)
  BY DEF Ring!Max, Max

\* Sequences of the same entries are the same.
LEMMA SameEntries ==
    ASSUME NEW S, NEW s \in Seq(S), NEW r \in Seq(S), NEW n, Len(s) = n, Len(r) = n,
           \A i \in 1..n : s[i] = r[i]
    PROVE  s = r
  OBVIOUS

Slot == Item \union {None}

\* The states of a KernelQueue.
Rings == {q \in [data : [Ring!Index -> Slot], front_idx : Ring!Index, rear_idx : Ring!Index,
                 count : 0..MAX_PROCESSES] :
             q.rear_idx = (q.front_idx + q.count) % MAX_PROCESSES}

LEMMA RingSize == MAX_PROCESSES \in Nat \ {0}
  BY PartsAssumption DEF Ring!QueueAssumption

\* A sum of two places goes round once at most.
LEMMA Wraps ==
    ASSUME NEW n \in Nat \ {0}, NEW a \in 0..(2 * n - 1)
    PROVE  a % n = IF a < n THEN a ELSE a - n
<1>1. CASE a < n
  BY <1>1
<1>2. CASE a >= n
  <2>1. a - n \in 0..(n - 1)
    BY <1>2
  <2>2. (n + (a - n)) % n = a - n
    BY <2>1
  <2> QED
    BY <1>2, <2>2
<1> QED
  BY <1>1, <1>2

LEMMA RingParts ==
    ASSUME NEW q \in Rings
    PROVE  /\ q.data \in [Ring!Index -> Slot] /\ q.front_idx \in 0..(MAX_PROCESSES - 1)
           /\ q.rear_idx \in 0..(MAX_PROCESSES - 1) /\ q.count \in 0..MAX_PROCESSES
           /\ q.rear_idx = (q.front_idx + q.count) % MAX_PROCESSES
           /\ q = [data |-> q.data, front_idx |-> q.front_idx, rear_idx |-> q.rear_idx,
                   count |-> q.count]
  BY DEF Rings, Ring!Index

LEMMA RingOfParts ==
    ASSUME NEW d \in [Ring!Index -> Slot], NEW f \in 0..(MAX_PROCESSES - 1),
           NEW r \in 0..(MAX_PROCESSES - 1), NEW c \in 0..MAX_PROCESSES,
           r = (f + c) % MAX_PROCESSES
    PROVE  [data |-> d, front_idx |-> f, rear_idx |-> r, count |-> c] \in Rings
  BY DEF Rings, Ring!Index

\* Its entries are a sequence.
LEMMA ContentsType ==
    ASSUME NEW q \in Rings
    PROVE  /\ Ring!Contents(q) \in Seq(Slot) /\ Len(Ring!Contents(q)) = q.count
           /\ \A n \in 1..q.count :
                 /\ Ring!Contents(q)[n] = q.data[(q.front_idx + n - 1) % MAX_PROCESSES]
                 /\ (q.front_idx + n - 1) % MAX_PROCESSES \in 0..(MAX_PROCESSES - 1)
<1>1. /\ q.data \in [Ring!Index -> Slot] /\ q.front_idx \in 0..(MAX_PROCESSES - 1)
      /\ q.count \in 0..MAX_PROCESSES /\ MAX_PROCESSES \in Nat \ {0}
  BY RingParts, RingSize
<1>2. ASSUME NEW n \in 1..q.count
      PROVE (q.front_idx + n - 1) % MAX_PROCESSES \in 0..(MAX_PROCESSES - 1)
  BY <1>1
<1>3. Ring!Contents(q) = [n \in 1..q.count |-> q.data[(q.front_idx + n - 1) % MAX_PROCESSES]]
  BY DEF Ring!Contents
<1>4. \A n \in 1..q.count : q.data[(q.front_idx + n - 1) % MAX_PROCESSES] \in Slot
  BY <1>1, <1>2 DEF Ring!Index
<1>5. Ring!Contents(q) \in [1..q.count -> Slot] /\ q.count \in Nat
  BY <1>1, <1>3, <1>4
<1>6. Ring!Contents(q) \in Seq(Slot) /\ Len(Ring!Contents(q)) = q.count
  BY <1>5
<1> QED
  BY <1>2, <1>3, <1>6

\* The arithmetic of push: the rear goes on by one, and no entry stands there.
LEMMA RearGoesOn ==
    ASSUME NEW n \in Nat \ {0}, NEW f \in 0..(n - 1), NEW c \in 0..(n - 1), NEW r,
           r = (f + c) % n
    PROVE  /\ r \in 0..(n - 1) /\ (r + 1) % n \in 0..(n - 1)
           /\ (r + 1) % n = (f + (c + 1)) % n
           /\ \A k \in 1..c : (f + k - 1) % n # r
<1> DEFINE places == 0..(2 * n - 1)
<1>a. \A a \in places : a % n = IF a < n THEN a ELSE a - n
  BY Wraps
<1>1. r = IF f + c < n THEN f + c ELSE f + c - n
  <2>1. f + c \in places
    OBVIOUS
  <2> HIDE DEF places
  <2> QED
    BY <1>a, <2>1
<1>2. r \in 0..(n - 1)
  BY <1>1
<1>3. (r + 1) % n = IF r + 1 < n THEN r + 1 ELSE r + 1 - n
  <2>1. r + 1 \in places
    BY <1>2
  <2> HIDE DEF places
  <2> QED
    BY <1>a, <2>1
<1>4. (f + (c + 1)) % n = IF f + (c + 1) < n THEN f + (c + 1) ELSE f + (c + 1) - n
  <2>1. f + (c + 1) \in places
    OBVIOUS
  <2> HIDE DEF places
  <2> QED
    BY <1>a, <2>1
<1>5. (r + 1) % n = (f + (c + 1)) % n /\ (r + 1) % n \in 0..(n - 1)
  BY <1>1, <1>2, <1>3, <1>4
<1>6. ASSUME NEW k \in 1..c PROVE (f + k - 1) % n # r
  <2>1. f + k - 1 \in places
    OBVIOUS
  <2>2. (f + k - 1) % n = IF f + k - 1 < n THEN f + k - 1 ELSE f + k - 1 - n
    <3> HIDE DEF places
    <3> QED
      BY <1>a, <2>1
  <2> QED
    BY <1>1, <2>2
<1> QED
  BY <1>2, <1>5, <1>6

\* The arithmetic of pop: the front goes on by one, and with it every place.
LEMMA FrontGoesOn ==
    ASSUME NEW n \in Nat \ {0}, NEW f \in 0..(n - 1), NEW c \in 1..n, NEW g,
           g = (f + 1) % n
    PROVE  /\ g \in 0..(n - 1)
           /\ (g + (c - 1)) % n = (f + c) % n
           /\ \A k \in 1..(c - 1) : (g + k - 1) % n = (f + (k + 1) - 1) % n
<1> DEFINE places == 0..(2 * n - 1)
<1>a. \A a \in places : a % n = IF a < n THEN a ELSE a - n
  BY Wraps
<1>1. g = IF f + 1 < n THEN f + 1 ELSE f + 1 - n
  <2>1. f + 1 \in places
    OBVIOUS
  <2> HIDE DEF places
  <2> QED
    BY <1>a, <2>1
<1>2. g \in 0..(n - 1)
  BY <1>1
<1>3. ASSUME NEW k \in 1..n PROVE (g + k - 1) % n = (f + (k + 1) - 1) % n
  <2>1. g + k - 1 \in places /\ f + (k + 1) - 1 \in places
    BY <1>2
  <2>2. (g + k - 1) % n = IF g + k - 1 < n THEN g + k - 1 ELSE g + k - 1 - n
    <3> HIDE DEF places
    <3> QED
      BY <1>a, <2>1
  <2>3. (f + (k + 1) - 1) % n
          = IF f + (k + 1) - 1 < n THEN f + (k + 1) - 1 ELSE f + (k + 1) - 1 - n
    <3> HIDE DEF places
    <3> QED
      BY <1>a, <2>1
  <2> QED
    BY <1>1, <2>2, <2>3
<1>4. (g + (c - 1)) % n = (f + c) % n
  <2>1. g + (c - 1) = g + c - 1 /\ f + c = f + (c + 1) - 1
    BY <1>2
  <2> QED
    BY <1>3, <2>1
<1>5. \A k \in 1..(c - 1) : k \in 1..n
  OBVIOUS
<1> QED
  BY <1>2, <1>3, <1>4, <1>5

\* push puts an entry behind the others, unless there is no room.
LEMMA PushAppends ==
    ASSUME NEW q \in Rings, NEW x \in Slot, q.count < MAX_PROCESSES
    PROVE  /\ Ring!push(q, x) \in Rings /\ Ring!push(q, x).count = q.count + 1
           /\ Ring!Contents(Ring!push(q, x)) = Append(Ring!Contents(q), x)
<1> DEFINE p == Ring!push(q, x)
           d == [q.data EXCEPT ![q.rear_idx] = x]
           r == (q.rear_idx + 1) % MAX_PROCESSES
<1>1. /\ q.data \in [Ring!Index -> Slot] /\ q.front_idx \in 0..(MAX_PROCESSES - 1)
      /\ q.rear_idx \in 0..(MAX_PROCESSES - 1) /\ q.count \in 0..(MAX_PROCESSES - 1)
      /\ q.rear_idx = (q.front_idx + q.count) % MAX_PROCESSES
      /\ MAX_PROCESSES \in Nat \ {0}
  BY RingParts, RingSize
<1>2. p = [data |-> d, front_idx |-> q.front_idx, rear_idx |-> r, count |-> q.count + 1]
  <2>1. q = [data |-> q.data, front_idx |-> q.front_idx, rear_idx |-> q.rear_idx,
             count |-> q.count]
    BY RingParts
  <2>2. ~(q.count >= MAX_PROCESSES)
    BY <1>1
  <2>3. p = [q EXCEPT !.data[q.rear_idx] = x,
                      !.rear_idx = (@ + 1) % MAX_PROCESSES, !.count = @ + 1]
    BY <2>2 DEF Ring!push
  <2> QED
    BY <2>1, <2>3
<1>3. /\ r \in 0..(MAX_PROCESSES - 1) /\ r = (q.front_idx + (q.count + 1)) % MAX_PROCESSES
      /\ \A k \in 1..q.count : (q.front_idx + k - 1) % MAX_PROCESSES # q.rear_idx
  <2> DEFINE n == MAX_PROCESSES
             f == q.front_idx
             c == q.count
             e == q.rear_idx
  <2>1. n \in Nat \ {0} /\ f \in 0..(n - 1) /\ c \in 0..(n - 1) /\ e = (f + c) % n
    BY <1>1
  <2> HIDE DEF n, f, c, e
  <2>2. /\ (e + 1) % n \in 0..(n - 1) /\ (e + 1) % n = (f + (c + 1)) % n
        /\ \A k \in 1..c : (f + k - 1) % n # e
    BY <2>1, RearGoesOn
  <2> QED
    BY <2>2 DEF n, f, c, e
<1>4. d \in [Ring!Index -> Slot] /\ q.count + 1 \in 0..MAX_PROCESSES
  BY <1>1 DEF Ring!Index
<1> HIDE DEF d, r, p
<1>5. p \in Rings /\ p.count = q.count + 1 /\ p.front_idx = q.front_idx /\ p.data = d
  BY <1>1, <1>2, <1>3, <1>4, RingOfParts
<1> DEFINE old == Ring!Contents(q)
           new == Ring!Contents(p)
<1>6. /\ old \in Seq(Slot) /\ Len(old) = q.count
      /\ \A n \in 1..q.count :
            /\ old[n] = q.data[(q.front_idx + n - 1) % MAX_PROCESSES]
            /\ (q.front_idx + n - 1) % MAX_PROCESSES \in 0..(MAX_PROCESSES - 1)
  BY ContentsType
<1>7. /\ new \in Seq(Slot) /\ Len(new) = q.count + 1
      /\ \A n \in 1..(q.count + 1) :
            new[n] = d[(q.front_idx + n - 1) % MAX_PROCESSES]
  BY <1>5, ContentsType
<1> HIDE DEF old, new
<1>8. ASSUME NEW n \in 1..q.count PROVE new[n] = old[n]
  <2>1. n \in 1..(q.count + 1)
    BY <1>1
  <2>2. d[(q.front_idx + n - 1) % MAX_PROCESSES] = q.data[(q.front_idx + n - 1) % MAX_PROCESSES]
    BY <1>1, <1>3, <1>6 DEF d, Ring!Index
  <2> QED
    BY <1>6, <1>7, <2>1, <2>2
<1>9. new[q.count + 1] = x
  <2>1. q.front_idx + (q.count + 1) - 1 = q.front_idx + q.count /\ q.count + 1 \in 1..(q.count + 1)
    BY <1>1
  <2>2. d[q.rear_idx] = x
    BY <1>1 DEF d, Ring!Index
  <2> QED
    BY <1>1, <1>7, <2>1, <2>2
<1>10. new = Append(old, x)
  <2>1. /\ Append(old, x) \in Seq(Slot) /\ Len(Append(old, x)) = q.count + 1
        /\ \A n \in 1..q.count : Append(old, x)[n] = old[n]
        /\ Append(old, x)[q.count + 1] = x
    BY <1>1, <1>6
  <2>2. \A n \in 1..(q.count + 1) : n \in 1..q.count \/ n = q.count + 1
    BY <1>1
  <2>3. \A n \in 1..(q.count + 1) : new[n] = Append(old, x)[n]
    BY <1>8, <1>9, <2>1, <2>2
  <2> QED
    BY <1>7, <2>1, <2>3, SameEntries
<1> QED
  BY <1>5, <1>10 DEF old, new, p

\* pop takes the first entry away.
LEMMA PopTakesFirst ==
    ASSUME NEW q \in Rings, q.count # 0
    PROVE  /\ Ring!popped(q) \in Rings /\ Ring!popped(q).count = q.count - 1
           /\ Ring!front(q) = Ring!Contents(q)[1] /\ 1 \in 1..q.count
           /\ \A n \in 1..(q.count - 1) :
                 Ring!Contents(Ring!popped(q))[n] = Ring!Contents(q)[n + 1]
<1> DEFINE p == Ring!popped(q)
           g == (q.front_idx + 1) % MAX_PROCESSES
<1>1. /\ q.data \in [Ring!Index -> Slot] /\ q.front_idx \in 0..(MAX_PROCESSES - 1)
      /\ q.rear_idx \in 0..(MAX_PROCESSES - 1) /\ q.count \in 1..MAX_PROCESSES
      /\ q.rear_idx = (q.front_idx + q.count) % MAX_PROCESSES
      /\ MAX_PROCESSES \in Nat \ {0}
  BY RingParts, RingSize
<1>2. p = [data |-> q.data, front_idx |-> g, rear_idx |-> q.rear_idx, count |-> q.count - 1]
  <2>1. q = [data |-> q.data, front_idx |-> q.front_idx, rear_idx |-> q.rear_idx,
             count |-> q.count]
    BY RingParts
  <2>2. p = [q EXCEPT !.front_idx = (@ + 1) % MAX_PROCESSES, !.count = @ - 1]
    BY DEF Ring!popped
  <2> QED
    BY <2>1, <2>2
<1>3. /\ g \in 0..(MAX_PROCESSES - 1)
      /\ (g + (q.count - 1)) % MAX_PROCESSES = (q.front_idx + q.count) % MAX_PROCESSES
      /\ \A k \in 1..(q.count - 1) :
            (g + k - 1) % MAX_PROCESSES = (q.front_idx + (k + 1) - 1) % MAX_PROCESSES
  <2> DEFINE n == MAX_PROCESSES
             f == q.front_idx
             c == q.count
             h == g
  <2>1. n \in Nat \ {0} /\ f \in 0..(n - 1) /\ c \in 1..n /\ h = (f + 1) % n
    BY <1>1
  <2> HIDE DEF n, f, c, h
  <2>2. /\ h \in 0..(n - 1) /\ (h + (c - 1)) % n = (f + c) % n
        /\ \A k \in 1..(c - 1) : (h + k - 1) % n = (f + (k + 1) - 1) % n
    BY <2>1, FrontGoesOn
  <2> QED
    BY <2>2 DEF n, f, c, h
<1>4. q.count - 1 \in 0..MAX_PROCESSES /\ 1 \in 1..q.count
  BY <1>1
<1> HIDE DEF g, p
<1>5. /\ p \in Rings /\ p.count = q.count - 1 /\ p.front_idx = g /\ p.data = q.data
  BY <1>1, <1>2, <1>3, <1>4, RingOfParts
<1>6. \A n \in 1..q.count :
         Ring!Contents(q)[n] = q.data[(q.front_idx + n - 1) % MAX_PROCESSES]
  BY ContentsType
<1>7. \A n \in 1..(q.count - 1) :
         Ring!Contents(p)[n] = q.data[(g + n - 1) % MAX_PROCESSES]
  BY <1>5, ContentsType
<1>8. ASSUME NEW n \in 1..(q.count - 1) PROVE Ring!Contents(p)[n] = Ring!Contents(q)[n + 1]
  <2>1. n + 1 \in 1..q.count
    BY <1>1
  <2> QED
    BY <1>3, <1>6, <1>7, <2>1
<1>9. Ring!front(q) = Ring!Contents(q)[1]
  <2>1. Ring!Contents(q)[1] = q.data[(q.front_idx + 1 - 1) % MAX_PROCESSES]
    BY <1>4, <1>6
  <2>2. q.front_idx + 1 - 1 = q.front_idx /\ q.front_idx % MAX_PROCESSES = q.front_idx
    BY <1>1
  <2> QED
    BY <2>1, <2>2 DEF Ring!front
<1> QED
  BY <1>4, <1>5, <1>8, <1>9 DEF p

-----------------------------------------------------------------------------
(* remove *)

\* What remove has taken from the queue and kept.
Drains == [queue : Rings, temp : Seq(Slot)]

\* One turn of its first loop.
Drained(s, pid) ==
    [queue |-> Ring!popped(s.queue),
     temp |-> IF Ring!front(s.queue) # pid THEN Append(s.temp, Ring!front(s.queue)) ELSE s.temp]

\* pop may be called on every queue.
LEMMA PopType ==
    ASSUME NEW q \in Rings
    PROVE  Ring!popped(q) \in Rings /\ Ring!front(q) \in Slot
<1>1. CASE q.count = 0
  BY <1>1 DEF Ring!popped, Ring!front, Slot
<1>2. CASE q.count # 0
  <2>1. Ring!popped(q) \in Rings
    BY <1>2, PopTakesFirst
  <2>2. q.data[q.front_idx] \in Slot
    BY RingParts DEF Ring!Index
  <2> QED
    BY <1>2, <2>1, <2>2 DEF Ring!front
<1> QED
  BY <1>1, <1>2

\* The first loop is a fold over its turns.
LEMMA DrainFolds ==
    ASSUME NEW q \in Rings, NEW pid
    PROVE  \E J : /\ J = [s \in SUBSET (1..q.count) |->
                             IF s = {} THEN [queue |-> q, temp |-> <<>>]
                             ELSE Drained(J[s \ {Ring!Max(s)}], pid)]
                  /\ Ring!Drain(q, pid) = J[1..q.count]
<1> DEFINE n == q.count
           S == DOMAIN [i \in 1..n |-> i]
           base == [queue |-> q, temp |-> <<>>]
           F(J) == [s \in SUBSET S |->
                       IF s = {} THEN base ELSE Drained(J[s \ {Ring!Max(s)}], pid)]
           J == CHOOSE J : J = F(J)
<1>1. S = 1..n
  OBVIOUS
<1>2. Ring!Drain(q, pid) = J[S]
  BY DEF Ring!Drain, Ring!FoldLeft, Ring!MapThenFoldSet, Drained
<1> HIDE DEF S
<1>3. \E I : I = F(I)
  <2> DEFINE f == [v \in Drains \X (1..n) |-> Drained(v[1], pid)]
  <2>1. n \in Nat /\ base \in Drains
    BY RingParts DEF Drains
  <2>2. f \in [Drains \X (1..n) -> Drains]
    <3>1. ASSUME NEW v \in Drains PROVE Drained(v, pid) \in Drains
      BY PopType DEF Drained, Drains
    <3> QED
      BY <3>1
  <2> HIDE DEF n, base, f
  <2>3. PICK I \in [SUBSET (1..n) -> Drains] : IsFold(I, n, base, f)
    BY <2>1, <2>2, FoldExists
  <2>4. ASSUME NEW s \in SUBSET (1..n), s # {}
        PROVE  f[<<I[s \ {Ring!Max(s)}], Ring!Max(s)>>] = Drained(I[s \ {Ring!Max(s)}], pid)
    <3>1. Ring!Max(s) \in 1..n /\ I[s \ {Ring!Max(s)}] \in Drains
      BY <2>1, <2>4, MaxOfPlaces, RingMax
    <3> QED
      BY <3>1 DEF f
  <2>5. \A s \in SUBSET S : I[s] = IF s = {} THEN base ELSE Drained(I[s \ {Ring!Max(s)}], pid)
    BY <1>1, <2>3, <2>4, RingMax DEF IsFold
  <2>6. I = [s \in SUBSET S |-> I[s]]
    BY <1>1
  <2>7. I = F(I)
    BY <2>5, <2>6
  <2> QED
    BY <2>7
<1>4. J = F(J)
  <2> HIDE DEF F
  <2> QED
    BY <1>3
<1> QED
  BY <1>1, <1>2, <1>4

\* Turn by turn.
LEMMA DrainRuns ==
    ASSUME NEW q \in Rings, NEW pid
    PROVE  \E r : /\ r[0] = [queue |-> q, temp |-> <<>>]
                  /\ \A k \in 1..q.count : r[k] = Drained(r[k - 1], pid)
                  /\ Ring!Drain(q, pid) = r[q.count]
<1> DEFINE n == q.count
           base == [queue |-> q, temp |-> <<>>]
<1>1. PICK J : /\ J = [s \in SUBSET (1..n) |->
                          IF s = {} THEN base ELSE Drained(J[s \ {Ring!Max(s)}], pid)]
               /\ Ring!Drain(q, pid) = J[1..n]
  BY DrainFolds
<1>2. n \in Nat
  BY RingParts
<1> HIDE DEF n, base
<1> DEFINE r == [k \in 0..n |-> J[1..k]]
<1>3. r[0] = base /\ r[n] = J[1..n]
  <2>1. 1..0 = {} /\ {} \in SUBSET (1..n) /\ 0 \in 0..n /\ n \in 0..n
    BY <1>2
  <2>2. J[{}] = base
    BY <1>1, <2>1
  <2> QED
    BY <2>1, <2>2
<1>4. ASSUME NEW k \in 1..n PROVE r[k] = Drained(r[k - 1], pid)
  <2>1. Ring!Max(1..k) = k /\ (1..k) \ {k} = 1..(k - 1) /\ 1..k # {}
    BY <1>2, UpToPlace, RingMax
  <2>2. k \in 0..n /\ k - 1 \in 0..n /\ 1..k \in SUBSET (1..n)
    BY <1>2
  <2>3. J[1..k] = Drained(J[(1..k) \ {Ring!Max(1..k)}], pid)
    BY <1>1, <2>1, <2>2
  <2>4. J[1..k] = Drained(J[1..(k - 1)], pid)
    BY <2>1, <2>3
  <2> QED
    BY <2>2, <2>4
<1> HIDE DEF r
<1> QED
  BY <1>1, <1>3, <1>4 DEF n, base

\* push may be called on every queue.
LEMMA PushType ==
    ASSUME NEW q \in Rings, NEW x \in Slot
    PROVE  Ring!push(q, x) \in Rings
<1>1. CASE q.count >= MAX_PROCESSES
  BY <1>1 DEF Ring!push
<1>2. CASE q.count < MAX_PROCESSES
  BY <1>2, PushAppends
<1> QED
  BY <1>1, <1>2, RingParts, RingSize

\* The second loop is a fold as well.
LEMMA FillFolds ==
    ASSUME NEW q \in Rings, NEW t \in Seq(Slot)
    PROVE  \E J : /\ J = [s \in SUBSET (1..Len(t)) |->
                             IF s = {} THEN q
                             ELSE Ring!push(J[s \ {Ring!Max(s)}], t[Ring!Max(s)])]
                  /\ Ring!FoldLeft(Ring!push, q, t) = J[1..Len(t)]
<1> DEFINE n == Len(t)
           S == DOMAIN t
           F(J) == [s \in SUBSET S |->
                       IF s = {} THEN q
                       ELSE Ring!push(J[s \ {Ring!Max(s)}], t[Ring!Max(s)])]
           J == CHOOSE J : J = F(J)
<1>1. S = 1..n
  OBVIOUS
<1>2. Ring!FoldLeft(Ring!push, q, t) = J[S]
  BY DEF Ring!FoldLeft, Ring!MapThenFoldSet
<1> HIDE DEF S
<1>3. \E I : I = F(I)
  <2> DEFINE f == [v \in Rings \X (1..n) |-> Ring!push(v[1], t[v[2]])]
  <2>1. n \in Nat /\ \A i \in 1..n : t[i] \in Slot
    OBVIOUS
  <2> HIDE DEF n
  <2>2. f \in [Rings \X (1..n) -> Rings]
    BY <2>1, PushType
  <2> HIDE DEF f
  <2>3. PICK I \in [SUBSET (1..n) -> Rings] : IsFold(I, n, q, f)
    BY <2>1, <2>2, FoldExists
  <2>4. ASSUME NEW s \in SUBSET (1..n), s # {}
        PROVE  f[<<I[s \ {Ring!Max(s)}], Ring!Max(s)>>]
                 = Ring!push(I[s \ {Ring!Max(s)}], t[Ring!Max(s)])
    <3>1. Ring!Max(s) \in 1..n /\ I[s \ {Ring!Max(s)}] \in Rings
      BY <2>1, <2>4, MaxOfPlaces, RingMax
    <3> QED
      BY <3>1 DEF f
  <2>5. \A s \in SUBSET S : I[s] = IF s = {} THEN q
                                   ELSE Ring!push(I[s \ {Ring!Max(s)}], t[Ring!Max(s)])
    BY <1>1, <2>3, <2>4, RingMax DEF IsFold
  <2>6. I = [s \in SUBSET S |-> I[s]]
    BY <1>1 DEF n
  <2>7. I = F(I)
    BY <2>5, <2>6
  <2> QED
    BY <2>7
<1>4. J = F(J)
  <2> HIDE DEF F
  <2> QED
    BY <1>3
<1> QED
  BY <1>1, <1>2, <1>4

\* Turn by turn.
LEMMA FillRuns ==
    ASSUME NEW q \in Rings, NEW t \in Seq(Slot)
    PROVE  \E r : /\ r[0] = q
                  /\ \A k \in 1..Len(t) : r[k] = Ring!push(r[k - 1], t[k])
                  /\ Ring!FoldLeft(Ring!push, q, t) = r[Len(t)]
<1> DEFINE n == Len(t)
<1>1. PICK J : /\ J = [s \in SUBSET (1..n) |->
                          IF s = {} THEN q
                          ELSE Ring!push(J[s \ {Ring!Max(s)}], t[Ring!Max(s)])]
               /\ Ring!FoldLeft(Ring!push, q, t) = J[1..n]
  BY FillFolds
<1>2. n \in Nat
  OBVIOUS
<1> HIDE DEF n
<1> DEFINE r == [k \in 0..n |-> J[1..k]]
<1>3. r[0] = q /\ r[n] = J[1..n]
  <2>1. 1..0 = {} /\ {} \in SUBSET (1..n) /\ 0 \in 0..n /\ n \in 0..n
    BY <1>2
  <2>2. J[{}] = q
    BY <1>1, <2>1
  <2> QED
    BY <2>1, <2>2
<1>4. ASSUME NEW k \in 1..n PROVE r[k] = Ring!push(r[k - 1], t[k])
  <2>1. Ring!Max(1..k) = k /\ (1..k) \ {k} = 1..(k - 1) /\ 1..k # {}
    BY <1>2, UpToPlace, RingMax
  <2>2. k \in 0..n /\ k - 1 \in 0..n /\ 1..k \in SUBSET (1..n)
    BY <1>2
  <2>3. J[1..k] = Ring!push(J[(1..k) \ {Ring!Max(1..k)}], t[Ring!Max(1..k)])
    BY <1>1, <2>1, <2>2
  <2>4. J[1..k] = Ring!push(J[1..(k - 1)], t[k])
    BY <2>1, <2>3
  <2> QED
    BY <2>2, <2>4
<1> HIDE DEF r
<1> QED
  BY <1>1, <1>3, <1>4 DEF n

\* What Without keeps, entry by entry.
LEMMA WithoutRuns ==
    ASSUME NEW s \in Seq(Slot), NEW x
    PROVE  \E w : /\ w[0] = <<>>
                  /\ \A k \in 1..Len(s) :
                        w[k] = IF s[k] = x THEN w[k - 1] ELSE Append(w[k - 1], s[k])
                  /\ Ring!Fifo!Without(s, x) = w[Len(s)]
<1> DEFINE n == Len(s)
           F(w) == [k \in 0..n |->
                       IF k = 0 THEN <<>>
                       ELSE IF s[k] = x THEN w[k - 1] ELSE Append(w[k - 1], s[k])]
           w == CHOOSE w : w = F(w)
<1>1. Ring!Fifo!Without(s, x) = w[n]
  BY DEF Ring!Fifo!Without
<1>2. n \in Nat /\ \A i \in 1..n : s[i] \in Slot
  OBVIOUS
<1> HIDE DEF n
<1>3. \E r : r = F(r)
  <2> DEFINE f == [v \in Seq(Slot) \X (1..n) |->
                     IF s[v[2]] = x THEN v[1] ELSE Append(v[1], s[v[2]])]
  <2>1. f \in [Seq(Slot) \X (1..n) -> Seq(Slot)] /\ <<>> \in Seq(Slot)
    BY <1>2
  <2> HIDE DEF f
  <2>2. PICK r \in [0..n -> Seq(Slot)] : IsRun(r, n, <<>>, f)
    <3> DEFINE V == Seq(Slot)
               none == <<>>
    <3>1. n \in Nat /\ none \in V /\ f \in [V \X (1..n) -> V]
      BY <1>2, <2>1
    <3> HIDE DEF V, none
    <3>2. \E r \in [0..n -> V] : IsRun(r, n, none, f)
      BY <3>1, RunExists
    <3> QED
      BY <3>2 DEF V, none
  <2>3. ASSUME NEW k \in 0..n, k # 0
        PROVE  f[<<r[k - 1], k>>] = IF s[k] = x THEN r[k - 1] ELSE Append(r[k - 1], s[k])
    <3>1. k \in 1..n /\ k - 1 \in 0..n
      BY <1>2, <2>3
    <3> QED
      BY <3>1 DEF f
  <2>4. \A k \in 0..n : r[k] = IF k = 0 THEN <<>>
                               ELSE IF s[k] = x THEN r[k - 1] ELSE Append(r[k - 1], s[k])
    BY <2>2, <2>3 DEF IsRun
  <2>5. r = [k \in 0..n |-> r[k]]
    OBVIOUS
  <2>6. r = F(r)
    BY <2>4, <2>5
  <2> QED
    BY <2>6
<1>4. w = F(w)
  <2> HIDE DEF F
  <2> QED
    BY <1>3
<1> HIDE DEF w
<1>5. w[0] = <<>>
  BY <1>2, <1>4
<1>6. ASSUME NEW k \in 1..n
      PROVE  w[k] = IF s[k] = x THEN w[k - 1] ELSE Append(w[k - 1], s[k])
  <2>1. k \in 0..n /\ k # 0
    BY <1>2
  <2> QED
    BY <1>4, <2>1
<1> QED
  BY <1>1, <1>5, <1>6 DEF n

\* The first loop takes every entry and keeps, in their order, those that are not pid.
LEMMA DrainKeepsOthers ==
    ASSUME NEW q \in Rings, NEW pid
    PROVE  /\ Ring!Drain(q, pid).queue \in Rings /\ Ring!Drain(q, pid).queue.count = 0
           /\ Ring!Drain(q, pid).temp = Ring!Fifo!Without(Ring!Contents(q), pid)
           /\ Ring!Drain(q, pid).temp \in Seq(Slot) /\ Len(Ring!Drain(q, pid).temp) <= q.count
<1> DEFINE n == q.count
           c == Ring!Contents(q)
<1>1. PICK r : /\ r[0] = [queue |-> q, temp |-> <<>>]
               /\ \A k \in 1..n : r[k] = Drained(r[k - 1], pid)
               /\ Ring!Drain(q, pid) = r[n]
  BY DrainRuns
<1>2. c \in Seq(Slot) /\ Len(c) = n /\ n \in Nat
  BY ContentsType, RingParts
<1> HIDE DEF n, c
<1>3. PICK w : /\ w[0] = <<>>
               /\ \A k \in 1..n : w[k] = IF c[k] = pid THEN w[k - 1] ELSE Append(w[k - 1], c[k])
               /\ Ring!Fifo!Without(c, pid) = w[n]
  BY <1>2, WithoutRuns
<1> DEFINE Kept(k) == /\ r[k].queue \in Rings /\ r[k].queue.count = n - k
                      /\ \A i \in 1..(n - k) : Ring!Contents(r[k].queue)[i] = c[i + k]
                      /\ r[k].temp = w[k] /\ w[k] \in Seq(Slot) /\ Len(w[k]) <= k
           N == {k \in Nat : k <= n => Kept(k)}
<1>4. Kept(0)
  <2>1. r[0].queue = q /\ r[0].temp = <<>>
    BY <1>1
  <2>2. n - 0 = n /\ \A i \in 1..n : i + 0 = i
    BY <1>2
  <2> QED
    BY <1>3, <2>1, <2>2 DEF n, c
<1>5. ASSUME NEW k \in Nat, k + 1 <= n, Kept(k) PROVE Kept(k + 1)
  <2> DEFINE p == r[k].queue
             t == w[k]
  <2>1. /\ p \in Rings /\ p.count = n - k /\ r[k].temp = t /\ t \in Seq(Slot) /\ Len(t) <= k
        /\ \A i \in 1..(n - k) : Ring!Contents(p)[i] = c[i + k]
    BY <1>5
  <2>2. k + 1 \in 1..n /\ (k + 1) - 1 = k /\ n - k \in Nat \ {0} /\ n - (k + 1) = (n - k) - 1
    BY <1>2, <1>5
  <2>3. /\ r[k + 1] = Drained(r[k], pid)
        /\ w[k + 1] = IF c[k + 1] = pid THEN t ELSE Append(t, c[k + 1])
    BY <1>1, <1>3, <2>2
  <2> HIDE DEF p, t
  <2>4. /\ Ring!popped(p) \in Rings /\ Ring!popped(p).count = (n - k) - 1
        /\ Ring!front(p) = Ring!Contents(p)[1]
        /\ \A i \in 1..((n - k) - 1) : Ring!Contents(Ring!popped(p))[i] = Ring!Contents(p)[i + 1]
    BY <2>1, <2>2, PopTakesFirst
  <2>5. Ring!front(p) = c[k + 1]
    <3>1. 1 \in 1..(n - k) /\ 1 + k = k + 1
      BY <2>2
    <3> QED
      BY <2>1, <2>4, <3>1
  <2>6. /\ r[k + 1].queue = Ring!popped(p)
        /\ r[k + 1].temp = IF Ring!front(p) # pid THEN Append(t, Ring!front(p)) ELSE t
    BY <2>1, <2>3 DEF Drained, p
  <2>7. w[k + 1] = r[k + 1].temp
    BY <2>3, <2>5, <2>6
  <2>8. c[k + 1] \in Slot
    BY <1>2, <2>2
  <2>9. w[k + 1] \in Seq(Slot) /\ Len(w[k + 1]) <= k + 1
    <3>1. CASE c[k + 1] = pid
      BY <2>1, <2>3, <3>1
    <3>2. CASE c[k + 1] # pid
      <4>1. w[k + 1] = Append(t, c[k + 1])
        BY <2>3, <3>2
      <4>2. Append(t, c[k + 1]) \in Seq(Slot) /\ Len(Append(t, c[k + 1])) = Len(t) + 1
        BY <2>1, <2>8
      <4>3. Len(t) \in Nat
        BY <2>1
      <4> QED
        BY <2>1, <4>1, <4>2, <4>3
    <3> QED
      BY <3>1, <3>2
  <2>10. ASSUME NEW i \in 1..((n - k) - 1)
         PROVE  Ring!Contents(r[k + 1].queue)[i] = c[i + (k + 1)]
    <3>1. i + 1 \in 1..(n - k) /\ (i + 1) + k = i + (k + 1)
      BY <2>2
    <3> QED
      BY <2>1, <2>4, <2>6, <3>1
  <2> QED
    BY <2>2, <2>4, <2>6, <2>7, <2>9, <2>10
<1> HIDE DEF Kept
<1>6. N = Nat
  <2>1. 0 \in N
    BY <1>4
  <2>2. ASSUME NEW k \in N PROVE k + 1 \in N
    BY <1>2, <1>5, <2>2
  <2>3. N \in SUBSET Nat
    OBVIOUS
  <2> HIDE DEF N
  <2> QED
    BY <2>1, <2>2, <2>3, CountingInduction
<1>7. Kept(n)
  BY <1>2, <1>6
<1>8. /\ r[n].queue \in Rings /\ r[n].queue.count = 0
      /\ r[n].temp = w[n] /\ w[n] \in Seq(Slot) /\ Len(w[n]) <= n
  BY <1>2, <1>7 DEF Kept
<1> QED
  BY <1>1, <1>3, <1>8 DEF n, c

\* The second loop puts them back.
LEMMA FillRestores ==
    ASSUME NEW q \in Rings, q.count = 0, NEW t \in Seq(Slot), Len(t) <= MAX_PROCESSES
    PROVE  /\ Ring!FoldLeft(Ring!push, q, t) \in Rings
           /\ Ring!Contents(Ring!FoldLeft(Ring!push, q, t)) = t
<1> DEFINE n == Len(t)
<1>1. PICK r : /\ r[0] = q
               /\ \A k \in 1..n : r[k] = Ring!push(r[k - 1], t[k])
               /\ Ring!FoldLeft(Ring!push, q, t) = r[n]
  BY FillRuns
<1>2. n \in Nat /\ n <= MAX_PROCESSES /\ \A i \in 1..n : t[i] \in Slot
  OBVIOUS
<1> HIDE DEF n
<1> DEFINE Back(k) == /\ r[k] \in Rings /\ r[k].count = k
                      /\ \A i \in 1..k : Ring!Contents(r[k])[i] = t[i]
           N == {k \in Nat : k <= n => Back(k)}
<1>3. Back(0)
  BY <1>1
<1>4. ASSUME NEW k \in Nat, k + 1 <= n, Back(k) PROVE Back(k + 1)
  <2> DEFINE p == r[k]
             x == t[k + 1]
             old == Ring!Contents(p)
  <2>1. p \in Rings /\ p.count = k /\ \A i \in 1..k : old[i] = t[i]
    BY <1>4
  <2>2. k + 1 \in 1..n /\ (k + 1) - 1 = k /\ k < MAX_PROCESSES
    BY <1>2, <1>4, RingSize
  <2>3. r[k + 1] = Ring!push(p, x) /\ x \in Slot
    BY <1>1, <1>2, <2>2
  <2>4. old \in Seq(Slot) /\ Len(old) = k
    BY <2>1, ContentsType
  <2> HIDE DEF p, x
  <2>5. /\ Ring!push(p, x) \in Rings /\ Ring!push(p, x).count = k + 1
        /\ Ring!Contents(Ring!push(p, x)) = Append(old, x)
    BY <2>1, <2>2, <2>3, PushAppends
  <2> HIDE DEF old
  <2>6. ASSUME NEW i \in 1..(k + 1) PROVE Append(old, x)[i] = t[i]
    <3>1. CASE i = k + 1
      BY <2>4, <3>1 DEF x
    <3>2. CASE i # k + 1
      <4>1. i \in 1..k
        BY <3>2
      <4>2. Append(old, x)[i] = old[i]
        BY <2>4, <4>1
      <4> QED
        BY <2>1, <4>1, <4>2
    <3> QED
      BY <3>1, <3>2
  <2> QED
    BY <2>3, <2>5, <2>6
<1> HIDE DEF Back
<1>5. N = Nat
  <2>1. 0 \in N
    BY <1>3
  <2>2. ASSUME NEW k \in N PROVE k + 1 \in N
    BY <1>2, <1>4, <2>2
  <2>3. N \in SUBSET Nat
    OBVIOUS
  <2> HIDE DEF N
  <2> QED
    BY <2>1, <2>2, <2>3, CountingInduction
<1>6. Back(n)
  BY <1>2, <1>5
<1>7. r[n] \in Rings /\ r[n].count = n /\ \A i \in 1..n : Ring!Contents(r[n])[i] = t[i]
  BY <1>6 DEF Back
<1>8. Ring!Contents(r[n]) \in Seq(Slot) /\ Len(Ring!Contents(r[n])) = n
  BY <1>7, ContentsType
<1>9. t \in Seq(Slot) /\ Len(t) = n
  BY DEF n
<1>10. Ring!Contents(r[n]) = t
  BY <1>7, <1>8, <1>9, SameEntries
<1> QED
  BY <1>1, <1>7, <1>10

\* remove takes every copy of pid out and leaves the others in their order.
LEMMA RemoveDiscards ==
    ASSUME NEW q \in Rings, NEW pid
    PROVE  /\ Ring!remove(q, pid) \in Rings
           /\ Ring!Contents(Ring!remove(q, pid)) = Ring!Fifo!Without(Ring!Contents(q), pid)
<1> DEFINE d == Ring!Drain(q, pid)
<1>1. /\ d.queue \in Rings /\ d.queue.count = 0
      /\ d.temp = Ring!Fifo!Without(Ring!Contents(q), pid)
      /\ d.temp \in Seq(Slot) /\ Len(d.temp) <= q.count
  BY DrainKeepsOthers
<1>2. Len(d.temp) <= MAX_PROCESSES
  <2>1. Len(d.temp) \in Nat /\ q.count \in 0..MAX_PROCESSES /\ MAX_PROCESSES \in Nat
    BY <1>1, RingParts, RingSize
  <2> HIDE DEF d
  <2> QED
    BY <1>1, <2>1
<1>3. Ring!remove(q, pid) = Ring!FoldLeft(Ring!push, d.queue, d.temp)
  BY DEF Ring!remove
<1> HIDE DEF d
<1> QED
  BY <1>1, <1>2, <1>3, FillRestores

-----------------------------------------------------------------------------
(* The ring buffer as a bounded queue *)

\* get reads the entry so many places behind the front, if there is one.
LEMMA GetPeeks ==
    ASSUME NEW q \in Rings, NEW i \in -1..MAX_PROCESSES
    PROVE  Ring!get(q, i) = IF i + 1 \in DOMAIN Ring!Contents(q)
                            THEN Ring!Contents(q)[i + 1] ELSE None
<1>1. q.count \in 0..MAX_PROCESSES /\ MAX_PROCESSES \in Nat /\ q.front_idx \in Nat
  BY RingParts, RingSize
<1>2. DOMAIN Ring!Contents(q) = 1..q.count
  BY DEF Ring!Contents
<1>3. CASE i < 0 \/ i >= q.count
  <2>1. i + 1 \notin 1..q.count
    BY <1>1, <1>3
  <2> QED
    BY <1>2, <1>3, <2>1 DEF Ring!get
<1>4. CASE ~(i < 0 \/ i >= q.count)
  <2>1. i + 1 \in 1..q.count /\ q.front_idx + (i + 1) - 1 = q.front_idx + i
    BY <1>1, <1>4
  <2>2. Ring!Contents(q)[i + 1] = q.data[(q.front_idx + (i + 1) - 1) % MAX_PROCESSES]
    BY <2>1, ContentsType
  <2>3. Ring!Contents(q)[i + 1] = q.data[(q.front_idx + i) % MAX_PROCESSES]
    BY <2>1, <2>2
  <2>4. Ring!get(q, i) = q.data[(q.front_idx + i) % MAX_PROCESSES]
    BY <1>4 DEF Ring!get
  <2> QED
    BY <1>2, <2>1, <2>3, <2>4
<1> QED
  BY <1>3, <1>4

RingInv == queue \in Rings

LEMMA RingStart == Init => RingInv /\ Ring!Fifo!Init
<1> SUFFICES ASSUME Init PROVE RingInv /\ Ring!Fifo!Init
  OBVIOUS
<1>1. queue = Ring!KernelQueue /\ returned = None
  BY DEF Init, Ring!Init
<1>2. 0 \in 0..(MAX_PROCESSES - 1) /\ 0 \in 0..MAX_PROCESSES /\ 0 = (0 + 0) % MAX_PROCESSES
  BY RingSize
<1>3. [i \in Ring!Index |-> None] \in [Ring!Index -> Slot]
  BY DEF Slot
<1>4. queue \in Rings /\ queue.count = 0
  <2> DEFINE d == [i \in Ring!Index |-> None]
  <2>1. d \in [Ring!Index -> Slot] /\ queue = [data |-> d, front_idx |-> 0, rear_idx |-> 0, count |-> 0]
    BY <1>1, <1>3 DEF Ring!KernelQueue
  <2> HIDE DEF d
  <2> QED
    BY <1>2, <2>1, RingOfParts
<1>5. Ring!Contents(queue) = <<>>
  <2>1. Ring!Contents(queue) \in Seq(Slot) /\ Len(Ring!Contents(queue)) = 0
    BY <1>4, ContentsType
  <2> HIDE DEF RingInv
  <2> QED
    BY <2>1
<1> QED
  BY <1>1, <1>4, <1>5 DEF RingInv, Ring!Fifo!Init

LEMMA RingPushes ==
    ASSUME RingInv, NEW x \in Item, Ring!CallPush(x)
    PROVE  RingInv' /\ Ring!Fifo!Push(x)
<1> DEFINE c == Ring!Contents(queue)
<1>1. /\ queue \in Rings /\ x \in Slot
      /\ queue' = Ring!push(queue, x) /\ returned' = (queue.count < MAX_PROCESSES)
  BY DEF RingInv, Slot, Ring!CallPush
<1>2. c \in Seq(Slot) /\ Len(c) = queue.count
  BY <1>1, ContentsType
<1>3. queue.count \in Nat /\ MAX_PROCESSES \in Nat
  BY <1>1, RingParts, RingSize
<1>4. RingInv'
  BY <1>1, PushType DEF RingInv
<1>5. Ring!Contents(queue') = IF Len(c) < MAX_PROCESSES THEN Append(c, x) ELSE c
  <2> HIDE DEF c
  <2>1. CASE queue.count < MAX_PROCESSES
    BY <1>1, <1>2, <2>1, PushAppends DEF c
  <2>2. CASE ~(queue.count < MAX_PROCESSES)
    <3>1. queue.count >= MAX_PROCESSES
      BY <1>3, <2>2
    <3>2. queue' = queue
      BY <1>1, <3>1 DEF Ring!push
    <3> QED
      BY <1>2, <2>2, <3>2 DEF c
  <2> QED
    BY <2>1, <2>2
<1>6. returned' = (Len(c) < MAX_PROCESSES)
  BY <1>1, <1>2
<1> QED
  BY <1>4, <1>5, <1>6 DEF Ring!Fifo!Push, Ring!Contents

LEMMA RingPops ==
    ASSUME RingInv, Ring!CallPop
    PROVE  RingInv' /\ Ring!Fifo!Pop
<1> DEFINE c == Ring!Contents(queue)
           p == Ring!popped(queue)
<1>1. queue \in Rings /\ queue' = p /\ returned' = Ring!front(queue)
  BY DEF RingInv, Ring!CallPop
<1>2. c \in Seq(Slot) /\ Len(c) = queue.count
  BY <1>1, ContentsType
<1>3. queue.count \in Nat
  BY <1>1, RingParts
<1>4. RingInv'
  BY <1>1, PopType DEF RingInv
<1>5. /\ Ring!Contents(queue') = IF c = <<>> THEN c ELSE Tail(c)
      /\ returned' = IF c = <<>> THEN None ELSE Head(c)
  <2>1. CASE queue.count = 0
    <3>1. c = <<>>
      <4> HIDE DEF c
      <4> QED
        BY <1>2, <2>1
    <3>2. queue' = queue /\ returned' = None
      BY <1>1, <2>1 DEF Ring!popped, Ring!front
    <3> QED
      BY <3>1, <3>2
  <2>2. CASE queue.count # 0
    <3>1. /\ p \in Rings /\ p.count = queue.count - 1
          /\ Ring!front(queue) = c[1] /\ 1 \in 1..queue.count
          /\ \A n \in 1..(queue.count - 1) : Ring!Contents(p)[n] = c[n + 1]
      BY <1>1, <2>2, PopTakesFirst
    <3>2. Ring!Contents(p) \in Seq(Slot) /\ Len(Ring!Contents(p)) = queue.count - 1
      BY <3>1, ContentsType
    <3> DEFINE d == Ring!Contents(p)
               k == queue.count
    <3>3. c # <<>> /\ Head(c) = c[1]
      <4> HIDE DEF c
      <4> QED
        BY <1>2, <1>3, <2>2
    <3> HIDE DEF c, d, p, k
    <3>4. d = Tail(c)
      <4>1. k \in Nat \ {0} /\ c \in Seq(Slot) /\ Len(c) = k
        BY <1>2, <1>3, <2>2 DEF k
      <4>2. /\ Tail(c) \in Seq(Slot) /\ Len(Tail(c)) = k - 1
            /\ \A n \in 1..(k - 1) : Tail(c)[n] = c[n + 1]
        BY <4>1
      <4>3. d \in Seq(Slot) /\ Len(d) = k - 1 /\ \A n \in 1..(k - 1) : d[n] = c[n + 1]
        BY <3>1, <3>2 DEF d, k
      <4>4. \A n \in 1..(k - 1) : d[n] = Tail(c)[n]
        BY <4>2, <4>3
      <4> QED
        BY <4>2, <4>3, <4>4, SameEntries
    <3> QED
      BY <1>1, <3>1, <3>3, <3>4 DEF d
  <2> QED
    BY <2>1, <2>2
<1> QED
  BY <1>4, <1>5 DEF Ring!Fifo!Pop, Ring!Contents

LEMMA RingRemoves ==
    ASSUME RingInv, NEW x, Ring!CallRemove(x)
    PROVE  RingInv' /\ Ring!Fifo!Discard(x)
<1>1. queue \in Rings /\ queue' = Ring!remove(queue, x) /\ returned' = None
  BY DEF RingInv, Ring!CallRemove
<1>2. /\ Ring!remove(queue, x) \in Rings
      /\ Ring!Contents(queue') = Ring!Fifo!Without(Ring!Contents(queue), x)
  BY <1>1, RemoveDiscards
<1> QED
  BY <1>1, <1>2 DEF RingInv, Ring!Fifo!Discard, Ring!Contents

LEMMA RingGets ==
    ASSUME RingInv, NEW i \in -1..MAX_PROCESSES, Ring!CallGet(i)
    PROVE  RingInv' /\ Ring!Fifo!Peek(i)
<1>1. queue \in Rings /\ queue' = queue /\ returned' = Ring!get(queue, i)
  BY DEF RingInv, Ring!CallGet
<1>2. returned' = IF i + 1 \in DOMAIN Ring!Contents(queue)
                  THEN Ring!Contents(queue)[i + 1] ELSE None
  BY <1>1, GetPeeks
<1>3. Ring!Contents(queue)' = Ring!Contents(queue)
  BY <1>1 DEF Ring!Contents
<1> QED
  BY <1>1, <1>2, <1>3 DEF RingInv, Ring!Fifo!Peek

\* kernel.h, KernelQueue: whatever is pushed, popped and removed, and wherever the front has
\* come to stand, the ring buffer of any size is a bounded queue served first come, first
\* served, and its two ends and its count agree.
THEOREM RingIsFifo == Spec => ImplementsFifo
<1>1. RingInv /\ [Next]_vars
        => RingInv' /\ [Ring!Fifo!Next]_<<Ring!Contents(queue), returned>>
  <2> SUFFICES ASSUME RingInv, [Next]_vars
               PROVE  RingInv' /\ [Ring!Fifo!Next]_<<Ring!Contents(queue), returned>>
    OBVIOUS
  <2>1. CASE Ring!Next
    <3>1. ASSUME NEW x \in Item, Ring!CallPush(x) PROVE RingInv' /\ Ring!Fifo!Next
      BY <3>1, RingPushes DEF Ring!Fifo!Next
    <3>2. CASE Ring!CallPop
      BY <3>2, RingPops DEF Ring!Fifo!Next
    <3>3. ASSUME NEW i \in -1..MAX_PROCESSES, Ring!CallGet(i) PROVE RingInv' /\ Ring!Fifo!Next
      BY <3>3, RingGets DEF Ring!Fifo!Next
    <3>4. ASSUME NEW x \in Item \union {None}, Ring!CallRemove(x)
          PROVE  RingInv' /\ Ring!Fifo!Next
      BY <3>4, RingRemoves DEF Ring!Fifo!Next
    <3> QED
      BY <2>1, <3>1, <3>2, <3>3, <3>4 DEF Ring!Next
  <2>2. CASE UNCHANGED ring
    BY <2>2 DEF ring, RingInv, Ring!Contents
  <2> QED
    BY <2>1, <2>2 DEF Next, vars, Only, OnlyRing, OnlySearch, OnlyHandshake, OnlyEditor,
       OnlyClocks, OnlyMonths
<1>2. RingInv => Ring!RingOK
  BY RingParts DEF RingInv, Ring!RingOK, Ring!Index, Slot
<1> QED
  BY <1>1, <1>2, RingStart, PTL DEF Spec, ImplementsFifo, Ring!ImplementsFifo, Ring!Fifo!Spec

-----------------------------------------------------------------------------
(***************************************************************************)
(* The calendar.  The loop of display_calendar fills a table, seven to a   *)
(* row, whose cells are counted from the first blank.                      *)
(***************************************************************************)

\* The day in column c of row r, and the row up to column w.
DayIn(start, r, c) == IF 7 * (r - 1) + c <= start THEN 0 ELSE 7 * (r - 1) + c - start
Row(start, r, w) == [c \in 1..w |-> DayIn(start, r, c)]

\* The rows where k days are printed.
Filled(start, k) ==
    [r \in 1..((start + k) \div 7 + 1) |->
        Row(start, r, IF r <= (start + k) \div 7 THEN 7 ELSE (start + k) % 7)]

\* A turn of the loop.
Prints(start, rows, d) ==
    LET row == Append(rows[Len(rows)], d)
        done == Append(SubSeq(rows, 1, Len(rows) - 1), row)
    IN  IF (start + d) % 7 = 0 THEN Append(done, <<>>) ELSE done

Tables == {rows \in Seq(Seq(Nat)) : Len(rows) >= 1}

LEMMA SevenToARow ==
    ASSUME NEW t \in Nat
    PROVE  /\ t \div 7 \in Nat /\ t % 7 \in 0..6 /\ t = 7 * (t \div 7) + (t % 7)
           /\ t % 7 = 6 => (t + 1) % 7 = 0 /\ (t + 1) \div 7 = t \div 7 + 1
           /\ t % 7 < 6 => (t + 1) % 7 = (t % 7) + 1 /\ (t + 1) \div 7 = t \div 7
<1>1. t \div 7 \in Nat /\ t % 7 \in 0..6 /\ t = 7 * (t \div 7) + (t % 7)
  OBVIOUS
<1>2. t % 7 = 6 => (t + 1) % 7 = 0 /\ (t + 1) \div 7 = t \div 7 + 1
  OBVIOUS
<1>3. t % 7 < 6 => (t + 1) % 7 = (t % 7) + 1 /\ (t + 1) \div 7 = t \div 7
  OBVIOUS
<1> QED
  BY <1>1, <1>2, <1>3

LEMMA RowType ==
    ASSUME NEW start \in 0..6, NEW r \in Nat \ {0}, NEW w \in Nat
    PROVE  Row(start, r, w) \in Seq(Nat) /\ Len(Row(start, r, w)) = w
<1>1. \A c \in 1..w : DayIn(start, r, c) \in Nat
  BY DEF DayIn
<1> QED
  BY <1>1 DEF Row

LEMMA FilledType ==
    ASSUME NEW start \in 0..6, NEW k \in Nat
    PROVE  /\ Filled(start, k) \in Tables
           /\ Len(Filled(start, k)) = (start + k) \div 7 + 1
<1> DEFINE q == (start + k) \div 7
           w(r) == IF r <= q THEN 7 ELSE (start + k) % 7
<1>1. q \in Nat /\ (start + k) % 7 \in 0..6
  BY SevenToARow
<1>2. ASSUME NEW r \in 1..(q + 1) PROVE Row(start, r, w(r)) \in Seq(Nat)
  <2>1. w(r) \in Nat /\ r \in Nat \ {0}
    BY <1>1
  <2> QED
    BY <2>1, RowType
<1>3. Filled(start, k) = [r \in 1..(q + 1) |-> Row(start, r, w(r))]
  BY DEF Filled
<1> HIDE DEF q, w
<1>4. Filled(start, k) \in Seq(Seq(Nat)) /\ Len(Filled(start, k)) = q + 1
  BY <1>1, <1>2, <1>3
<1> QED
  BY <1>1, <1>4 DEF Tables, q

LEMMA FrontRows ==
    ASSUME NEW S, NEW s \in Seq(S), NEW k \in 0..Len(s)
    PROVE  /\ SubSeq(s, 1, k) \in Seq(S) /\ Len(SubSeq(s, 1, k)) = k
           /\ \A i \in 1..k : SubSeq(s, 1, k)[i] = s[i]
  OBVIOUS

LEMMA PrintsType ==
    ASSUME NEW start \in 0..6, NEW rows \in Tables, NEW d \in Nat
    PROVE  Prints(start, rows, d) \in Tables
<1> DEFINE n == Len(rows)
           row == Append(rows[n], d)
           front == SubSeq(rows, 1, n - 1)
           done == Append(front, row)
<1>1. rows \in Seq(Seq(Nat)) /\ n \in Nat /\ n >= 1 /\ rows[n] \in Seq(Nat)
  BY DEF Tables
<1>2. front \in Seq(Seq(Nat)) /\ Len(front) = n - 1
  <2>1. rows \in Seq(Seq(Nat)) /\ 1 \in Nat /\ n - 1 \in Nat /\ n - 1 <= Len(rows)
    BY <1>1
  <2> HIDE DEF n
  <2>2. n - 1 \in 0..Len(rows)
    BY <2>1
  <2> QED
    BY <2>1, <2>2, FrontRows
<1>3. row \in Seq(Nat)
  BY <1>1, Appended
<1> HIDE DEF front, row
<1>4. done \in Seq(Seq(Nat)) /\ Len(done) = n
  BY <1>1, <1>2, <1>3, Appended
<1> HIDE DEF done
<1>5. <<>> \in Seq(Nat)
  OBVIOUS
<1>6. Append(done, <<>>) \in Seq(Seq(Nat)) /\ Len(Append(done, <<>>)) = n + 1
  BY <1>4, <1>5, Appended
<1>7. done \in Tables /\ Append(done, <<>>) \in Tables
  BY <1>1, <1>4, <1>6 DEF Tables
<1> QED
  BY <1>7 DEF Prints, done, front, row

\* A row that a day is put to.
LEMMA RowGrows ==
    ASSUME NEW start \in 0..6, NEW r \in Nat \ {0}, NEW w \in Nat
    PROVE  Append(Row(start, r, w), DayIn(start, r, w + 1)) = Row(start, r, w + 1)
<1> DEFINE s == Row(start, r, w)
           d == DayIn(start, r, w + 1)
           l == Row(start, r, w + 1)
<1>1. s \in Seq(Nat) /\ Len(s) = w /\ l \in Seq(Nat) /\ Len(l) = w + 1
  <2>1. w + 1 \in Nat
    OBVIOUS
  <2> QED
    BY <2>1, RowType
<1>2. d \in Nat
  BY DEF DayIn
<1>3. \A c \in 1..w : s[c] = l[c]
  BY DEF Row
<1>4. l[w + 1] = d
  BY DEF Row
<1> HIDE DEF s, d, l
<1>5. /\ Append(s, d) \in Seq(Nat) /\ Len(Append(s, d)) = w + 1
      /\ \A i \in 1..w : Append(s, d)[i] = s[i]
      /\ Append(s, d)[w + 1] = d
  BY <1>1, <1>2, Appended
<1>6. \A i \in 1..(w + 1) : Append(s, d)[i] = l[i]
  <2>1. \A i \in 1..(w + 1) : i \in 1..w \/ i = w + 1
    OBVIOUS
  <2> QED
    BY <1>3, <1>4, <1>5, <2>1
<1>7. Append(s, d) = l
  BY <1>1, <1>5, <1>6, SameEntries
<1> QED
  BY <1>7 DEF s, d, l

LEMMA FilledMore ==
    ASSUME NEW start \in 0..6, NEW k \in Nat
    PROVE  Prints(start, Filled(start, k), k + 1) = Filled(start, k + 1)
<1> DEFINE t == start + k
           q == t \div 7
           w == t % 7
           rows == Filled(start, k)
           next == Filled(start, k + 1)
           full == Row(start, q + 1, w + 1)
           front == SubSeq(rows, 1, q)
           done == Append(front, full)
<1>1. /\ t \in Nat /\ q \in Nat /\ w \in 0..6 /\ t = 7 * q + w
      /\ w = 6 => (t + 1) % 7 = 0 /\ (t + 1) \div 7 = q + 1
      /\ w < 6 => (t + 1) % 7 = w + 1 /\ (t + 1) \div 7 = q
  BY SevenToARow
<1>2. start + (k + 1) = t + 1
  OBVIOUS
<1>3. /\ rows \in Seq(Seq(Nat)) /\ Len(rows) = q + 1
      /\ \A r \in 1..q : rows[r] = Row(start, r, 7)
      /\ rows[q + 1] = Row(start, q + 1, w)
  <2>1. rows \in Tables /\ Len(rows) = q + 1
    BY FilledType
  <2>2. \A r \in 1..(q + 1) : rows[r] = Row(start, r, IF r <= q THEN 7 ELSE w)
    BY DEF Filled
  <2>3. /\ \A r \in 1..q : r \in 1..(q + 1) /\ r <= q
        /\ q + 1 \in 1..(q + 1) /\ ~(q + 1 <= q)
    BY <1>1
  <2> HIDE DEF rows, q, w
  <2>4. \A r \in 1..q : rows[r] = Row(start, r, 7)
    BY <2>2, <2>3
  <2>5. rows[q + 1] = Row(start, q + 1, w)
    BY <2>2, <2>3
  <2> QED
    BY <2>1, <2>4, <2>5 DEF Tables
<1>4. /\ next \in Seq(Seq(Nat)) /\ Len(next) = (t + 1) \div 7 + 1
      /\ \A r \in 1..((t + 1) \div 7 + 1) :
            next[r] = Row(start, r, IF r <= (t + 1) \div 7 THEN 7 ELSE (t + 1) % 7)
  <2>1. next \in Tables /\ Len(next) = (t + 1) \div 7 + 1
    <3>1. k + 1 \in Nat
      OBVIOUS
    <3> QED
      BY <1>2, <3>1, FilledType
  <2>2. next = [r \in 1..((t + 1) \div 7 + 1) |->
                   Row(start, r, IF r <= (t + 1) \div 7 THEN 7 ELSE (t + 1) % 7)]
    BY <1>2 DEF Filled
  <2> QED
    BY <2>1, <2>2 DEF Tables
<1>5. DayIn(start, q + 1, w + 1) = k + 1
  BY <1>1 DEF DayIn
<1> HIDE DEF q, w
<1>6. Append(rows[q + 1], k + 1) = full
  <2>1. q + 1 \in Nat \ {0} /\ w \in Nat
    BY <1>1
  <2> QED
    BY <1>3, <1>5, <2>1, RowGrows
<1>7. full \in Seq(Nat)
  <2>1. q + 1 \in Nat \ {0} /\ w + 1 \in Nat
    BY <1>1
  <2> QED
    BY <2>1, RowType
<1> HIDE DEF rows, next, full
<1>8. front \in Seq(Seq(Nat)) /\ Len(front) = q /\ \A r \in 1..q : front[r] = rows[r]
  <2>1. q \in 0..Len(rows)
    BY <1>1, <1>3
  <2> QED
    BY <1>3, <2>1, FrontRows
<1> HIDE DEF front
<1>9. /\ done \in Seq(Seq(Nat)) /\ Len(done) = q + 1
      /\ \A r \in 1..q : done[r] = Row(start, r, 7)
      /\ done[q + 1] = full
  <2>1. /\ done \in Seq(Seq(Nat)) /\ Len(done) = q + 1
        /\ \A r \in 1..q : done[r] = front[r]
        /\ done[q + 1] = full
    BY <1>7, <1>8, Appended
  <2> QED
    BY <1>3, <1>8, <2>1
<1>10. Prints(start, rows, k + 1) = IF (t + 1) % 7 = 0 THEN Append(done, <<>>) ELSE done
  <2>1. Len(rows) - 1 = q
    BY <1>1, <1>3
  <2> QED
    BY <1>2, <1>3, <1>6, <2>1 DEF Prints, front
<1> HIDE DEF done, t
<1>11. CASE w < 6
  <2>1. (t + 1) % 7 = w + 1 /\ (t + 1) \div 7 = q /\ (t + 1) % 7 # 0
    BY <1>1, <1>11
  <2>2. ASSUME NEW r \in 1..(q + 1) PROVE done[r] = next[r]
    <3>1. next[r] = Row(start, r, IF r <= q THEN 7 ELSE w + 1)
      BY <1>4, <2>1
    <3>2. CASE r <= q
      <4>1. r \in 1..q
        BY <1>1, <3>2
      <4> QED
        BY <1>9, <3>1, <3>2, <4>1
    <3>3. CASE ~(r <= q)
      <4>1. r = q + 1
        BY <1>1, <3>3
      <4> QED
        BY <1>9, <3>1, <3>3, <4>1 DEF full
    <3> QED
      BY <3>2, <3>3
  <2>3. done = next
    <3>1. Len(done) = Len(next) /\ Len(done) = q + 1
      BY <1>4, <1>9, <2>1
    <3> QED
      BY <1>4, <1>9, <2>2, <3>1, SameEntries
  <2> QED
    BY <1>10, <2>1, <2>3 DEF rows, next
<1>12. CASE w = 6
  <2>1. (t + 1) % 7 = 0 /\ (t + 1) \div 7 = q + 1
    BY <1>1, <1>12
  <2> DEFINE more == Append(done, <<>>)
  <2>2. <<>> \in Seq(Nat)
    OBVIOUS
  <2>3. /\ more \in Seq(Seq(Nat)) /\ Len(more) = q + 2
        /\ \A r \in 1..(q + 1) : more[r] = done[r]
        /\ more[q + 2] = <<>>
    <3>1. Len(done) + 1 = q + 2
      BY <1>1, <1>9
    <3> QED
      BY <1>9, <2>2, <3>1, Appended
  <2>4. Row(start, q + 2, 0) = <<>>
    <3>1. q + 2 \in Nat \ {0}
      BY <1>1
    <3>2. Row(start, q + 2, 0) \in Seq(Nat) /\ Len(Row(start, q + 2, 0)) = 0
      BY <3>1, RowType
    <3> QED
      BY <3>2
  <2> HIDE DEF more
  <2>5. ASSUME NEW r \in 1..(q + 2) PROVE more[r] = next[r]
    <3>1. next[r] = Row(start, r, IF r <= q + 1 THEN 7 ELSE 0)
      <4>1. (q + 1) + 1 = q + 2
        BY <1>1
      <4> QED
        BY <1>4, <2>1, <4>1
    <3>2. CASE r <= q
      <4>1. r \in 1..q /\ r \in 1..(q + 1) /\ r <= q + 1
        BY <1>1, <3>2
      <4> QED
        BY <1>9, <2>3, <3>1, <4>1
    <3>3. CASE r = q + 1
      <4>1. r \in 1..(q + 1) /\ r <= q + 1
        BY <1>1, <3>3
      <4> QED
        BY <1>9, <1>12, <2>3, <3>1, <3>3, <4>1 DEF full
    <3>4. CASE r = q + 2
      <4>1. ~(r <= q + 1)
        BY <1>1, <3>4
      <4> QED
        BY <2>3, <2>4, <3>1, <3>4, <4>1
    <3> QED
      BY <1>1, <3>2, <3>3, <3>4
  <2>6. more = next
    <3>1. Len(more) = Len(next) /\ Len(more) = q + 2
      BY <1>1, <1>4, <2>1, <2>3
    <3> QED
      BY <1>4, <2>3, <2>5, <3>1, SameEntries
  <2> QED
    BY <1>10, <2>1, <2>6 DEF rows, next, more
<1> QED
  BY <1>1, <1>11, <1>12

LEMMA MonthsMax == ASSUME NEW s PROVE Months!Max(s) = Max(s)
  BY DEF Months!Max, Max

\* The loop is a fold over the days, turn by turn.
LEMMA TableRuns ==
    ASSUME NEW month, NEW year,
           Months!get_start_day(month, year) \in 0..6, Months!get_days_in_month(month, year) \in Nat
    PROVE  \E r : /\ r[0] = << [i \in 1..Months!get_start_day(month, year) |-> 0] >>
                  /\ \A k \in 1..Months!get_days_in_month(month, year) :
                        r[k] = Prints(Months!get_start_day(month, year), r[k - 1], k)
                  /\ Months!display_calendar(month, year)
                       = r[Months!get_days_in_month(month, year)]
<1> DEFINE n == Months!get_days_in_month(month, year)
           start == Months!get_start_day(month, year)
           days == [d \in 1..n |-> d]
           S == DOMAIN days
           base == << [i \in 1..start |-> 0] >>
           F(J) == [s \in SUBSET S |->
                       IF s = {} THEN base
                       ELSE Prints(start, J[s \ {Months!Max(s)}], days[Months!Max(s)])]
           J == CHOOSE J : J = F(J)
<1>1. S = 1..n /\ n \in Nat /\ start \in 0..6
  OBVIOUS
<1>2. Months!display_calendar(month, year) = J[S]
  BY DEF Months!display_calendar, Months!FoldLeft, Months!MapThenFoldSet, Months!Last,
         Months!Front, Months!Blank, Prints
<1> HIDE DEF S, n, start
<1>3. \E I : I = F(I)
  <2> DEFINE f == [v \in Tables \X (1..n) |-> Prints(start, v[1], v[2])]
  <2>1. f \in [Tables \X (1..n) -> Tables]
    <3>1. ASSUME NEW v \in Tables \X (1..n) PROVE Prints(start, v[1], v[2]) \in Tables
      <4>1. v[1] \in Tables /\ v[2] \in Nat
        BY <1>1
      <4> QED
        BY <1>1, <4>1, PrintsType
    <3> QED
      BY <3>1
  <2>a. base \in Tables
    <3>1. [i \in 1..start |-> 0] \in Seq(Nat)
      BY <1>1
    <3> QED
      BY <3>1 DEF Tables
  <2> HIDE DEF f, base
  <2>2. PICK I \in [SUBSET (1..n) -> Tables] : IsFold(I, n, base, f)
    BY <1>1, <2>1, <2>a, FoldExists
  <2>3. ASSUME NEW s \in SUBSET (1..n), s # {}
        PROVE  f[<<I[s \ {Max(s)}], Max(s)>>] = Prints(start, I[s \ {Max(s)}], days[Max(s)])
    <3>1. Max(s) \in 1..n /\ I[s \ {Max(s)}] \in Tables
      BY <1>1, <2>3, MaxOfPlaces
    <3>2. days[Max(s)] = Max(s)
      BY <3>1
    <3> QED
      BY <3>1, <3>2 DEF f
  <2>4. \A s \in SUBSET S : I[s] = IF s = {} THEN base
                                   ELSE Prints(start, I[s \ {Months!Max(s)}], days[Months!Max(s)])
    BY <1>1, <2>2, <2>3, MonthsMax DEF IsFold
  <2>5. I = [s \in SUBSET S |-> I[s]]
    BY <1>1
  <2>6. I = F(I)
    BY <2>4, <2>5
  <2> QED
    BY <2>6
<1>4. J = F(J)
  <2> HIDE DEF F
  <2> QED
    BY <1>3
<1> HIDE DEF J
<1>5. \A s \in SUBSET S : J[s] = IF s = {} THEN base
                                 ELSE Prints(start, J[s \ {Months!Max(s)}], days[Months!Max(s)])
  BY <1>4
<1> DEFINE r == [k \in 0..n |-> J[1..k]]
<1>6. ASSUME NEW k \in 1..n PROVE r[k] = Prints(start, r[k - 1], k)
  <2>1. Months!Max(1..k) = k /\ (1..k) \ {k} = 1..(k - 1) /\ 1..k # {} /\ days[k] = k
    BY <1>1, UpToPlace, MonthsMax
  <2>2. k \in 0..n /\ k - 1 \in 0..n /\ 1..k \in SUBSET S
    BY <1>1
  <2>3. J[1..k] = Prints(start, J[1..(k - 1)], k)
    BY <1>5, <2>1, <2>2
  <2> QED
    BY <2>2, <2>3
<1>7. r[0] = base
  <2>1. 1..0 = {} /\ 0 \in 0..n
    BY <1>1
  <2> QED
    BY <1>5, <2>1
<1>8. Months!display_calendar(month, year) = r[n]
  BY <1>1, <1>2
<1> HIDE DEF r, base
<1> QED
  BY <1>6, <1>7, <1>8 DEF n, start, base

LEMMA FirstRow == ASSUME NEW start \in 0..6 PROVE << [i \in 1..start |-> 0] >> = Filled(start, 0)
<1>1. (start + 0) \div 7 = 0 /\ (start + 0) % 7 = start
  OBVIOUS
<1>2. Filled(start, 0) = [r \in 1..(0 + 1) |-> Row(start, r, IF r <= 0 THEN 7 ELSE start)]
  BY <1>1 DEF Filled
<1>3. Row(start, 1, start) = [i \in 1..start |-> 0]
  <2>1. \A c \in 1..start : DayIn(start, 1, c) = 0
    BY DEF DayIn
  <2> QED
    BY <2>1 DEF Row
<1>4. \A r \in 1..(0 + 1) : r = 1 /\ ~(r <= 0)
  OBVIOUS
<1>5. Filled(start, 0) = [r \in 1..1 |-> Row(start, 1, start)]
  BY <1>2, <1>4
<1> QED
  BY <1>3, <1>5

LEMMA TableIsFilled ==
    ASSUME NEW month, NEW year,
           Months!get_start_day(month, year) \in 0..6, Months!get_days_in_month(month, year) \in Nat
    PROVE  Months!display_calendar(month, year)
             = Filled(Months!get_start_day(month, year), Months!get_days_in_month(month, year))
<1> DEFINE n == Months!get_days_in_month(month, year)
           start == Months!get_start_day(month, year)
<1>1. PICK r : /\ r[0] = << [i \in 1..start |-> 0] >>
               /\ \A k \in 1..n : r[k] = Prints(start, r[k - 1], k)
               /\ Months!display_calendar(month, year) = r[n]
  BY TableRuns
<1>2. start \in 0..6 /\ n \in Nat
  OBVIOUS
<1> HIDE DEF n, start
<1> DEFINE N == {k \in Nat : k <= n => r[k] = Filled(start, k)}
<1>3. 0 \in N
  BY <1>1, <1>2, FirstRow
<1>4. ASSUME NEW k \in N PROVE k + 1 \in N
  <2>1. CASE k + 1 <= n
    <3>1. k + 1 \in 1..n /\ (k + 1) - 1 = k /\ k <= n
      BY <1>2, <2>1
    <3>2. r[k + 1] = Prints(start, Filled(start, k), k + 1)
      BY <1>1, <3>1
    <3> QED
      BY <1>2, <3>2, FilledMore
  <2> QED
    BY <2>1
<1>5. N = Nat
  <2> HIDE DEF N
  <2>1. N \in SUBSET Nat
    BY DEF N
  <2> QED
    BY <1>3, <1>4, <2>1, CountingInduction
<1>6. r[n] = Filled(start, n)
  BY <1>2, <1>5
<1> QED
  BY <1>1, <1>6 DEF n, start

-----------------------------------------------------------------------------
(* The two calendars *)

\* 1 March of the year is so many days after 1 March of the year 0.
LeapDays(year) == year \div 4 - year \div 100 + year \div 400

LEMMA LeapYears ==
    ASSUME NEW year \in Nat \ {0}
    PROVE  LeapDays(year) - LeapDays(year - 1) = IF Months!is_leap(year) THEN 1 ELSE 0
<1>1. year \div 4 - (year - 1) \div 4 = IF year % 4 = 0 THEN 1 ELSE 0
  OBVIOUS
<1>2. year \div 100 - (year - 1) \div 100 = IF year % 100 = 0 THEN 1 ELSE 0
  OBVIOUS
<1>3. year \div 400 - (year - 1) \div 400 = IF year % 400 = 0 THEN 1 ELSE 0
  OBVIOUS
<1>4. (year % 400 = 0 => year % 100 = 0) /\ (year % 100 = 0 => year % 4 = 0)
  OBVIOUS
<1>5. /\ year \div 4 \in Int /\ year \div 100 \in Int /\ year \div 400 \in Int
      /\ (year - 1) \div 4 \in Int /\ (year - 1) \div 100 \in Int /\ (year - 1) \div 400 \in Int
  OBVIOUS
<1> QED
  BY <1>1, <1>2, <1>3, <1>4, <1>5 DEF LeapDays, Months!is_leap

\* The days from 1 March to the first of a month, and those of the month in a common year.
Begins(month) == (153 * ((month + 9) % 12) + 2) \div 5
YearOf(month, year) == IF month > 2 THEN year ELSE year - 1
Common == <<31, 28, 31, 30, 31, 30, 31, 31, 30, 31, 30, 31>>

LEMMA DayNumberIs ==
    ASSUME NEW day, NEW month, NEW year
    PROVE  Months!DayNumber(day, month, year)
             = 365 * YearOf(month, year) + YearOf(month, year) \div 4 - YearOf(month, year) \div 100
               + YearOf(month, year) \div 400 + Begins(month) + day - 1
  BY DEF Months!DayNumber, YearOf, Begins

\* The month after and the days between.
After(month) == (month % 12) + 1

LEMMA MonthLengths ==
    ASSUME NEW month \in 1..12
    PROVE  /\ Common[month] \in 28..31 /\ Begins(month) \in Nat /\ After(month) \in 1..12
           /\ month # 2 => Begins(After(month)) = Begins(month) + Common[month]
           /\ month = 2 => Begins(After(month)) = 0 /\ Begins(month) = 337 /\ Common[month] = 28
<1>1. CASE month = 1
  BY <1>1 DEF Common, Begins, After
<1>2. CASE month = 2
  BY <1>2 DEF Common, Begins, After
<1>3. CASE month = 3
  BY <1>3 DEF Common, Begins, After
<1>4. CASE month = 4
  BY <1>4 DEF Common, Begins, After
<1>5. CASE month = 5
  BY <1>5 DEF Common, Begins, After
<1>6. CASE month = 6
  BY <1>6 DEF Common, Begins, After
<1>7. CASE month = 7
  BY <1>7 DEF Common, Begins, After
<1>8. CASE month = 8
  BY <1>8 DEF Common, Begins, After
<1>9. CASE month = 9
  BY <1>9 DEF Common, Begins, After
<1>10. CASE month = 10
  BY <1>10 DEF Common, Begins, After
<1>11. CASE month = 11
  BY <1>11 DEF Common, Begins, After
<1>12. CASE month = 12
  BY <1>12 DEF Common, Begins, After
<1>13. month \in {1, 2, 3, 4, 5, 6, 7, 8, 9, 10, 11, 12}
  OBVIOUS
<1> QED
  BY <1>1, <1>2, <1>3, <1>4, <1>5, <1>6, <1>7, <1>8, <1>9, <1>10, <1>11, <1>12, <1>13

LEMMA DaysOfMonth ==
    ASSUME NEW month \in 1..12, NEW year
    PROVE  /\ Months!get_days_in_month(month, year)
                = IF month = 2 /\ Months!is_leap(year) THEN 29 ELSE Common[month]
           /\ Months!get_days_in_month(month, year) \in 28..31
  BY MonthLengths DEF Months!get_days_in_month, Common

\* The day after the last one of a month is the first of the next.
LEMMA MonthsFollow ==
    ASSUME NEW month \in 1..12, NEW year \in Nat \ {0}
    PROVE  Months!DayNumber(Months!get_days_in_month(month, year) + 1, month, year)
             = Months!DayNumber(1, After(month), IF month = 12 THEN year + 1 ELSE year)
<1> DEFINE n == Months!get_days_in_month(month, year)
           next == IF month = 12 THEN year + 1 ELSE year
           b == YearOf(month, year)
           c == YearOf(After(month), next)
<1>1. /\ n = IF month = 2 /\ Months!is_leap(year) THEN 29 ELSE Common[month]
      /\ n \in 28..31 /\ Begins(month) \in Nat /\ After(month) \in 1..12
      /\ month # 2 => Begins(After(month)) = Begins(month) + Common[month]
      /\ month = 2 => Begins(After(month)) = 0 /\ Begins(month) = 337 /\ Common[month] = 28
  <2>1. n = (IF month = 2 /\ Months!is_leap(year) THEN 29 ELSE Common[month]) /\ n \in 28..31
    BY DaysOfMonth
  <2>2. /\ Begins(month) \in Nat /\ After(month) \in 1..12
        /\ month # 2 => Begins(After(month)) = Begins(month) + Common[month]
        /\ month = 2 => Begins(After(month)) = 0 /\ Begins(month) = 337 /\ Common[month] = 28
    BY MonthLengths
  <2> HIDE DEF n
  <2> QED
    BY <2>1, <2>2
<1>2. Months!DayNumber(n + 1, month, year)
        = 365 * b + b \div 4 - b \div 100 + b \div 400 + Begins(month) + (n + 1) - 1
  BY DayNumberIs
<1>3. Months!DayNumber(1, After(month), next)
        = 365 * c + c \div 4 - c \div 100 + c \div 400 + Begins(After(month)) + 1 - 1
  BY DayNumberIs
<1>4. CASE month # 2
  <2>1. b = c /\ b \in Nat
    BY <1>4 DEF YearOf, After
  <2>2. Begins(After(month)) = Begins(month) + n
    BY <1>1, <1>4
  <2> HIDE DEF n, b, c
  <2>3. b \div 4 \in Int /\ b \div 100 \in Int /\ b \div 400 \in Int
    BY <2>1
  <2>4. Months!DayNumber(n + 1, month, year)
          = 365 * b + b \div 4 - b \div 100 + b \div 400 + (Begins(month) + n)
    BY <1>1, <1>2, <2>1, <2>3
  <2>5. Months!DayNumber(1, After(month), next)
          = 365 * b + b \div 4 - b \div 100 + b \div 400 + (Begins(month) + n)
    BY <1>1, <1>3, <2>1, <2>2, <2>3
  <2> QED
    BY <2>4, <2>5 DEF n
<1>5. CASE month = 2
  <2>1. b = year - 1 /\ c = year
    BY <1>5 DEF YearOf, After
  <2>2. Begins(After(month)) = 0 /\ Begins(month) = 337
    BY <1>1, <1>5
  <2>3. n = IF Months!is_leap(year) THEN 29 ELSE 28
    BY <1>1, <1>5
  <2> HIDE DEF n, b, c
  <2>4. LeapDays(year) - LeapDays(year - 1) = n - 28
    <3>1. LeapDays(year) - LeapDays(year - 1) = IF Months!is_leap(year) THEN 1 ELSE 0
      BY LeapYears
    <3>2. CASE Months!is_leap(year)
      BY <2>3, <3>1, <3>2
    <3>3. CASE ~Months!is_leap(year)
      BY <2>3, <3>1, <3>3
    <3> QED
      BY <3>2, <3>3
  <2>5. LeapDays(year) \in Int /\ LeapDays(year - 1) \in Int
    BY DEF LeapDays
  <2>6. Months!DayNumber(n + 1, month, year) = 365 * (year - 1) + LeapDays(year - 1) + 337 + n
    BY <1>1, <1>2, <2>1, <2>2 DEF LeapDays
  <2>7. Months!DayNumber(1, After(month), next) = 365 * year + LeapDays(year)
    BY <1>3, <2>1, <2>2 DEF LeapDays
  <2>8. 365 * (year - 1) + LeapDays(year - 1) + 337 + n = 365 * year + LeapDays(year)
    BY <1>1, <2>4, <2>5
  <2> QED
    BY <2>6, <2>7, <2>8 DEF n
<1> QED
  BY <1>4, <1>5

\* A month begins on a weekday, and each of its days stands as many columns further.
LEMMA Weekdays ==
    ASSUME NEW month \in 1..12, NEW year \in Nat \ {0}, NEW day \in Nat \ {0}
    PROVE  /\ Months!get_start_day(month, year) \in 0..6
           /\ Months!mktime(day, month, year) = (Months!get_start_day(month, year) + (day - 1)) % 7
<1> DEFINE b == YearOf(month, year)
           e == 365 * b + b \div 4 - b \div 100 + b \div 400 + Begins(month)
<1>1. b \in Nat /\ Begins(month) \in Nat
  <2>1. Begins(month) \in Nat
    BY MonthLengths
  <2> QED
    BY <2>1 DEF YearOf
<1>2. Months!DayNumber(day, month, year) = e + day - 1 /\ Months!DayNumber(1, month, year) = e + 1 - 1
  BY DayNumberIs
<1> HIDE DEF b
<1>3. e \in Nat
  <2>1. b \div 4 \in Nat /\ b \div 100 \in Nat /\ b \div 400 \in Nat /\ b \div 100 <= b
    BY <1>1
  <2> QED
    BY <1>1, <2>1
<1> HIDE DEF e
<1>4. (e + 3) % 7 \in 0..6
  BY <1>3
<1>5. Months!get_start_day(month, year) = (e + 3) % 7
  <2>1. (e + 1 - 1) + 3 = e + 3
    BY <1>3
  <2> QED
    BY <1>2, <2>1 DEF Months!get_start_day, Months!mktime
<1>6. Months!mktime(day, month, year) = ((e + 3) + (day - 1)) % 7
  <2>1. (e + day - 1) + 3 = (e + 3) + (day - 1)
    BY <1>3
  <2> QED
    BY <1>2, <2>1 DEF Months!mktime
<1>7. (((e + 3) % 7) + (day - 1)) % 7 = ((e + 3) + (day - 1)) % 7
  <2>1. 7 \in Nat \ {0} /\ e + 3 \in Nat /\ day - 1 \in Nat
    BY <1>3
  <2> QED
    BY <2>1, RemainderOfSum
<1> QED
  BY <1>4, <1>5, <1>6, <1>7

-----------------------------------------------------------------------------
(* What is shown *)

\* The last row is short, the others are full.
Wide(start, k, r) == IF r <= (start + k) \div 7 THEN 7 ELSE (start + k) % 7

\* The cells that are not blank hold the days printed.
LEMMA CellHolds ==
    ASSUME NEW start \in 0..6, NEW k \in Nat, NEW r \in 1..((start + k) \div 7 + 1)
    PROVE  /\ Wide(start, k, r) \in 0..7 /\ Filled(start, k)[r] = Row(start, r, Wide(start, k, r))
           /\ Filled(start, k)[r] \in Seq(Nat) /\ Len(Filled(start, k)[r]) = Wide(start, k, r)
           /\ \A c \in 1..Wide(start, k, r) :
                 /\ Filled(start, k)[r][c] = DayIn(start, r, c)
                 /\ DayIn(start, r, c) # 0 =>
                       /\ DayIn(start, r, c) = 7 * (r - 1) + c - start
                       /\ DayIn(start, r, c) \in 1..k
<1> DEFINE t == start + k
           q == t \div 7
           w == Wide(start, k, r)
<1>1. t \in Nat /\ q \in Nat /\ t % 7 \in 0..6 /\ t = 7 * q + (t % 7)
  BY SevenToARow
<1>2. w \in 0..7 /\ r \in Nat \ {0} /\ (r = q + 1 => w = t % 7) /\ (r # q + 1 => r <= q)
  BY <1>1 DEF Wide
<1>3. Filled(start, k)[r] = Row(start, r, w)
  BY DEF Filled, Wide
<1>4. Row(start, r, w) \in Seq(Nat) /\ Len(Row(start, r, w)) = w
  <2>1. w \in Nat
    BY <1>2
  <2> HIDE DEF w
  <2> QED
    BY <1>2, <2>1, RowType
<1>5. ASSUME NEW c \in 1..w
      PROVE  /\ Row(start, r, w)[c] = DayIn(start, r, c)
             /\ DayIn(start, r, c) # 0 =>
                   /\ DayIn(start, r, c) = 7 * (r - 1) + c - start
                   /\ DayIn(start, r, c) \in 1..k
  <2> HIDE DEF w, q
  <2>1. Row(start, r, w)[c] = DayIn(start, r, c)
    BY DEF Row
  <2>2. 7 * (r - 1) + c <= t
    <3>1. c \in Nat /\ c <= w
      BY <1>2
    <3> HIDE DEF t
    <3>2. CASE r = q + 1
      BY <1>1, <1>2, <3>1, <3>2
    <3>3. CASE r # q + 1
      BY <1>1, <1>2, <3>1, <3>3
    <3> QED
      BY <3>2, <3>3
  <2> SUFFICES ASSUME DayIn(start, r, c) # 0
               PROVE  /\ DayIn(start, r, c) = 7 * (r - 1) + c - start
                      /\ DayIn(start, r, c) \in 1..k
    BY <2>1
  <2>3. ~(7 * (r - 1) + c <= start) /\ DayIn(start, r, c) = 7 * (r - 1) + c - start
    BY DEF DayIn
  <2> QED
    BY <1>2, <2>2, <2>3
<1> HIDE DEF w
<1> QED
  BY <1>2, <1>3, <1>4, <1>5 DEF w

\* Months!MonthIsRight, of any month.
Shown(month, year) ==
    LET rows == Months!display_calendar(month, year)
        last == Months!get_days_in_month(month, year)
        Cell == {p \in (DOMAIN rows) \X (1..7) :
                    p[2] \in DOMAIN rows[p[1]] /\ rows[p[1]][p[2]] # Months!Blank}
        Day(p) == rows[p[1]][p[2]]
        Before(p, q) == p[1] < q[1] \/ (p[1] = q[1] /\ p[2] < q[2])
    IN  /\ \A p \in Cell : Day(p) \in 1..last
        /\ \A d \in 1..last : \E p \in Cell :
              Day(p) = d /\ p[2] = Months!mktime(d, month, year) + 1
        /\ \A p, q \in Cell : Before(p, q) => Day(p) < Day(q)
        /\ \A r \in DOMAIN rows : Len(rows[r]) <= 7
        /\ Months!DayNumber(last + 1, month, year)
             = Months!DayNumber(1, (month % 12) + 1, IF month = 12 THEN year + 1 ELSE year)

LEMMA MonthShown == ASSUME NEW month \in 1..12, NEW year \in Nat \ {0} PROVE Shown(month, year)
<1> DEFINE rows == Months!display_calendar(month, year)
           last == Months!get_days_in_month(month, year)
           start == Months!get_start_day(month, year)
           t == start + last
           Cell == {p \in (DOMAIN rows) \X (1..7) :
                       p[2] \in DOMAIN rows[p[1]] /\ rows[p[1]][p[2]] # Months!Blank}
           Day(p) == rows[p[1]][p[2]]
           Before(p, q) == p[1] < q[1] \/ (p[1] = q[1] /\ p[2] < q[2])
           wide(r) == Wide(start, last, r)
<1>1. Months!DayNumber(last + 1, month, year)
         = Months!DayNumber(1, (month % 12) + 1, IF month = 12 THEN year + 1 ELSE year)
  BY MonthsFollow DEF After
<1>2. start \in 0..6 /\ last \in 28..31 /\ last \in Nat
  <2>1. last \in 28..31
    BY DaysOfMonth
  <2>2. 1 \in Nat \ {0}
    OBVIOUS
  <2>3. start \in 0..6
    BY <2>2, Weekdays
  <2> QED
    BY <2>1, <2>3
<1>3. rows = Filled(start, last)
  BY <1>2, TableIsFilled
<1>4. /\ t \in Nat /\ t \div 7 \in Nat /\ t % 7 \in 0..6 /\ t = 7 * (t \div 7) + (t % 7)
  <2>1. t \in Nat
    BY <1>2
  <2> QED
    BY <2>1, SevenToARow
<1>5. \A d \in 1..last : Months!mktime(d, month, year) = (start + (d - 1)) % 7
  BY <1>2, Weekdays
<1> HIDE DEF start, rows, last
<1>6. DOMAIN rows = 1..(t \div 7 + 1)
  BY <1>3 DEF Filled
<1>7. ASSUME NEW r \in DOMAIN rows
      PROVE  /\ wide(r) \in 0..7 /\ rows[r] \in Seq(Nat) /\ Len(rows[r]) = wide(r)
             /\ \A c \in 1..wide(r) :
                   /\ rows[r][c] = DayIn(start, r, c)
                   /\ DayIn(start, r, c) # 0 =>
                         /\ DayIn(start, r, c) = 7 * (r - 1) + c - start
                         /\ DayIn(start, r, c) \in 1..last
  <2>1. r \in 1..((start + last) \div 7 + 1)
    BY <1>6
  <2>2. /\ Wide(start, last, r) \in 0..7
        /\ Filled(start, last)[r] \in Seq(Nat) /\ Len(Filled(start, last)[r]) = Wide(start, last, r)
        /\ \A c \in 1..Wide(start, last, r) :
              /\ Filled(start, last)[r][c] = DayIn(start, r, c)
              /\ DayIn(start, r, c) # 0 =>
                    /\ DayIn(start, r, c) = 7 * (r - 1) + c - start
                    /\ DayIn(start, r, c) \in 1..last
    BY <1>2, <2>1, CellHolds
  <2> QED
    BY <1>3, <2>2
<1>8. ASSUME NEW p \in Cell
      PROVE  /\ p[1] \in 1..(t \div 7 + 1) /\ p[2] \in 1..7
             /\ Day(p) = 7 * (p[1] - 1) + p[2] - start /\ Day(p) \in 1..last
  <2>1. p[1] \in DOMAIN rows /\ p[2] \in 1..7 /\ p[2] \in DOMAIN rows[p[1]] /\ Day(p) # 0
    BY DEF Months!Blank
  <2>2. p[2] \in 1..wide(p[1])
    BY <1>7, <2>1
  <2> HIDE DEF wide, Cell
  <2>3. Day(p) = DayIn(start, p[1], p[2])
    BY <1>7, <2>1, <2>2
  <2> QED
    BY <1>6, <1>7, <2>1, <2>2, <2>3
<1>9. \A p \in Cell : Day(p) \in 1..last
  BY <1>8
<1>10. ASSUME NEW d \in 1..last
      PROVE  \E p \in Cell : Day(p) = d /\ p[2] = Months!mktime(d, month, year) + 1
  <2> DEFINE x == start + (d - 1)
             r == x \div 7 + 1
             c == (x % 7) + 1
  <2>1. x \in Nat /\ x < t
    BY <1>2
  <2>2. x \div 7 \in Nat /\ x % 7 \in 0..6 /\ x = 7 * (x \div 7) + (x % 7)
    BY <2>1, SevenToARow
  <2>3. c = Months!mktime(d, month, year) + 1 /\ c \in 1..7
    BY <1>5, <2>2
  <2> HIDE DEF x, t
  <2>4. r \in 1..(t \div 7 + 1) /\ (r = t \div 7 + 1 => c <= t % 7)
    BY <1>4, <2>1, <2>2
  <2>5. c \in 1..wide(r)
    <3>1. CASE r <= t \div 7
      <4>1. wide(r) = 7
        BY <3>1 DEF Wide, t
      <4> QED
        BY <2>3, <4>1
    <3>2. CASE ~(r <= t \div 7)
      <4>1. wide(r) = t % 7
        BY <3>2 DEF Wide, t
      <4>2. r = t \div 7 + 1
        BY <1>4, <2>2, <2>4, <3>2
      <4>3. c <= t % 7
        BY <2>4, <4>2
      <4> HIDE DEF c, wide
      <4> QED
        BY <1>4, <2>3, <4>1, <4>3
    <3> QED
      BY <3>1, <3>2
  <2>6. 7 * (r - 1) + c - start = d
    <3>1. 7 * (r - 1) + c = x + 1
      BY <2>2
    <3> QED
      BY <1>2, <3>1 DEF x
  <2>7. DayIn(start, r, c) = d
    BY <1>2, <2>2, <2>6 DEF DayIn
  <2> HIDE DEF r, c, wide
  <2>8. r \in DOMAIN rows /\ rows[r][c] = d /\ c \in DOMAIN rows[r]
    BY <1>6, <1>7, <2>4, <2>5, <2>7
  <2>9. <<r, c>> \in Cell
    BY <2>3, <2>8 DEF Months!Blank
  <2>10. Day(<<r, c>>) = d /\ <<r, c>>[2] = c
    BY <2>8
  <2> QED
    BY <2>3, <2>9, <2>10
<1>11. ASSUME NEW p \in Cell, NEW q \in Cell, Before(p, q) PROVE Day(p) < Day(q)
  <2>1. p[1] \in Nat /\ q[1] \in Nat /\ p[2] \in 1..7 /\ q[2] \in 1..7
    <3>1. /\ p[1] \in 1..(t \div 7 + 1) /\ q[1] \in 1..(t \div 7 + 1)
          /\ p[2] \in 1..7 /\ q[2] \in 1..7
      BY <1>8
    <3> HIDE DEF t, Cell, Day
    <3> QED
      BY <1>4, <3>1
  <2>2. Day(p) = 7 * (p[1] - 1) + p[2] - start /\ Day(q) = 7 * (q[1] - 1) + q[2] - start
    BY <1>8
  <2>3. p[1] < q[1] \/ (p[1] = q[1] /\ p[2] < q[2])
    BY <1>11
  <2> HIDE DEF Day, Cell
  <2> QED
    BY <1>2, <2>1, <2>2, <2>3
<1>12. \A r \in DOMAIN rows : Len(rows[r]) <= 7
  <2>1. ASSUME NEW r \in DOMAIN rows PROVE Len(rows[r]) \in 0..7
    BY <1>7
  <2>2. \A i \in 0..7 : i <= 7
    OBVIOUS
  <2> QED
    BY <2>1, <2>2
<1> QED
  BY <1>1, <1>9, <1>10, <1>11, <1>12 DEF Shown, rows, last

\* The pages turned stay in the years from FirstYear to LastYear.
PagesTurned == m \in 1..12 /\ y \in FirstYear..LastYear

LEMMA PagesAlways == Spec => []PagesTurned
<1>1. FirstYear \in Nat \ {0} /\ LastYear \in Nat /\ FirstYear <= LastYear
  BY PartsAssumption DEF Months!CalendarAssumption
<1>2. Init => PagesTurned
  <2>1. Init => Months!Init
    BY DEF Init
  <2> QED
    BY <1>1, <2>1 DEF Months!Init, PagesTurned
<1>3. PagesTurned /\ [Next]_vars => PagesTurned'
  <2> SUFFICES ASSUME PagesTurned, [Next]_vars PROVE PagesTurned'
    OBVIOUS
  <2>1. CASE Months!NextMonth
    BY <1>1, <2>1 DEF Months!NextMonth, PagesTurned
  <2>2. CASE Months!PrevMonth
    BY <1>1, <2>2 DEF Months!PrevMonth, PagesTurned
  <2>3. CASE UNCHANGED months
    BY <2>3 DEF months, PagesTurned
  <2>4. Months!Next \/ UNCHANGED months
    BY DEF Next, vars, Only, OnlyRing, OnlySearch, OnlyHandshake, OnlyEditor, OnlyClocks
  <2> QED
    BY <2>1, <2>2, <2>3, <2>4 DEF Months!Next
<1> QED
  BY <1>2, <1>3, PTL DEF Spec

\* calendar.cpp: in every year each day of a month is shown once, in reading order and in its
\* weekday's column, and the months follow on each other.
THEOREM EveryMonthIsRight == Spec => []MonthIsRight
<1>1. PagesTurned => MonthIsRight
  <2> SUFFICES ASSUME PagesTurned PROVE MonthIsRight
    OBVIOUS
  <2>1. m \in 1..12 /\ y \in Nat \ {0}
    BY PartsAssumption DEF PagesTurned, Months!CalendarAssumption
  <2> QED
    <3>1. Shown(m, y)
      BY <2>1, MonthShown
    <3>2. Months!MonthIsRight
      BY <3>1 DEF Shown, Months!MonthIsRight
    <3> QED
      BY <3>2 DEF MonthIsRight
<1> QED
  BY <1>1, PagesAlways, PTL
=============================================================================
