------------------------- MODULE NebulaKernelProofs -------------------------
(***************************************************************************)
(* What holds of NebulaKernel for any set of processes, any requests, any  *)
(* table size, any amount of memory and any number of cores: first the     *)
(* facts about the operators of Kernel (what rebuilding a queue returns,   *)
(* what closing the gap in the table leaves, what a sum adds up to), then  *)
(* the types, and then what holds of the PCBs whatever happens around      *)
(* them: the ways a slot of the table can change, the core numbers and     *)
(* priorities it can hold, and that the graph deadlock_detector.cpp builds *)
(* from it has no cycle.  Then what the kernel's data structures promise   *)
(* each other: the queues of every level have the length and the entries   *)
(* the table calls for, the two that are served first come, first served   *)
(* hold them in order, no process that waits for the scheduler is missing, *)
(* and the scheduler takes the most urgent one; a child has one PCB at     *)
(* most, and memory moves between the free counters and one child at a     *)
(* time without loss, whoever removes a process and however often.         *)
(***************************************************************************)
EXTENDS NebulaKernel, CountingLemmas, FiniteSetTheorems, FunctionTheorems,
        SequenceTheorems, WellFoundedInduction, TLAPS

-----------------------------------------------------------------------------
(* The operators of Kernel *)

LEMMA SlotsAreFinite ==
    ASSUME NEW m \in Nat, NEW S \in SUBSET (1..m)
    PROVE  IsFiniteSet(S) /\ Cardinality(S) \in Nat
<1>1. IsFiniteSet(1..m)
  BY FS_Interval
<1>2. IsFiniteSet(S)
  BY <1>1, FS_Subset
<1> QED
  BY <1>2, FS_CardinalityType

(***************************************************************************)
(* A slot has a rank among the slots of its level, later slots have higher *)
(* ranks, and every rank up to their number is some slot's.                *)
(***************************************************************************)
LEMMA RankBounds ==
    ASSUME NEW m \in Nat, NEW S \in SUBSET (1..m), NEW i \in S
    PROVE  Rank(S, i) \in 1..Cardinality(S)
<1>1. IsFiniteSet(S)
  BY SlotsAreFinite
<1>2. {j \in S : j <= i} \in SUBSET S /\ i \in {j \in S : j <= i}
  OBVIOUS
<1>3. IsFiniteSet({j \in S : j <= i})
  BY <1>1, <1>2, FS_Subset
<1>4. Cardinality({j \in S : j <= i}) # 0
  BY <1>2, <1>3, FS_EmptySet
<1>5. Cardinality({j \in S : j <= i}) <= Cardinality(S)
  BY <1>1, <1>2, FS_Subset
<1>6. Cardinality({j \in S : j <= i}) \in Nat /\ Cardinality(S) \in Nat
  BY <1>1, <1>3, FS_CardinalityType
<1> QED
  BY <1>4, <1>5, <1>6 DEF Rank

LEMMA RankIncreases ==
    ASSUME NEW m \in Nat, NEW S \in SUBSET (1..m), NEW i \in S, NEW j \in S, i < j
    PROVE  Rank(S, i) < Rank(S, j)
<1> DEFINE A == {k \in S : k <= i}
           B == {k \in S : k <= j}
<1>0. /\ \A k \in S : k \in Int
      /\ i \in Int /\ j \in Int
  OBVIOUS
<1>1. IsFiniteSet(B) /\ A \in SUBSET B /\ A # B
  <2>1. IsFiniteSet(S)
    BY SlotsAreFinite
  <2>2. B \in SUBSET S /\ j \in B /\ j \notin A
    BY <1>0
  <2>3. ASSUME NEW k \in A PROVE k \in B
    BY <1>0
  <2> QED
    BY <2>1, <2>2, <2>3, FS_Subset
<1>2. Cardinality(A) <= Cardinality(B) /\ Cardinality(A) # Cardinality(B)
  BY <1>1, FS_Subset
<1>3. Cardinality(A) \in Nat /\ Cardinality(B) \in Nat
  BY <1>1, FS_Subset, FS_CardinalityType
<1> QED
  BY <1>2, <1>3 DEF Rank

LEMMA RankInjective ==
    ASSUME NEW m \in Nat, NEW S \in SUBSET (1..m), NEW i \in S, NEW j \in S,
           Rank(S, i) = Rank(S, j)
    PROVE  i = j
<1>1. i \in 1..m /\ j \in 1..m
  OBVIOUS
<1>2. Rank(S, i) \in 1..Cardinality(S) /\ Cardinality(S) \in Nat
  BY RankBounds, SlotsAreFinite
<1>3. ASSUME i < j PROVE FALSE
  <2>1. Rank(S, i) < Rank(S, j)
    BY <1>3, RankIncreases
  <2> QED
    BY <2>1, <1>2
<1>4. ASSUME j < i PROVE FALSE
  <2>1. Rank(S, j) < Rank(S, i)
    BY <1>4, RankIncreases
  <2> QED
    BY <2>1, <1>2
<1> QED
  BY <1>1, <1>3, <1>4

LEMMA RankSurjective ==
    ASSUME NEW m \in Nat, NEW S \in SUBSET (1..m), NEW n \in 1..Cardinality(S)
    PROVE  \E i \in S : Rank(S, i) = n
<1> DEFINE R == [i \in S |-> Rank(S, i)]
<1>1. IsFiniteSet(S) /\ Cardinality(S) \in Nat
  BY SlotsAreFinite
<1>2. R \in [S -> 1..Cardinality(S)]
  BY RankBounds
<1>3. \A i, j \in S : R[i] = R[j] => i = j
  BY RankInjective
<1>4. R \in Injection(S, 1..Cardinality(S))
  BY <1>2, <1>3 DEF Injection, IsInjective
<1>5. IsFiniteSet(1..Cardinality(S)) /\ Cardinality(1..Cardinality(S)) = Cardinality(S)
  BY <1>1, FS_Interval
<1>6. R \in Surjection(S, 1..Cardinality(S))
  BY <1>4, <1>5, FS_Injection
<1> QED
  BY <1>6 DEF Surjection

(***************************************************************************)
(* Rebuilding a queue puts into it each slot of its level once and in      *)
(* ascending order.                                                        *)
(***************************************************************************)
THEOREM InTableOrderIsSorted ==
    ASSUME NEW m \in Nat, NEW S \in SUBSET (1..m)
    PROVE  /\ InTableOrder(S) \in Seq(S)
           /\ Len(InTableOrder(S)) = Cardinality(S)
           /\ \A i \in S : \E n \in 1..Cardinality(S) : InTableOrder(S)[n] = i
           /\ \A n1, n2 \in 1..Cardinality(S) :
                  n1 < n2 => InTableOrder(S)[n1] < InTableOrder(S)[n2]
<1> DEFINE q == InTableOrder(S)
<1>1. Cardinality(S) \in Nat
  BY SlotsAreFinite
<1>2. ASSUME NEW n \in 1..Cardinality(S)
      PROVE  q[n] \in S /\ Rank(S, q[n]) = n
  <2>1. \E i \in S : Rank(S, i) = n
    BY RankSurjective
  <2>2. q[n] = CHOOSE i \in S : Rank(S, i) = n
    BY DEF InTableOrder
  <2> QED
    BY <2>1, <2>2
<1>3. q \in [1..Cardinality(S) -> S]
  BY <1>2 DEF InTableOrder
<1>4. q \in Seq(S) /\ Len(q) = Cardinality(S)
  BY <1>1, <1>3
<1>5. ASSUME NEW i \in S
      PROVE  \E n \in 1..Cardinality(S) : q[n] = i
  <2>1. Rank(S, i) \in 1..Cardinality(S)
    BY RankBounds
  <2>2. q[Rank(S, i)] \in S /\ Rank(S, q[Rank(S, i)]) = Rank(S, i)
    BY <2>1, <1>2
  <2>3. q[Rank(S, i)] = i
    BY <2>2, RankInjective
  <2> QED
    BY <2>1, <2>3
<1>6. ASSUME NEW n1 \in 1..Cardinality(S), NEW n2 \in 1..Cardinality(S), n1 < n2
      PROVE  q[n1] < q[n2]
  <2>1. q[n1] \in S /\ q[n2] \in S /\ Rank(S, q[n1]) = n1 /\ Rank(S, q[n2]) = n2
    BY <1>2
  <2>2. q[n1] \in 1..m /\ q[n2] \in 1..m
    <3>1. S \subseteq 1..m
      OBVIOUS
    <3> QED
      BY <3>1, <2>1
  <2>3. q[n1] # q[n2]
    BY <2>1, <1>1, <1>6
  <2>4. ~(q[n2] < q[n1])
    <3> SUFFICES ASSUME q[n2] < q[n1] PROVE FALSE
      OBVIOUS
    <3>1. Rank(S, q[n2]) < Rank(S, q[n1])
      BY <2>1, RankIncreases
    <3> QED
      BY <3>1, <2>1, <1>1, <1>6
  <2> QED
    BY <2>2, <2>3, <2>4
<1> QED
  BY <1>4, <1>5, <1>6

(***************************************************************************)
(* The searches of the code, `for (i = 0; ...) if (...) break', end at the *)
(* least index that passes the test, if there is one.                      *)
(***************************************************************************)
LEMMA FirstSlotIsSlot ==
    ASSUME pcb_count \in Nat, NEW p, SlotsOf(p) # {}
    PROVE  FirstSlot(p) \in SlotsOf(p) /\ \A j \in SlotsOf(p) : FirstSlot(p) <= j
<1>1. SlotsOf(p) \in SUBSET Nat
  BY DEF SlotsOf
<1> QED
  BY <1>1, LeastExists DEF FirstSlot

(***************************************************************************)
(* Closing a gap: the entries before it stay, those behind it move down.   *)
(***************************************************************************)
LEMMA RemoveAtProperties ==
    ASSUME NEW S, NEW t \in Seq(S), NEW i \in 1..Len(t)
    PROVE  /\ RemoveAt(t, i) \in Seq(S)
           /\ Len(RemoveAt(t, i)) = Len(t) - 1
           /\ \A k \in 1..(Len(t) - 1) :
                  RemoveAt(t, i)[k] = IF k < i THEN t[k] ELSE t[k + 1]
<1> DEFINE before == SubSeq(t, 1, i - 1)
           after == SubSeq(t, i + 1, Len(t))
<1>1. Len(t) \in Nat /\ \A k \in 1..Len(t) : t[k] \in S
  BY LenProperties, ElementOfSeq
<1>2. /\ before \in Seq(S)
      /\ Len(before) = i - 1
      /\ \A k \in 1..(i - 1) : before[k] = t[k]
  BY <1>1
<1>3. /\ after \in Seq(S)
      /\ Len(after) = Len(t) - i
      /\ \A k \in 1..(Len(t) - i) : after[k] = t[i + k]
  BY <1>1
<1> HIDE DEF before, after
<1>4. /\ before \o after \in Seq(S)
      /\ Len(before \o after) = Len(t) - 1
      /\ \A k \in 1..(Len(t) - 1) :
             (before \o after)[k] = IF k <= i - 1 THEN before[k] ELSE after[k - (i - 1)]
  <2>1. /\ before \o after \in Seq(S)
        /\ Len(before \o after) = Len(before) + Len(after)
        /\ \A k \in 1..(Len(before) + Len(after)) :
               (before \o after)[k] = IF k <= Len(before) THEN before[k]
                                      ELSE after[k - Len(before)]
    BY <1>2, <1>3, ConcatProperties
  <2>2. Len(before) + Len(after) = Len(t) - 1
    BY <1>1, <1>2, <1>3
  <2> QED
    BY <1>2, <2>1, <2>2
<1>5. ASSUME NEW k \in 1..(Len(t) - 1)
      PROVE  (before \o after)[k] = IF k < i THEN t[k] ELSE t[k + 1]
  <2>1. CASE k < i
    BY <2>1, <1>1, <1>2, <1>4
  <2>2. CASE ~(k < i)
    <3>1. k - (i - 1) \in 1..(Len(t) - i) /\ ~(k <= i - 1)
      BY <2>2, <1>1
    <3>2. i + (k - (i - 1)) = k + 1
      BY <1>1
    <3> QED
      BY <2>2, <3>1, <3>2, <1>3, <1>4
  <2> QED
    BY <2>1, <2>2
<1>6. RemoveAt(t, i) = before \o after
  BY DEF RemoveAt, before, after
<1> QED
  BY <1>4, <1>5, <1>6

LEMMA SeqOfSubset ==
    ASSUME NEW S, NEW T, S \subseteq T, NEW q \in Seq(S)
    PROVE  q \in Seq(T)
<1>1. Len(q) \in Nat /\ q \in [1..Len(q) -> S]
  BY LenProperties
<1>2. q \in [1..Len(q) -> T]
  BY <1>1
<1> QED
  BY <1>1, <1>2

(***************************************************************************)
(* Rebuilding the queues from a table that fits.                           *)
(***************************************************************************)
LEMMA RebuiltQueuesProperties ==
    ASSUME NEW t \in Seq(Process), Len(t) <= MAX_PROCESSES
    PROVE  /\ RebuiltQueues(t) \in [Level -> Seq(1..MAX_PROCESSES)]
           /\ \A l \in Level :
                 /\ RebuiltQueues(t)[l] = InTableOrder(LevelSlots(t, l))
                 /\ RebuiltQueues(t)[l] \in Seq(LevelSlots(t, l))
                 /\ Len(RebuiltQueues(t)[l]) = Cardinality(LevelSlots(t, l))
<1>1. Len(t) \in Nat /\ MAX_PROCESSES \in Nat
  BY LenProperties, KernelAssumption
<1>2. ASSUME NEW l \in Level
      PROVE  /\ InTableOrder(LevelSlots(t, l)) \in Seq(LevelSlots(t, l))
             /\ Len(InTableOrder(LevelSlots(t, l))) = Cardinality(LevelSlots(t, l))
             /\ LevelSlots(t, l) \subseteq 1..MAX_PROCESSES
  <2>1. LevelSlots(t, l) \in SUBSET (1..Len(t))
    BY DEF LevelSlots
  <2>2. \A k \in 1..Len(t) : k \in 1..MAX_PROCESSES
    BY <1>1
  <2> QED
    BY <1>1, <2>1, <2>2, InTableOrderIsSorted
<1>3. ASSUME NEW l \in Level
      PROVE  InTableOrder(LevelSlots(t, l)) \in Seq(1..MAX_PROCESSES)
  BY <1>2, SeqOfSubset
<1> QED
  BY <1>2, <1>3 DEF RebuiltQueues

-----------------------------------------------------------------------------
(* The types *)

(***************************************************************************)
(* Most steps leave each PCB where it is and of the same child, level and  *)
(* allocation.                                                             *)
(***************************************************************************)
SameTable ==
    /\ Len(pcb_table') = pcb_count
    /\ \A i \in 1..pcb_count :
          /\ pcb_table'[i].pid = pcb_table[i].pid
          /\ pcb_table'[i].queue_level = pcb_table[i].queue_level
          /\ pcb_table'[i].ram_alloc = pcb_table[i].ram_alloc
          /\ pcb_table'[i].hdd_alloc = pcb_table[i].hdd_alloc

(***************************************************************************)
(* The operators of the components keep the types.                         *)
(***************************************************************************)
LEMMA TableSize ==
    ASSUME TypeOK
    PROVE  /\ pcb_count \in Nat /\ pcb_count <= MAX_PROCESSES
           /\ \A i \in 1..pcb_count : pcb_table[i] \in Process
           /\ MAX_PROCESSES \in Nat \ {0}
  BY LenProperties, ElementOfSeq, KernelAssumption DEF TypeOK, KernelTypeOK, pcb_count

LEMMA RemovePcbType ==
    ASSUME TypeOK, NEW p \in Pid, remove_pcb(p)
    PROVE  /\ pcb_table' \in Seq(Process) /\ Len(pcb_table') <= MAX_PROCESSES
           /\ queues' \in [Level -> Seq(1..MAX_PROCESSES)]
           /\ reclaiming' \in [Pid -> [ram : Nat, hdd : Nat]]
<1>1. CASE SlotsOf(p) = {}
  BY <1>1 DEF remove_pcb, TypeOK, KernelTypeOK, ProcessManagerTypeOK, pcb_count
<1>2. CASE SlotsOf(p) # {}
  <2> DEFINE i == FirstSlot(p)
  <2>1. i \in 1..pcb_count
    BY <1>2, TableSize, FirstSlotIsSlot DEF SlotsOf
  <2>2. /\ pcb_table' = RemoveAt(pcb_table, i)
        /\ queues' = RebuiltQueues(pcb_table')
        /\ reclaiming' = [reclaiming EXCEPT ![p] = [ram |-> pcb_table[i].ram_alloc,
                                                    hdd |-> pcb_table[i].hdd_alloc]]
    BY <1>2 DEF remove_pcb
  <2> HIDE DEF i
  <2>3. pcb_table' \in Seq(Process) /\ Len(pcb_table') = pcb_count - 1
    BY <2>1, <2>2, RemoveAtProperties DEF TypeOK, KernelTypeOK, pcb_count
  <2>4. Len(pcb_table') <= MAX_PROCESSES
    BY <2>3, TableSize
  <2>5. queues' \in [Level -> Seq(1..MAX_PROCESSES)]
    BY <2>2, <2>3, <2>4, RebuiltQueuesProperties
  <2>6. pcb_table[i].ram_alloc \in Nat /\ pcb_table[i].hdd_alloc \in Nat
    BY <2>1, TableSize DEF Process
  <2>7. reclaiming' \in [Pid -> [ram : Nat, hdd : Nat]]
    BY <2>2, <2>6 DEF TypeOK, ProcessManagerTypeOK
  <2> QED
    BY <2>3, <2>4, <2>5, <2>7
<1> QED
  BY <1>1, <1>2

LEMMA CreatePcbType ==
    ASSUME TypeOK, NEW p \in Pid, NEW l \in Level, NEW priority \in 0..MAX_PRIORITY,
           create_pcb(p, l, priority)
    PROVE  /\ pcb_table' \in Seq(Process) /\ Len(pcb_table') <= MAX_PROCESSES
           /\ queues' \in [Level -> Seq(1..MAX_PROCESSES)]
<1>1. CASE pcb_count < MAX_PROCESSES
  <2>1. NewProcess(p, l, priority) \in Process
    BY KernelAssumption DEF NewProcess, Process, ProcessState
  <2>2. pcb_table' = Append(pcb_table, NewProcess(p, l, priority))
        /\ queues' = [queues EXCEPT ![l] = push(@, pcb_count + 1)]
    BY <1>1 DEF create_pcb
  <2>3. pcb_table' \in Seq(Process) /\ Len(pcb_table') = pcb_count + 1
    BY <2>1, <2>2, AppendProperties DEF TypeOK, KernelTypeOK, pcb_count
  <2>4. queues[l] \in Seq(1..MAX_PROCESSES)
    BY DEF TypeOK, KernelTypeOK
  <2>5. pcb_count + 1 \in 1..MAX_PROCESSES
    BY <1>1, TableSize
  <2>6. push(queues[l], pcb_count + 1) \in Seq(1..MAX_PROCESSES)
    BY <2>4, <2>5, AppendProperties DEF push
  <2>7. queues' \in [Level -> Seq(1..MAX_PROCESSES)]
    BY <2>2, <2>6 DEF TypeOK, KernelTypeOK
  <2> QED
    BY <1>1, <2>3, <2>7, TableSize
<1>2. CASE ~(pcb_count < MAX_PROCESSES)
  BY <1>2 DEF create_pcb, TypeOK, KernelTypeOK, pcb_count
<1> QED
  BY <1>1, <1>2

LEMMA UpdateSlotType ==
    ASSUME TypeOK, NEW i \in 1..pcb_count, NEW p \in Process,
           p.pid = pcb_table[i].pid, p.queue_level = pcb_table[i].queue_level,
           p.ram_alloc = pcb_table[i].ram_alloc, p.hdd_alloc = pcb_table[i].hdd_alloc,
           pcb_table' = [pcb_table EXCEPT ![i] = p]
    PROVE  /\ pcb_table' \in Seq(Process) /\ Len(pcb_table') = pcb_count
           /\ \A j \in 1..pcb_count : pcb_table'[j] = IF j = i THEN p ELSE pcb_table[j]
           /\ SameTable
<1>1. /\ pcb_table' \in Seq(Process) /\ Len(pcb_table') = pcb_count
      /\ \A j \in 1..pcb_count : pcb_table'[j] = IF j = i THEN p ELSE pcb_table[j]
  BY ExceptSeq DEF TypeOK, KernelTypeOK, pcb_count
<1> QED
  BY <1>1 DEF SameTable

LEMMA SendMinimizeType ==
    ASSUME TypeOK, NEW p \in Pid, send_minimize(p)
    PROVE  /\ pcb_table' \in Seq(Process) /\ Len(pcb_table') = pcb_count /\ SameTable
           /\ free_cores' \in Nat
<1>1. CASE SlotsOf(p) = {}
  BY <1>1 DEF send_minimize, TypeOK, KernelTypeOK, pcb_count, SameTable
<1>2. CASE SlotsOf(p) # {}
  <2> DEFINE i == FirstSlot(p)
             r == [pcb_table[i] EXCEPT !.state = "MINIMIZED", !.core_id = -1]
  <2>1. i \in 1..pcb_count
    BY <1>2, TableSize, FirstSlotIsSlot DEF SlotsOf
  <2>2. pcb_table' = [pcb_table EXCEPT ![i] = r] /\ GiveCoreBack(i)
    BY <1>2 DEF send_minimize
  <2>3. /\ r \in Process
        /\ r.pid = pcb_table[i].pid /\ r.queue_level = pcb_table[i].queue_level
        /\ r.ram_alloc = pcb_table[i].ram_alloc /\ r.hdd_alloc = pcb_table[i].hdd_alloc
    <3>1. pcb_table[i] \in Process
      BY <2>1, TableSize
    <3>2. -1 \in -1..(total_cores - 1)
      BY KernelAssumption
    <3> QED
      BY <3>1, <3>2 DEF Process, ProcessState
  <2> HIDE DEF r, i
  <2>4. free_cores' \in Nat
    BY <2>2 DEF GiveCoreBack, release_core, TypeOK, KernelTypeOK
  <2> QED
    BY <2>1, <2>2, <2>3, <2>4, UpdateSlotType
<1> QED
  BY <1>1, <1>2

LEMMA SendResumeType ==
    ASSUME TypeOK, NEW p \in Pid, send_resume(p)
    PROVE  pcb_table' \in Seq(Process) /\ Len(pcb_table') = pcb_count /\ SameTable
<1>1. CASE SlotsOf(p) = {}
  BY <1>1 DEF send_resume, TypeOK, KernelTypeOK, pcb_count, SameTable
<1>2. CASE SlotsOf(p) # {}
  <2> DEFINE i == FirstSlot(p)
             r == [pcb_table[i] EXCEPT !.state = "RUNNING"]
  <2>1. i \in 1..pcb_count
    BY <1>2, TableSize, FirstSlotIsSlot DEF SlotsOf
  <2>2. pcb_table' = [pcb_table EXCEPT ![i] = r]
    BY <1>2 DEF send_resume
  <2>3. /\ r \in Process
        /\ r.pid = pcb_table[i].pid /\ r.queue_level = pcb_table[i].queue_level
        /\ r.ram_alloc = pcb_table[i].ram_alloc /\ r.hdd_alloc = pcb_table[i].hdd_alloc
    BY <2>1, TableSize DEF Process, ProcessState
  <2> HIDE DEF r, i
  <2> QED
    BY <2>1, <2>2, <2>3, UpdateSlotType
<1> QED
  BY <1>1, <1>2

LEMMA SendInterruptType ==
    ASSUME TypeOK, NEW p \in Pid, send_interrupt(p)
    PROVE  /\ pcb_table' \in Seq(Process) /\ Len(pcb_table') = pcb_count /\ SameTable
           /\ free_cores' \in Nat
           /\ unblocking' \in [Pid -> Nat]
<1>1. CASE RunningSlots(p) = {}
  BY <1>1 DEF send_interrupt, TypeOK, KernelTypeOK, InterruptHandlerTypeOK, pcb_count, SameTable
<1>2. CASE RunningSlots(p) # {}
  <2> DEFINE i == Min(RunningSlots(p))
             r == [pcb_table[i] EXCEPT !.state = "BLOCKED", !.core_id = -1]
  <2>1. i \in 1..pcb_count
    <3>1. RunningSlots(p) \in SUBSET Nat
      BY TableSize DEF RunningSlots, SlotsOf
    <3>2. i \in RunningSlots(p)
      BY <1>2, <3>1, LeastExists DEF Min
    <3> QED
      BY <3>2 DEF RunningSlots, SlotsOf
  <2>2. /\ pcb_table' = [pcb_table EXCEPT ![i] = r]
        /\ GiveCoreBack(i)
        /\ unblocking' = [unblocking EXCEPT ![p] = @ + 1]
    BY <1>2 DEF send_interrupt
  <2>3. /\ r \in Process
        /\ r.pid = pcb_table[i].pid /\ r.queue_level = pcb_table[i].queue_level
        /\ r.ram_alloc = pcb_table[i].ram_alloc /\ r.hdd_alloc = pcb_table[i].hdd_alloc
    <3>1. pcb_table[i] \in Process
      BY <2>1, TableSize
    <3>2. -1 \in -1..(total_cores - 1)
      BY KernelAssumption
    <3> QED
      BY <3>1, <3>2 DEF Process, ProcessState
  <2> HIDE DEF r, i
  <2>4. free_cores' \in Nat
    BY <2>2 DEF GiveCoreBack, release_core, TypeOK, KernelTypeOK
  <2>5. unblocking' \in [Pid -> Nat]
    BY <2>2 DEF TypeOK, InterruptHandlerTypeOK
  <2> QED
    BY <2>1, <2>2, <2>3, <2>4, <2>5, UpdateSlotType
<1> QED
  BY <1>1, <1>2

LEMMA UnblockType ==
    ASSUME TypeOK, NEW p \in Pid, unblock_after_delay(p)
    PROVE  /\ pcb_table' \in Seq(Process) /\ Len(pcb_table') = pcb_count /\ SameTable
           /\ unblocking' \in [Pid -> Nat]
<1> DEFINE blocked == {i \in SlotsOf(p) : pcb_table[i].state = "BLOCKED"}
           entry(i) == IF i \in blocked /\ \A j \in blocked : i <= j
                       THEN [pcb_table[i] EXCEPT !.state = "READY"] ELSE pcb_table[i]
<1>1. pcb_table' = [i \in 1..pcb_count |-> entry(i)]
  BY DEF unblock_after_delay
<1>2. ASSUME NEW i \in 1..pcb_count
      PROVE  /\ entry(i) \in Process
             /\ entry(i).pid = pcb_table[i].pid
             /\ entry(i).queue_level = pcb_table[i].queue_level
             /\ entry(i).ram_alloc = pcb_table[i].ram_alloc
             /\ entry(i).hdd_alloc = pcb_table[i].hdd_alloc
  BY TableSize DEF Process, ProcessState
<1> HIDE DEF entry
<1>3. pcb_table' \in Seq(Process) /\ Len(pcb_table') = pcb_count /\ SameTable
  BY <1>1, <1>2, TableSize DEF SameTable
<1>4. unblocking' \in [Pid -> Nat]
  BY DEF unblock_after_delay, TypeOK, InterruptHandlerTypeOK
<1> QED
  BY <1>3, <1>4

LEMMA SetPriorityType ==
    ASSUME TypeOK, NEW p \in Pid, NEW priority \in Int, set_process_priority(p, priority)
    PROVE  pcb_table' \in Seq(Process) /\ Len(pcb_table') = pcb_count /\ SameTable
<1> DEFINE i == FirstSlot(p)
           r == [pcb_table[i] EXCEPT !.priority = Clamp(priority)]
<1>1. i \in 1..pcb_count
  BY TableSize, FirstSlotIsSlot DEF SlotsOf, set_process_priority
<1>2. pcb_table' = [pcb_table EXCEPT ![i] = r]
  BY DEF set_process_priority
<1>3. Clamp(priority) \in 0..MAX_PRIORITY
  <2>1. Min({priority, MAX_PRIORITY}) = IF priority <= MAX_PRIORITY THEN priority ELSE MAX_PRIORITY
    BY KernelAssumption DEF Min
  <2>2. \A x \in Int : Max({0, x}) = IF x <= 0 THEN 0 ELSE x
    BY DEF Max
  <2> QED
    BY <2>1, <2>2, KernelAssumption DEF Clamp
<1>4. /\ r \in Process
      /\ r.pid = pcb_table[i].pid /\ r.queue_level = pcb_table[i].queue_level
      /\ r.ram_alloc = pcb_table[i].ram_alloc /\ r.hdd_alloc = pcb_table[i].hdd_alloc
  <2>1. pcb_table[i] \in Process
    BY <1>1, TableSize
  <2> HIDE DEF i
  <2> QED
    BY <2>1, <1>3 DEF Process
<1> HIDE DEF r, i
<1> QED
  BY <1>1, <1>2, <1>4, UpdateSlotType

LEMMA UpdateStateType ==
    ASSUME TypeOK, NEW p \in Pid, NEW s \in ProcessState, update_state(p, s)
    PROVE  pcb_table' \in Seq(Process) /\ Len(pcb_table') = pcb_count /\ SameTable
<1> DEFINE i == FirstSlot(p)
           r == [pcb_table[i] EXCEPT !.state = s]
<1>1. i \in 1..pcb_count
  BY TableSize, FirstSlotIsSlot DEF SlotsOf, update_state
<1>2. pcb_table' = [pcb_table EXCEPT ![i] = r]
  BY DEF update_state
<1>3. /\ r \in Process
      /\ r.pid = pcb_table[i].pid /\ r.queue_level = pcb_table[i].queue_level
      /\ r.ram_alloc = pcb_table[i].ram_alloc /\ r.hdd_alloc = pcb_table[i].hdd_alloc
  BY <1>1, TableSize DEF Process
<1> HIDE DEF r, i
<1> QED
  BY <1>1, <1>2, <1>3, UpdateSlotType

(***************************************************************************)
(* The scheduler: the slot it dispatches is one of the queue's entries.    *)
(***************************************************************************)
LEMMA FirstReadyIsLeast ==
    ASSUME TypeOK, NEW l \in Level, ReadyIn(l) # {}
    PROVE  \E n \in ReadyIn(l) : /\ FirstReady(l) = queues[l][n]
                                 /\ \A m \in ReadyIn(l) : n <= m
<1>1. queues[l] \in Seq(1..MAX_PROCESSES)
  BY DEF TypeOK, KernelTypeOK
<1>2. DOMAIN queues[l] = 1..Len(queues[l]) /\ Len(queues[l]) \in Nat
  BY <1>1, LenProperties
<1>3. ReadyIn(l) \in SUBSET Nat
  BY <1>2 DEF ReadyIn
<1>4. \E n \in ReadyIn(l) : \A m \in ReadyIn(l) : n <= m
  BY <1>3, LeastExists
<1> QED
  BY <1>4 DEF FirstReady

LEMMA FirstReadyProperties ==
    ASSUME TypeOK, NEW l \in Level, ReadyIn(l) # {}
    PROVE  /\ FirstReady(l) \in 1..MAX_PROCESSES
           /\ \E n \in 1..Len(queues[l]) : FirstReady(l) = queues[l][n]
           /\ pcb_table[FirstReady(l)].state = "READY"
<1>1. queues[l] \in Seq(1..MAX_PROCESSES)
  BY DEF TypeOK, KernelTypeOK
<1>2. DOMAIN queues[l] = 1..Len(queues[l])
  BY <1>1, LenProperties
<1>3. PICK n \in ReadyIn(l) : FirstReady(l) = queues[l][n]
  BY FirstReadyIsLeast
<1>4. n \in 1..Len(queues[l]) /\ pcb_table[queues[l][n]].state = "READY"
  BY <1>2 DEF ReadyIn
<1>5. queues[l][n] \in 1..MAX_PROCESSES
  BY <1>1, <1>4, ElementOfSeq
<1> QED
  BY <1>3, <1>4, <1>5

LEMMA AssignedCoreType ==
    ASSUME TypeOK
    PROVE  AssignedCore \in -1..(total_cores - 1)
  BY KernelAssumption DEF AssignedCore, TypeOK, KernelTypeOK

LEMMA DispatchProcessType ==
    ASSUME TypeOK, NEW i \in 1..MAX_PROCESSES, dispatch_process(i)
    PROVE  /\ pcb_table' \in Seq(Process) /\ Len(pcb_table') = pcb_count /\ SameTable
           /\ \A j \in 1..pcb_count :
                 pcb_table'[j] = IF j = i THEN [pcb_table[j] EXCEPT !.state = "RUNNING",
                                                                   !.core_id = AssignedCore]
                                 ELSE pcb_table[j]
<1> DEFINE r == [pcb_table[i] EXCEPT !.state = "RUNNING", !.core_id = AssignedCore]
<1>1. pcb_table' = [pcb_table EXCEPT ![i] = r]
  BY DEF dispatch_process
<1>2. CASE i \in 1..pcb_count
  <2>1. /\ r \in Process
        /\ r.pid = pcb_table[i].pid /\ r.queue_level = pcb_table[i].queue_level
        /\ r.ram_alloc = pcb_table[i].ram_alloc /\ r.hdd_alloc = pcb_table[i].hdd_alloc
    BY <1>2, TableSize, AssignedCoreType DEF Process, ProcessState
  <2> HIDE DEF r
  <2>2. /\ pcb_table' \in Seq(Process) /\ Len(pcb_table') = pcb_count /\ SameTable
        /\ \A j \in 1..pcb_count : pcb_table'[j] = IF j = i THEN r ELSE pcb_table[j]
    BY <1>1, <1>2, <2>1, UpdateSlotType
  <2> QED
    BY <2>2 DEF r
<1>3. CASE i \notin 1..pcb_count
  <2>1. pcb_table \in [1..pcb_count -> Process]
    BY LenProperties DEF TypeOK, KernelTypeOK, pcb_count
  <2>2. pcb_table' = pcb_table
    BY <1>1, <1>3, <2>1
  <2> QED
    BY <1>3, <2>2 DEF TypeOK, KernelTypeOK, pcb_count, SameTable
<1> QED
  BY <1>2, <1>3

LEMMA AgedType ==
    ASSUME NEW p \in Process
    PROVE  /\ Aged(p) \in Process
           /\ Aged(p).queue_level <= p.queue_level
           /\ Aged(p) = [p EXCEPT !.wait_time = Aged(p).wait_time, !.priority = Aged(p).priority,
                                  !.queue_level = Aged(p).queue_level]
<1>1. /\ p.priority \in 0..MAX_PRIORITY /\ p.queue_level \in Level
      /\ p.wait_time \in 0..(AGING_INTERVAL - 1)
      /\ AGING_INTERVAL \in Nat \ {0} /\ MAX_PRIORITY \in Nat
  BY KernelAssumption DEF Process
<1>2. (p.wait_time + 1) % AGING_INTERVAL \in 0..(AGING_INTERVAL - 1)
  BY <1>1
<1> DEFINE wait == (p.wait_time + 1) % AGING_INTERVAL
           priority == IF p.priority > 0 THEN p.priority - 1 ELSE p.priority
           level == Promoted(p.queue_level, priority)
<1>3. priority \in 0..MAX_PRIORITY
  BY <1>1
<1>4. level \in Level /\ level <= p.queue_level
  BY <1>1 DEF Promoted, Level, QUEUE_SYSTEM, QUEUE_INTERACTIVE, QUEUE_BACKGROUND
<1>5. p.queue_level <= p.queue_level /\ 0 \in 0..(AGING_INTERVAL - 1)
  BY <1>1 DEF Level, QUEUE_SYSTEM, QUEUE_INTERACTIVE, QUEUE_BACKGROUND
<1>6. \/ Aged(p) = p
      \/ Aged(p) = [p EXCEPT !.wait_time = wait]
      \/ Aged(p) = [p EXCEPT !.wait_time = 0, !.priority = priority, !.queue_level = level]
  BY DEF Aged
<1> HIDE DEF wait, priority, level
<1>7. CASE Aged(p) = p
  BY <1>5, <1>7 DEF Process
<1>8. CASE Aged(p) = [p EXCEPT !.wait_time = wait]
  BY <1>2, <1>5, <1>8 DEF Process, wait
<1>9. CASE Aged(p) = [p EXCEPT !.wait_time = 0, !.priority = priority, !.queue_level = level]
  BY <1>3, <1>4, <1>5, <1>9 DEF Process
<1> QED
  BY <1>6, <1>7, <1>8, <1>9

LEMMA AgingTickType ==
    ASSUME TypeOK, AgingTick
    PROVE  /\ pcb_table' \in Seq(Process) /\ Len(pcb_table') = pcb_count
           /\ \A i \in 1..pcb_count : pcb_table'[i] = Aged(pcb_table[i])
           /\ queues' \in [Level -> Seq(1..MAX_PROCESSES)]
<1>1. pcb_table' = [i \in 1..pcb_count |-> Aged(pcb_table[i])]
  BY DEF AgingTick
<1>2. pcb_table' \in Seq(Process) /\ Len(pcb_table') = pcb_count
  <2>1. \A i \in 1..pcb_count : Aged(pcb_table[i]) \in Process
    BY TableSize, AgedType
  <2> QED
    BY <1>1, <2>1, TableSize
<1>3. queues' \in [Level -> Seq(1..MAX_PROCESSES)]
  <2>1. RebuiltQueues(pcb_table') \in [Level -> Seq(1..MAX_PROCESSES)]
    BY <1>2, TableSize, RebuiltQueuesProperties
  <2> QED
    BY <2>1 DEF AgingTick, TypeOK, KernelTypeOK
<1> QED
  BY <1>1, <1>2, <1>3

LEMMA PushType ==
    ASSUME NEW S, NEW q \in Seq(S), NEW s \in S
    PROVE  push(q, s) \in Seq(S)
  BY AppendProperties DEF push

LEMMA DispatchQ1Type ==
    ASSUME TypeOK, DispatchQ1
    PROVE  queues' \in [Level -> Seq(1..MAX_PROCESSES)]
<1> DEFINE q == queues[QUEUE_INTERACTIVE]
           s == FirstReady(QUEUE_INTERACTIVE)
<1>0. QUEUE_INTERACTIVE \in Level
  BY DEF Level
<1>1. queues' = [queues EXCEPT ![QUEUE_INTERACTIVE] = push(Tail(q), s)]
      /\ ReadyIn(QUEUE_INTERACTIVE) # {}
  BY DEF DispatchQ1
<1>2. q \in Seq(1..MAX_PROCESSES) /\ queues \in [Level -> Seq(1..MAX_PROCESSES)]
  BY <1>0 DEF TypeOK, KernelTypeOK
<1>3. s \in 1..MAX_PROCESSES /\ \E n \in 1..Len(q) : s = q[n]
  BY <1>0, <1>1, FirstReadyProperties
<1> HIDE DEF q, s
<1>4. Tail(q) \in Seq(1..MAX_PROCESSES)
  BY <1>2, <1>3, HeadTailProperties
<1>5. push(Tail(q), s) \in Seq(1..MAX_PROCESSES)
  BY <1>3, <1>4, PushType
<1> QED
  BY <1>1, <1>2, <1>5

LEMMA DispatchQ1Queue ==
    ASSUME TypeOK, DispatchQ1, Len(queues[QUEUE_INTERACTIVE]) <= MAX_PROCESSES
    PROVE  /\ \A l \in Level \ {QUEUE_INTERACTIVE} : queues'[l] = queues[l]
           /\ Len(queues'[QUEUE_INTERACTIVE]) = Len(queues[QUEUE_INTERACTIVE])
           /\ \A n \in 1..Len(queues[QUEUE_INTERACTIVE]) :
                 queues'[QUEUE_INTERACTIVE][n] =
                     IF n < Len(queues[QUEUE_INTERACTIVE]) THEN queues[QUEUE_INTERACTIVE][n + 1]
                     ELSE FirstReady(QUEUE_INTERACTIVE)
<1> DEFINE q == queues[QUEUE_INTERACTIVE]
           s == FirstReady(QUEUE_INTERACTIVE)
<1>0. QUEUE_INTERACTIVE \in Level
  BY DEF Level
<1>1. queues' = [queues EXCEPT ![QUEUE_INTERACTIVE] = push(Tail(q), s)]
      /\ ReadyIn(QUEUE_INTERACTIVE) # {}
  BY DEF DispatchQ1
<1>2. q \in Seq(1..MAX_PROCESSES) /\ Len(q) \in Nat
  BY <1>0, LenProperties DEF TypeOK, KernelTypeOK
<1>3. s \in 1..MAX_PROCESSES /\ \E n \in 1..Len(q) : s = q[n]
  BY <1>0, <1>1, FirstReadyProperties
<1>4. queues \in [Level -> Seq(1..MAX_PROCESSES)]
  BY DEF TypeOK, KernelTypeOK
<1> HIDE DEF q, s
<1>5. q # <<>>
  BY <1>2, <1>3
<1>6. /\ Tail(q) \in Seq(1..MAX_PROCESSES) /\ Len(Tail(q)) = Len(q) - 1
      /\ \A n \in 1..(Len(q) - 1) : Tail(q)[n] = q[n + 1]
  BY <1>2, <1>5, HeadTailProperties
<1>7. /\ Append(Tail(q), s) \in Seq(1..MAX_PROCESSES)
      /\ Len(Append(Tail(q), s)) = Len(q)
      /\ \A n \in 1..Len(q) : Append(Tail(q), s)[n] = IF n < Len(q) THEN q[n + 1] ELSE s
  <2>1. /\ Append(Tail(q), s) \in Seq(1..MAX_PROCESSES)
        /\ Len(Append(Tail(q), s)) = Len(Tail(q)) + 1
        /\ \A n \in 1..Len(Tail(q)) : Append(Tail(q), s)[n] = Tail(q)[n]
        /\ Append(Tail(q), s)[Len(Tail(q)) + 1] = s
    BY <1>3, <1>6, AppendProperties
  <2>2. Len(q) \in Nat /\ Len(q) >= 1
    BY <1>2, <1>3
  <2>3. Len(Append(Tail(q), s)) = Len(q)
    BY <1>6, <2>1, <2>2
  <2>4. ASSUME NEW n \in 1..Len(q), n < Len(q)
        PROVE  Append(Tail(q), s)[n] = q[n + 1]
    <3>1. n \in 1..(Len(q) - 1) /\ n \in 1..Len(Tail(q))
      BY <1>6, <2>2, <2>4
    <3> QED
      BY <1>6, <2>1, <3>1
  <2>5. Append(Tail(q), s)[Len(q)] = s
    BY <1>6, <2>1, <2>2
  <2>6. ASSUME NEW n \in 1..Len(q)
        PROVE  Append(Tail(q), s)[n] = IF n < Len(q) THEN q[n + 1] ELSE s
    <3>1. n < Len(q) \/ n = Len(q)
      BY <2>2
    <3> QED
      BY <2>2, <2>4, <2>5, <3>1
  <2> QED
    BY <2>1, <2>3, <2>6
<1>8. push(Tail(q), s) = Append(Tail(q), s)
  BY <1>2, <1>6, KernelAssumption DEF push, q
<1> QED
  BY <1>0, <1>1, <1>4, <1>7, <1>8 DEF q, s

LEMMA AllocateType ==
    ASSUME TypeOK, NEW p \in Pid, allocate_resources(ram_req[p], hdd_req[p])
    PROVE  free_RAM' \in Nat /\ free_HDD' \in Nat
<1>1. ram_req[p] \in Nat /\ hdd_req[p] \in Nat
  BY KernelAssumption
<1>2. free_RAM \in Nat /\ free_HDD \in Nat
  BY DEF TypeOK, KernelTypeOK
<1> QED
  BY <1>1, <1>2 DEF allocate_resources, CanAllocate

(***************************************************************************)
(* Type correctness, one step per action.                                  *)
(***************************************************************************)
LEMMA TypeInit == Init => TypeOK
<1> SUFFICES ASSUME Init PROVE TypeOK
  OBVIOUS
<1> USE DEF Init
<1>1. KernelTypeOK
  <2>1. <<>> \in Seq(Process) /\ Len(<<>>) = 0 /\ <<>> \in Seq(1..MAX_PROCESSES)
    BY EmptySeq
  <2> QED
    BY <2>1, KernelAssumption DEF KernelInit, KernelTypeOK, pcb_count
<1>2. ProcessManagerTypeOK /\ IpcManagerTypeOK
  BY DEF ProcessManagerInit, ProcessManagerTypeOK, Nothing, IpcManagerInit,
         IpcManagerTypeOK, ChildState
<1>3. ShellTypeOK /\ SchedulerTypeOK /\ InterruptHandlerTypeOK /\ api_calls \in Nat
      /\ handler_stuck \in BOOLEAN
  BY DEF ShellInit, ShellTypeOK, SchedulerInit, SchedulerTypeOK,
         InterruptHandlerInit, InterruptHandlerTypeOK
<1> QED
  BY <1>1, <1>2, <1>3 DEF TypeOK

LEMMA TypeStep == TypeOK /\ [Next]_vars => TypeOK'
<1> SUFFICES ASSUME TypeOK, [Next]_vars PROVE TypeOK'
  OBVIOUS
<1> USE DEF TypeOK, KernelTypeOK, ProcessManagerTypeOK, IpcManagerTypeOK, ShellTypeOK,
            SchedulerTypeOK, InterruptHandlerTypeOK, kernel, memory, table, tasks, shell,
            threads, rest, pcb_count
<1>1. ASSUME NEW p \in Pid, BootDaemon(p) PROVE TypeOK'
  BY <1>1 DEF BootDaemon, start_daemon, StartChild, Remember, ChildState
<1>2. ASSUME NEW p \in Pid, Launch(p) PROVE TypeOK'
  BY <1>2 DEF Launch, launch_task, StartChild, Remember, ChildState
<1>3. ASSUME NEW p \in Pid, Resume(p) PROVE TypeOK'
  <2>1. pcb_table' \in Seq(Process) /\ Len(pcb_table') = pcb_count
    BY <1>3, SendResumeType DEF Resume, manage_foreground
  <2>2. foreground' \in Pid \union {NoPid} /\ bg_tasks' = bg_tasks /\ stopped' \subseteq Pid
    BY <1>3 DEF Resume, manage_foreground
  <2>3. UNCHANGED <<queues, memory, free_cores, queue_cond, os_running,
                    reclaiming, tasks, threads, rest>>
    BY <1>3 DEF Resume
  <2> QED
    BY <2>1, <2>2, <2>3
<1>4. ASSUME NEW p \in Pid, Minimize(p) PROVE TypeOK'
  <2>1. send_minimize(p)
    BY <1>4 DEF Minimize, ForegroundStops, ForegroundMisread
  <2>2. pcb_table' \in Seq(Process) /\ Len(pcb_table') = pcb_count /\ free_cores' \in Nat
    BY <2>1, SendMinimizeType
  <2>3. foreground' \in Pid \union {NoPid} /\ bg_tasks' = bg_tasks /\ stopped' \subseteq Pid
    BY <1>4 DEF Minimize, ForegroundStops, ForegroundMisread
  <2>4. UNCHANGED <<queues, memory, queue_cond, os_running, reclaiming, tasks, threads, rest>>
    BY <1>4 DEF Minimize
  <2> QED
    BY <2>2, <2>3, <2>4
<1>5. ASSUME NEW p \in Pid, Exit(p) PROVE TypeOK'
  <2>1. remove_pcb(p) /\ child' = [child EXCEPT ![p] = "reaped"]
    BY <1>5 DEF Exit, ForegroundExits
  <2>2. /\ pcb_table' \in Seq(Process) /\ Len(pcb_table') <= MAX_PROCESSES
        /\ queues' \in [Level -> Seq(1..MAX_PROCESSES)]
        /\ reclaiming' \in [Pid -> [ram : Nat, hdd : Nat]]
    BY <2>1, RemovePcbType
  <2>3. child' \in [Pid -> ChildState]
    BY <2>1 DEF ChildState
  <2>4. foreground' \in Pid \union {NoPid} /\ bg_tasks' \subseteq Pid
    BY <1>5 DEF Exit, ForegroundExits
  <2>5. UNCHANGED <<memory, free_cores, queue_cond, os_running, ipc, notice, stopped,
                    threads, rest>>
    BY <1>5 DEF Exit, ForegroundExits
  <2> QED
    BY <2>2, <2>3, <2>4, <2>5
<1>6. ASSUME NEW p \in Pid, Sigchld(p) PROVE TypeOK'
  <2>1. remove_pcb(p) /\ child' = [child EXCEPT ![p] = "reaped"] /\ UNCHANGED <<ipc, notice>>
    BY <1>6 DEF Sigchld, sigchld_handler
  <2>2. /\ pcb_table' \in Seq(Process) /\ Len(pcb_table') <= MAX_PROCESSES
        /\ queues' \in [Level -> Seq(1..MAX_PROCESSES)]
        /\ reclaiming' \in [Pid -> [ram : Nat, hdd : Nat]]
    BY <2>1, RemovePcbType
  <2>3. child' \in [Pid -> ChildState]
    BY <2>1 DEF ChildState
  <2>4. UNCHANGED <<memory, free_cores, queue_cond, os_running, shell, threads, rest>>
    BY <1>6 DEF Sigchld
  <2> QED
    BY <2>1, <2>2, <2>3, <2>4
<1>7. ASSUME Shutdown PROVE TypeOK'
  BY <1>7 DEF Shutdown, shutdown_os, SignalQueueCond
<1>8. ASSUME NEW p \in Pid, LastReap(p) PROVE TypeOK'
  BY <1>8 DEF LastReap, FinalReap, Reaps, ChildState
<1>9. ASSUME NEW p \in Pid, ChildStep(p) PROVE TypeOK'
  BY <1>9 DEF ChildStep, send_resource_request, wait_for_grant, send_termination_notice,
              ChildState
<1>10. ASSUME NEW p \in Pid, Die(p) PROVE TypeOK'
  BY <1>10 DEF Die, ChildDies, ChildState
<1>11. ASSUME NEW p \in Pid, Grant(p) PROVE TypeOK'
  <2>2. free_RAM' \in Nat /\ free_HDD' \in Nat
    BY <1>11, AllocateType DEF Grant, GrantRequest
  <2>3. ipc' \in [Pid -> {"none", "serving", "received", "granted", "denied", "replied"}]
    BY <1>11 DEF Grant, GrantRequest
  <2> QED
    BY <1>11, <2>2, <2>3 DEF Grant, GrantRequest
<1>12. ASSUME NEW p \in Pid, Deny(p) PROVE TypeOK'
  BY <1>12 DEF Deny, DenyRequest
<1>13. ASSUME NEW p \in Pid, Register(p) PROVE TypeOK'
  <2> DEFINE l == get_queue_level(task_name[p])
  <2>1. l \in Level
    BY DEF get_queue_level, Level
  <2>2. default_priority[l] \in 0..MAX_PRIORITY
    BY <2>1, KernelAssumption
  <2>3. create_pcb(p, l, default_priority[l]) /\ ipc' = [ipc EXCEPT ![p] = "replied"]
    BY <1>13 DEF Register, RegisterChild
  <2>4. /\ pcb_table' \in Seq(Process) /\ Len(pcb_table') <= MAX_PROCESSES
        /\ queues' \in [Level -> Seq(1..MAX_PROCESSES)]
    BY <2>1, <2>2, <2>3, CreatePcbType
  <2>5. queue_cond' \in {"none", "waiting", "signalled"}
    BY <2>3 DEF create_pcb, SignalQueueCond
  <2>6. ipc' \in [Pid -> {"none", "serving", "received", "granted", "denied", "replied"}]
    BY <2>3
  <2>7. UNCHANGED <<child, notice>>
    BY <1>13 DEF Register, RegisterChild
  <2>8. UNCHANGED <<memory, free_cores, os_running, reclaiming, shell, threads, rest>>
    BY <1>13 DEF Register
  <2> QED
    BY <2>4, <2>5, <2>6, <2>7, <2>8
<1>14. ASSUME NEW p \in Pid, Listen(p) PROVE TypeOK'
  <2>1. remove_pcb(p) /\ notice' = [notice EXCEPT ![p] = FALSE]
    BY <1>14 DEF Listen, ReadNotice
  <2>2. /\ pcb_table' \in Seq(Process) /\ Len(pcb_table') <= MAX_PROCESSES
        /\ queues' \in [Level -> Seq(1..MAX_PROCESSES)]
        /\ reclaiming' \in [Pid -> [ram : Nat, hdd : Nat]]
    BY <2>1, RemovePcbType
  <2>3. notice' \in [Pid -> BOOLEAN]
    BY <2>1
  <2>4. UNCHANGED <<memory, free_cores, queue_cond, os_running, child, ipc, shell, threads,
                    rest>>
    BY <1>14 DEF Listen, ReadNotice
  <2> QED
    BY <2>2, <2>3, <2>4
<1>15. ASSUME NEW p \in Pid, Reclaim(p) PROVE TypeOK'
  <2>1. reclaiming[p].ram \in Nat /\ reclaiming[p].hdd \in Nat
    OBVIOUS
  <2>2. free_RAM' \in Nat /\ free_HDD' \in Nat
    BY <1>15, <2>1 DEF Reclaim, FinishRemove, reclaim_resources
  <2>3. reclaiming' \in [Pid -> [ram : Nat, hdd : Nat]]
    BY <1>15 DEF Reclaim, FinishRemove, Nothing
  <2>4. UNCHANGED <<table, free_cores, queue_cond, os_running, tasks, shell, threads, rest>>
    BY <1>15 DEF Reclaim
  <2> QED
    BY <2>2, <2>3, <2>4
<1>16. ASSUME Dispatch PROVE TypeOK'
  <2>1. CASE DispatchQ0
    BY <1>16, <2>1, FirstReadyProperties, DispatchProcessType DEF Dispatch, DispatchQ0, Level
  <2>2. CASE DispatchQ1
    BY <1>16, <2>2, FirstReadyProperties, DispatchProcessType, DispatchQ1Type
       DEF Dispatch, DispatchQ1, Level
  <2>3. CASE DispatchQ2
    BY <1>16, <2>3, FirstReadyProperties, DispatchProcessType DEF Dispatch, DispatchQ2, Level
  <2> QED
    BY <1>16, <2>1, <2>2, <2>3 DEF Dispatch
<1>17. ASSUME SchedulerPauses PROVE TypeOK'
  BY <1>17 DEF SchedulerPauses, NothingToDispatch, QuantumOver, LoopHead
<1>18. ASSUME SchedulerWaits PROVE TypeOK'
  BY <1>18 DEF SchedulerWaits, StartWait, Woken, TimedOut, LoopHead
<1>19. ASSUME Age PROVE TypeOK'
  <2>1. /\ pcb_table' \in Seq(Process) /\ Len(pcb_table') = pcb_count
        /\ queues' \in [Level -> Seq(1..MAX_PROCESSES)]
    BY <1>19, AgingTickType DEF Age
  <2>2. aging' \in {"sleep", "stopped"}
    BY <1>19 DEF Age, AgingTick
  <2>3. UNCHANGED <<memory, free_cores, queue_cond, os_running, reclaiming,
                    tasks, shell, scheduler, unblocking, rest>>
    BY <1>19 DEF Age
  <2> QED
    BY <2>1, <2>2, <2>3
<1>20. ASSUME NEW p \in Pid, Unblock(p) PROVE TypeOK'
  <2>1. /\ pcb_table' \in Seq(Process) /\ Len(pcb_table') = pcb_count
        /\ unblocking' \in [Pid -> Nat]
    BY <1>20, UnblockType DEF Unblock
  <2>2. queue_cond' \in {"none", "waiting", "signalled"}
    BY <1>20 DEF Unblock, unblock_after_delay, SignalQueueCond
  <2>3. UNCHANGED <<queues, memory, free_cores, os_running, reclaiming,
                    tasks, shell, scheduler, aging, rest>>
    BY <1>20 DEF Unblock
  <2> QED
    BY <2>1, <2>2, <2>3
<1>21. ASSUME NEW p \in Pid, Interrupt(p) PROVE TypeOK'
  <2>1. /\ pcb_table' \in Seq(Process) /\ Len(pcb_table') = pcb_count
        /\ free_cores' \in Nat /\ unblocking' \in [Pid -> Nat]
    BY <1>21, SendInterruptType DEF Interrupt
  <2>2. child' \in [Pid -> ChildState]
    BY <1>21 DEF Interrupt, ChildState
  <2>3. api_calls' \in Nat /\ UNCHANGED handler_stuck
    BY <1>21 DEF Interrupt, Call
  <2>4. UNCHANGED <<queues, memory, queue_cond, os_running, reclaiming,
                    ipc, notice, shell, scheduler, aging>>
    BY <1>21 DEF Interrupt
  <2> QED
    BY <2>1, <2>2, <2>3, <2>4
<1>22. ASSUME NEW p \in Pid, SetPriority(p) PROVE TypeOK'
  <2>1. PICK priority \in {-1, 0, 1, MAX_PRIORITY + 1} : set_process_priority(p, priority)
    BY <1>22 DEF SetPriority
  <2>2. priority \in Int
    BY KernelAssumption
  <2>3. pcb_table' \in Seq(Process) /\ Len(pcb_table') = pcb_count
    BY <2>1, <2>2, SetPriorityType
  <2>4. api_calls' \in Nat /\ UNCHANGED handler_stuck
    BY <1>22 DEF SetPriority, Call
  <2>5. UNCHANGED <<queues, memory, free_cores, queue_cond, os_running,
                    reclaiming, tasks, shell, threads>>
    BY <1>22 DEF SetPriority
  <2> QED
    BY <2>3, <2>4, <2>5
<1>23. ASSUME NEW p \in Pid, UpdateState(p) PROVE TypeOK'
  <2>1. PICK s \in ProcessState : update_state(p, s)
    BY <1>23 DEF UpdateState
  <2>2. pcb_table' \in Seq(Process) /\ Len(pcb_table') = pcb_count
    BY <2>1, UpdateStateType
  <2>3. api_calls' \in Nat /\ UNCHANGED handler_stuck
    BY <1>23 DEF UpdateState, Call
  <2>4. UNCHANGED <<queues, memory, free_cores, queue_cond, os_running,
                    reclaiming, tasks, shell, threads>>
    BY <1>23 DEF UpdateState
  <2> QED
    BY <2>2, <2>3, <2>4
<1>24. ASSUME AcquireCore PROVE TypeOK'
  BY <1>24 DEF AcquireCore, acquire_core, Call
<1>25. ASSUME UNCHANGED vars PROVE TypeOK'
  BY <1>25 DEF vars
<1>26. ASSUME NEW p \in Pid, HandlerSticks(p) PROVE TypeOK'
  BY <1>26 DEF HandlerSticks, Reaps, ChildState
<1> QED
  BY <1>1, <1>2, <1>3, <1>4, <1>5, <1>6, <1>7, <1>8, <1>9, <1>10, <1>11, <1>12, <1>13, <1>14,
     <1>15, <1>16, <1>17, <1>18, <1>19, <1>20, <1>21, <1>22, <1>23, <1>24, <1>25, <1>26
     DEF Next, MenuStep, TaskStep, IpcStep, ApiStep, ThreadStep, SchedulerStep

\* Every step of the kernel keeps the table, the queues and the counters well formed.
THEOREM TypeCorrect == Spec => []TypeOK
<1>1. Init => TypeOK
  BY TypeInit
<1>2. TypeOK /\ [Next]_vars => TypeOK'
  BY TypeStep
<1> QED
  BY <1>1, <1>2, PTL DEF Spec

-----------------------------------------------------------------------------
(***************************************************************************)
(* How the PCB in a slot can change while the slot stays its own.          *)
(***************************************************************************)
Became(r, s) ==
    \/ s = r
    \/ s = Aged(r)
    \/ s = [r EXCEPT !.state = "MINIMIZED", !.core_id = -1]
    \/ s = [r EXCEPT !.state = "RUNNING"]
    \/ r.state = "READY" /\ s = [r EXCEPT !.state = "RUNNING", !.core_id = AssignedCore]
    \/ r.state = "BLOCKED" /\ s = [r EXCEPT !.state = "READY"]
    \/ "send_interrupt" \in Api /\ s = [r EXCEPT !.state = "BLOCKED", !.core_id = -1]
    \/ "set_process_priority" \in Api /\ \E n \in 0..MAX_PRIORITY : s = [r EXCEPT !.priority = n]
    \/ "update_state" \in Api /\ \E x \in ProcessState : s = [r EXCEPT !.state = x]

EachBecame ==
    /\ Len(pcb_table') = pcb_count
    /\ \A i \in 1..pcb_count : Became(pcb_table[i], pcb_table'[i])

LEMMA AgedKeeps ==
    ASSUME NEW r \in Process
    PROVE  /\ Aged(r).state = r.state /\ Aged(r).core_id = r.core_id
           /\ Aged(r).pid = r.pid /\ Aged(r).ram_alloc = r.ram_alloc /\ Aged(r).hdd_alloc = r.hdd_alloc
<1> DEFINE s == Aged(r)
<1>1. s = [r EXCEPT !.wait_time = s.wait_time, !.priority = s.priority,
                    !.queue_level = s.queue_level]
  BY AgedType
<1> HIDE DEF s
<1>2. /\ s.state = r.state /\ s.core_id = r.core_id
      /\ s.pid = r.pid /\ s.ram_alloc = r.ram_alloc /\ s.hdd_alloc = r.hdd_alloc
  BY <1>1 DEF Process
<1> QED
  BY <1>2 DEF s

LEMMA NoneChanged == ASSUME TypeOK, UNCHANGED pcb_table PROVE EachBecame
  BY DEF EachBecame, Became, pcb_count

LEMMA OneBecame ==
    ASSUME TypeOK, NEW i \in 1..pcb_count, NEW r, Became(pcb_table[i], r),
           pcb_table' = [pcb_table EXCEPT ![i] = r]
    PROVE  EachBecame
<1>1. pcb_table \in [1..pcb_count -> Process] /\ pcb_count \in Nat
  BY LenProperties DEF TypeOK, KernelTypeOK, pcb_count
<1>2. pcb_table' = [j \in 1..pcb_count |-> IF j = i THEN r ELSE pcb_table[j]]
  BY <1>1
<1>3. Len(pcb_table') = pcb_count
  BY <1>1, <1>2
<1>4. \A j \in 1..pcb_count : Became(pcb_table[j], pcb_table'[j])
  <2>1. ASSUME NEW j \in 1..pcb_count, j # i PROVE Became(pcb_table[j], pcb_table'[j])
    BY <1>2, <2>1 DEF Became
  <2>2. pcb_table'[i] = r
    BY <1>2
  <2> QED
    BY <2>1, <2>2
<1> QED
  BY <1>3, <1>4 DEF EachBecame

LEMMA MinimizeBecame == ASSUME TypeOK, NEW p \in Pid, send_minimize(p) PROVE EachBecame
<1>1. CASE SlotsOf(p) = {}
  BY <1>1, NoneChanged DEF send_minimize
<1>2. CASE SlotsOf(p) # {}
  <2> DEFINE i == FirstSlot(p)
             r == [pcb_table[i] EXCEPT !.state = "MINIMIZED", !.core_id = -1]
  <2>1. i \in 1..pcb_count
    BY <1>2, TableSize, FirstSlotIsSlot DEF SlotsOf
  <2>2. pcb_table' = [pcb_table EXCEPT ![i] = r]
    BY <1>2 DEF send_minimize
  <2>3. Became(pcb_table[i], r)
    BY DEF Became
  <2> HIDE DEF i, r
  <2> QED
    BY <2>1, <2>2, <2>3, OneBecame
<1> QED
  BY <1>1, <1>2

LEMMA ResumeBecame == ASSUME TypeOK, NEW p \in Pid, send_resume(p) PROVE EachBecame
<1>1. CASE SlotsOf(p) = {}
  BY <1>1, NoneChanged DEF send_resume
<1>2. CASE SlotsOf(p) # {}
  <2> DEFINE i == FirstSlot(p)
             r == [pcb_table[i] EXCEPT !.state = "RUNNING"]
  <2>1. i \in 1..pcb_count
    BY <1>2, TableSize, FirstSlotIsSlot DEF SlotsOf
  <2>2. pcb_table' = [pcb_table EXCEPT ![i] = r]
    BY <1>2 DEF send_resume
  <2>3. Became(pcb_table[i], r)
    BY DEF Became
  <2> HIDE DEF i, r
  <2> QED
    BY <2>1, <2>2, <2>3, OneBecame
<1> QED
  BY <1>1, <1>2

LEMMA DispatchBecame == ASSUME TypeOK, Dispatch PROVE EachBecame
<1>1. PICK l \in Level : ReadyIn(l) # {} /\ dispatch_process(FirstReady(l))
  BY DEF Dispatch, DispatchQ0, DispatchQ1, DispatchQ2, Level
<1> DEFINE i == FirstReady(l)
<1>2. i \in 1..MAX_PROCESSES /\ pcb_table[i].state = "READY"
  BY <1>1, FirstReadyProperties
<1> HIDE DEF i
<1>3. /\ Len(pcb_table') = pcb_count
      /\ \A j \in 1..pcb_count :
            pcb_table'[j] = IF j = i THEN [pcb_table[j] EXCEPT !.state = "RUNNING",
                                                              !.core_id = AssignedCore]
                            ELSE pcb_table[j]
  BY <1>1, <1>2, DispatchProcessType DEF i
<1>4. ASSUME NEW j \in 1..pcb_count PROVE Became(pcb_table[j], pcb_table'[j])
  BY <1>2, <1>3 DEF Became
<1> QED
  BY <1>3, <1>4 DEF EachBecame

LEMMA AgeBecame == ASSUME TypeOK, AgingTick PROVE EachBecame
<1>1. Len(pcb_table') = pcb_count /\ \A i \in 1..pcb_count : pcb_table'[i] = Aged(pcb_table[i])
  BY AgingTickType
<1>2. \A i \in 1..pcb_count : Became(pcb_table[i], pcb_table'[i])
  BY <1>1 DEF Became
<1> QED
  BY <1>1, <1>2 DEF EachBecame

LEMMA UnblockBecame == ASSUME TypeOK, NEW p \in Pid, unblock_after_delay(p) PROVE EachBecame
<1> DEFINE blocked == {i \in SlotsOf(p) : pcb_table[i].state = "BLOCKED"}
           entry(i) == IF i \in blocked /\ \A j \in blocked : i <= j
                       THEN [pcb_table[i] EXCEPT !.state = "READY"] ELSE pcb_table[i]
<1>1. pcb_table' = [i \in 1..pcb_count |-> entry(i)]
  BY DEF unblock_after_delay
<1>2. ASSUME NEW i \in 1..pcb_count PROVE Became(pcb_table[i], entry(i))
  BY DEF Became
<1> HIDE DEF entry
<1>3. Len(pcb_table') = pcb_count
  BY <1>1, TableSize
<1> QED
  BY <1>1, <1>2, <1>3 DEF EachBecame

LEMMA InterruptBecame ==
    ASSUME TypeOK, NEW p \in Pid, send_interrupt(p), "send_interrupt" \in Api PROVE EachBecame
<1>1. CASE RunningSlots(p) = {}
  BY <1>1, NoneChanged DEF send_interrupt
<1>2. CASE RunningSlots(p) # {}
  <2> DEFINE i == Min(RunningSlots(p))
             r == [pcb_table[i] EXCEPT !.state = "BLOCKED", !.core_id = -1]
  <2>1. i \in 1..pcb_count
    <3>1. RunningSlots(p) \in SUBSET Nat
      BY TableSize DEF RunningSlots, SlotsOf
    <3>2. i \in RunningSlots(p)
      BY <1>2, <3>1, LeastExists DEF Min
    <3> QED
      BY <3>2 DEF RunningSlots, SlotsOf
  <2>2. pcb_table' = [pcb_table EXCEPT ![i] = r]
    BY <1>2 DEF send_interrupt
  <2>3. Became(pcb_table[i], r)
    BY DEF Became
  <2> HIDE DEF i, r
  <2> QED
    BY <2>1, <2>2, <2>3, OneBecame
<1> QED
  BY <1>1, <1>2

LEMMA ClampType ==
    ASSUME NEW priority \in Int
    PROVE  Clamp(priority) \in 0..MAX_PRIORITY
<1>1. Min({priority, MAX_PRIORITY}) = IF priority <= MAX_PRIORITY THEN priority ELSE MAX_PRIORITY
  BY KernelAssumption DEF Min
<1>2. \A x \in Int : Max({0, x}) = IF x <= 0 THEN 0 ELSE x
  BY DEF Max
<1>3. MAX_PRIORITY \in Nat
  BY KernelAssumption
<1> DEFINE least == IF priority <= MAX_PRIORITY THEN priority ELSE MAX_PRIORITY
<1>4. least \in Int /\ least <= MAX_PRIORITY
  BY <1>3
<1>5. Clamp(priority) = Max({0, least})
  BY <1>1 DEF Clamp
<1> QED
  BY <1>2, <1>3, <1>4, <1>5

LEMMA SetPriorityBecame ==
    ASSUME TypeOK, NEW p \in Pid, NEW priority \in Int, set_process_priority(p, priority),
           "set_process_priority" \in Api
    PROVE  EachBecame
<1> DEFINE i == FirstSlot(p)
           r == [pcb_table[i] EXCEPT !.priority = Clamp(priority)]
<1>1. i \in 1..pcb_count
  BY TableSize, FirstSlotIsSlot DEF SlotsOf, set_process_priority
<1>2. pcb_table' = [pcb_table EXCEPT ![i] = r]
  BY DEF set_process_priority
<1>3. Became(pcb_table[i], r)
  BY ClampType DEF Became
<1> HIDE DEF i, r
<1> QED
  BY <1>1, <1>2, <1>3, OneBecame

LEMMA UpdateStateBecame ==
    ASSUME TypeOK, NEW p \in Pid, NEW x \in ProcessState, update_state(p, x),
           "update_state" \in Api
    PROVE  EachBecame
<1> DEFINE i == FirstSlot(p)
           r == [pcb_table[i] EXCEPT !.state = x]
<1>1. i \in 1..pcb_count
  BY TableSize, FirstSlotIsSlot DEF SlotsOf, update_state
<1>2. pcb_table' = [pcb_table EXCEPT ![i] = r]
  BY DEF update_state
<1>3. Became(pcb_table[i], r)
  BY DEF Became
<1> HIDE DEF i, r
<1> QED
  BY <1>1, <1>2, <1>3, OneBecame

\* A step changes PCBs in their slots, registers a child, or removes one that died or sent
\* its notice.
Removes(p) ==
    /\ remove_pcb(p) /\ SlotsOf(p) # {}
    /\ child[p] \in {"zombie", "reaped"} \/ notice[p]

LEMMA TableSteps ==
    ASSUME TypeOK, [Next]_vars
    PROVE  EachBecame \/ \E p \in Pid : RegisterChild(p) \/ Removes(p)
<1> DEFINE Goal == EachBecame \/ \E p \in Pid : RegisterChild(p) \/ Removes(p)
<1>0. UNCHANGED pcb_table => Goal
  BY NoneChanged
<1>1. ASSUME NEW p \in Pid, BootDaemon(p) \/ Launch(p) \/ LastReap(p) \/ HandlerSticks(p)
      PROVE  Goal
  BY <1>0, <1>1 DEF BootDaemon, Launch, LastReap, HandlerSticks, kernel
<1>2. ASSUME NEW p \in Pid, Resume(p) PROVE Goal
  BY <1>2, ResumeBecame DEF Resume, manage_foreground
<1>3. ASSUME NEW p \in Pid, Minimize(p) PROVE Goal
  BY <1>3, MinimizeBecame DEF Minimize, ForegroundStops, ForegroundMisread
<1>4. ASSUME NEW p \in Pid, Exit(p) \/ Sigchld(p) \/ Listen(p) PROVE Goal
  <2>1. remove_pcb(p) /\ (child[p] \in {"zombie", "reaped"} \/ notice[p])
    BY <1>4 DEF Exit, ForegroundExits, Sigchld, sigchld_handler, Listen, ReadNotice
  <2>2. SlotsOf(p) = {} => UNCHANGED pcb_table
    BY <2>1 DEF remove_pcb
  <2> QED
    BY <1>0, <2>1, <2>2 DEF Removes
<1>5. ASSUME NEW p \in Pid, ChildStep(p) \/ Die(p) \/ Deny(p) PROVE Goal
  BY <1>0, <1>5 DEF ChildStep, Die, Deny, kernel
<1>6. ASSUME NEW p \in Pid, Grant(p) \/ Reclaim(p) PROVE Goal
  BY <1>0, <1>6 DEF Grant, Reclaim, table
<1>7. ASSUME NEW p \in Pid, Register(p) PROVE Goal
  BY <1>7 DEF Register
<1>8. ASSUME Dispatch PROVE Goal
  BY <1>8, DispatchBecame
<1>9. ASSUME SchedulerPauses \/ SchedulerWaits \/ AcquireCore \/ Shutdown PROVE Goal
  BY <1>0, <1>9 DEF SchedulerPauses, SchedulerWaits, AcquireCore, Shutdown, kernel, table
<1>10. ASSUME Age PROVE Goal
  BY <1>10, AgeBecame DEF Age
<1>11. ASSUME NEW p \in Pid, Unblock(p) PROVE Goal
  BY <1>11, UnblockBecame DEF Unblock
<1>12. ASSUME NEW p \in Pid, Interrupt(p) PROVE Goal
  BY <1>12, InterruptBecame DEF Interrupt, Call
<1>13. ASSUME NEW p \in Pid, SetPriority(p) PROVE Goal
  <2>1. PICK priority \in {-1, 0, 1, MAX_PRIORITY + 1} : set_process_priority(p, priority)
    BY <1>13 DEF SetPriority
  <2>2. priority \in Int /\ "set_process_priority" \in Api
    BY <1>13, KernelAssumption DEF SetPriority, Call
  <2> QED
    BY <2>1, <2>2, SetPriorityBecame
<1>14. ASSUME NEW p \in Pid, UpdateState(p) PROVE Goal
  BY <1>14, UpdateStateBecame DEF UpdateState, Call
<1>15. ASSUME UNCHANGED vars PROVE Goal
  BY <1>0, <1>15 DEF vars, kernel
<1> HIDE DEF Goal
<1>16. Goal
  BY <1>1, <1>2, <1>3, <1>4, <1>5, <1>6, <1>7, <1>8, <1>9, <1>10, <1>11, <1>12, <1>13, <1>14,
     <1>15 DEF Next, MenuStep, TaskStep, IpcStep, ApiStep, ThreadStep, SchedulerStep
<1> QED
  BY <1>16 DEF Goal

\* Where the PCB in a slot comes from.
NewPcb(p) == NewProcess(p, get_queue_level(task_name[p]),
                        default_priority[get_queue_level(task_name[p])])

LEMMA SlotOrigins ==
    ASSUME TypeOK, [Next]_vars, NEW i \in 1..Len(pcb_table')
    PROVE  \/ \E j \in 1..pcb_count : Became(pcb_table[j], pcb_table'[i])
           \/ \E p \in Pid : pcb_table'[i] = NewPcb(p)
<1>0. pcb_table \in Seq(Process) /\ pcb_count = Len(pcb_table) /\ pcb_count \in Nat
  BY LenProperties DEF TypeOK, KernelTypeOK, pcb_count
<1>1. CASE EachBecame
  BY <1>1 DEF EachBecame
<1>2. ASSUME NEW p \in Pid, RegisterChild(p)
      PROVE  \/ \E j \in 1..pcb_count : Became(pcb_table[j], pcb_table'[i])
             \/ pcb_table'[i] = NewPcb(p)
  <2>1. \/ UNCHANGED pcb_table
        \/ pcb_table' = Append(pcb_table, NewPcb(p))
    BY <1>2 DEF RegisterChild, create_pcb, NewPcb
  <2>2. CASE UNCHANGED pcb_table
    BY <2>2, NoneChanged DEF EachBecame
  <2>3. CASE pcb_table' = Append(pcb_table, NewPcb(p))
    <3>1. /\ Len(pcb_table') = pcb_count + 1
          /\ \A j \in 1..pcb_count : pcb_table'[j] = pcb_table[j]
          /\ pcb_table'[pcb_count + 1] = NewPcb(p)
      BY <1>0, <2>3
    <3>2. i \in 1..pcb_count \/ i = pcb_count + 1
      BY <1>0, <3>1
    <3> QED
      BY <3>1, <3>2 DEF Became
  <2> QED
    BY <2>1, <2>2, <2>3
<1>3. ASSUME NEW p \in Pid, Removes(p)
      PROVE  \E j \in 1..pcb_count : Became(pcb_table[j], pcb_table'[i])
  <2>1. FirstSlot(p) \in 1..pcb_count
    BY <1>0, <1>3, FirstSlotIsSlot DEF Removes, SlotsOf
  <2>2. pcb_table' = RemoveAt(pcb_table, FirstSlot(p))
    BY <1>3 DEF Removes, remove_pcb
  <2>3. /\ Len(pcb_table') = pcb_count - 1
        /\ \A k \in 1..(pcb_count - 1) : pcb_table'[k] =
               IF k < FirstSlot(p) THEN pcb_table[k] ELSE pcb_table[k + 1]
    BY <1>0, <2>1, <2>2, RemoveAtProperties
  <2>4. i \in 1..(pcb_count - 1) /\ i \in 1..pcb_count /\ i + 1 \in 1..pcb_count
    BY <1>0, <2>3
  <2>5. pcb_table'[i] = pcb_table[i] \/ pcb_table'[i] = pcb_table[i + 1]
    BY <2>3, <2>4
  <2> QED
    BY <2>4, <2>5 DEF Became
<1> QED
  BY <1>1, <1>2, <1>3, TableSteps

(***************************************************************************)
(* Core numbers.                                                           *)
(***************************************************************************)
\* As long as nobody acquires a core the counter never falls below the number of cores, and
\* the number dispatch_process computes from it is 0 (or -1 on a machine without cores).
NoCoreTaken == free_cores >= total_cores

LEMMA NoCoreTakenStep ==
    ASSUME TypeOK, NoCoreTaken, "acquire_core" \notin Api, [Next]_vars
    PROVE  NoCoreTaken'
<1> USE DEF NoCoreTaken
<1>0. free_cores \in Nat /\ total_cores \in Nat
  BY KernelAssumption DEF TypeOK, KernelTypeOK
<1>1. \/ UNCHANGED free_cores
      \/ \E p \in Pid : Minimize(p) \/ Interrupt(p)
      \/ AcquireCore
  <2>1. ASSUME NEW p \in Pid, MenuStep(p) \/ TaskStep(p) PROVE UNCHANGED free_cores \/ Minimize(p)
    BY <2>1 DEF MenuStep, TaskStep, BootDaemon, Launch, Resume, Exit, LastReap, ChildStep, Die,
                Sigchld, HandlerSticks, Listen, Reclaim, kernel
  <2>2. ASSUME NEW p \in Pid, IpcStep(p) \/ ApiStep(p) \/ Unblock(p)
        PROVE  UNCHANGED free_cores \/ Interrupt(p)
    BY <2>2 DEF IpcStep, ApiStep, Grant, Deny, Register, SetPriority, UpdateState, Unblock, kernel
  <2>3. ASSUME ThreadStep \/ Shutdown PROVE UNCHANGED free_cores
    BY <2>3 DEF ThreadStep, SchedulerStep, Dispatch, SchedulerPauses, SchedulerWaits, Age,
                Shutdown, kernel
  <2> QED
    BY <2>1, <2>2, <2>3 DEF Next, vars, kernel
<1>2. ASSUME NEW p \in Pid, Minimize(p) \/ Interrupt(p)
      PROVE  free_cores' = free_cores \/ free_cores' = free_cores + 1
  BY <1>2 DEF Minimize, ForegroundStops, ForegroundMisread, send_minimize, Interrupt,
              send_interrupt, GiveCoreBack, release_core
<1>3. ~AcquireCore
  BY DEF AcquireCore, Call
<1> QED
  BY <1>0, <1>1, <1>2, <1>3

LEMMA CoreZeroStep ==
    ASSUME TypeOK, NoCoreTaken, OnlyCoreZero, "update_state" \notin Api, [Next]_vars
    PROVE  OnlyCoreZero'
<1> SUFFICES ASSUME NEW i \in 1..Len(pcb_table'), pcb_table'[i].core_id # -1
             PROVE  pcb_table'[i].state = "RUNNING" /\ pcb_table'[i].core_id = 0
  BY DEF OnlyCoreZero, pcb_count
<1>1. ASSUME NEW j \in 1..pcb_count, Became(pcb_table[j], pcb_table'[i])
      PROVE  pcb_table'[i].state = "RUNNING" /\ pcb_table'[i].core_id = 0
  <2> DEFINE r == pcb_table[j]
             s == pcb_table'[i]
  <2>1. r \in Process
    BY TableSize
  <2>2. r.core_id # -1 => r.state = "RUNNING" /\ r.core_id = 0
    BY DEF OnlyCoreZero
  <2>3. Became(r, s) /\ s.core_id # -1
    BY <1>1
  <2>4. AssignedCore = 0 \/ AssignedCore = -1
    BY KernelAssumption DEF AssignedCore, NoCoreTaken, TypeOK, KernelTypeOK
  <2>5. Aged(r).state = r.state /\ Aged(r).core_id = r.core_id
    BY <2>1, AgedKeeps
  <2> HIDE DEF r, s
  <2>6. s.state = "RUNNING" /\ s.core_id = 0
    BY <2>1, <2>2, <2>3, <2>4, <2>5 DEF Became, Process
  <2> QED
    BY <2>6 DEF s
<1>2. ASSUME NEW p \in Pid, pcb_table'[i] = NewPcb(p) PROVE FALSE
  BY <1>2 DEF NewPcb, NewProcess
<1> QED
  BY <1>1, <1>2, SlotOrigins

\* In the program as it ships (nothing in it calls acquire_core or update_state) the only core
\* number that a PCB ever shows is 0, whatever the number of cores: cores are never assigned.
THEOREM OneCoreOnly == Api \cap {"acquire_core", "update_state"} = {} /\ Spec => []OnlyCoreZero
<1> SUFFICES ASSUME Api \cap {"acquire_core", "update_state"} = {} PROVE Spec => []OnlyCoreZero
  OBVIOUS
<1>0. "acquire_core" \notin Api /\ "update_state" \notin Api
  OBVIOUS
<1>1. Init => NoCoreTaken /\ OnlyCoreZero
  <2>1. Init => free_cores = total_cores /\ pcb_count = 0
    BY EmptySeq DEF Init, KernelInit, pcb_count
  <2> QED
    BY <2>1, KernelAssumption DEF NoCoreTaken, OnlyCoreZero
<1>2. TypeOK /\ NoCoreTaken /\ OnlyCoreZero /\ [Next]_vars => NoCoreTaken' /\ OnlyCoreZero'
  BY <1>0, NoCoreTakenStep, CoreZeroStep
<1> QED
  BY <1>1, <1>2, TypeCorrect, PTL DEF Spec

(***************************************************************************)
(* States and priorities.                                                  *)
(***************************************************************************)
\* Only send_interrupt and update_state block a process.
NoneBlocked == \A i \in 1..pcb_count : pcb_table[i].state # "BLOCKED"

LEMMA NoneBlockedStep ==
    ASSUME TypeOK, NoneBlocked, Api \cap {"send_interrupt", "update_state"} = {}, [Next]_vars
    PROVE  NoneBlocked'
<1> SUFFICES ASSUME NEW i \in 1..Len(pcb_table')
             PROVE  pcb_table'[i].state # "BLOCKED"
  BY DEF NoneBlocked, pcb_count
<1>1. ASSUME NEW j \in 1..pcb_count, Became(pcb_table[j], pcb_table'[i])
      PROVE  pcb_table'[i].state # "BLOCKED"
  <2>1. pcb_table[j] \in Process /\ pcb_table[j].state # "BLOCKED"
    BY TableSize DEF NoneBlocked
  <2>2. Aged(pcb_table[j]).state = pcb_table[j].state
    BY <2>1, AgedKeeps
  <2> QED
    BY <1>1, <2>1, <2>2 DEF Became, Process
<1>2. ASSUME NEW p \in Pid, pcb_table'[i] = NewPcb(p) PROVE pcb_table'[i].state # "BLOCKED"
  BY <1>2 DEF NewPcb, NewProcess
<1> QED
  BY <1>1, <1>2, SlotOrigins

\* Whoever is in queue_Q0 has the most urgent priority: the system's daemons start with it,
\* and everybody else has had to age down to it.
SystemIsMostUrgent ==
    \A i \in 1..pcb_count : pcb_table[i].queue_level = QUEUE_SYSTEM => pcb_table[i].priority = 0

LEMMA SystemIsMostUrgentStep ==
    ASSUME TypeOK, SystemIsMostUrgent, DEFAULT_PRIORITY_Q0 = 0, "set_process_priority" \notin Api,
           [Next]_vars
    PROVE  SystemIsMostUrgent'
<1> SUFFICES ASSUME NEW i \in 1..Len(pcb_table'), pcb_table'[i].queue_level = QUEUE_SYSTEM
             PROVE  pcb_table'[i].priority = 0
  BY DEF SystemIsMostUrgent, pcb_count
<1>1. ASSUME NEW j \in 1..pcb_count, Became(pcb_table[j], pcb_table'[i])
      PROVE  pcb_table'[i].priority = 0
  <2> DEFINE r == pcb_table[j]
  <2>1. r \in Process /\ (r.queue_level = QUEUE_SYSTEM => r.priority = 0)
    BY TableSize DEF SystemIsMostUrgent
  <2>2. CASE pcb_table'[i] = Aged(r)
    <3> HIDE DEF r
    <3>1. r.queue_level \in Level /\ r.priority \in Nat
      BY <2>1, KernelAssumption DEF Process
    <3> DEFINE wait == (r.wait_time + 1) % AGING_INTERVAL
               priority == IF r.priority > 0 THEN r.priority - 1 ELSE r.priority
    <3>2. \/ Aged(r) = r
          \/ Aged(r) = [r EXCEPT !.wait_time = wait]
          \/ /\ r.queue_level # QUEUE_SYSTEM
             /\ Aged(r) = [r EXCEPT !.wait_time = 0, !.priority = priority,
                                    !.queue_level = Promoted(r.queue_level, priority)]
      BY DEF Aged
    <3> HIDE DEF wait, priority
    <3>3. r.queue_level # QUEUE_SYSTEM /\ Promoted(r.queue_level, priority) = QUEUE_SYSTEM
              => priority = 0
      BY <3>1 DEF Promoted, Level, QUEUE_SYSTEM, QUEUE_INTERACTIVE, QUEUE_BACKGROUND
    <3> QED
      BY <2>1, <2>2, <3>2, <3>3 DEF Process
  <2>3. CASE pcb_table'[i] # Aged(r)
    <3> HIDE DEF r
    <3> QED
      BY <1>1, <2>1, <2>3 DEF Became, Process, r
  <2> QED
    BY <2>2, <2>3
<1>2. ASSUME NEW p \in Pid, pcb_table'[i] = NewPcb(p) PROVE pcb_table'[i].priority = 0
  <2> DEFINE l == get_queue_level(task_name[p])
  <2>1. pcb_table'[i].queue_level = l /\ pcb_table'[i].priority = default_priority[l]
    BY <1>2 DEF NewPcb, NewProcess
  <2>2. l = QUEUE_SYSTEM
    BY <2>1
  <2>3. default_priority[QUEUE_SYSTEM] = DEFAULT_PRIORITY_Q0
    BY DEF default_priority, Level, QUEUE_SYSTEM, QUEUE_INTERACTIVE, QUEUE_BACKGROUND
  <2> QED
    BY <2>1, <2>2, <2>3
<1> QED
  BY <1>1, <1>2, SlotOrigins

-----------------------------------------------------------------------------
(* The run queues *)

(***************************************************************************)
(* A new last slot goes behind those its level already has.                *)
(***************************************************************************)
LEMMA LevelFits ==
    ASSUME NEW m \in Nat, NEW S \in SUBSET (1..m)
    PROVE  Cardinality(S) \in Nat /\ Cardinality(S) <= m
<1>1. IsFiniteSet(1..m) /\ Cardinality(1..m) = m
  BY FS_Interval
<1>2. Cardinality(S) <= Cardinality(1..m)
  BY <1>1, FS_Subset
<1> QED
  BY <1>1, <1>2, SlotsAreFinite

LEMMA NewSlotIsLast ==
    ASSUME NEW m \in Nat, NEW S \in SUBSET (1..m)
    PROVE  /\ Cardinality(S \union {m + 1}) = Cardinality(S) + 1
           /\ InTableOrder(S \union {m + 1}) = Append(InTableOrder(S), m + 1)
<1> DEFINE T == S \union {m + 1}
           c == Cardinality(S)
<1>1. IsFiniteSet(S) /\ c \in Nat
  BY SlotsAreFinite
<1>2. m + 1 \notin S
  <2>1. m + 1 \notin 1..m
    OBVIOUS
  <2> QED
    BY <2>1
<1>3. Cardinality(T) = c + 1
  BY <1>1, <1>2, FS_AddElement
<1>4. T \in SUBSET (1..(m + 1)) /\ m + 1 \in Nat
  <2>1. \A k \in 1..m : k \in 1..(m + 1)
    OBVIOUS
  <2>2. m + 1 \in 1..(m + 1)
    OBVIOUS
  <2> QED
    BY <2>1, <2>2
<1>5. ASSUME NEW i \in S
      PROVE  Rank(T, i) = Rank(S, i)
  <2>1. i \in 1..m
    OBVIOUS
  <2>2. {j \in T : j <= i} = {j \in S : j <= i}
    BY <2>1
  <2> QED
    BY <2>2 DEF Rank
<1>6. Rank(T, m + 1) = c + 1
  <2>1. \A j \in T : j <= m + 1
    BY <1>4
  <2>2. {j \in T : j <= m + 1} = T
    BY <2>1
  <2> QED
    BY <1>3, <2>2 DEF Rank
<1> DEFINE q == InTableOrder(S)
           r == InTableOrder(T)
<1>7. q \in Seq(S) /\ Len(q) = c
  BY InTableOrderIsSorted
<1>8. r \in Seq(T) /\ Len(r) = c + 1
  BY <1>3, <1>4, InTableOrderIsSorted
<1>9. ASSUME NEW n \in 1..c
      PROVE  r[n] = q[n]
  <2>1. n \in 1..Cardinality(T)
    BY <1>1, <1>3
  <2>2. q[n] \in S /\ Rank(S, q[n]) = n
    <3>1. \E i \in S : Rank(S, i) = n
      BY RankSurjective
    <3> QED
      BY <3>1 DEF InTableOrder
  <2>3. r[n] \in T /\ Rank(T, r[n]) = n
    <3>1. \E i \in T : Rank(T, i) = n
      BY <1>4, <2>1, RankSurjective
    <3> QED
      BY <2>1, <3>1 DEF InTableOrder
  <2>4. q[n] \in T /\ Rank(T, q[n]) = Rank(T, r[n])
    BY <1>5, <2>2, <2>3
  <2> HIDE DEF T, q, r
  <2> QED
    BY <1>4, <2>3, <2>4, RankInjective
<1>10. r[c + 1] = m + 1
  <2>1. c + 1 \in 1..Cardinality(T)
    BY <1>1, <1>3
  <2>2. r[c + 1] \in T /\ Rank(T, r[c + 1]) = c + 1
    <3>1. \E i \in T : Rank(T, i) = c + 1
      BY <1>6
    <3> QED
      BY <2>1, <3>1 DEF InTableOrder
  <2>3. m + 1 \in T /\ Rank(T, m + 1) = Rank(T, r[c + 1])
    BY <1>6, <2>2
  <2> HIDE DEF T, q, r
  <2> QED
    BY <1>4, <2>2, <2>3, RankInjective
<1>11. r = Append(q, m + 1)
  <2> HIDE DEF q, r, c
  <2>1. Append(q, m + 1) = [n \in 1..(c + 1) |-> IF n = c + 1 THEN m + 1 ELSE q[n]]
    BY <1>1, <1>7
  <2>2. r = [n \in 1..(c + 1) |-> r[n]]
    BY <1>1, <1>8
  <2>3. ASSUME NEW n \in 1..(c + 1)
        PROVE  r[n] = IF n = c + 1 THEN m + 1 ELSE q[n]
    <3>1. n = c + 1 \/ n \in 1..c
      BY <1>1
    <3>2. n \in 1..c => n # c + 1
      BY <1>1
    <3> QED
      BY <1>9, <1>10, <3>1, <3>2
  <2> QED
    BY <2>1, <2>2, <2>3
<1> QED
  BY <1>3, <1>11

(***************************************************************************)
(* What a step can do to the table and the queues.                         *)
(***************************************************************************)
LEMMA AgingQueues ==
    ASSUME TypeOK, AgingTick
    PROVE  \/ SameTable /\ UNCHANGED queues
           \/ queues' = RebuiltQueues(pcb_table')
<1>1. CASE \E i \in 1..pcb_count : pcb_table'[i].queue_level # pcb_table[i].queue_level
  BY <1>1 DEF AgingTick
<1>2. CASE \A i \in 1..pcb_count : pcb_table'[i].queue_level = pcb_table[i].queue_level
  <2>1. Len(pcb_table') = pcb_count
        /\ \A i \in 1..pcb_count : pcb_table'[i] = Aged(pcb_table[i])
    BY AgingTickType
  <2>2. ASSUME NEW p \in Process
        PROVE  /\ Aged(p).pid = p.pid
               /\ Aged(p).ram_alloc = p.ram_alloc
               /\ Aged(p).hdd_alloc = p.hdd_alloc
    BY AgedType DEF Process
  <2>3. \A i \in 1..pcb_count : /\ pcb_table'[i].pid = pcb_table[i].pid
                                /\ pcb_table'[i].ram_alloc = pcb_table[i].ram_alloc
                                /\ pcb_table'[i].hdd_alloc = pcb_table[i].hdd_alloc
    BY <2>1, <2>2, TableSize
  <2>4. UNCHANGED queues
    BY <1>2 DEF AgingTick
  <2> QED
    BY <1>2, <2>1, <2>3, <2>4 DEF SameTable
<1> QED
  BY <1>1, <1>2

LEMMA RemovePcbQueues ==
    ASSUME TypeOK, NEW p \in Pid, remove_pcb(p)
    PROVE  \/ SameTable /\ UNCHANGED queues
           \/ queues' = RebuiltQueues(pcb_table')
  BY TableSize DEF remove_pcb, SameTable, pcb_count

LEMMA QueueSteps ==
    ASSUME TypeOK, [Next]_vars
    PROVE  \/ SameTable /\ UNCHANGED queues
           \/ queues' = RebuiltQueues(pcb_table')
           \/ \E p \in Pid : \E l \in Level : \E priority \in 0..MAX_PRIORITY :
                  create_pcb(p, l, priority)
           \/ SameTable /\ DispatchQ1
<1> DEFINE Goal == \/ SameTable /\ UNCHANGED queues
                   \/ queues' = RebuiltQueues(pcb_table')
                   \/ \E p \in Pid : \E l \in Level : \E priority \in 0..MAX_PRIORITY :
                          create_pcb(p, l, priority)
                   \/ SameTable /\ DispatchQ1
<1>0. UNCHANGED <<pcb_table, queues>> => Goal
  BY TableSize DEF SameTable, pcb_count
<1>1. ASSUME NEW p \in Pid, BootDaemon(p) \/ Launch(p) \/ LastReap(p) \/ HandlerSticks(p)
      PROVE  Goal
  BY <1>0, <1>1 DEF BootDaemon, Launch, LastReap, HandlerSticks, kernel
<1>2. ASSUME NEW p \in Pid, Resume(p) PROVE Goal
  BY <1>2, SendResumeType DEF Resume, manage_foreground
<1>3. ASSUME NEW p \in Pid, Minimize(p) PROVE Goal
  BY <1>3, SendMinimizeType DEF Minimize, ForegroundStops, ForegroundMisread
<1>4. ASSUME NEW p \in Pid, Exit(p) \/ Sigchld(p) \/ Listen(p) PROVE Goal
  BY <1>4, RemovePcbQueues DEF Exit, ForegroundExits, Sigchld, sigchld_handler, Listen, ReadNotice
<1>5. ASSUME NEW p \in Pid, ChildStep(p) \/ Die(p) \/ Deny(p) PROVE Goal
  BY <1>0, <1>5 DEF ChildStep, Die, Deny, kernel
<1>6. ASSUME NEW p \in Pid, Grant(p) \/ Reclaim(p) PROVE Goal
  BY <1>0, <1>6 DEF Grant, Reclaim, table
<1>7. ASSUME NEW p \in Pid, Register(p) PROVE Goal
  <2> DEFINE l == get_queue_level(task_name[p])
  <2>1. l \in Level
    BY DEF get_queue_level, Level
  <2>2. default_priority[l] \in 0..MAX_PRIORITY
    BY <2>1, KernelAssumption
  <2>3. create_pcb(p, l, default_priority[l])
    BY <1>7 DEF Register, RegisterChild
  <2> QED
    BY <2>1, <2>2, <2>3
<1>8. ASSUME Dispatch PROVE Goal
  <2>1. CASE DispatchQ0
    BY <2>1, FirstReadyProperties, DispatchProcessType DEF DispatchQ0, Level
  <2>2. CASE DispatchQ1
    <3>1. SameTable
      BY <2>2, FirstReadyProperties, DispatchProcessType DEF DispatchQ1, Level
    <3> QED
      BY <2>2, <3>1
  <2>3. CASE DispatchQ2
    BY <2>3, FirstReadyProperties, DispatchProcessType DEF DispatchQ2, Level
  <2> QED
    BY <1>8, <2>1, <2>2, <2>3 DEF Dispatch
<1>9. ASSUME SchedulerPauses \/ SchedulerWaits \/ AcquireCore \/ Shutdown PROVE Goal
  BY <1>0, <1>9 DEF SchedulerPauses, SchedulerWaits, AcquireCore, Shutdown, kernel, table
<1>10. ASSUME Age PROVE Goal
  BY <1>10, AgingQueues DEF Age
<1>11. ASSUME NEW p \in Pid, Unblock(p) PROVE Goal
  BY <1>11, UnblockType DEF Unblock
<1>12. ASSUME NEW p \in Pid, Interrupt(p) PROVE Goal
  BY <1>12, SendInterruptType DEF Interrupt
<1>13. ASSUME NEW p \in Pid, SetPriority(p) PROVE Goal
  <2>1. PICK priority \in {-1, 0, 1, MAX_PRIORITY + 1} : set_process_priority(p, priority)
    BY <1>13 DEF SetPriority
  <2>2. priority \in Int
    BY KernelAssumption
  <2> QED
    BY <1>13, <2>1, <2>2, SetPriorityType DEF SetPriority
<1>14. ASSUME NEW p \in Pid, UpdateState(p) PROVE Goal
  BY <1>14, UpdateStateType DEF UpdateState
<1>15. ASSUME UNCHANGED vars PROVE Goal
  BY <1>0, <1>15 DEF vars, kernel
<1> HIDE DEF Goal
<1>16. Goal
  BY <1>1, <1>2, <1>3, <1>4, <1>5, <1>6, <1>7, <1>8, <1>9, <1>10, <1>11, <1>12, <1>13, <1>14,
     <1>15 DEF Next, MenuStep, TaskStep, IpcStep, ApiStep, ThreadStep, SchedulerStep
<1> QED
  BY <1>16 DEF Goal

(***************************************************************************)
(* The queues match the table.                                             *)
(***************************************************************************)
LEMMA SameTableLevels ==
    ASSUME SameTable
    PROVE  \A l \in Level : LevelSlots(pcb_table', l) = LevelSlots(pcb_table, l)
  BY DEF SameTable, LevelSlots, pcb_count

LEMMA LevelSlotsSubset ==
    ASSUME TypeOK, NEW l \in Level
    PROVE  /\ LevelSlots(pcb_table, l) \in SUBSET (1..pcb_count)
           /\ pcb_count \in Nat
  BY TableSize DEF LevelSlots, pcb_count

LEMMA CreatePcbLevels ==
    ASSUME TypeOK, NEW p \in Pid, NEW l \in Level, NEW priority, create_pcb(p, l, priority),
           pcb_count < MAX_PROCESSES
    PROVE  /\ LevelSlots(pcb_table', l) = LevelSlots(pcb_table, l) \union {pcb_count + 1}
           /\ \A k \in Level \ {l} : LevelSlots(pcb_table', k) = LevelSlots(pcb_table, k)
<1>1. pcb_table' = Append(pcb_table, NewProcess(p, l, priority))
  BY DEF create_pcb
<1>2. /\ Len(pcb_table') = pcb_count + 1 /\ pcb_count \in Nat
      /\ \A i \in 1..pcb_count : pcb_table'[i] = pcb_table[i]
      /\ pcb_table'[pcb_count + 1].queue_level = l
  BY <1>1, TableSize DEF TypeOK, KernelTypeOK, pcb_count, NewProcess
<1>3. 1..(pcb_count + 1) = (1..pcb_count) \union {pcb_count + 1}
  BY <1>2
<1>4. ASSUME NEW k \in Level
      PROVE  LevelSlots(pcb_table', k)
                 = LevelSlots(pcb_table, k) \union (IF k = l THEN {pcb_count + 1} ELSE {})
  BY <1>2, <1>3 DEF LevelSlots, pcb_count
<1> QED
  BY <1>4

LEMMA QueuesMatchTableStep == TypeOK /\ QueuesMatchTable /\ [Next]_vars => QueuesMatchTable'
<1> SUFFICES ASSUME TypeOK, QueuesMatchTable, [Next]_vars
             PROVE  QueuesMatchTable'
  OBVIOUS
<1>0. TypeOK'
  BY TypeStep
<1>1. CASE SameTable /\ UNCHANGED queues
  BY <1>1, SameTableLevels DEF QueuesMatchTable
<1>2. CASE queues' = RebuiltQueues(pcb_table')
  <2>1. pcb_table' \in Seq(Process) /\ Len(pcb_table') <= MAX_PROCESSES
    BY <1>0 DEF TypeOK, KernelTypeOK, pcb_count
  <2>2. ASSUME NEW l \in Level
        PROVE  /\ queues'[l] \in Seq(LevelSlots(pcb_table', l))
               /\ Len(queues'[l]) = Cardinality(LevelSlots(pcb_table', l))
    BY <1>2, <2>1, RebuiltQueuesProperties
  <2> QED
    BY <2>2, ElementOfSeq, LenProperties DEF QueuesMatchTable
<1>3. ASSUME NEW p \in Pid, NEW l \in Level, NEW priority \in 0..MAX_PRIORITY,
             create_pcb(p, l, priority)
      PROVE  QueuesMatchTable'
  <2>1. CASE ~(pcb_count < MAX_PROCESSES)
    BY <1>3, <2>1 DEF create_pcb, QueuesMatchTable
  <2>2. CASE pcb_count < MAX_PROCESSES
    <3> DEFINE S == LevelSlots(pcb_table, l)
    <3>1. S \in SUBSET (1..pcb_count) /\ pcb_count \in Nat
      BY LevelSlotsSubset
    <3>2. Len(queues[l]) = Cardinality(S) /\ Cardinality(S) <= pcb_count
          /\ Cardinality(S) \in Nat
      BY <3>1, LevelFits DEF QueuesMatchTable
    <3>3. queues' = [queues EXCEPT ![l] = Append(@, pcb_count + 1)]
      BY <1>3, <2>2, <3>2, TableSize DEF create_pcb, push
    <3>4. queues \in [Level -> Seq(1..MAX_PROCESSES)]
      BY DEF TypeOK, KernelTypeOK
    <3>5. /\ LevelSlots(pcb_table', l) = S \union {pcb_count + 1}
          /\ \A k \in Level \ {l} : LevelSlots(pcb_table', k) = LevelSlots(pcb_table, k)
      BY <1>3, <2>2, CreatePcbLevels
    <3>6. ASSUME NEW k \in Level \ {l}
          PROVE  /\ Len(queues'[k]) = Cardinality(LevelSlots(pcb_table', k))
                 /\ \A n \in DOMAIN queues'[k] : queues'[k][n] \in LevelSlots(pcb_table', k)
      BY <3>3, <3>4, <3>5 DEF QueuesMatchTable
    <3>7. queues'[l] = Append(queues[l], pcb_count + 1)
      BY <3>3, <3>4
    <3> DEFINE q == queues[l]
               last == pcb_count + 1
    <3>8. /\ Len(q) \in Nat /\ DOMAIN q = 1..Len(q)
          /\ \A n \in 1..Len(q) : q[n] \in S
      BY <3>4, LenProperties DEF QueuesMatchTable
    <3> HIDE DEF q, S, last
    <3>9. /\ Len(Append(q, last)) = Len(q) + 1
          /\ DOMAIN Append(q, last) = 1..(Len(q) + 1)
          /\ \A n \in 1..(Len(q) + 1) : Append(q, last)[n] = IF n = Len(q) + 1 THEN last ELSE q[n]
      <4>1. q \in Seq(S)
        <5>1. q \in Seq(1..MAX_PROCESSES)
          BY <3>4 DEF q
        <5>2. q = [n \in 1..Len(q) |-> q[n]]
          BY <5>1
        <5> QED
          BY <3>8, <5>2
      <4> DEFINE T == S \union {last}
      <4>2. q \in Seq(T) /\ last \in T
        BY <4>1, SeqOfSubset
      <4> HIDE DEF T
      <4>3. /\ Append(q, last) \in Seq(T)
            /\ Len(Append(q, last)) = Len(q) + 1
            /\ \A n \in 1..Len(q) : Append(q, last)[n] = q[n]
            /\ Append(q, last)[Len(q) + 1] = last
        BY <4>2, AppendProperties
      <4>4. DOMAIN Append(q, last) = 1..(Len(q) + 1)
        BY <4>3, LenProperties
      <4>5. \A n \in 1..(Len(q) + 1) : n = Len(q) + 1 \/ n \in 1..Len(q)
        BY <3>8
      <4> QED
        BY <4>3, <4>4, <4>5
    <3>10. Cardinality(S \union {last}) = Cardinality(S) + 1
      BY <3>1, NewSlotIsLast DEF last
    <3>11. \A n \in DOMAIN Append(q, last) : Append(q, last)[n] \in S \union {last}
      BY <3>8, <3>9
    <3>12. /\ Len(queues'[l]) = Cardinality(LevelSlots(pcb_table', l))
           /\ \A n \in DOMAIN queues'[l] : queues'[l][n] \in LevelSlots(pcb_table', l)
      BY <3>2, <3>5, <3>7, <3>9, <3>10, <3>11 DEF q, last
    <3> QED
      BY <3>6, <3>12 DEF QueuesMatchTable
  <2> QED
    BY <2>1, <2>2
<1>4. CASE SameTable /\ DispatchQ1
  <2> DEFINE q == queues[QUEUE_INTERACTIVE]
             S == LevelSlots(pcb_table, QUEUE_INTERACTIVE)
  <2>0. QUEUE_INTERACTIVE \in Level
    BY DEF Level
  <2>1. /\ Len(q) = Cardinality(S) /\ S \in SUBSET (1..pcb_count) /\ pcb_count \in Nat
    BY <2>0, LevelSlotsSubset DEF QueuesMatchTable
  <2>2. Len(q) <= MAX_PROCESSES /\ Len(q) \in Nat
    BY <2>1, LevelFits, TableSize
  <2>3. /\ \A l \in Level \ {QUEUE_INTERACTIVE} : queues'[l] = queues[l]
        /\ Len(queues'[QUEUE_INTERACTIVE]) = Len(q)
        /\ \A n \in 1..Len(q) : queues'[QUEUE_INTERACTIVE][n] =
               IF n < Len(q) THEN q[n + 1] ELSE FirstReady(QUEUE_INTERACTIVE)
    BY <1>4, <2>2, DispatchQ1Queue
  <2>4. \A n \in 1..Len(q) : q[n] \in S
    <3>1. DOMAIN q = 1..Len(q)
      BY <2>0, LenProperties DEF TypeOK, KernelTypeOK
    <3> QED
      BY <2>0, <3>1 DEF QueuesMatchTable
  <2>5. FirstReady(QUEUE_INTERACTIVE) \in S
    <3>1. \E n \in 1..Len(q) : FirstReady(QUEUE_INTERACTIVE) = q[n]
      BY <1>4, <2>0, FirstReadyProperties DEF DispatchQ1
    <3> QED
      BY <2>4, <3>1
  <2>6. DOMAIN queues'[QUEUE_INTERACTIVE] = 1..Len(q)
    BY <1>0, <2>0, <2>3, LenProperties DEF TypeOK, KernelTypeOK
  <2>7. \A l \in Level : LevelSlots(pcb_table', l) = LevelSlots(pcb_table, l)
    BY <1>4, SameTableLevels
  <2> HIDE DEF q, S
  <2>8. \A n \in 1..Len(q) : queues'[QUEUE_INTERACTIVE][n] \in S
    BY <2>2, <2>3, <2>4, <2>5
  <2>9. ASSUME NEW l \in Level \ {QUEUE_INTERACTIVE}
        PROVE  /\ Len(queues'[l]) = Cardinality(LevelSlots(pcb_table', l))
               /\ \A n \in DOMAIN queues'[l] : queues'[l][n] \in LevelSlots(pcb_table', l)
    BY <2>3, <2>7 DEF QueuesMatchTable
  <2>10. /\ Len(queues'[QUEUE_INTERACTIVE])
                = Cardinality(LevelSlots(pcb_table', QUEUE_INTERACTIVE))
         /\ \A n \in DOMAIN queues'[QUEUE_INTERACTIVE] :
                queues'[QUEUE_INTERACTIVE][n] \in LevelSlots(pcb_table', QUEUE_INTERACTIVE)
    BY <2>0, <2>1, <2>3, <2>6, <2>7, <2>8 DEF S
  <2> QED
    BY <2>9, <2>10 DEF QueuesMatchTable
<1> QED
  BY <1>1, <1>2, <1>3, <1>4, QueueSteps

\* Whatever children do and however the steps of the threads interleave, every
\* entry of a run queue is the slot of a process of its level, and there are as
\* many entries as such processes.
THEOREM QueuesMatch == Spec => []QueuesMatchTable
<1>1. Init => QueuesMatchTable
  <2> SUFFICES ASSUME Init, NEW l \in Level
               PROVE  /\ Len(queues[l]) = Cardinality(LevelSlots(pcb_table, l))
                      /\ \A n \in DOMAIN queues[l] : queues[l][n] \in LevelSlots(pcb_table, l)
    BY DEF QueuesMatchTable
  <2>1. pcb_table = <<>> /\ queues[l] = <<>>
    BY DEF Init, KernelInit
  <2>2. LevelSlots(pcb_table, l) = {}
    BY <2>1, EmptySeq DEF LevelSlots
  <2>3. Len(queues[l]) = 0 /\ DOMAIN queues[l] = {}
    BY <2>1, EmptySeq
  <2> QED
    BY <2>2, <2>3, FS_EmptySet
<1>2. TypeOK /\ QueuesMatchTable /\ [Next]_vars => QueuesMatchTable'
  BY QueuesMatchTableStep
<1> QED
  BY <1>1, <1>2, TypeCorrect, PTL DEF Spec

(***************************************************************************)
(* The two queues served first come, first served: a queue's last entry is *)
(* always the newest, because a process never changes its place in the     *)
(* table without every queue being rebuilt.                                *)
(***************************************************************************)
LEMMA FcfsStep == TypeOK /\ QueuesMatchTable /\ FcfsQueuesExact /\ [Next]_vars => FcfsQueuesExact'
<1> DEFINE Fcfs == {QUEUE_SYSTEM, QUEUE_BACKGROUND}
<1> SUFFICES ASSUME TypeOK, QueuesMatchTable, FcfsQueuesExact, [Next]_vars, NEW k \in Fcfs
             PROVE  queues'[k] = InTableOrder(LevelSlots(pcb_table', k))
  BY DEF FcfsQueuesExact
<1>0. /\ k \in Level /\ k # QUEUE_INTERACTIVE
      /\ queues[k] = InTableOrder(LevelSlots(pcb_table, k))
  BY DEF Level, QUEUE_SYSTEM, QUEUE_INTERACTIVE, QUEUE_BACKGROUND, FcfsQueuesExact
<1>1. CASE SameTable /\ UNCHANGED queues
  BY <1>0, <1>1, SameTableLevels
<1>2. CASE queues' = RebuiltQueues(pcb_table')
  BY <1>0, <1>2 DEF RebuiltQueues
<1>3. ASSUME NEW p \in Pid, NEW l \in Level, NEW priority \in 0..MAX_PRIORITY,
             create_pcb(p, l, priority)
      PROVE  queues'[k] = InTableOrder(LevelSlots(pcb_table', k))
  <2>1. CASE ~(pcb_count < MAX_PROCESSES)
    BY <1>0, <1>3, <2>1 DEF create_pcb
  <2>2. CASE pcb_count < MAX_PROCESSES
    <3>1. /\ LevelSlots(pcb_table', l) = LevelSlots(pcb_table, l) \union {pcb_count + 1}
          /\ \A j \in Level \ {l} : LevelSlots(pcb_table', j) = LevelSlots(pcb_table, j)
      BY <1>3, <2>2, CreatePcbLevels
    <3>2. /\ queues' = [queues EXCEPT ![l] = push(@, pcb_count + 1)]
          /\ queues \in [Level -> Seq(1..MAX_PROCESSES)]
      BY <1>3, <2>2 DEF create_pcb, TypeOK, KernelTypeOK
    <3>3. CASE k # l
      BY <1>0, <3>1, <3>2, <3>3
    <3>4. CASE k = l
      <4>1. LevelSlots(pcb_table, k) \in SUBSET (1..pcb_count) /\ pcb_count \in Nat
        BY <1>0, LevelSlotsSubset
      <4>2. Len(queues[k]) < MAX_PROCESSES
        <5>1. Len(queues[k]) = Cardinality(LevelSlots(pcb_table, k))
          BY <1>0 DEF QueuesMatchTable
        <5> QED
          BY <2>2, <4>1, <5>1, LevelFits, TableSize
      <4>3. queues'[k] = Append(queues[k], pcb_count + 1)
        BY <1>0, <3>2, <3>4, <4>2 DEF push
      <4> QED
        BY <1>0, <3>1, <3>4, <4>1, <4>3, NewSlotIsLast
    <3> QED
      BY <3>3, <3>4
  <2> QED
    BY <2>1, <2>2
<1>4. CASE SameTable /\ DispatchQ1
  <2>1. queues' = [queues EXCEPT ![QUEUE_INTERACTIVE] =
                       push(Tail(@), FirstReady(QUEUE_INTERACTIVE))]
        /\ queues \in [Level -> Seq(1..MAX_PROCESSES)]
    BY <1>4 DEF DispatchQ1, TypeOK, KernelTypeOK
  <2>2. queues'[k] = queues[k]
    BY <1>0, <2>1
  <2> QED
    BY <1>0, <1>4, <2>2, SameTableLevels
<1> QED
  BY <1>1, <1>2, <1>3, <1>4, QueueSteps

\* queue_Q0 and queue_Q2 hold exactly the processes of their level, in the order
\* in which these entered the table.
THEOREM FcfsExact == Spec => []FcfsQueuesExact
<1>1. Init => FcfsQueuesExact
  <2> SUFFICES ASSUME Init, NEW l \in Level
               PROVE  queues[l] = InTableOrder(LevelSlots(pcb_table, l))
    BY DEF FcfsQueuesExact, Level
  <2>1. pcb_table = <<>> /\ queues[l] = <<>>
    BY DEF Init, KernelInit
  <2>2. LevelSlots(pcb_table, l) = {}
    BY <2>1, EmptySeq DEF LevelSlots
  <2>3. {} \in SUBSET (1..0) /\ 0 \in Nat
    OBVIOUS
  <2>4. Len(InTableOrder({})) = 0 /\ InTableOrder({}) \in Seq({})
    BY <2>3, InTableOrderIsSorted, FS_EmptySet
  <2>5. InTableOrder({}) = <<>>
    BY <2>4, EmptySeq
  <2> QED
    BY <2>1, <2>2, <2>5
<1>2. TypeOK /\ QueuesMatchTable /\ FcfsQueuesExact /\ [Next]_vars => FcfsQueuesExact'
  BY FcfsStep
<1> QED
  BY <1>1, <1>2, TypeCorrect, QueuesMatch, PTL DEF Spec

(***************************************************************************)
(* A process that waits for the scheduler stands in the queue of its       *)
(* level.  DispatchQ1 drops the front of queue_Q1; if that one is READY it *)
(* is the very process that is dispatched.                                 *)
(***************************************************************************)
Queued(i) ==
    \E n \in DOMAIN queues[pcb_table[i].queue_level] : queues[pcb_table[i].queue_level][n] = i

LEMMA QueueDomain ==
    ASSUME TypeOK, NEW l \in Level
    PROVE  DOMAIN queues[l] = 1..Len(queues[l]) /\ Len(queues[l]) \in Nat
  BY LenProperties DEF TypeOK, KernelTypeOK

\* Unless somebody blocks or relabels processes, READY is what a new process is.
LEMMA ReadyWasReady ==
    ASSUME TypeOK, NoneBlocked, "update_state" \notin Api, EachBecame,
           NEW i \in 1..pcb_count, pcb_table'[i].state = "READY"
    PROVE  pcb_table[i].state = "READY"
<1> DEFINE r == pcb_table[i]
           s == pcb_table'[i]
<1>1. r \in Process /\ r.state # "BLOCKED" /\ Aged(r).state = r.state
  BY TableSize, AgedKeeps DEF NoneBlocked
<1>2. Became(r, s) /\ s.state = "READY"
  BY DEF EachBecame
<1> HIDE DEF r, s
<1>3. r.state = "READY"
  BY <1>1, <1>2 DEF Became, Process
<1> QED
  BY <1>3 DEF r

LEMMA ReadyIsQueuedStep ==
    ASSUME TypeOK, QueuesMatchTable, NoneBlocked, ReadyIsQueued,
           Api \cap {"send_interrupt", "update_state"} = {}, [Next]_vars
    PROVE  ReadyIsQueued'
<1> SUFFICES ASSUME NEW i \in 1..Len(pcb_table'), pcb_table'[i].state = "READY"
             PROVE  Queued(i)'
  BY DEF ReadyIsQueued, Queued, pcb_count
<1>0. TypeOK' /\ pcb_count' = Len(pcb_table') /\ i \in 1..pcb_count'
  BY TypeStep DEF pcb_count
<1> DEFINE k == pcb_table'[i].queue_level
<1>1. k \in Level /\ i \in LevelSlots(pcb_table', k)
  <2>1. pcb_table' \in Seq(Process)
    BY <1>0 DEF TypeOK, KernelTypeOK
  <2>2. pcb_table'[i] \in Process
    BY <2>1, ElementOfSeq
  <2> QED
    BY <2>2 DEF Process, LevelSlots
<1>2. CASE queues' = RebuiltQueues(pcb_table')
  <2> DEFINE S == LevelSlots(pcb_table', k)
  <2>1. S \in SUBSET (1..Len(pcb_table')) /\ Len(pcb_table') \in Nat
    BY <1>0, LevelSlotsSubset, TableSize DEF LevelSlots
  <2>2. queues'[k] = InTableOrder(S)
    BY <1>1, <1>2 DEF RebuiltQueues
  <2>3. \E n \in 1..Cardinality(S) : InTableOrder(S)[n] = i
    BY <1>1, <2>1, InTableOrderIsSorted
  <2>4. DOMAIN InTableOrder(S) = 1..Cardinality(S)
    BY DEF InTableOrder
  <2> QED
    BY <2>2, <2>3, <2>4 DEF Queued
<1>3. CASE SameTable /\ queues' # RebuiltQueues(pcb_table')
  <2>1. EachBecame
    <3>1. ASSUME NEW p \in Pid, RegisterChild(p) PROVE UNCHANGED pcb_table
      <4>1. \/ UNCHANGED pcb_table
            \/ \E r : pcb_table' = Append(pcb_table, r)
        BY <3>1 DEF RegisterChild, create_pcb
      <4>2. pcb_table \in Seq(Process)
        BY DEF TypeOK, KernelTypeOK
      <4>3. ~\E r : pcb_table' = Append(pcb_table, r)
        BY <1>3, <4>2, LenProperties DEF SameTable, pcb_count
      <4> QED
        BY <4>1, <4>3
    <3>2. ASSUME NEW p \in Pid, Removes(p) PROVE FALSE
      <4>1. FirstSlot(p) \in 1..pcb_count
        BY <3>2, TableSize, FirstSlotIsSlot DEF Removes, SlotsOf
      <4>2. Len(pcb_table') = pcb_count - 1
        BY <3>2, <4>1, RemoveAtProperties
           DEF Removes, remove_pcb, TypeOK, KernelTypeOK, pcb_count
      <4> QED
        BY <1>3, <4>2, TableSize DEF SameTable
    <3> QED
      BY <3>1, <3>2, NoneChanged, TableSteps
  <2>2. /\ i \in 1..pcb_count /\ pcb_table[i].queue_level = k
        /\ pcb_table[i].state = "READY"
    BY <1>3, <2>1, ReadyWasReady DEF SameTable
  <2>3. PICK n \in DOMAIN queues[k] : queues[k][n] = i
    BY <2>2 DEF ReadyIsQueued
  <2>4. CASE UNCHANGED queues
    BY <2>3, <2>4 DEF Queued
  <2>5. CASE DispatchQ1
    <3> DEFINE q == queues[QUEUE_INTERACTIVE]
               first == FirstReady(QUEUE_INTERACTIVE)
    <3>0. QUEUE_INTERACTIVE \in Level
      BY DEF Level
    <3>1. Len(q) <= MAX_PROCESSES
      <4>1. LevelSlots(pcb_table, QUEUE_INTERACTIVE) \in SUBSET (1..pcb_count)
        BY <3>0, LevelSlotsSubset
      <4> QED
        BY <3>0, <4>1, LevelFits, TableSize DEF QueuesMatchTable
    <3>2. /\ \A l \in Level \ {QUEUE_INTERACTIVE} : queues'[l] = queues[l]
          /\ Len(queues'[QUEUE_INTERACTIVE]) = Len(q)
          /\ \A m \in 1..Len(q) : queues'[QUEUE_INTERACTIVE][m] =
                 IF m < Len(q) THEN q[m + 1] ELSE first
      BY <2>5, <3>1, DispatchQ1Queue
    <3>3. CASE k # QUEUE_INTERACTIVE
      BY <1>1, <2>3, <3>2, <3>3 DEF Queued
    <3>4. CASE k = QUEUE_INTERACTIVE
      <4>1. DOMAIN q = 1..Len(q) /\ Len(q) \in Nat /\ n \in 1..Len(q) /\ q[n] = i
        BY <2>3, <3>0, <3>4, QueueDomain
      <4>2. DOMAIN queues'[k] = 1..Len(q)
        BY <1>0, <3>0, <3>2, <3>4, QueueDomain
      <4>3. CASE n > 1
        <5>1. n - 1 \in 1..Len(q) /\ n - 1 < Len(q) /\ (n - 1) + 1 = n
          BY <4>1, <4>3
        <5>2. queues'[k][n - 1] = i
          BY <3>2, <3>4, <4>1, <5>1
        <5> QED
          BY <4>2, <5>1, <5>2 DEF Queued
      <4>4. CASE n = 1
        <5>1. ReadyIn(QUEUE_INTERACTIVE) # {} /\ 1 \in ReadyIn(QUEUE_INTERACTIVE)
          BY <2>2, <4>1, <4>4 DEF ReadyIn
        <5>2. PICK m \in ReadyIn(QUEUE_INTERACTIVE) :
                  first = q[m] /\ \A o \in ReadyIn(QUEUE_INTERACTIVE) : m <= o
          BY <3>0, <5>1, FirstReadyIsLeast
        <5>3. m = 1
          BY <4>1, <5>1, <5>2 DEF ReadyIn
        <5>4. queues'[k][Len(q)] = i
          BY <3>2, <3>4, <4>1, <4>4, <5>2, <5>3
        <5> QED
          BY <4>1, <4>2, <5>4 DEF Queued
      <4> QED
        BY <4>1, <4>3, <4>4
    <3> QED
      BY <3>3, <3>4
  <2>6. CASE ~UNCHANGED queues /\ ~DispatchQ1
    <3>1. PICK p \in Pid, l \in Level, priority \in 0..MAX_PRIORITY : create_pcb(p, l, priority)
      BY <1>3, <2>6, QueueSteps
    <3>2. pcb_table' = Append(pcb_table, NewProcess(p, l, priority))
      BY <2>6, <3>1 DEF create_pcb
    <3>3. Len(pcb_table') = pcb_count + 1
      BY <3>2, LenProperties DEF TypeOK, KernelTypeOK, pcb_count
    <3> QED
      BY <1>3, <3>3, TableSize DEF SameTable
  <2> QED
    BY <2>4, <2>5, <2>6
<1>4. ASSUME NEW p \in Pid, NEW l \in Level, NEW priority \in 0..MAX_PRIORITY,
             create_pcb(p, l, priority), pcb_count < MAX_PROCESSES
      PROVE  Queued(i)'
  <2>1. /\ pcb_table' = Append(pcb_table, NewProcess(p, l, priority))
        /\ queues' = [queues EXCEPT ![l] = push(@, pcb_count + 1)]
    BY <1>4 DEF create_pcb
  <2>2. /\ Len(pcb_table') = pcb_count + 1 /\ pcb_count \in Nat
        /\ \A j \in 1..pcb_count : pcb_table'[j] = pcb_table[j]
        /\ pcb_table'[pcb_count + 1].queue_level = l
    BY <2>1, TableSize DEF TypeOK, KernelTypeOK, pcb_count, NewProcess
  <2>3. Len(queues[l]) < MAX_PROCESSES
    BY <1>4, LevelSlotsSubset, LevelFits, TableSize DEF QueuesMatchTable
  <2>4. queues' = [queues EXCEPT ![l] = Append(@, pcb_count + 1)]
    BY <2>1, <2>3 DEF push
  <2>5. queues \in [Level -> Seq(1..MAX_PROCESSES)]
    BY DEF TypeOK, KernelTypeOK
  <2>6. /\ queues'[l] = Append(queues[l], pcb_count + 1)
        /\ \A m \in Level \ {l} : queues'[m] = queues[m]
    BY <2>4, <2>5
  <2> DEFINE q == queues[l]
             last == pcb_count + 1
  <2>7. /\ DOMAIN Append(q, last) = 1..(Len(q) + 1) /\ Len(q) \in Nat /\ DOMAIN q = 1..Len(q)
        /\ \A n \in 1..Len(q) : Append(q, last)[n] = q[n]
        /\ Append(q, last)[Len(q) + 1] = last
    <3>1. q \in Seq(1..MAX_PROCESSES)
      BY <2>5
    <3>2. last \in 1..MAX_PROCESSES
      BY <1>4, <2>2, TableSize
    <3> HIDE DEF q, last
    <3>3. /\ Append(q, last) \in Seq(1..MAX_PROCESSES)
          /\ Len(Append(q, last)) = Len(q) + 1
          /\ \A n \in 1..Len(q) : Append(q, last)[n] = q[n]
          /\ Append(q, last)[Len(q) + 1] = last
      BY <3>1, <3>2, AppendProperties
    <3> QED
      BY <3>1, <3>3, LenProperties
  <2>8. CASE i = pcb_count + 1
    <3>1. k = l
      BY <2>2, <2>8
    <3>2. queues'[k][Len(q) + 1] = i /\ Len(q) + 1 \in DOMAIN queues'[k]
      BY <2>6, <2>7, <2>8, <3>1
    <3> QED
      BY <3>2 DEF Queued
  <2>9. CASE i \in 1..pcb_count
    <3>1. pcb_table[i].queue_level = k /\ pcb_table[i].state = "READY"
      BY <2>2, <2>9
    <3>2. PICK n \in DOMAIN queues[k] : queues[k][n] = i
      BY <2>9, <3>1 DEF ReadyIsQueued
    <3>3. CASE k # l
      BY <1>1, <2>6, <3>2, <3>3 DEF Queued
    <3>4. CASE k = l
      <4>1. n \in 1..Len(q) /\ n \in 1..(Len(q) + 1)
        BY <2>7, <3>2, <3>4
      <4>2. queues'[k][n] = i /\ n \in DOMAIN queues'[k]
        BY <2>6, <2>7, <3>2, <3>4, <4>1
      <4> QED
        BY <4>2 DEF Queued
    <3> QED
      BY <3>3, <3>4
  <2> QED
    BY <1>0, <2>2, <2>8, <2>9
<1>5. ASSUME NEW p \in Pid, NEW l \in Level, NEW priority \in 0..MAX_PRIORITY,
             create_pcb(p, l, priority), ~(pcb_count < MAX_PROCESSES)
      PROVE  Queued(i)'
  <2>1. UNCHANGED <<pcb_table, queues>>
    BY <1>5 DEF create_pcb
  <2> QED
    BY <2>1 DEF ReadyIsQueued, Queued, pcb_count
<1> QED
  BY <1>2, <1>3, <1>4, <1>5, QueueSteps

\* Without interrupts and update_state, which nothing in the repository calls, a process that
\* is READY is in its queue, although DispatchQ1 forgets processes that are not.
THEOREM ReadyAreQueued ==
    Api \cap {"send_interrupt", "update_state"} = {} /\ Spec => []ReadyIsQueued
<1> SUFFICES ASSUME Api \cap {"send_interrupt", "update_state"} = {}
             PROVE  Spec => []ReadyIsQueued
  OBVIOUS
<1>1. Init => NoneBlocked /\ ReadyIsQueued
  <2>1. Init => pcb_count = 0
    BY EmptySeq DEF Init, KernelInit, pcb_count
  <2> QED
    BY <2>1 DEF NoneBlocked, ReadyIsQueued
<1>2. TypeOK /\ QueuesMatchTable /\ NoneBlocked /\ ReadyIsQueued /\ [Next]_vars
          => NoneBlocked' /\ ReadyIsQueued'
  BY NoneBlockedStep, ReadyIsQueuedStep
<1> QED
  BY <1>1, <1>2, TypeCorrect, QueuesMatch, PTL DEF Spec

(***************************************************************************)
(* The process that is dispatched.                                         *)
(***************************************************************************)
LEMMA OnlyDispatchStartsQuantum ==
    ASSUME [Next]_vars, scheduler = "scan", scheduler' = "quantum"
    PROVE  Dispatch
<1>1. ASSUME NEW p \in Pid, MenuStep(p) \/ TaskStep(p) PROVE UNCHANGED scheduler
  BY <1>1 DEF MenuStep, TaskStep, BootDaemon, Launch, Resume, Minimize, Exit, LastReap, ChildStep,
              Die, Sigchld, HandlerSticks, Listen, Reclaim, threads
<1>2. ASSUME NEW p \in Pid, IpcStep(p) \/ ApiStep(p) \/ Unblock(p) PROVE UNCHANGED scheduler
  BY <1>2 DEF IpcStep, ApiStep, Grant, Deny, Register, Interrupt, SetPriority, UpdateState,
              Unblock, threads
<1>3. ASSUME Age \/ AcquireCore \/ Shutdown PROVE UNCHANGED scheduler
  BY <1>3 DEF Age, AcquireCore, Shutdown, threads
<1>4. ~(SchedulerPauses \/ SchedulerWaits)
  BY DEF SchedulerPauses, NothingToDispatch, QuantumOver, SchedulerWaits, StartWait, Woken, TimedOut
<1>5. ~UNCHANGED vars
  BY DEF vars, threads
<1> QED
  BY <1>1, <1>2, <1>3, <1>4, <1>5 DEF Next, ThreadStep, SchedulerStep

LEMMA ReadyInItsQueue ==
    ASSUME TypeOK, ReadyIsQueued, NEW j \in 1..pcb_count, pcb_table[j].state = "READY"
    PROVE  /\ pcb_table[j].queue_level \in Level
           /\ \E n \in ReadyIn(pcb_table[j].queue_level) : queues[pcb_table[j].queue_level][n] = j
<1>1. pcb_table[j].queue_level \in Level
  BY TableSize DEF Process
<1> QED
  BY <1>1 DEF ReadyIsQueued, ReadyIn

\* The loop over a queue stops at an entry of that queue's level; in the two queues that are
\* in the table's order no READY process stands before it.
LEMMA FirstReadyIsFirst ==
    ASSUME TypeOK, QueuesMatchTable, FcfsQueuesExact, ReadyIsQueued,
           NEW l \in Level, ReadyIn(l) # {}
    PROVE  /\ FirstReady(l) \in 1..pcb_count
           /\ pcb_table[FirstReady(l)].queue_level = l
           /\ l # QUEUE_INTERACTIVE =>
                 \A j \in 1..pcb_count :
                     pcb_table[j].state = "READY" /\ pcb_table[j].queue_level = l
                         => FirstReady(l) <= j
<1> DEFINE i == FirstReady(l)
           S == LevelSlots(pcb_table, l)
<1>1. PICK n \in ReadyIn(l) : i = queues[l][n] /\ \A m \in ReadyIn(l) : n <= m
  BY FirstReadyIsLeast
<1>2. i \in S /\ S \in SUBSET (1..pcb_count) /\ pcb_count \in Nat
  BY <1>1, LevelSlotsSubset DEF QueuesMatchTable, ReadyIn
<1>3. i \in 1..pcb_count /\ pcb_table[i].queue_level = l
  BY <1>2 DEF LevelSlots
<1>4. ASSUME l # QUEUE_INTERACTIVE,
             NEW j \in 1..pcb_count, pcb_table[j].state = "READY", pcb_table[j].queue_level = l
      PROVE  i <= j
  <2>1. PICK m \in ReadyIn(l) : queues[l][m] = j
    BY <1>4, ReadyInItsQueue
  <2>2. queues[l] = InTableOrder(S)
    BY <1>4 DEF FcfsQueuesExact, Level
  <2>3. DOMAIN queues[l] = 1..Cardinality(S) /\ Cardinality(S) \in Nat
    BY <1>2, <2>2, LevelFits DEF InTableOrder
  <2>4. n \in 1..Cardinality(S) /\ m \in 1..Cardinality(S) /\ n <= m
    BY <1>1, <2>1, <2>3 DEF ReadyIn
  <2>5. n < m => i < j
    <3>1. n < m => InTableOrder(S)[n] < InTableOrder(S)[m]
      BY <1>2, <2>4, InTableOrderIsSorted
    <3> QED
      BY <1>1, <2>1, <2>2, <3>1
  <2>6. n = m => i = j
    BY <1>1, <2>1
  <2>7. i \in Nat /\ j \in Nat
    BY <1>3, <1>2
  <2>8. n < m \/ n = m
    BY <2>3, <2>4
  <2> HIDE DEF i
  <2> QED
    BY <2>5, <2>6, <2>7, <2>8
<1> QED
  BY <1>3, <1>4

LEMMA DispatchesFirstStep ==
    ASSUME TypeOK, QueuesMatchTable, FcfsQueuesExact, ReadyIsQueued, SystemIsMostUrgent,
           [Next]_vars, NEW i \in 1..pcb_count, Dispatched(i),
           NEW j \in 1..pcb_count, pcb_table[j].state = "READY"
    PROVE  /\ pcb_table[i].queue_level <= pcb_table[j].queue_level
           /\ pcb_table[i].queue_level = pcb_table[j].queue_level
              /\ pcb_table[i].queue_level # QUEUE_INTERACTIVE => i <= j
           /\ pcb_table[i].queue_level = QUEUE_SYSTEM
              /\ pcb_table[j].queue_level = QUEUE_SYSTEM
              => pcb_table[i].priority <= pcb_table[j].priority
<1> DEFINE k == pcb_table[j].queue_level
<1>1. Dispatch
  BY OnlyDispatchStartsQuantum DEF Dispatched
<1>2. PICK l \in Level : /\ ReadyIn(l) # {} /\ dispatch_process(FirstReady(l))
                         /\ \A m \in Level : m < l => ReadyIn(m) = {}
  <2>1. CASE DispatchQ0
    BY <2>1 DEF DispatchQ0, Level, QUEUE_SYSTEM, QUEUE_INTERACTIVE, QUEUE_BACKGROUND
  <2>2. CASE DispatchQ1
    BY <2>2 DEF DispatchQ1, Level, QUEUE_SYSTEM, QUEUE_INTERACTIVE, QUEUE_BACKGROUND
  <2>3. CASE DispatchQ2
    BY <2>3 DEF DispatchQ2, Level, QUEUE_SYSTEM, QUEUE_INTERACTIVE, QUEUE_BACKGROUND
  <2> QED
    BY <1>1, <2>1, <2>2, <2>3 DEF Dispatch
<1>3. i = FirstReady(l)
  <2>1. FirstReady(l) \in 1..MAX_PROCESSES
    BY <1>2, FirstReadyProperties
  <2>2. \A m \in 1..pcb_count : m # FirstReady(l) => pcb_table'[m] = pcb_table[m]
    BY <1>2, <2>1, DispatchProcessType
  <2> QED
    BY <2>2 DEF Dispatched
<1>4. /\ pcb_table[i].queue_level = l
      /\ l # QUEUE_INTERACTIVE =>
            \A m \in 1..pcb_count :
                pcb_table[m].state = "READY" /\ pcb_table[m].queue_level = l => i <= m
  BY <1>2, <1>3, FirstReadyIsFirst
<1>5. k \in Level /\ ReadyIn(k) # {}
  BY ReadyInItsQueue
<1>6. l <= k
  BY <1>2, <1>5 DEF Level, QUEUE_SYSTEM, QUEUE_INTERACTIVE, QUEUE_BACKGROUND
<1>7. l = QUEUE_SYSTEM /\ k = QUEUE_SYSTEM => pcb_table[i].priority <= pcb_table[j].priority
  BY <1>4 DEF SystemIsMostUrgent
<1> QED
  BY <1>4, <1>6, <1>7

\* Each dispatch takes a READY process of the most urgent level that has one: in queue_Q0 and
\* queue_Q2 the one that was created first, and in queue_Q0 none is of higher priority than
\* it although nothing sorts that queue, because DEFAULT_PRIORITY_Q0 is 0 (kernel.h).
THEOREM MostUrgentFirst ==
    /\ Api \cap {"send_interrupt", "set_process_priority", "update_state"} = {}
    /\ DEFAULT_PRIORITY_Q0 = 0
    /\ Spec
    => DispatchesFirst
<1> SUFFICES ASSUME Api \cap {"send_interrupt", "set_process_priority", "update_state"} = {},
                    DEFAULT_PRIORITY_Q0 = 0
             PROVE  Spec => DispatchesFirst
  OBVIOUS
<1>0. /\ Api \cap {"send_interrupt", "update_state"} = {}
      /\ "set_process_priority" \notin Api
  OBVIOUS
<1>1. Init => SystemIsMostUrgent
  <2>1. Init => pcb_count = 0
    BY EmptySeq DEF Init, KernelInit, pcb_count
  <2> QED
    BY <2>1 DEF SystemIsMostUrgent
<1>2. TypeOK /\ SystemIsMostUrgent /\ [Next]_vars => SystemIsMostUrgent'
  BY <1>0, SystemIsMostUrgentStep
<1> DEFINE Step == \A i \in 1..pcb_count : Dispatched(i) =>
               \A j \in 1..pcb_count : pcb_table[j].state = "READY" =>
                   /\ pcb_table[i].queue_level <= pcb_table[j].queue_level
                   /\ pcb_table[i].queue_level = pcb_table[j].queue_level
                      /\ pcb_table[i].queue_level # QUEUE_INTERACTIVE => i <= j
                   /\ pcb_table[i].queue_level = QUEUE_SYSTEM
                      /\ pcb_table[j].queue_level = QUEUE_SYSTEM
                      => pcb_table[i].priority <= pcb_table[j].priority
<1>3. TypeOK /\ QueuesMatchTable /\ FcfsQueuesExact /\ ReadyIsQueued /\ SystemIsMostUrgent
          /\ [Next]_vars => [Step]_vars
  BY DispatchesFirstStep
<1>4. DispatchesFirst <=> [][Step]_vars
  BY DEF DispatchesFirst
<1> HIDE DEF Step
<1>5. Spec => []ReadyIsQueued
  BY <1>0, ReadyAreQueued
<1> QED
  BY <1>1, <1>2, <1>3, <1>4, <1>5, TypeCorrect, QueuesMatch, FcfsExact, PTL DEF Spec

-----------------------------------------------------------------------------
(* Memory *)

(***************************************************************************)
(* A child that was not started yet has no request under way: starting it  *)
(* cannot forget one.                                                      *)
(***************************************************************************)
UnbornIsIdle == \A p \in Pid : child[p] = "unborn" => ipc[p] = "none"

LEMMA UnbornStep == TypeOK /\ UnbornIsIdle /\ [Next]_vars => UnbornIsIdle'
<1> SUFFICES ASSUME TypeOK, UnbornIsIdle, [Next]_vars PROVE UnbornIsIdle'
  OBVIOUS
<1>0. UNCHANGED <<child, ipc>> => UnbornIsIdle'
  BY DEF UnbornIsIdle
<1>a. DOMAIN child = Pid /\ DOMAIN ipc = Pid
  BY DEF TypeOK, IpcManagerTypeOK
<1>1. ASSUME NEW p \in Pid, BootDaemon(p) \/ Launch(p) PROVE UnbornIsIdle'
  BY <1>1, <1>a DEF BootDaemon, Launch, start_daemon, launch_task, StartChild, UnbornIsIdle
<1>2. ASSUME NEW p \in Pid, Resume(p) \/ Minimize(p) \/ Reclaim(p) \/ Unblock(p)
                            \/ SetPriority(p) \/ UpdateState(p)
      PROVE  UnbornIsIdle'
  BY <1>0, <1>2 DEF Resume, Minimize, Reclaim, Unblock, SetPriority, UpdateState, tasks
<1>3. ASSUME NEW p \in Pid, Exit(p) \/ Sigchld(p) \/ HandlerSticks(p) \/ LastReap(p) \/ Die(p)
      PROVE  UnbornIsIdle'
  BY <1>3, <1>a DEF Exit, Sigchld, HandlerSticks, LastReap, Die, ForegroundExits, sigchld_handler,
                    FinalReap, Reaps, ChildDies, tasks, UnbornIsIdle
<1>4. ASSUME NEW p \in Pid, ChildStep(p) PROVE UnbornIsIdle'
  BY <1>4, <1>a DEF ChildStep, send_resource_request, wait_for_grant, send_termination_notice,
                    UnbornIsIdle
<1>5. ASSUME NEW p \in Pid, Grant(p) \/ Deny(p) \/ Register(p) PROVE UnbornIsIdle'
  BY <1>5, <1>a DEF Grant, Deny, Register, GrantRequest, DenyRequest, RegisterChild, UnbornIsIdle
<1>6. ASSUME NEW p \in Pid, Listen(p) PROVE UnbornIsIdle'
  BY <1>0, <1>6 DEF Listen, ReadNotice
<1>7. ASSUME NEW p \in Pid, Interrupt(p) PROVE UnbornIsIdle'
  BY <1>7, <1>a DEF Interrupt, UnbornIsIdle
<1>8. ASSUME Dispatch \/ SchedulerPauses \/ SchedulerWaits \/ Age \/ AcquireCore \/ Shutdown
      PROVE  UnbornIsIdle'
  BY <1>0, <1>8 DEF Dispatch, SchedulerPauses, SchedulerWaits, Age, AcquireCore, Shutdown, tasks
<1>9. ASSUME UNCHANGED vars PROVE UnbornIsIdle'
  BY <1>0, <1>9 DEF vars, tasks
<1> QED
  BY <1>1, <1>2, <1>3, <1>4, <1>5, <1>6, <1>7, <1>8, <1>9
     DEF Next, MenuStep, TaskStep, IpcStep, ApiStep, ThreadStep, SchedulerStep

(***************************************************************************)
(* What a step can do to who holds what: nothing, or one of the four       *)
(* operations that move memory.                                            *)
(***************************************************************************)
SamePids ==
    /\ Len(pcb_table') = pcb_count
    /\ \A i \in 1..pcb_count :
          /\ pcb_table'[i].pid = pcb_table[i].pid
          /\ pcb_table'[i].ram_alloc = pcb_table[i].ram_alloc
          /\ pcb_table'[i].hdd_alloc = pcb_table[i].hdd_alloc

SameStage ==
    \A q \in Pid : /\ ipc'[q] = "granted" <=> ipc[q] = "granted"
                   /\ ipc'[q] = "replied" <=> ipc[q] = "replied"

SameHoldings == SamePids /\ SameStage /\ UNCHANGED <<free_RAM, free_HDD, reclaiming>>

RegisterStep(p) == RegisterChild(p) /\ UNCHANGED <<free_RAM, free_HDD, reclaiming>>
RemoveStep(p) == remove_pcb(p) /\ UNCHANGED <<free_RAM, free_HDD, ipc>>
GrantStep(p) == GrantRequest(p) /\ UNCHANGED <<pcb_table, reclaiming>>
ReclaimStep(p) == FinishRemove(p) /\ UNCHANGED <<pcb_table, ipc>>

LEMMA AgingHoldings == ASSUME TypeOK, AgingTick PROVE SamePids
<1>1. Len(pcb_table') = pcb_count /\ \A i \in 1..pcb_count : pcb_table'[i] = Aged(pcb_table[i])
  BY AgingTickType
<1>2. ASSUME NEW p \in Process
      PROVE  Aged(p).pid = p.pid /\ Aged(p).ram_alloc = p.ram_alloc
             /\ Aged(p).hdd_alloc = p.hdd_alloc
  BY AgedType DEF Process
<1> QED
  BY <1>1, <1>2, TableSize DEF SamePids

LEMMA HoldingSteps ==
    ASSUME TypeOK, UnbornIsIdle, [Next]_vars
    PROVE  \/ SameHoldings
           \/ \E p \in Pid : RegisterStep(p) \/ RemoveStep(p) \/ GrantStep(p) \/ ReclaimStep(p)
<1> DEFINE Goal == \/ SameHoldings
                   \/ \E p \in Pid : RegisterStep(p) \/ RemoveStep(p) \/ GrantStep(p)
                                     \/ ReclaimStep(p)
<1>0. UNCHANGED <<pcb_table, ipc, free_RAM, free_HDD, reclaiming>> => Goal
  BY TableSize DEF SameHoldings, SamePids, SameStage, pcb_count
<1>a. SamePids /\ UNCHANGED <<ipc, free_RAM, free_HDD, reclaiming>> => Goal
  BY DEF SameHoldings, SameStage
<1>b. SameTable => SamePids
  BY DEF SameTable, SamePids
<1>c. DOMAIN ipc = Pid
  BY DEF TypeOK, IpcManagerTypeOK
<1>1. ASSUME NEW p \in Pid, BootDaemon(p) \/ Launch(p) PROVE Goal
  <2>1. child[p] = "unborn" /\ ipc' = [ipc EXCEPT ![p] = "serving"]
    BY <1>1 DEF BootDaemon, Launch, start_daemon, launch_task, StartChild
  <2>2. SameStage
    BY <2>1, <1>c DEF UnbornIsIdle, SameStage
  <2>3. UNCHANGED <<pcb_table, free_RAM, free_HDD, reclaiming>>
    BY <1>1 DEF BootDaemon, Launch, kernel
  <2> QED
    BY <2>2, <2>3, TableSize DEF SameHoldings, SamePids, pcb_count
<1>2. ASSUME NEW p \in Pid, Resume(p) PROVE Goal
  <2>1. SamePids
    BY <1>2, <1>b, SendResumeType DEF Resume, manage_foreground
  <2> QED
    BY <1>2, <1>a, <2>1 DEF Resume, memory, tasks
<1>3. ASSUME NEW p \in Pid, Minimize(p) PROVE Goal
  <2>1. SamePids
    BY <1>3, <1>b, SendMinimizeType DEF Minimize, ForegroundStops, ForegroundMisread
  <2> QED
    BY <1>3, <1>a, <2>1 DEF Minimize, memory, tasks
<1>4. ASSUME NEW p \in Pid, Exit(p) \/ Sigchld(p) \/ Listen(p) PROVE Goal
  <2>1. RemoveStep(p)
    BY <1>4 DEF Exit, ForegroundExits, Sigchld, sigchld_handler, Listen, ReadNotice, memory,
                RemoveStep
  <2> QED
    BY <2>1
<1>5. ASSUME NEW p \in Pid, LastReap(p) \/ HandlerSticks(p) \/ Die(p) PROVE Goal
  BY <1>0, <1>5 DEF LastReap, FinalReap, HandlerSticks, Reaps, Die, ChildDies, tasks, kernel
<1>6. ASSUME NEW p \in Pid, ChildStep(p) PROVE Goal
  <2>1. SameStage
    BY <1>6, <1>c DEF ChildStep, send_resource_request, wait_for_grant, send_termination_notice,
                      SameStage
  <2>2. UNCHANGED <<pcb_table, free_RAM, free_HDD, reclaiming>>
    BY <1>6 DEF ChildStep, kernel
  <2> QED
    BY <2>1, <2>2, TableSize DEF SameHoldings, SamePids, pcb_count
<1>7. ASSUME NEW p \in Pid, Deny(p) PROVE Goal
  <2>1. SameStage
    BY <1>7, <1>c DEF Deny, DenyRequest, SameStage
  <2>2. UNCHANGED <<pcb_table, free_RAM, free_HDD, reclaiming>>
    BY <1>7 DEF Deny, kernel
  <2> QED
    BY <2>1, <2>2, TableSize DEF SameHoldings, SamePids, pcb_count
<1>8. ASSUME NEW p \in Pid, Grant(p) PROVE Goal
  <2>1. GrantStep(p)
    BY <1>8 DEF Grant, GrantStep, table
  <2> QED
    BY <2>1
<1>9. ASSUME NEW p \in Pid, Register(p) PROVE Goal
  <2>1. RegisterStep(p)
    BY <1>9 DEF Register, RegisterStep, memory
  <2> QED
    BY <2>1
<1>10. ASSUME NEW p \in Pid, Reclaim(p) PROVE Goal
  <2>1. ReclaimStep(p)
    BY <1>10 DEF Reclaim, ReclaimStep, table, tasks
  <2> QED
    BY <2>1
<1>11. ASSUME Dispatch PROVE Goal
  <2>1. SamePids
    <3>1. ASSUME NEW l \in Level, ReadyIn(l) # {}, dispatch_process(FirstReady(l)) PROVE SamePids
      BY <3>1, <1>b, FirstReadyProperties, DispatchProcessType
    <3> QED
      BY <1>11, <3>1 DEF Dispatch, DispatchQ0, DispatchQ1, DispatchQ2, Level
  <2> QED
    BY <1>11, <1>a, <2>1 DEF Dispatch, memory, tasks
<1>12. ASSUME SchedulerPauses \/ SchedulerWaits \/ AcquireCore \/ Shutdown PROVE Goal
  BY <1>0, <1>12 DEF SchedulerPauses, SchedulerWaits, AcquireCore, Shutdown, kernel, table,
                     tasks, memory
<1>13. ASSUME Age PROVE Goal
  BY <1>13, <1>a, AgingHoldings DEF Age, memory, tasks
<1>14. ASSUME NEW p \in Pid, Unblock(p) PROVE Goal
  BY <1>14, <1>a, <1>b, UnblockType DEF Unblock, memory, tasks
<1>15. ASSUME NEW p \in Pid, Interrupt(p) PROVE Goal
  BY <1>15, <1>a, <1>b, SendInterruptType DEF Interrupt, memory
<1>16. ASSUME NEW p \in Pid, SetPriority(p) PROVE Goal
  <2>1. PICK priority \in {-1, 0, 1, MAX_PRIORITY + 1} : set_process_priority(p, priority)
    BY <1>16 DEF SetPriority
  <2>2. priority \in Int
    BY KernelAssumption
  <2>3. SamePids
    BY <2>1, <2>2, <1>b, SetPriorityType
  <2> QED
    BY <1>16, <1>a, <2>3 DEF SetPriority, memory, tasks
<1>17. ASSUME NEW p \in Pid, UpdateState(p) PROVE Goal
  BY <1>17, <1>a, <1>b, UpdateStateType DEF UpdateState, memory, tasks
<1>18. ASSUME UNCHANGED vars PROVE Goal
  BY <1>0, <1>18 DEF vars, kernel, tasks
<1> HIDE DEF Goal
<1>19. Goal
  BY <1>1, <1>2, <1>3, <1>4, <1>5, <1>6, <1>7, <1>8, <1>9, <1>10, <1>11, <1>12, <1>13, <1>14,
     <1>15, <1>16, <1>17, <1>18
     DEF Next, MenuStep, TaskStep, IpcStep, ApiStep, ThreadStep, SchedulerStep
<1> QED
  BY <1>19 DEF Goal

(***************************************************************************)
(* How the operations move the slots of a process.                         *)
(***************************************************************************)
LEMMA SameSlots ==
    ASSUME SamePids
    PROVE  \A q \in Pid : SlotsOf(q)' = SlotsOf(q)
  BY DEF SamePids, SlotsOf, pcb_count

\* Where the entry came from that stands at k once the gap at i is closed.
Origin(i, k) == IF k < i THEN k ELSE k + 1

LEMMA RemovedSlots ==
    ASSUME TypeOK, NEW p \in Pid, remove_pcb(p), SlotsOf(p) # {}
    PROVE  /\ FirstSlot(p) \in SlotsOf(p)
           /\ Len(pcb_table') = pcb_count - 1
           /\ \A k \in 1..(pcb_count - 1) : pcb_table'[k] = pcb_table[Origin(FirstSlot(p), k)]
           /\ \A q \in Pid : SlotsOf(q)' =
                  {k \in 1..(pcb_count - 1) : Origin(FirstSlot(p), k) \in SlotsOf(q)}
<1> DEFINE i == FirstSlot(p)
<1>1. pcb_count \in Nat
  BY TableSize
<1>2. i \in SlotsOf(p)
  BY <1>1, FirstSlotIsSlot
<1>3. i \in 1..pcb_count
  BY <1>2 DEF SlotsOf
<1>4. pcb_table' = RemoveAt(pcb_table, i)
  BY DEF remove_pcb
<1> HIDE DEF i
<1>5. /\ Len(pcb_table') = pcb_count - 1
      /\ \A k \in 1..(pcb_count - 1) : pcb_table'[k] = pcb_table[Origin(i, k)]
  <2>1. pcb_table \in Seq(Process) /\ i \in 1..Len(pcb_table)
    BY <1>3 DEF TypeOK, KernelTypeOK, pcb_count
  <2>2. /\ Len(RemoveAt(pcb_table, i)) = Len(pcb_table) - 1
        /\ \A k \in 1..(Len(pcb_table) - 1) :
               RemoveAt(pcb_table, i)[k] = IF k < i THEN pcb_table[k] ELSE pcb_table[k + 1]
    BY <2>1, RemoveAtProperties
  <2> QED
    BY <1>4, <2>2 DEF Origin, pcb_count
<1>6. ASSUME NEW k \in 1..(pcb_count - 1) PROVE Origin(i, k) \in 1..pcb_count
  BY <1>1, <1>3 DEF Origin
<1>7. \A q \in Pid : SlotsOf(q)' = {k \in 1..(pcb_count - 1) : Origin(i, k) \in SlotsOf(q)}
  BY <1>5, <1>6 DEF SlotsOf, pcb_count
<1> QED
  BY <1>2, <1>5, <1>7 DEF i

LEMMA OriginIsInjective ==
    ASSUME NEW i \in Int, NEW k \in Int, NEW m \in Int, Origin(i, k) = Origin(i, m)
    PROVE  k = m
  BY DEF Origin

LEMMA OriginIsNotTheGap ==
    ASSUME NEW i \in Int, NEW k \in Int
    PROVE  Origin(i, k) # i
  BY DEF Origin

LEMMA CreatedSlots ==
    ASSUME TypeOK, NEW p \in Pid, RegisterChild(p)
    PROVE  /\ \A q \in Pid \ {p} : SlotsOf(q)' = SlotsOf(q)
           /\ pcb_count < MAX_PROCESSES =>
                  /\ SlotsOf(p)' = SlotsOf(p) \union {pcb_count + 1}
                  /\ pcb_table'[pcb_count + 1].ram_alloc = ram_req[p]
                  /\ pcb_table'[pcb_count + 1].hdd_alloc = hdd_req[p]
                  /\ \A i \in 1..pcb_count : pcb_table'[i] = pcb_table[i]
           /\ ~(pcb_count < MAX_PROCESSES) => UNCHANGED pcb_table
<1> DEFINE l == get_queue_level(task_name[p])
           new == NewProcess(p, l, default_priority[l])
<1>1. create_pcb(p, l, default_priority[l])
  BY DEF RegisterChild
<1>2. CASE pcb_count < MAX_PROCESSES
  <2>1. pcb_table' = Append(pcb_table, new)
    BY <1>1, <1>2 DEF create_pcb
  <2>2. new.pid = p /\ new.ram_alloc = ram_req[p] /\ new.hdd_alloc = hdd_req[p]
    BY DEF NewProcess
  <2> HIDE DEF new
  <2>3. /\ Len(pcb_table') = pcb_count + 1 /\ pcb_count \in Nat
        /\ \A i \in 1..pcb_count : pcb_table'[i] = pcb_table[i]
        /\ pcb_table'[pcb_count + 1] = new
    BY <2>1, TableSize DEF TypeOK, KernelTypeOK, pcb_count
  <2>4. 1..(pcb_count + 1) = (1..pcb_count) \union {pcb_count + 1}
    BY <2>3
  <2>5. ASSUME NEW q \in Pid
        PROVE  SlotsOf(q)' = SlotsOf(q) \union (IF q = p THEN {pcb_count + 1} ELSE {})
    BY <2>2, <2>3, <2>4 DEF SlotsOf, pcb_count
  <2> QED
    BY <1>2, <2>2, <2>3, <2>5
<1>3. CASE ~(pcb_count < MAX_PROCESSES)
  BY <1>1, <1>3 DEF create_pcb, SlotsOf, pcb_count
<1> QED
  BY <1>2, <1>3

(***************************************************************************)
(* One PCB for a child.                                                    *)
(***************************************************************************)
LEMMA OnePcbStep ==
    TypeOK /\ UnbornIsIdle /\ OnePcbPerChild /\ [Next]_vars => OnePcbPerChild'
<1> SUFFICES ASSUME TypeOK, UnbornIsIdle, OnePcbPerChild, [Next]_vars
             PROVE  OnePcbPerChild'
  OBVIOUS
<1>a. DOMAIN ipc = Pid /\ DOMAIN reclaiming = Pid
  BY DEF TypeOK, IpcManagerTypeOK, ProcessManagerTypeOK
<1>1. CASE SameHoldings
  BY <1>1, SameSlots DEF SameHoldings, SameStage, OnePcbPerChild
<1>2. ASSUME NEW p \in Pid, RegisterStep(p) PROVE OnePcbPerChild'
  <2>1. ipc[p] = "granted" /\ ipc' = [ipc EXCEPT ![p] = "replied"] /\ reclaiming' = reclaiming
    BY <1>2 DEF RegisterStep, RegisterChild
  <2>2. SlotsOf(p) = {} /\ reclaiming[p] = Nothing
    BY <2>1 DEF OnePcbPerChild
  <2>3. SlotsOf(p)' \subseteq {pcb_count + 1}
    BY <1>2, <2>2, CreatedSlots DEF RegisterStep, SlotsOf, pcb_count
  <2>4. \A q \in Pid \ {p} : SlotsOf(q)' = SlotsOf(q)
    BY <1>2, CreatedSlots DEF RegisterStep
  <2>5. \A q \in Pid \ {p} : ipc'[q] = ipc[q]
    BY <2>1, <1>a
  <2>6. ipc'[p] = "replied"
    BY <2>1, <1>a
  <2> QED
    BY <2>1, <2>2, <2>3, <2>4, <2>5, <2>6 DEF OnePcbPerChild
<1>3. ASSUME NEW p \in Pid, RemoveStep(p) PROVE OnePcbPerChild'
  <2>1. CASE SlotsOf(p) = {}
    BY <1>3, <2>1 DEF RemoveStep, remove_pcb, OnePcbPerChild, SlotsOf, pcb_count
  <2>2. CASE SlotsOf(p) # {}
    <3> DEFINE i == FirstSlot(p)
    <3>1. /\ i \in SlotsOf(p)
          /\ \A q \in Pid : SlotsOf(q)' =
                {k \in 1..(pcb_count - 1) : Origin(i, k) \in SlotsOf(q)}
      BY <1>3, <2>2, RemovedSlots DEF RemoveStep
    <3>2. /\ \A q \in Pid \ {p} : reclaiming'[q] = reclaiming[q]
          /\ ipc' = ipc
      BY <1>3, <2>2, <1>a DEF RemoveStep, remove_pcb
    <3> HIDE DEF i
    <3>3. i \in Int /\ pcb_count \in Nat
      BY <3>1, TableSize DEF SlotsOf
    <3>4. SlotsOf(p) = {i} /\ ipc[p] = "replied"
      BY <3>1 DEF OnePcbPerChild
    <3>5. SlotsOf(p)' = {}
      BY <3>1, <3>3, <3>4, OriginIsNotTheGap
    <3>6. ASSUME NEW q \in Pid, NEW k \in SlotsOf(q)', NEW m \in SlotsOf(q)' PROVE k = m
      <4>1. Origin(i, k) = Origin(i, m)
        BY <3>1 DEF OnePcbPerChild
      <4> QED
        BY <3>1, <3>3, <4>1, OriginIsInjective
    <3>7. ASSUME NEW q \in Pid, SlotsOf(q)' # {} PROVE q # p /\ SlotsOf(q) # {}
      BY <3>1, <3>5, <3>7
    <3> QED
      BY <3>2, <3>4, <3>5, <3>6, <3>7 DEF OnePcbPerChild
  <2> QED
    BY <2>1, <2>2
<1>4. ASSUME NEW p \in Pid, GrantStep(p) PROVE OnePcbPerChild'
  <2>1. ipc[p] = "received" /\ ipc' = [ipc EXCEPT ![p] = "granted"]
        /\ UNCHANGED <<pcb_table, reclaiming>>
    BY <1>4 DEF GrantStep, GrantRequest
  <2>2. \A q \in Pid : SlotsOf(q)' = SlotsOf(q)
    BY <2>1 DEF SlotsOf, pcb_count
  <2>3. \A q \in Pid : ipc'[q] # "replied" => ipc[q] # "replied"
    BY <2>1, <1>a
  <2> QED
    BY <2>1, <2>2, <2>3 DEF OnePcbPerChild
<1>5. ASSUME NEW p \in Pid, ReclaimStep(p) PROVE OnePcbPerChild'
  <2>1. reclaiming' = [reclaiming EXCEPT ![p] = Nothing] /\ UNCHANGED <<pcb_table, ipc>>
    BY <1>5 DEF ReclaimStep, FinishRemove
  <2>2. \A q \in Pid : SlotsOf(q)' = SlotsOf(q)
    BY <2>1 DEF SlotsOf, pcb_count
  <2>3. \A q \in Pid : reclaiming[q] = Nothing => reclaiming'[q] = Nothing
    BY <2>1, <1>a
  <2> QED
    BY <2>1, <2>2, <2>3 DEF OnePcbPerChild
<1> QED
  BY <1>1, <1>2, <1>3, <1>4, <1>5, HoldingSteps

LEMMA OnePcbInit == Init => UnbornIsIdle /\ OnePcbPerChild
<1> SUFFICES ASSUME Init PROVE UnbornIsIdle /\ OnePcbPerChild
  OBVIOUS
<1>1. \A p \in Pid : SlotsOf(p) = {} /\ reclaiming[p] = Nothing /\ ipc[p] = "none"
  BY DEF Init, KernelInit, ProcessManagerInit, IpcManagerInit, SlotsOf, pcb_count
<1> QED
  BY <1>1 DEF UnbornIsIdle, OnePcbPerChild

\* A child has at most one PCB, and none while a remove_pcb still has to give back what a
\* former one held, whoever removes it: the menu, the listener and the SIGCHLD handler.
THEOREM OnePcb == Spec => []OnePcbPerChild
<1>1. Init => TypeOK /\ UnbornIsIdle /\ OnePcbPerChild
  BY TypeInit, OnePcbInit
<1>2. TypeOK /\ UnbornIsIdle /\ OnePcbPerChild /\ [Next]_vars
         => (TypeOK /\ UnbornIsIdle /\ OnePcbPerChild)'
  BY TypeStep, UnbornStep, OnePcbStep
<1> QED
  BY <1>1, <1>2, PTL DEF Spec

(***************************************************************************)
(* What a child holds.                                                     *)
(***************************************************************************)
SlotPart(p) == IF SlotsOf(p) # {} THEN [ram |-> pcb_table[FirstSlot(p)].ram_alloc,
                                        hdd |-> pcb_table[FirstSlot(p)].hdd_alloc]
               ELSE Nothing

GrantPart(p) == IF ipc[p] = "granted" THEN [ram |-> ram_req[p], hdd |-> hdd_req[p]] ELSE Nothing

LEMMA HoldsParts ==
    ASSUME NEW p \in Pid
    PROVE  Holds(p) = [ram |-> SlotPart(p).ram + GrantPart(p).ram + reclaiming[p].ram,
                       hdd |-> SlotPart(p).hdd + GrantPart(p).hdd + reclaiming[p].hdd]
  BY DEF Holds, SlotPart, GrantPart, Nothing

LEMMA HoldsPartsAfter ==
    ASSUME NEW p \in Pid
    PROVE  Holds(p)' = [ram |-> SlotPart(p)'.ram + GrantPart(p)'.ram + reclaiming'[p].ram,
                        hdd |-> SlotPart(p)'.hdd + GrantPart(p)'.hdd + reclaiming'[p].hdd]
  BY DEF Holds, SlotPart, GrantPart, Nothing

LEMMA PartsType ==
    ASSUME TypeOK, NEW p \in Pid
    PROVE  /\ SlotPart(p).ram \in Nat /\ SlotPart(p).hdd \in Nat
           /\ GrantPart(p).ram \in Nat /\ GrantPart(p).hdd \in Nat
           /\ reclaiming[p].ram \in Nat /\ reclaiming[p].hdd \in Nat
           /\ free_RAM \in Nat /\ free_HDD \in Nat
<1>1. reclaiming[p].ram \in Nat /\ reclaiming[p].hdd \in Nat
      /\ free_RAM \in Nat /\ free_HDD \in Nat
  BY DEF TypeOK, ProcessManagerTypeOK, KernelTypeOK
<1>2. GrantPart(p).ram \in Nat /\ GrantPart(p).hdd \in Nat
  BY KernelAssumption DEF GrantPart, Nothing
<1>3. CASE SlotsOf(p) = {}
  BY <1>1, <1>2, <1>3 DEF SlotPart, Nothing
<1>4. CASE SlotsOf(p) # {}
  <2>1. FirstSlot(p) \in 1..pcb_count
    BY <1>4, TableSize, FirstSlotIsSlot DEF SlotsOf
  <2>2. pcb_table[FirstSlot(p)] \in Process
    BY <2>1, TableSize
  <2> QED
    BY <1>1, <1>2, <1>4, <2>2 DEF SlotPart, Process
<1> QED
  BY <1>3, <1>4

LEMMA SlotPartStays ==
    ASSUME TypeOK, NEW q \in Pid, SlotsOf(q)' = SlotsOf(q),
           \A i \in 1..pcb_count : /\ pcb_table'[i].ram_alloc = pcb_table[i].ram_alloc
                                   /\ pcb_table'[i].hdd_alloc = pcb_table[i].hdd_alloc
    PROVE  SlotPart(q)' = SlotPart(q)
<1>1. CASE SlotsOf(q) = {}
  BY <1>1 DEF SlotPart
<1>2. CASE SlotsOf(q) # {}
  <2>1. FirstSlot(q) \in 1..pcb_count
    BY <1>2, TableSize, FirstSlotIsSlot DEF SlotsOf
  <2>2. FirstSlot(q)' = FirstSlot(q)
    BY DEF FirstSlot
  <2> QED
    BY <1>2, <2>1, <2>2 DEF SlotPart
<1> QED
  BY <1>1, <1>2

LEMMA OnlySlot ==
    ASSUME NEW k \in Int
    PROVE  (CHOOSE i \in {k} : \A j \in {k} : i <= j) = k
  OBVIOUS

LEMMA PartsStay ==
    ASSUME NEW q \in Pid, SlotPart(q)' = SlotPart(q), GrantPart(q)' = GrantPart(q),
           reclaiming'[q] = reclaiming[q]
    PROVE  Holds(q)' = Holds(q)
  BY HoldsParts, HoldsPartsAfter

(***************************************************************************)
(* The four operations that move memory.                                   *)
(***************************************************************************)
LEMMA GrantMoves ==
    ASSUME TypeOK, NEW p \in Pid, GrantStep(p)
    PROVE  MovesMemory(p)
<1>1. /\ ipc[p] = "received" /\ ipc' = [ipc EXCEPT ![p] = "granted"]
      /\ free_RAM' = free_RAM - ram_req[p] /\ free_HDD' = free_HDD - hdd_req[p]
      /\ UNCHANGED <<pcb_table, reclaiming>>
  BY DEF GrantStep, GrantRequest, allocate_resources
<1>2. DOMAIN ipc = Pid /\ ram_req[p] \in Nat /\ hdd_req[p] \in Nat
  BY KernelAssumption DEF TypeOK, IpcManagerTypeOK
<1>3. \A q \in Pid : SlotPart(q)' = SlotPart(q) /\ reclaiming'[q] = reclaiming[q]
  BY <1>1 DEF SlotPart, SlotsOf, FirstSlot, pcb_count
<1>4. \A q \in Pid \ {p} : GrantPart(q)' = GrantPart(q)
  BY <1>1, <1>2 DEF GrantPart
<1>5. GrantPart(p) = Nothing /\ GrantPart(p)' = [ram |-> ram_req[p], hdd |-> hdd_req[p]]
  BY <1>1, <1>2 DEF GrantPart
<1>6. /\ Holds(p)'.ram = Holds(p).ram + ram_req[p]
      /\ Holds(p)'.hdd = Holds(p).hdd + hdd_req[p]
      /\ Holds(p).ram \in Nat /\ Holds(p).hdd \in Nat
  BY <1>2, <1>3, <1>5, HoldsParts, HoldsPartsAfter, PartsType DEF Nothing
<1>7. free_RAM \in Nat /\ free_HDD \in Nat
  BY PartsType
<1>8. /\ free_RAM' - free_RAM = Holds(p).ram - Holds(p)'.ram
      /\ free_HDD' - free_HDD = Holds(p).hdd - Holds(p)'.hdd
  BY <1>1, <1>2, <1>6, <1>7
<1> QED
  BY <1>3, <1>4, <1>8, PartsStay DEF MovesMemory

LEMMA ReclaimMoves ==
    ASSUME TypeOK, OnePcbPerChild, NEW p \in Pid, ReclaimStep(p)
    PROVE  MovesMemory(p)
<1>1. /\ reclaiming[p] # Nothing /\ reclaiming' = [reclaiming EXCEPT ![p] = Nothing]
      /\ free_RAM' = free_RAM + reclaiming[p].ram /\ free_HDD' = free_HDD + reclaiming[p].hdd
      /\ UNCHANGED <<pcb_table, ipc>>
  BY DEF ReclaimStep, FinishRemove, reclaim_resources
<1>2. DOMAIN reclaiming = Pid
  BY DEF TypeOK, ProcessManagerTypeOK
<1>3. \A q \in Pid : SlotPart(q)' = SlotPart(q) /\ GrantPart(q)' = GrantPart(q)
  BY <1>1 DEF SlotPart, GrantPart, SlotsOf, FirstSlot, pcb_count
<1>4. \A q \in Pid \ {p} : reclaiming'[q] = reclaiming[q]
  BY <1>1, <1>2
<1>5. reclaiming'[p] = Nothing
  BY <1>1, <1>2
<1>6. /\ Holds(p).ram = Holds(p)'.ram + reclaiming[p].ram
      /\ Holds(p).hdd = Holds(p)'.hdd + reclaiming[p].hdd
      /\ Holds(p)'.ram \in Nat /\ Holds(p)'.hdd \in Nat
  BY <1>3, <1>5, HoldsParts, HoldsPartsAfter, PartsType DEF Nothing
<1>7. /\ free_RAM \in Nat /\ free_HDD \in Nat
      /\ reclaiming[p].ram \in Nat /\ reclaiming[p].hdd \in Nat
  BY PartsType
<1>8. /\ free_RAM' - free_RAM = Holds(p).ram - Holds(p)'.ram
      /\ free_HDD' - free_HDD = Holds(p).hdd - Holds(p)'.hdd
  BY <1>1, <1>6, <1>7
<1> QED
  BY <1>3, <1>4, <1>8, PartsStay DEF MovesMemory

LEMMA OnePart ==
    ASSUME NEW q \in Pid, NEW k \in Int, SlotsOf(q) = {k}
    PROVE  SlotPart(q) = [ram |-> pcb_table[k].ram_alloc, hdd |-> pcb_table[k].hdd_alloc]
<1>1. FirstSlot(q) = k
  BY OnlySlot DEF FirstSlot
<1> QED
  BY <1>1 DEF SlotPart

LEMMA OnePartAfter ==
    ASSUME NEW q \in Pid, NEW k \in Int, SlotsOf(q)' = {k}
    PROVE  SlotPart(q)' = [ram |-> pcb_table'[k].ram_alloc, hdd |-> pcb_table'[k].hdd_alloc]
<1>1. FirstSlot(q)' = k
  BY OnlySlot DEF FirstSlot
<1> QED
  BY <1>1 DEF SlotPart

\* A step that moves nothing, seen from any child.
LEMMA HeldStill ==
    ASSUME TypeOK, NEW p \in Pid, UNCHANGED <<free_RAM, free_HDD>>,
           \A q \in Pid : Holds(q)' = Holds(q)
    PROVE  MovesMemory(p)
<1>1. Holds(p).ram \in Nat /\ Holds(p).hdd \in Nat /\ free_RAM \in Nat /\ free_HDD \in Nat
  BY HoldsParts, PartsType
<1> QED
  BY <1>1 DEF MovesMemory

LEMMA RegisterMoves ==
    ASSUME TypeOK, OnePcbPerChild, pcb_count < MAX_PROCESSES,
           NEW p \in Pid, RegisterStep(p)
    PROVE  MovesMemory(p)
<1>1. /\ ipc[p] = "granted" /\ ipc' = [ipc EXCEPT ![p] = "replied"]
      /\ UNCHANGED <<free_RAM, free_HDD, reclaiming>>
  BY DEF RegisterStep, RegisterChild
<1>2. DOMAIN ipc = Pid /\ pcb_count \in Nat /\ ram_req[p] \in Nat /\ hdd_req[p] \in Nat
  BY TableSize, KernelAssumption DEF TypeOK, IpcManagerTypeOK
<1>3. /\ \A q \in Pid \ {p} : SlotsOf(q)' = SlotsOf(q)
      /\ SlotsOf(p)' = SlotsOf(p) \union {pcb_count + 1}
      /\ pcb_table'[pcb_count + 1].ram_alloc = ram_req[p]
      /\ pcb_table'[pcb_count + 1].hdd_alloc = hdd_req[p]
      /\ \A i \in 1..pcb_count : pcb_table'[i] = pcb_table[i]
  BY CreatedSlots DEF RegisterStep
<1>4. SlotsOf(p) = {} /\ reclaiming[p] = Nothing
  BY <1>1 DEF OnePcbPerChild
<1>5. ASSUME NEW q \in Pid \ {p} PROVE Holds(q)' = Holds(q)
  <2>1. SlotPart(q)' = SlotPart(q)
    BY <1>3, SlotPartStays
  <2>2. GrantPart(q)' = GrantPart(q)
    BY <1>1, <1>2 DEF GrantPart
  <2> QED
    BY <1>1, <2>1, <2>2, PartsStay
<1>6. SlotPart(p) = Nothing /\ GrantPart(p) = [ram |-> ram_req[p], hdd |-> hdd_req[p]]
  BY <1>1, <1>4 DEF SlotPart, GrantPart
<1>7. SlotPart(p)' = [ram |-> ram_req[p], hdd |-> hdd_req[p]]
  <2>1. pcb_count + 1 \in Int /\ SlotsOf(p)' = {pcb_count + 1}
    BY <1>2, <1>3, <1>4
  <2> QED
    BY <1>3, <2>1, OnePartAfter
<1>8. GrantPart(p)' = Nothing
  BY <1>1, <1>2 DEF GrantPart
<1>9. Holds(p)' = Holds(p)
  BY <1>1, <1>2, <1>4, <1>6, <1>7, <1>8, HoldsParts, HoldsPartsAfter DEF Nothing
<1> QED
  BY <1>1, <1>5, <1>9, HeldStill

LEMMA RemoveMoves ==
    ASSUME TypeOK, OnePcbPerChild, NEW p \in Pid, RemoveStep(p)
    PROVE  MovesMemory(p)
<1>1. UNCHANGED <<free_RAM, free_HDD, ipc>>
  BY DEF RemoveStep
<1>2. \A q \in Pid : GrantPart(q)' = GrantPart(q)
  BY <1>1 DEF GrantPart
<1>3. CASE SlotsOf(p) = {}
  <2>1. UNCHANGED <<pcb_table, reclaiming>>
    BY <1>3 DEF RemoveStep, remove_pcb
  <2>2. \A q \in Pid : SlotPart(q)' = SlotPart(q)
    BY <2>1 DEF SlotPart, SlotsOf, FirstSlot, pcb_count
  <2> QED
    BY <1>1, <1>2, <2>1, <2>2, PartsStay, HeldStill
<1>4. CASE SlotsOf(p) # {}
  <2> DEFINE i == FirstSlot(p)
  <2>1. /\ i \in SlotsOf(p)
        /\ \A k \in 1..(pcb_count - 1) : pcb_table'[k] = pcb_table[Origin(i, k)]
        /\ \A q \in Pid : SlotsOf(q)' =
              {k \in 1..(pcb_count - 1) : Origin(i, k) \in SlotsOf(q)}
    BY <1>4, RemovedSlots DEF RemoveStep
  <2>2. reclaiming' = [reclaiming EXCEPT ![p] = [ram |-> pcb_table[i].ram_alloc,
                                                 hdd |-> pcb_table[i].hdd_alloc]]
    BY <1>4 DEF RemoveStep, remove_pcb
  <2> HIDE DEF i
  <2>3. i \in 1..pcb_count /\ pcb_count \in Nat /\ DOMAIN reclaiming = Pid
    BY <2>1, TableSize DEF SlotsOf, TypeOK, ProcessManagerTypeOK
  <2>4. SlotsOf(p) = {i} /\ reclaiming[p] = Nothing
    BY <2>1 DEF OnePcbPerChild
  <2>5. SlotsOf(p)' = {}
    BY <2>1, <2>3, <2>4, OriginIsNotTheGap
  <2>6. Holds(p)' = Holds(p)
    <3>1. SlotPart(p) = [ram |-> pcb_table[i].ram_alloc, hdd |-> pcb_table[i].hdd_alloc]
      BY <2>3, <2>4, OnePart
    <3>2. SlotPart(p)' = Nothing
      BY <2>5 DEF SlotPart
    <3>3. reclaiming'[p] = SlotPart(p)
      BY <2>2, <2>3, <3>1
    <3>4. SlotPart(p).ram \in Nat /\ SlotPart(p).hdd \in Nat
          /\ GrantPart(p).ram \in Nat /\ GrantPart(p).hdd \in Nat
      BY PartsType
    <3> QED
      BY <1>2, <2>4, <3>2, <3>3, <3>4, HoldsParts, HoldsPartsAfter DEF Nothing
  <2>7. ASSUME NEW q \in Pid \ {p} PROVE SlotPart(q)' = SlotPart(q)
    <3>1. CASE SlotsOf(q) = {}
      <4>1. SlotsOf(q)' = {}
        BY <2>1, <3>1
      <4> QED
        BY <3>1, <4>1 DEF SlotPart
    <3>2. CASE SlotsOf(q) # {}
      <4>1. PICK j \in 1..pcb_count : j \in SlotsOf(q)
        BY <3>2 DEF SlotsOf
      <4>2. SlotsOf(q) = {j}
        <5>1. q \in Pid
          OBVIOUS
        <5>2. \A m \in SlotsOf(q) : m = j
          BY <4>1, <5>1 DEF OnePcbPerChild
        <5> QED
          BY <4>1, <5>2
      <4>3. j # i
        BY <2>1, <4>1 DEF SlotsOf
      <4> DEFINE k == IF j < i THEN j ELSE j - 1
      <4>4. k \in 1..(pcb_count - 1) /\ k \in Int /\ Origin(i, k) = j
        BY <2>3, <4>1, <4>3 DEF Origin
      <4> HIDE DEF k
      <4>5. ASSUME NEW m \in SlotsOf(q)' PROVE m = k
        <5>1. m \in Int /\ Origin(i, m) = j
          BY <2>1, <4>2
        <5> QED
          BY <2>3, <4>4, <5>1, OriginIsInjective
      <4>6. SlotsOf(q)' = {k}
        <5>1. k \in SlotsOf(q)'
          BY <2>1, <4>1, <4>4
        <5> QED
          BY <4>5, <5>1
      <4>7. pcb_table'[k] = pcb_table[j]
        BY <2>1, <4>4
      <4>8. SlotPart(q) = [ram |-> pcb_table[j].ram_alloc, hdd |-> pcb_table[j].hdd_alloc]
        BY <4>1, <4>2, OnePart
      <4>9. SlotPart(q)' = [ram |-> pcb_table'[k].ram_alloc, hdd |-> pcb_table'[k].hdd_alloc]
        BY <4>4, <4>6, OnePartAfter
      <4> QED
        BY <4>7, <4>8, <4>9
    <3> QED
      BY <3>1, <3>2
  <2>8. \A q \in Pid \ {p} : reclaiming'[q] = reclaiming[q]
    BY <2>2, <2>3
  <2>9. \A q \in Pid \ {p} : Holds(q)' = Holds(q)
    BY <1>2, <2>7, <2>8, PartsStay
  <2> QED
    BY <1>1, <2>6, <2>9, HeldStill
<1> QED
  BY <1>3, <1>4

LEMMA NothingMoves ==
    ASSUME TypeOK, SameHoldings, NEW p \in Pid
    PROVE  MovesMemory(p)
<1>1. ASSUME NEW q \in Pid PROVE Holds(q)' = Holds(q)
  <2>1. SlotPart(q)' = SlotPart(q)
    <3>1. SlotsOf(q)' = SlotsOf(q)
      BY SameSlots DEF SameHoldings
    <3> QED
      BY <3>1, SlotPartStays DEF SameHoldings, SamePids
  <2>2. GrantPart(q)' = GrantPart(q)
    BY DEF SameHoldings, SameStage, GrantPart
  <2> QED
    BY <2>1, <2>2, PartsStay DEF SameHoldings
<1> QED
  BY <1>1, HeldStill DEF SameHoldings

LEMMA AccountingOfStep ==
    ASSUME TypeOK, UnbornIsIdle, OnePcbPerChild, [Next]_vars, Pid # {}
    PROVE  DropsPcb \/ \E p \in Pid : MovesMemory(p)
<1>1. CASE SameHoldings
  BY <1>1, NothingMoves
<1>2. ASSUME NEW p \in Pid, RegisterStep(p) PROVE DropsPcb \/ MovesMemory(p)
  <2>1. CASE pcb_count < MAX_PROCESSES
    BY <1>2, <2>1, RegisterMoves
  <2>2. CASE pcb_count = MAX_PROCESSES
    <3>1. ipc[p] = "granted" /\ ipc' = [ipc EXCEPT ![p] = "replied"]
      BY <1>2 DEF RegisterStep, RegisterChild
    <3>2. ipc'[p] = "replied"
      BY <3>1 DEF TypeOK, IpcManagerTypeOK
    <3> QED
      BY <2>2, <3>1, <3>2 DEF DropsPcb
  <2>3. pcb_count \in Nat /\ pcb_count <= MAX_PROCESSES
    BY TableSize DEF TypeOK, KernelTypeOK
  <2> QED
    BY <2>1, <2>2, <2>3, KernelAssumption
<1>3. ASSUME NEW p \in Pid, RemoveStep(p) \/ GrantStep(p) \/ ReclaimStep(p)
      PROVE  MovesMemory(p)
  BY <1>3, RemoveMoves, GrantMoves, ReclaimMoves
<1> QED
  BY <1>1, <1>2, <1>3, HoldingSteps

\* Memory only moves between the free counters and one child, and all of it arrives:
\* allocation, create_pcb, remove_pcb and the reclaim that follows it lose nothing and make
\* nothing, in whatever order the threads run them, also while the table is full; only a
\* create_pcb that finds no room loses something, and only what its own child was granted.
THEOREM Accounting == Pid # {} /\ Spec => AccountingStep
<1> SUFFICES ASSUME Pid # {} PROVE Spec => AccountingStep
  OBVIOUS
<1>1. Init => TypeOK /\ UnbornIsIdle /\ OnePcbPerChild
  BY TypeInit, OnePcbInit
<1>2. TypeOK /\ UnbornIsIdle /\ OnePcbPerChild /\ [Next]_vars
         => (TypeOK /\ UnbornIsIdle /\ OnePcbPerChild)'
  BY TypeStep, UnbornStep, OnePcbStep
<1>3. TypeOK /\ UnbornIsIdle /\ OnePcbPerChild /\ [Next]_vars
         => [DropsPcb \/ \E p \in Pid : MovesMemory(p)]_vars
  BY AccountingOfStep
<1> QED
  BY <1>1, <1>2, <1>3, PTL DEF Spec, AccountingStep

(***************************************************************************)
(* The sum of what the children hold.                                      *)
(***************************************************************************)
RamHeld == [p \in Pid |-> Holds(p).ram]
HddHeld == [p \in Pid |-> Holds(p).hdd]

LEMMA HeldType == ASSUME TypeOK PROVE RamHeld \in [Pid -> Int] /\ HddHeld \in [Pid -> Int]
<1>1. \A p \in Pid : Holds(p).ram \in Int /\ Holds(p).hdd \in Int
  BY HoldsParts, PartsType
<1> QED
  BY <1>1 DEF RamHeld, HddHeld

LEMMA RamSum == MapThenSumSet(LAMBDA p : Holds(p).ram, Pid) = SumOf(RamHeld, Pid)
<1> DEFINE F(I) == [s \in SUBSET Pid |-> IF s = {} THEN 0
                                        ELSE Holds(First(s)).ram + I[s \ {First(s)}]]
           G(I) == [s \in SUBSET Pid |-> IF s = {} THEN 0
                                        ELSE RamHeld[First(s)] + I[s \ {First(s)}]]
<1>1. ASSUME NEW I PROVE F(I) = G(I)
  <2>1. \A s \in SUBSET Pid : s # {} => RamHeld[First(s)] = Holds(First(s)).ram
    BY FirstOfSet DEF RamHeld
  <2> QED
    BY <2>1
<1>2. MapThenSumSet(LAMBDA p : Holds(p).ram, Pid) = (CHOOSE I : I = F(I))[Pid]
  BY Zenon DEF MapThenSumSet, MapThenFoldSet, First
<1>3. SumOf(RamHeld, Pid) = (CHOOSE I : I = G(I))[Pid]
  BY Zenon DEF SumOf, IsSum
<1> HIDE DEF F, G
<1>4. (CHOOSE I : I = F(I)) = (CHOOSE I : I = G(I))
  BY <1>1, Zenon
<1> QED
  BY <1>2, <1>3, <1>4, Zenon

LEMMA HddSum == MapThenSumSet(LAMBDA p : Holds(p).hdd, Pid) = SumOf(HddHeld, Pid)
<1> DEFINE F(I) == [s \in SUBSET Pid |-> IF s = {} THEN 0
                                        ELSE Holds(First(s)).hdd + I[s \ {First(s)}]]
           G(I) == [s \in SUBSET Pid |-> IF s = {} THEN 0
                                        ELSE HddHeld[First(s)] + I[s \ {First(s)}]]
<1>1. ASSUME NEW I PROVE F(I) = G(I)
  <2>1. \A s \in SUBSET Pid : s # {} => HddHeld[First(s)] = Holds(First(s)).hdd
    BY FirstOfSet DEF HddHeld
  <2> QED
    BY <2>1
<1>2. MapThenSumSet(LAMBDA p : Holds(p).hdd, Pid) = (CHOOSE I : I = F(I))[Pid]
  BY Zenon DEF MapThenSumSet, MapThenFoldSet, First
<1>3. SumOf(HddHeld, Pid) = (CHOOSE I : I = G(I))[Pid]
  BY Zenon DEF SumOf, IsSum
<1> HIDE DEF F, G
<1>4. (CHOOSE I : I = F(I)) = (CHOOSE I : I = G(I))
  BY <1>1, Zenon
<1> QED
  BY <1>2, <1>3, <1>4, Zenon

LEMMA ConservationSums ==
    Conservation <=> /\ free_RAM + SumOf(RamHeld, Pid) = total_RAM
                     /\ free_HDD + SumOf(HddHeld, Pid) = total_HDD
  BY RamSum, HddSum, Zenon DEF Conservation

LEMMA ConservationSumsAfter ==
    Conservation' <=> /\ free_RAM' + SumOf(RamHeld, Pid)' = total_RAM
                      /\ free_HDD' + SumOf(HddHeld, Pid)' = total_HDD
<1>1. (Conservation <=> /\ free_RAM + SumOf(RamHeld, Pid) = total_RAM
                        /\ free_HDD + SumOf(HddHeld, Pid) = total_HDD)'
  BY ConservationSums, PTL
<1> QED
  BY <1>1

LEMMA HeldTypeAfter == TypeOK' => RamHeld' \in [Pid -> Int] /\ HddHeld' \in [Pid -> Int]
<1>1. TypeOK => RamHeld \in [Pid -> Int] /\ HddHeld \in [Pid -> Int]
  BY HeldType
<1>2. (TypeOK => RamHeld \in [Pid -> Int] /\ HddHeld \in [Pid -> Int])'
  BY <1>1, PTL
<1> QED
  BY <1>2

LEMMA ConservationInit == Init => Conservation
<1> SUFFICES ASSUME Init PROVE Conservation
  OBVIOUS
<1>1. \A p \in Pid : Holds(p).ram = 0 /\ Holds(p).hdd = 0
  <2>1. \A p \in Pid : SlotsOf(p) = {} /\ reclaiming[p] = Nothing /\ ipc[p] = "none"
    BY DEF Init, KernelInit, ProcessManagerInit, IpcManagerInit, SlotsOf, pcb_count
  <2> QED
    BY <2>1 DEF Holds, Nothing
<1>2. RamHeld = [p \in Pid |-> 0] /\ HddHeld = [p \in Pid |-> 0]
  BY <1>1 DEF RamHeld, HddHeld
<1>3. SumOf(RamHeld, Pid) = 0 /\ SumOf(HddHeld, Pid) = 0
  BY <1>2, SumOfZeros, KernelAssumption
<1> QED
  BY <1>3, ConservationSums, KernelAssumption DEF Init, KernelInit

\* Nobody whose request was granted meets a full table.
TableHasRoom == \A p \in Pid : ipc[p] = "granted" => pcb_count < MAX_PROCESSES

LEMMA ConservationStep ==
    ASSUME TypeOK, TypeOK', UnbornIsIdle, OnePcbPerChild, Conservation, TableHasRoom, [Next]_vars
    PROVE  Conservation'
<1>0. /\ free_RAM \in Nat /\ free_HDD \in Nat /\ free_RAM' \in Nat /\ free_HDD' \in Nat
      /\ total_RAM \in Nat /\ total_HDD \in Nat /\ IsFiniteSet(Pid)
  BY KernelAssumption DEF TypeOK, KernelTypeOK
<1>1. /\ free_RAM + SumOf(RamHeld, Pid) = total_RAM
      /\ free_HDD + SumOf(HddHeld, Pid) = total_HDD
  BY ConservationSums
<1>2. /\ free_RAM' + SumOf(RamHeld, Pid)' = total_RAM
      /\ free_HDD' + SumOf(HddHeld, Pid)' = total_HDD
  <2>1. CASE Pid = {} /\ SameHoldings
    <3>1. RamHeld' = RamHeld /\ HddHeld' = HddHeld
      BY <2>1 DEF RamHeld, HddHeld
    <3> QED
      BY <1>1, <2>1, <3>1 DEF SameHoldings
  <2>2. ASSUME NEW p \in Pid, MovesMemory(p)
        PROVE  /\ free_RAM' + SumOf(RamHeld, Pid)' = total_RAM
               /\ free_HDD' + SumOf(HddHeld, Pid)' = total_HDD
    <3>1. /\ RamHeld \in [Pid -> Int] /\ HddHeld \in [Pid -> Int]
          /\ RamHeld' \in [Pid -> Int] /\ HddHeld' \in [Pid -> Int]
      BY HeldType, HeldTypeAfter
    <3>2. \A q \in Pid \ {p} : RamHeld'[q] = RamHeld[q] /\ HddHeld'[q] = HddHeld[q]
      BY <2>2 DEF MovesMemory, RamHeld, HddHeld
    <3>3. /\ free_RAM' - free_RAM = RamHeld[p] - RamHeld'[p]
          /\ free_HDD' - free_HDD = HddHeld[p] - HddHeld'[p]
      BY <2>2 DEF MovesMemory, RamHeld, HddHeld
    <3>4. /\ SumOf(RamHeld, Pid) \in Int /\ SumOf(HddHeld, Pid) \in Int
          /\ SumOf(RamHeld', Pid) = SumOf(RamHeld, Pid) + (RamHeld'[p] - RamHeld[p])
          /\ SumOf(HddHeld', Pid) = SumOf(HddHeld, Pid) + (HddHeld'[p] - HddHeld[p])
      BY <1>0, <3>1, <3>2, SumOfChanged
    <3>5. /\ RamHeld[p] \in Int /\ HddHeld[p] \in Int
          /\ RamHeld'[p] \in Int /\ HddHeld'[p] \in Int
      BY <3>1
    <3>6. /\ free_RAM' + SumOf(RamHeld', Pid) = total_RAM
          /\ free_HDD' + SumOf(HddHeld', Pid) = total_HDD
      BY <1>0, <1>1, <3>3, <3>4, <3>5
    <3> QED
      BY <3>6
  <2>3. Pid = {} => SameHoldings
    BY HoldingSteps
  <2>4. ~DropsPcb
    BY TableSize, KernelAssumption DEF DropsPcb, TableHasRoom
  <2>5. Pid # {} => \E p \in Pid : MovesMemory(p)
    BY <2>4, AccountingOfStep
  <2> QED
    BY <2>1, <2>2, <2>3, <2>5
<1> QED
  BY <1>2, ConservationSumsAfter

(***************************************************************************)
(* The table has room for as many children as it has slots: whoever waits  *)
(* to be registered has no PCB yet, and the others have one each.          *)
(***************************************************************************)
LEMMA RoomForAll ==
    ASSUME TypeOK, OnePcbPerChild, Cardinality(Pid) <= MAX_PROCESSES
    PROVE  TableHasRoom
<1> SUFFICES ASSUME NEW p \in Pid, ipc[p] = "granted"
             PROVE  pcb_count < MAX_PROCESSES
  BY DEF TableHasRoom
<1> DEFINE owner == [i \in 1..pcb_count |-> pcb_table[i].pid]
<1>0. pcb_count \in Nat /\ MAX_PROCESSES \in Nat
  BY TableSize
<1>1. SlotsOf(p) = {}
  BY DEF OnePcbPerChild
<1>2. ASSUME NEW i \in 1..pcb_count PROVE owner[i] \in Pid \ {p}
  <2>1. pcb_table[i].pid \in Pid
    BY TableSize DEF Process
  <2> QED
    BY <1>1, <2>1 DEF SlotsOf
<1>3. ASSUME NEW i \in 1..pcb_count, NEW j \in 1..pcb_count, owner[i] = owner[j] PROVE i = j
  <2>1. i \in SlotsOf(owner[i]) /\ j \in SlotsOf(owner[i]) /\ owner[i] \in Pid
    BY <1>2, <1>3 DEF SlotsOf
  <2> HIDE DEF owner
  <2> QED
    BY <2>1 DEF OnePcbPerChild
<1>4. owner \in Injection(1..pcb_count, Pid \ {p})
  BY <1>2, <1>3 DEF Injection, IsInjective
<1> HIDE DEF owner
<1>5. /\ IsFiniteSet(Pid \ {p}) /\ Cardinality(Pid \ {p}) = Cardinality(Pid) - 1
      /\ Cardinality(Pid) \in Nat
  BY KernelAssumption, FS_RemoveElement, FS_CardinalityType
<1>6. Cardinality(1..pcb_count) <= Cardinality(Pid) - 1
  BY <1>4, <1>5, FS_Injection
<1>7. Cardinality(1..pcb_count) = pcb_count
  BY <1>0, FS_Interval
<1> QED
  BY <1>0, <1>5, <1>6, <1>7

\* As long as the table has room for whoever is to be registered, what is free and what the
\* children hold add up to the machine's memory, at each step of each thread.
THEOREM MemoryIsConserved == Spec /\ []TableHasRoom => []Conservation
<1> DEFINE Inv == TypeOK /\ UnbornIsIdle /\ OnePcbPerChild
<1>1. Init => Inv /\ Conservation
  BY TypeInit, OnePcbInit, ConservationInit
<1>2. Inv /\ [Next]_vars => Inv'
  BY TypeStep, UnbornStep, OnePcbStep
<1>3. Inv /\ Inv' /\ Conservation /\ TableHasRoom /\ [Next]_vars => Conservation'
  BY ConservationStep
<1> HIDE DEF Inv
<1> QED
  BY <1>1, <1>2, <1>3, PTL DEF Spec

\* It has, if there are no more children than slots (which MAX_PROCESSES is to ensure).
THEOREM MemoryIsConservedForFew ==
    Cardinality(Pid) <= MAX_PROCESSES /\ Spec => []Conservation
<1> SUFFICES ASSUME Cardinality(Pid) <= MAX_PROCESSES PROVE Spec => []Conservation
  OBVIOUS
<1>1. TypeOK /\ OnePcbPerChild => TableHasRoom
  BY RoomForAll
<1> QED
  BY <1>1, TypeCorrect, OnePcb, MemoryIsConserved, PTL

(***************************************************************************)
(* The PCB of a child keeps its place among the others, and what becomes   *)
(* of it never sinks to a less urgent level.                               *)
(***************************************************************************)
LEMMA BecameKeeps ==
    ASSUME NEW r \in Process, NEW s, Became(r, s)
    PROVE  s.pid = r.pid /\ s.queue_level <= r.queue_level
<1>1. r.queue_level <= r.queue_level
  BY DEF Process, Level, QUEUE_SYSTEM, QUEUE_INTERACTIVE, QUEUE_BACKGROUND
<1>2. Aged(r).pid = r.pid /\ Aged(r).queue_level <= r.queue_level
  BY AgedKeeps, AgedType
<1>3. CASE s = Aged(r)
  BY <1>2, <1>3
<1>4. CASE s # Aged(r)
  <2>1. s.pid = r.pid /\ s.queue_level = r.queue_level
    BY <1>4 DEF Became, Process
  <2> QED
    BY <1>1, <2>1
<1> QED
  BY <1>3, <1>4

LEMMA OneFirstSlot ==
    ASSUME NEW q \in Pid, NEW k \in Int, SlotsOf(q) = {k}
    PROVE  FirstSlot(q) = k
  BY OnlySlot DEF FirstSlot

LEMMA OneFirstSlotAfter ==
    ASSUME NEW q \in Pid, NEW k \in Int, SlotsOf(q)' = {k}
    PROVE  FirstSlot(q)' = k
  BY OnlySlot DEF FirstSlot

LEMMA PcbFollows ==
    ASSUME TypeOK, OnePcbPerChild, OnePcbPerChild', [Next]_vars, NEW q \in Pid,
           SlotsOf(q) # {}, SlotsOf(q)' # {}
    PROVE  /\ FirstSlot(q) \in 1..pcb_count
           /\ Became(pcb_table[FirstSlot(q)], pcb_table'[FirstSlot(q)'])
<1>0. pcb_count \in Nat /\ \A i \in 1..pcb_count : pcb_table[i] \in Process
  BY TableSize
<1>1. PICK j \in 1..pcb_count : j \in SlotsOf(q)
  BY DEF SlotsOf
<1>2. PICK k \in 1..Len(pcb_table') : k \in SlotsOf(q)'
  BY DEF SlotsOf, pcb_count
<1>3. SlotsOf(q) = {j} /\ SlotsOf(q)' = {k}
  <2>1. \A m \in SlotsOf(q) : m = j
    BY <1>1 DEF OnePcbPerChild
  <2>2. \A m \in SlotsOf(q)' : m = k
    BY <1>2 DEF OnePcbPerChild
  <2> QED
    BY <1>1, <1>2, <2>1, <2>2
<1>4. FirstSlot(q) = j /\ FirstSlot(q)' = k
  BY <1>3, OneFirstSlot, OneFirstSlotAfter
<1>5. pcb_table[j].pid = q /\ pcb_table'[k].pid = q
  BY <1>1, <1>2 DEF SlotsOf
<1>6. CASE EachBecame
  <2>1. k \in 1..pcb_count /\ Became(pcb_table[k], pcb_table'[k])
    BY <1>2, <1>6 DEF EachBecame
  <2>2. pcb_table'[k].pid = pcb_table[k].pid
    BY <1>0, <2>1, BecameKeeps
  <2>3. k \in SlotsOf(q)
    BY <1>5, <2>1, <2>2 DEF SlotsOf
  <2> QED
    BY <1>1, <1>3, <1>4, <2>1, <2>3
<1>7. ASSUME NEW p \in Pid, RegisterChild(p) PROVE Became(pcb_table[j], pcb_table'[k])
  <2>1. p # q
    BY <1>1, <1>7 DEF RegisterChild, OnePcbPerChild
  <2>2. k = j
    BY <1>3, <1>7, <2>1, CreatedSlots
  <2>3. pcb_table'[j] = pcb_table[j]
    <3>1. CASE pcb_count < MAX_PROCESSES
      BY <1>7, <3>1, CreatedSlots
    <3>2. CASE ~(pcb_count < MAX_PROCESSES)
      BY <1>7, <3>2, CreatedSlots
    <3> QED
      BY <3>1, <3>2
  <2> QED
    BY <2>2, <2>3 DEF Became
<1>8. ASSUME NEW p \in Pid, Removes(p) PROVE Became(pcb_table[j], pcb_table'[k])
  <2>1. /\ \A m \in 1..(pcb_count - 1) : pcb_table'[m] = pcb_table[Origin(FirstSlot(p), m)]
        /\ SlotsOf(q)' = {m \in 1..(pcb_count - 1) : Origin(FirstSlot(p), m) \in SlotsOf(q)}
    BY <1>8, RemovedSlots DEF Removes
  <2>2. Origin(FirstSlot(p), k) = j /\ pcb_table'[k] = pcb_table[j]
    BY <1>3, <2>1
  <2> QED
    BY <2>2 DEF Became
<1>9. Became(pcb_table[j], pcb_table'[k])
  BY <1>4, <1>6, <1>7, <1>8, TableSteps
<1> QED
  BY <1>1, <1>4, <1>9

LEMMA LevelsOnlyRiseStep ==
    ASSUME TypeOK, OnePcbPerChild, OnePcbPerChild', [Next]_vars, NEW p \in Pid,
           SlotsOf(p) # {}, SlotsOf(p)' # {}
    PROVE  pcb_table'[FirstSlot(p)'].queue_level <= pcb_table[FirstSlot(p)].queue_level
<1>1. /\ FirstSlot(p) \in 1..pcb_count
      /\ Became(pcb_table[FirstSlot(p)], pcb_table'[FirstSlot(p)'])
  BY PcbFollows
<1>2. pcb_table[FirstSlot(p)] \in Process
  BY <1>1, TableSize
<1> QED
  BY <1>1, <1>2, BecameKeeps

\* While a child has its PCB, no step makes it less urgent: aging, whatever the priorities
\* set meanwhile, only promotes, and rebuilding the queues moves nobody to another level.
THEOREM NeverSinks == Spec => LevelsOnlyRise
<1> DEFINE Rises == \A p \in Pid : SlotsOf(p) # {} /\ SlotsOf(p)' # {} =>
                       pcb_table'[FirstSlot(p)'].queue_level
                           <= pcb_table[FirstSlot(p)].queue_level
           Inv == TypeOK /\ UnbornIsIdle /\ OnePcbPerChild
<1>1. Init => Inv
  BY TypeInit, OnePcbInit
<1>2. Inv /\ [Next]_vars => Inv'
  BY TypeStep, UnbornStep, OnePcbStep
<1>3. Inv /\ Inv' /\ [Next]_vars => [Rises]_vars
  BY LevelsOnlyRiseStep
<1>4. LevelsOnlyRise <=> [][Rises]_vars
  BY DEF LevelsOnlyRise
<1> HIDE DEF Rises, Inv
<1> QED
  BY <1>1, <1>2, <1>3, <1>4, PTL DEF Spec

(***************************************************************************)
(* A child that runs has its PCB.                                          *)
(***************************************************************************)
\* How far a child has come bounds how far its request has, and only one that is leaving
\* or gone has sent a notice.
ChildAndRequest ==
    \A p \in Pid :
        /\ child[p] = "starting" => ipc[p] = "serving"
        /\ child[p] = "running" => ipc[p] = "replied"
        /\ notice[p] => child[p] \in {"leaving", "zombie", "reaped"}

AnsweredHasPcb ==
    \A p \in Pid : child[p] \in {"requested", "running"} /\ ipc[p] = "replied" => SlotsOf(p) # {}

LEMMA ChildAndRequestStep ==
    TypeOK /\ UnbornIsIdle /\ ChildAndRequest /\ [Next]_vars => ChildAndRequest'
<1> SUFFICES ASSUME TypeOK, UnbornIsIdle, ChildAndRequest, [Next]_vars PROVE ChildAndRequest'
  OBVIOUS
<1>0. UNCHANGED tasks => ChildAndRequest'
  BY DEF tasks, ChildAndRequest
<1>a. /\ DOMAIN child = Pid /\ DOMAIN ipc = Pid /\ DOMAIN notice = Pid
  BY DEF TypeOK, IpcManagerTypeOK
<1>1. ASSUME NEW p \in Pid, BootDaemon(p) \/ Launch(p) PROVE ChildAndRequest'
  <2>1. StartChild(p)
    BY <1>1 DEF BootDaemon, Launch, start_daemon, launch_task
  <2> QED
    BY <2>1, <1>a DEF StartChild, ChildAndRequest
<1>2. ASSUME NEW p \in Pid, Resume(p) \/ Minimize(p) \/ Reclaim(p) \/ Unblock(p)
                            \/ SetPriority(p) \/ UpdateState(p)
      PROVE  ChildAndRequest'
  BY <1>0, <1>2 DEF Resume, Minimize, Reclaim, Unblock, SetPriority, UpdateState
<1>3. ASSUME NEW p \in Pid, Exit(p) \/ Sigchld(p) \/ LastReap(p) \/ Reaps(p)
      PROVE  ChildAndRequest'
  <2>1. child' = [child EXCEPT ![p] = "reaped"] /\ UNCHANGED <<ipc, notice>>
    BY <1>3 DEF Exit, Sigchld, LastReap, ForegroundExits, sigchld_handler, FinalReap, Reaps
  <2> QED
    BY <2>1, <1>a DEF ChildAndRequest
<1>4. ASSUME NEW p \in Pid, Die(p) \/ Interrupt(p) PROVE ChildAndRequest'
  <2>1. child' \in {child, [child EXCEPT ![p] = "zombie"]} /\ UNCHANGED <<ipc, notice>>
    BY <1>4 DEF Die, ChildDies, Interrupt
  <2> QED
    BY <2>1, <1>a DEF ChildAndRequest
<1>5. ASSUME NEW p \in Pid, ChildStep(p) PROVE ChildAndRequest'
  <2>1. CASE send_resource_request(p)
    BY <2>1, <1>a DEF send_resource_request, ChildAndRequest
  <2>2. CASE wait_for_grant(p)
    BY <2>2, <1>a DEF wait_for_grant, ChildAndRequest
  <2>3. CASE send_termination_notice(p)
    <3>1. PICK written \in BOOLEAN : notice' = [notice EXCEPT ![p] = written]
      BY <2>3 DEF send_termination_notice
    <3> QED
      BY <2>3, <3>1, <1>a DEF send_termination_notice, ChildAndRequest
  <2> QED
    BY <1>5, <2>1, <2>2, <2>3 DEF ChildStep
<1>6. ASSUME NEW p \in Pid, Grant(p) PROVE ChildAndRequest'
  BY <1>6, <1>a DEF Grant, GrantRequest, ChildAndRequest
<1>7. ASSUME NEW p \in Pid, Deny(p) PROVE ChildAndRequest'
  BY <1>7, <1>a DEF Deny, DenyRequest, ChildAndRequest
<1>8. ASSUME NEW p \in Pid, Register(p) PROVE ChildAndRequest'
  BY <1>8, <1>a DEF Register, RegisterChild, ChildAndRequest
<1>9. ASSUME NEW p \in Pid, Listen(p) PROVE ChildAndRequest'
  BY <1>9, <1>a DEF Listen, ReadNotice, ChildAndRequest
<1>10. ASSUME Dispatch \/ SchedulerPauses \/ SchedulerWaits \/ Age \/ AcquireCore \/ Shutdown
       PROVE  ChildAndRequest'
  BY <1>0, <1>10 DEF Dispatch, SchedulerPauses, SchedulerWaits, Age, AcquireCore, Shutdown
<1>11. ASSUME UNCHANGED vars PROVE ChildAndRequest'
  BY <1>0, <1>11 DEF vars
<1>12. ASSUME NEW p \in Pid, HandlerSticks(p) PROVE ChildAndRequest'
  BY <1>0, <1>3, <1>12 DEF HandlerSticks
<1> QED
  BY <1>1, <1>2, <1>3, <1>4, <1>5, <1>6, <1>7, <1>8, <1>9, <1>10, <1>11, <1>12
     DEF Next, MenuStep, TaskStep, IpcStep, ApiStep, ThreadStep, SchedulerStep

\* A child is answered when it is registered, and one that was answered goes on from there.
LEMMA WhoIsAnswered ==
    ASSUME TypeOK, UnbornIsIdle, [Next]_vars, NEW q \in Pid,
           child'[q] \in {"requested", "running"}, ipc'[q] = "replied"
    PROVE  \/ child[q] \in {"requested", "running"} /\ ipc[q] = "replied"
           \/ RegisterChild(q)
<1> DEFINE Goal == \/ child[q] \in {"requested", "running"} /\ ipc[q] = "replied"
                   \/ RegisterChild(q)
<1>0. UNCHANGED <<child, ipc>> => Goal
  OBVIOUS
<1>a. DOMAIN child = Pid /\ DOMAIN ipc = Pid
  BY DEF TypeOK, IpcManagerTypeOK
<1>1. ASSUME NEW p \in Pid, BootDaemon(p) \/ Launch(p) PROVE Goal
  <2>1. StartChild(p)
    BY <1>1 DEF BootDaemon, Launch, start_daemon, launch_task
  <2> QED
    BY <2>1, <1>a DEF StartChild
<1>2. ASSUME NEW p \in Pid, Resume(p) \/ Minimize(p) \/ Reclaim(p) \/ Unblock(p)
                            \/ SetPriority(p) \/ UpdateState(p)
      PROVE  Goal
  BY <1>0, <1>2 DEF Resume, Minimize, Reclaim, Unblock, SetPriority, UpdateState, tasks
<1>3. ASSUME NEW p \in Pid, Exit(p) \/ Sigchld(p) \/ LastReap(p) \/ Reaps(p) PROVE Goal
  <2>1. child' = [child EXCEPT ![p] = "reaped"] /\ UNCHANGED ipc
    BY <1>3 DEF Exit, Sigchld, LastReap, ForegroundExits, sigchld_handler, FinalReap, Reaps
  <2> QED
    BY <2>1, <1>a
<1>4. ASSUME NEW p \in Pid, Die(p) \/ Interrupt(p) PROVE Goal
  <2>1. child' \in {child, [child EXCEPT ![p] = "zombie"]} /\ UNCHANGED ipc
    BY <1>4 DEF Die, ChildDies, Interrupt
  <2> QED
    BY <2>1, <1>a
<1>5. ASSUME NEW p \in Pid, ChildStep(p) PROVE Goal
  BY <1>5, <1>a DEF ChildStep, send_resource_request, wait_for_grant, send_termination_notice
<1>6. ASSUME NEW p \in Pid, Grant(p) \/ Deny(p) \/ Listen(p) PROVE Goal
  BY <1>6, <1>a DEF Grant, GrantRequest, Deny, DenyRequest, Listen, ReadNotice
<1>7. ASSUME NEW p \in Pid, Register(p) PROVE Goal
  BY <1>7, <1>a DEF Register, RegisterChild
<1>8. ASSUME Dispatch \/ SchedulerPauses \/ SchedulerWaits \/ Age \/ AcquireCore \/ Shutdown
      PROVE  Goal
  BY <1>0, <1>8 DEF Dispatch, SchedulerPauses, SchedulerWaits, Age, AcquireCore, Shutdown, tasks
<1>9. ASSUME UNCHANGED vars PROVE Goal
  BY <1>0, <1>9 DEF vars, tasks
<1>10. ASSUME NEW p \in Pid, HandlerSticks(p) PROVE Goal
  BY <1>0, <1>3, <1>10 DEF HandlerSticks, tasks
<1> HIDE DEF Goal
<1>11. Goal
  BY <1>1, <1>2, <1>3, <1>4, <1>5, <1>6, <1>7, <1>8, <1>9, <1>10
     DEF Next, MenuStep, TaskStep, IpcStep, ApiStep, ThreadStep, SchedulerStep
<1> QED
  BY <1>11 DEF Goal

LEMMA PcbStays ==
    ASSUME TypeOK, OnePcbPerChild, [Next]_vars, NEW q \in Pid, SlotsOf(q) # {}, ~Removes(q)
    PROVE  SlotsOf(q)' # {}
<1>0. pcb_count \in Nat /\ \A i \in 1..pcb_count : pcb_table[i] \in Process
  BY TableSize
<1>1. PICK j \in 1..pcb_count : j \in SlotsOf(q)
  BY DEF SlotsOf
<1>2. CASE EachBecame
  <2>1. pcb_table'[j].pid = pcb_table[j].pid
    BY <1>0, <1>2, BecameKeeps DEF EachBecame
  <2> QED
    BY <1>1, <1>2, <2>1 DEF EachBecame, SlotsOf, pcb_count
<1>3. ASSUME NEW p \in Pid, RegisterChild(p) PROVE SlotsOf(q)' # {}
  <2>1. p # q
    BY <1>1, <1>3 DEF RegisterChild, OnePcbPerChild
  <2> QED
    BY <1>1, <1>3, <2>1, CreatedSlots
<1>4. ASSUME NEW p \in Pid, Removes(p) PROVE SlotsOf(q)' # {}
  <2> DEFINE i == FirstSlot(p)
             k == IF j < i THEN j ELSE j - 1
  <2>1. /\ i \in SlotsOf(p)
        /\ SlotsOf(q)' = {m \in 1..(pcb_count - 1) : Origin(i, m) \in SlotsOf(q)}
    BY <1>4, RemovedSlots DEF Removes
  <2> HIDE DEF i
  <2>2. i \in 1..pcb_count /\ i # j
    BY <1>1, <1>4, <2>1 DEF SlotsOf
  <2>3. k \in 1..(pcb_count - 1) /\ Origin(i, k) = j
    BY <1>0, <2>2 DEF Origin
  <2> QED
    BY <1>1, <2>1, <2>3
<1> QED
  BY <1>2, <1>3, <1>4, TableSteps

LEMMA AnsweredHasPcbStep ==
    ASSUME TypeOK, UnbornIsIdle, OnePcbPerChild, ChildAndRequest, AnsweredHasPcb, TableHasRoom,
           [Next]_vars
    PROVE  AnsweredHasPcb'
<1> SUFFICES ASSUME NEW q \in Pid, child'[q] \in {"requested", "running"}, ipc'[q] = "replied"
             PROVE  SlotsOf(q)' # {}
  BY DEF AnsweredHasPcb
<1>1. CASE RegisterChild(q)
  <2>1. pcb_count < MAX_PROCESSES
    BY <1>1 DEF RegisterChild, TableHasRoom
  <2> QED
    BY <1>1, <2>1, CreatedSlots
<1>2. CASE child[q] \in {"requested", "running"} /\ ipc[q] = "replied"
  <2>1. SlotsOf(q) # {}
    BY <1>2 DEF AnsweredHasPcb
  <2>2. ~Removes(q)
    BY <1>2 DEF Removes, ChildAndRequest
  <2> QED
    BY <2>1, <2>2, PcbStays
<1> QED
  BY <1>1, <1>2, WhoIsAnswered

\* create_pcb comes before the answer and nobody removes a PCB before its child is dead or
\* leaving: as long as the table has room, a child that runs is in it.
THEOREM RunningIsListed == Spec /\ []TableHasRoom => []RunningHasPcb
<1> DEFINE Inv == TypeOK /\ UnbornIsIdle /\ OnePcbPerChild /\ ChildAndRequest
<1>1. Init => Inv /\ AnsweredHasPcb
  <2>1. Init => ChildAndRequest /\ AnsweredHasPcb
    BY DEF Init, IpcManagerInit, ChildAndRequest, AnsweredHasPcb
  <2> QED
    BY <2>1, TypeInit, OnePcbInit
<1>2. Inv /\ [Next]_vars => Inv'
  BY TypeStep, UnbornStep, OnePcbStep, ChildAndRequestStep
<1>3. Inv /\ AnsweredHasPcb /\ TableHasRoom /\ [Next]_vars => AnsweredHasPcb'
  BY AnsweredHasPcbStep
<1>4. Inv /\ AnsweredHasPcb => RunningHasPcb
  BY DEF ChildAndRequest, AnsweredHasPcb, RunningHasPcb
<1> HIDE DEF Inv
<1> QED
  BY <1>1, <1>2, <1>3, <1>4, PTL DEF Spec

THEOREM RunningIsListedForFew ==
    Cardinality(Pid) <= MAX_PROCESSES /\ Spec => []RunningHasPcb
<1> SUFFICES ASSUME Cardinality(Pid) <= MAX_PROCESSES PROVE Spec => []RunningHasPcb
  OBVIOUS
<1>1. TypeOK /\ OnePcbPerChild => TableHasRoom
  BY RoomForAll
<1> QED
  BY <1>1, TypeCorrect, OnePcb, RunningIsListed, PTL
=============================================================================
