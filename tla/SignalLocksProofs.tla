------------------------- MODULE SignalLocksProofs --------------------------
(***************************************************************************)
(* However many threads there are and wherever SIGCHLD interrupts them,    *)
(* they never wait for each other in a circle.                             *)
(***************************************************************************)
EXTENDS SignalLocks, LockOrder, TLAPS

\* A thread holds what it has still to release, in the function it runs and in the
\* handler, and the handler has come past none of the locks held below it.
HolderOwes ==
    \A t \in Thread, l \in Lock :
        holder[l] = t <=> l \in Held(main[t]) \/ l \in Held(handler[t])

HandlerOnlyIfHandling == \A t \in Thread : t \notin handling => handler[t] = <<>>

HandlerPassedFree ==
    \A t \in Thread : handler[t] # <<>> => Held(main[t]) \intersect Passed(handler[t]) = {}

Inv == TypeOK /\ HolderOwes /\ HandlerOnlyIfHandling /\ HandlerPassedFree

-----------------------------------------------------------------------------
(* What the assumptions on the bodies say of one step. *)

\* Taking a lock adds it to what the code holds.
LEMMA TakingHolds ==
    ASSUME NEW code \in MainCode \union HandlerCode, NEW l \in Lock, Wants(code, l)
    PROVE  /\ Held(Tail(code)) = Held(code) \union {l}
           /\ \A k \in Held(code) : Rank(k) < Rank(l)
<1>1. InOrder(code) /\ code # <<>> /\ Head(code) = Acquire(l)
  BY BodiesInOrder DEF Wants
<1> QED
  BY <1>1 DEF InOrder, Acquire, Release

\* Releasing one removes it, and it was held.
LEMMA ReleasingHolds ==
    ASSUME NEW code \in MainCode \union HandlerCode, NEW l \in Lock,
           code # <<>>, Head(code) = Release(l)
    PROVE  l \in Held(code) /\ Held(Tail(code)) = Held(code) \ {l}
<1>1. InOrder(code)
  BY BodiesInOrder
<1> QED
  BY <1>1 DEF InOrder, Acquire, Release

LEMMA RankIsNat == ASSUME NEW l \in Lock PROVE Rank(l) \in 1..5
  BY DEF Lock, Rank

-----------------------------------------------------------------------------

LEMMA InitInv == Init => Inv
<1> SUFFICES ASSUME Init PROVE Inv
  OBVIOUS
<1>1. TypeOK
  BY BodiesHoldNothing DEF Init, TypeOK
<1>2. HolderOwes
  BY BodiesHoldNothing, ThreadAssumption DEF Init, HolderOwes
<1>3. HandlerOnlyIfHandling /\ HandlerPassedFree
  BY DEF Init, HandlerOnlyIfHandling, HandlerPassedFree
<1> QED
  BY <1>1, <1>2, <1>3 DEF Inv

\* What t's next operation does to the code left and to what it holds.
LEMMA GoesKeepsTypes ==
    ASSUME Inv, NEW t \in Thread, Code(t) # <<>>, Goes(t)
    PROVE  /\ main' \in [Thread -> MainCode] /\ handler' \in [Thread -> HandlerCode]
           /\ t \in handling => main' = main /\ handler'[t] = Tail(handler[t])
           /\ t \notin handling => handler' = handler /\ main'[t] = Tail(main[t])
           /\ \A u \in Thread \ {t} : main'[u] = main[u] /\ handler'[u] = handler[u]
<1>1. main[t] \in MainCode /\ handler[t] \in HandlerCode
  BY DEF Inv, TypeOK
<1>2. CASE t \in handling
  <2>1. Tail(handler[t]) \in HandlerCode
    BY <1>1, <1>2, BodiesInOrder DEF Code
  <2> QED
    BY <1>1, <1>2, <2>1 DEF Inv, TypeOK, Goes
<1>3. CASE t \notin handling
  <2>1. Tail(main[t]) \in MainCode
    BY <1>1, <1>3, BodiesInOrder DEF Code
  <2> QED
    BY <1>1, <1>3, <2>1 DEF Inv, TypeOK, Goes
<1> QED
  BY <1>2, <1>3

LEMMA TakesLockStep ==
    ASSUME Inv, NEW t \in Thread, TakesLock(t)
    PROVE  Inv'
<1>1. PICK l \in Lock : /\ Wants(Code(t), l) /\ holder[l] = Nobody
                        /\ holder' = [holder EXCEPT ![l] = t]
  BY DEF TakesLock
<1>2. Goes(t) /\ Code(t) # <<>> /\ UNCHANGED <<handling, pending, zombies, deaths>>
  BY <1>1 DEF TakesLock, Wants
<1>3. main[t] \in MainCode /\ handler[t] \in HandlerCode /\ Code(t) \in MainCode \union HandlerCode
  BY DEF Inv, TypeOK, Code
<1>4. Held(Tail(Code(t))) = Held(Code(t)) \union {l}
  BY <1>1, <1>3, TakingHolds
<1>5. /\ main' \in [Thread -> MainCode] /\ handler' \in [Thread -> HandlerCode]
      /\ t \in handling => main' = main /\ handler'[t] = Tail(handler[t])
      /\ t \notin handling => handler' = handler /\ main'[t] = Tail(main[t])
      /\ \A u \in Thread \ {t} : main'[u] = main[u] /\ handler'[u] = handler[u]
  BY <1>2, GoesKeepsTypes
<1>6. holder \in [Lock -> Thread \union {Nobody}] /\ t # Nobody
  BY ThreadAssumption DEF Inv, TypeOK
<1>7. holder'[l] = t /\ \A k \in Lock \ {l} : holder'[k] = holder[k]
  BY <1>1, <1>6
<1>8. TypeOK'
  BY <1>1, <1>2, <1>5, <1>6 DEF Inv, TypeOK
<1>9. HolderOwes'
  <2> SUFFICES ASSUME NEW u \in Thread, NEW k \in Lock
               PROVE  holder'[k] = u <=> k \in Held(main'[u]) \/ k \in Held(handler'[u])
    BY DEF HolderOwes
  <2>1. holder[k] = u <=> k \in Held(main[u]) \/ k \in Held(handler[u])
    BY DEF Inv, HolderOwes
  <2>2. CASE u # t
    <3>1. main'[u] = main[u] /\ handler'[u] = handler[u]
      BY <1>5, <2>2
    <3>2. CASE k = l
      BY <1>1, <1>7, <2>1, <2>2, <3>1, <3>2, ThreadAssumption
    <3>3. CASE k # l
      BY <1>7, <2>1, <3>1, <3>3
    <3> QED
      BY <3>2, <3>3
  <2>3. CASE u = t
    <3>1. k \in Held(main'[t]) \/ k \in Held(handler'[t])
            <=> k = l \/ k \in Held(main[t]) \/ k \in Held(handler[t])
      BY <1>4, <1>5 DEF Code
    <3> QED
      BY <1>7, <2>1, <2>3, <3>1
  <2> QED
    BY <2>2, <2>3
<1>10. HandlerOnlyIfHandling'
  BY <1>2, <1>5 DEF Inv, HandlerOnlyIfHandling
<1>11. HandlerPassedFree'
  <2> SUFFICES ASSUME NEW u \in Thread, handler'[u] # <<>>
               PROVE  Held(main'[u]) \intersect Passed(handler'[u]) = {}
    BY DEF HandlerPassedFree
  <2>1. CASE u # t
    BY <1>5, <2>1 DEF Inv, HandlerPassedFree
  <2>2. CASE u = t /\ t \in handling
    <3>1. PassesInOrder(handler[t]) /\ handler[t] # <<>> /\ Head(handler[t]) = Acquire(l)
      BY <1>1, <1>3, <2>2, BodiesInOrder DEF Wants, Code
    <3>2. Passed(Tail(handler[t])) \subseteq Passed(handler[t]) \union {l}
      BY <3>1 DEF PassesInOrder
    <3>3. l \notin Held(main[t])
      BY <1>1, <1>6 DEF Inv, HolderOwes
    <3>4. Held(main[t]) \intersect Passed(handler[t]) = {}
      BY <3>1 DEF Inv, HandlerPassedFree
    <3> QED
      BY <1>5, <2>2, <3>2, <3>3, <3>4
  <2>3. CASE u = t /\ t \notin handling
    BY <1>5, <2>3 DEF Inv, HandlerOnlyIfHandling
  <2> QED
    BY <2>1, <2>2, <2>3
<1> QED
  BY <1>8, <1>9, <1>10, <1>11 DEF Inv

LEMMA GivesLockStep ==
    ASSUME Inv, NEW t \in Thread, GivesLock(t)
    PROVE  Inv'
<1>1. PICK l \in Lock : /\ Code(t) # <<>> /\ Head(Code(t)) = Release(l)
                        /\ holder' = [holder EXCEPT ![l] = Nobody]
  BY DEF GivesLock
<1>2. Goes(t) /\ UNCHANGED <<handling, pending, zombies, deaths>>
  BY DEF GivesLock
<1>3. main[t] \in MainCode /\ handler[t] \in HandlerCode /\ Code(t) \in MainCode \union HandlerCode
  BY DEF Inv, TypeOK, Code
<1>4. l \in Held(Code(t)) /\ Held(Tail(Code(t))) = Held(Code(t)) \ {l}
  BY <1>1, <1>3, ReleasingHolds
<1>5. /\ main' \in [Thread -> MainCode] /\ handler' \in [Thread -> HandlerCode]
      /\ t \in handling => main' = main /\ handler'[t] = Tail(handler[t])
      /\ t \notin handling => handler' = handler /\ main'[t] = Tail(main[t])
      /\ \A u \in Thread \ {t} : main'[u] = main[u] /\ handler'[u] = handler[u]
  BY <1>1, <1>2, GoesKeepsTypes
<1>6. holder \in [Lock -> Thread \union {Nobody}] /\ Nobody \notin Thread
  BY ThreadAssumption DEF Inv, TypeOK
<1>7. holder'[l] = Nobody /\ \A k \in Lock \ {l} : holder'[k] = holder[k]
  BY <1>1, <1>6
<1>8. holder[l] = t
  BY <1>4 DEF Inv, HolderOwes, Code
\* The lock is owed once: by the handler or by the code below it, not by both.
<1>9. t \in handling => l \notin Held(main[t])
  <2> SUFFICES ASSUME t \in handling PROVE l \notin Held(main[t])
    OBVIOUS
  <2>1. PassesInOrder(handler[t]) /\ handler[t] # <<>>
    BY <1>1, <1>3, BodiesInOrder DEF Code
  <2>2. l \in Passed(handler[t])
    BY <1>4, <2>1 DEF PassesInOrder, Code
  <2> QED
    BY <2>1, <2>2 DEF Inv, HandlerPassedFree
<1>10. t \notin handling => Held(handler[t]) = {}
  BY BodiesHoldNothing DEF Inv, HandlerOnlyIfHandling
<1>11. TypeOK'
  BY <1>1, <1>2, <1>5, <1>6 DEF Inv, TypeOK
<1>12. HolderOwes'
  <2> SUFFICES ASSUME NEW u \in Thread, NEW k \in Lock
               PROVE  holder'[k] = u <=> k \in Held(main'[u]) \/ k \in Held(handler'[u])
    BY DEF HolderOwes
  <2>1. holder[k] = u <=> k \in Held(main[u]) \/ k \in Held(handler[u])
    BY DEF Inv, HolderOwes
  <2>2. CASE u # t
    <3>1. main'[u] = main[u] /\ handler'[u] = handler[u]
      BY <1>5, <2>2
    <3>2. CASE k = l
      BY <1>6, <1>7, <1>8, <2>1, <2>2, <3>1, <3>2
    <3>3. CASE k # l
      BY <1>7, <2>1, <3>1, <3>3
    <3> QED
      BY <3>2, <3>3
  <2>3. CASE u = t
    <3>1. k \in Held(main'[t]) \/ k \in Held(handler'[t])
            <=> k # l /\ (k \in Held(main[t]) \/ k \in Held(handler[t]))
      <4>1. CASE t \in handling
        BY <1>4, <1>5, <1>9, <4>1 DEF Code
      <4>2. CASE t \notin handling
        BY <1>4, <1>5, <1>10, <4>2 DEF Code
      <4> QED
        BY <4>1, <4>2
    <3>2. holder'[k] = t <=> k # l /\ holder[k] = t
      BY <1>6, <1>7
    <3> QED
      BY <2>1, <2>3, <3>1, <3>2
  <2> QED
    BY <2>2, <2>3
<1>13. HandlerOnlyIfHandling'
  BY <1>2, <1>5 DEF Inv, HandlerOnlyIfHandling
<1>14. HandlerPassedFree'
  <2> SUFFICES ASSUME NEW u \in Thread, handler'[u] # <<>>
               PROVE  Held(main'[u]) \intersect Passed(handler'[u]) = {}
    BY DEF HandlerPassedFree
  <2>1. CASE u # t
    BY <1>5, <2>1 DEF Inv, HandlerPassedFree
  <2>2. CASE u = t /\ t \in handling
    <3>1. PassesInOrder(handler[t]) /\ handler[t] # <<>> /\ Head(handler[t]) = Release(l)
      BY <1>1, <1>3, <2>2, BodiesInOrder DEF Code
    <3>2. Passed(Tail(handler[t])) \subseteq Passed(handler[t])
      BY <3>1 DEF PassesInOrder
    <3> QED
      BY <1>5, <2>2, <3>1, <3>2 DEF Inv, HandlerPassedFree
  <2>3. CASE u = t /\ t \notin handling
    BY <1>5, <2>3 DEF Inv, HandlerOnlyIfHandling
  <2> QED
    BY <2>1, <2>2, <2>3
<1> QED
  BY <1>11, <1>12, <1>13, <1>14 DEF Inv

-----------------------------------------------------------------------------
(* The steps that take and give no lock. *)

LEMMA CallStep ==
    ASSUME Inv, NEW t \in Thread, CallsFunction(t) \/ ForegroundReaps(t)
    PROVE  Inv'
<1>1. PICK body \in MainCode : Held(body) = {} /\ main' = [main EXCEPT ![t] = body]
  <2>1. CASE CallsFunction(t)
    BY <2>1, BodiesHoldNothing, ThreadAssumption DEF CallsFunction
  <2>2. CASE ForegroundReaps(t)
    BY <2>2, BodiesHoldNothing DEF ForegroundReaps
  <2> QED
    BY <2>1, <2>2
<1>2. /\ t \notin handling /\ main[t] = <<>>
      /\ UNCHANGED <<holder, handling, handler, pending, deaths>>
      /\ zombies' \in Nat
  BY DEF CallsFunction, ForegroundReaps, Inv, TypeOK
<1>3. main'[t] = body /\ \A u \in Thread \ {t} : main'[u] = main[u]
  BY <1>1 DEF Inv, TypeOK
<1>4. TypeOK'
  BY <1>1, <1>2 DEF Inv, TypeOK
<1>5. HolderOwes'
  BY <1>1, <1>2, <1>3, BodiesHoldNothing DEF Inv, HolderOwes
<1>6. HandlerOnlyIfHandling' /\ HandlerPassedFree'
  BY <1>2, <1>3 DEF Inv, HandlerOnlyIfHandling, HandlerPassedFree
<1> QED
  BY <1>4, <1>5, <1>6 DEF Inv

LEMMA HandlerReapsStep ==
    ASSUME Inv, NEW t \in Thread, HandlerReaps(t)
    PROVE  Inv'
<1>1. PICK body \in HandlerCalls : handler' = [handler EXCEPT ![t] = body]
  BY DEF HandlerReaps
<1>2. /\ t \in handling /\ handler[t] = <<>>
      /\ UNCHANGED <<holder, main, handling, pending, deaths>>
      /\ zombies' \in Nat
  BY DEF HandlerReaps, Inv, TypeOK
<1>3. body \in HandlerCode /\ Held(body) = {} /\ Passed(body) = {}
  BY BodiesHoldNothing
<1>4. handler'[t] = body /\ \A u \in Thread \ {t} : handler'[u] = handler[u]
  BY <1>1 DEF Inv, TypeOK
<1>5. TypeOK'
  BY <1>1, <1>2, <1>3 DEF Inv, TypeOK
<1>6. HolderOwes'
  BY <1>2, <1>3, <1>4, BodiesHoldNothing DEF Inv, HolderOwes
<1>7. HandlerOnlyIfHandling' /\ HandlerPassedFree'
  BY <1>2, <1>3, <1>4 DEF Inv, HandlerOnlyIfHandling, HandlerPassedFree
<1> QED
  BY <1>5, <1>6, <1>7 DEF Inv

LEMMA OtherStep ==
    ASSUME Inv,
           \/ ChildDies \/ UNCHANGED vars
           \/ \E t \in Thread : Interrupts(t) \/ HandlerReturns(t)
    PROVE  Inv'
<1>1. /\ UNCHANGED <<holder, main, handler>>
      /\ handling' \subseteq Thread /\ pending' \in BOOLEAN
      /\ zombies' \in Nat /\ deaths' \in Nat
      /\ \A t \in Thread : t \notin handling' => t \notin handling \/ handler[t] = <<>>
  <2>1. CASE ChildDies
    BY <2>1 DEF ChildDies, Inv, TypeOK
  <2>2. CASE UNCHANGED vars
    BY <2>2 DEF vars, Inv, TypeOK
  <2>3. ASSUME NEW t \in Thread, Interrupts(t) \/ HandlerReturns(t)
        PROVE  /\ UNCHANGED <<holder, main, handler>>
               /\ handling' \subseteq Thread /\ pending' \in BOOLEAN
               /\ zombies' \in Nat /\ deaths' \in Nat
               /\ \A u \in Thread : u \notin handling' => u \notin handling \/ handler[u] = <<>>
    BY <2>3 DEF Interrupts, HandlerReturns, Inv, TypeOK
  <2> QED
    BY <2>1, <2>2, <2>3
<1> QED
  BY <1>1 DEF Inv, TypeOK, HolderOwes, HandlerOnlyIfHandling, HandlerPassedFree

LEMMA StepInv == Inv /\ [Next]_vars => Inv'
<1> SUFFICES ASSUME Inv, [Next]_vars PROVE Inv'
  OBVIOUS
<1>1. CASE ChildDies \/ UNCHANGED vars
  BY <1>1, OtherStep
<1>2. CASE \E t \in Thread : ThreadStep(t) \/ Interrupts(t)
  <2> PICK t \in Thread : ThreadStep(t) \/ Interrupts(t)
    BY <1>2
  <2>1. CASE TakesLock(t)
    BY <2>1, TakesLockStep
  <2>2. CASE GivesLock(t)
    BY <2>2, GivesLockStep
  <2>3. CASE CallsFunction(t) \/ ForegroundReaps(t)
    BY <2>3, CallStep
  <2>4. CASE HandlerReaps(t)
    BY <2>4, HandlerReapsStep
  <2>5. CASE HandlerReturns(t) \/ Interrupts(t)
    BY <2>5, OtherStep
  <2> QED
    BY <2>1, <2>2, <2>3, <2>4, <2>5 DEF ThreadStep, HandlerStep
<1> QED
  BY <1>1, <1>2 DEF Next

-----------------------------------------------------------------------------
(* What the invariant says of waiting. *)

\* Who waits for another thread wants a lock above all it holds.
LEMMA WaitsAbove ==
    ASSUME Inv, NEW t \in Thread, NEW l \in Lock, Wants(Code(t), l), holder[l] # t,
           NEW k \in Lock, holder[k] = t
    PROVE  Rank(k) < Rank(l)
<1>1. main[t] \in MainCode /\ handler[t] \in HandlerCode /\ Code(t) \in MainCode \union HandlerCode
  BY DEF Inv, TypeOK, Code
<1>2. \A j \in Held(Code(t)) : Rank(j) < Rank(l)
  BY <1>1, TakingHolds
<1>3. k \in Held(main[t]) \/ k \in Held(handler[t])
  BY DEF Inv, HolderOwes
<1>4. CASE t \notin handling
  <2>1. Held(handler[t]) = {} /\ Code(t) = main[t]
    BY <1>4, BodiesHoldNothing DEF Inv, HandlerOnlyIfHandling, Code
  <2> QED
    BY <1>2, <1>3, <2>1
<1>5. CASE t \in handling
  <2>1. Code(t) = handler[t] /\ handler[t] # <<>>
    BY <1>5 DEF Code, Wants
  <2>2. l \notin Held(main[t])
    BY DEF Inv, HolderOwes
  <2>3. Held(main[t]) \intersect Passed(handler[t]) = {}
    BY <2>1 DEF Inv, HandlerPassedFree
  <2>4. InterruptsInOrder(main[t], handler[t])
    BY <1>1, BodiesInOrder
  <2>5. \A j \in Held(main[t]) : Rank(j) < Rank(l)
    BY <2>1, <2>2, <2>3, <2>4 DEF InterruptsInOrder
  <2> QED
    BY <1>2, <1>3, <2>1, <2>5
<1> QED
  BY <1>4, <1>5

\* Nobody in a circle waits for a lock of rank n, if nobody waits for a higher one.
LEMMA NotAtRank ==
    ASSUME Inv, NEW S \in SUBSET Thread,
           \A t \in S : \E u \in S \ {t} : WaitsFor(t, u),
           NEW n \in 1..5,
           \A t \in S, l \in Lock : Wants(Code(t), l) => Rank(l) <= n
    PROVE  \A t \in S, l \in Lock : Wants(Code(t), l) => Rank(l) <= n - 1
<1> SUFFICES ASSUME NEW t \in S, NEW l \in Lock, Wants(Code(t), l), Rank(l) = n
             PROVE  FALSE
  BY RankIsNat
<1>1. PICK u \in S \ {t} : WaitsFor(t, u)
  OBVIOUS
<1>2. holder[l] = u
  <2>1. PICK k \in Lock : Wants(Code(t), k) /\ holder[k] = u
    BY <1>1 DEF WaitsFor
  <2>2. k = l
    BY <2>1 DEF Wants, Acquire
  <2> QED
    BY <2>1, <2>2
<1>3. PICK v \in S \ {u} : WaitsFor(u, v)
  OBVIOUS
<1>4. PICK k \in Lock : Wants(Code(u), k) /\ holder[k] = v
  BY <1>3 DEF WaitsFor
<1>5. Rank(l) < Rank(k)
  BY <1>2, <1>3, <1>4, WaitsAbove
<1>6. Rank(k) <= n
  BY <1>4
<1> QED
  BY <1>5, <1>6, RankIsNat

LEMMA NoCircle == Inv => NoCircularWait
<1> SUFFICES ASSUME Inv, NEW S \in SUBSET Thread, S # {},
                    \A t \in S : \E u \in S \ {t} : WaitsFor(t, u)
             PROVE  FALSE
  BY DEF NoCircularWait
<1> DEFINE Below(n) == \A t \in S, l \in Lock : Wants(Code(t), l) => Rank(l) <= n
<1>1. Below(5)
  BY RankIsNat
<1>2. \A n \in 1..5 : Below(n) => Below(n - 1)
  BY NotAtRank
<1> HIDE DEF Below
<1>3. Below(4)
  BY <1>1, <1>2
<1>4. Below(3)
  BY <1>2, <1>3
<1>5. Below(2)
  BY <1>2, <1>4
<1>6. Below(1)
  BY <1>2, <1>5
<1>7. Below(0)
  BY <1>2, <1>6
<1>8. PICK t \in S : \E l \in Lock : Wants(Code(t), l)
  BY DEF WaitsFor
<1> QED
  BY <1>7, <1>8, RankIsNat DEF Below

\* Code that was not interrupted never wants what it holds.
LEMMA OnlyHandlers ==
    ASSUME Inv, NEW t \in Thread, WaitsForItself(t)
    PROVE  t \in handling
<1> SUFFICES ASSUME t \notin handling PROVE FALSE
  OBVIOUS
<1>1. PICK l \in Lock : Wants(Code(t), l) /\ holder[l] = t
  BY DEF WaitsForItself, WaitsFor
<1>2. Held(handler[t]) = {} /\ Code(t) = main[t] /\ main[t] \in MainCode
  BY BodiesHoldNothing DEF Inv, TypeOK, HandlerOnlyIfHandling, Code
<1>3. l \in Held(main[t])
  BY <1>1, <1>2 DEF Inv, HolderOwes
<1>4. Rank(l) < Rank(l)
  BY <1>1, <1>2, <1>3, TakingHolds
<1> QED
  BY <1>4, RankIsNat

\* The kernel's threads never wait for each other in a circle, at any number of threads
\* and wherever the signal comes; a thread that waits for itself is in the handler.
THEOREM LocksAreOrdered == Spec => []OnlyHandlerBlocksItself
<1>1. Inv => OnlyHandlerBlocksItself
  BY NoCircle, OnlyHandlers DEF Inv, OnlyHandlerBlocksItself
<1> QED
  BY InitInv, StepInv, <1>1, PTL DEF Spec
=============================================================================
