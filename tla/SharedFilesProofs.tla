-------------------------- MODULE SharedFilesProofs --------------------------
(***************************************************************************)
(* What MCSharedFiles' run checks of the files several processes share,    *)
(* proved for any number of writers, lines and entries.  A behaviour of    *)
(* the whole is, of each file, a behaviour of those who share it or one in *)
(* which they stay where they are.                                         *)
(***************************************************************************)
EXTENDS MCSharedFiles, CountingLemmas, WellFoundedInduction, TLAPS

-----------------------------------------------------------------------------
(* The ring array of rotate_log *)

\* Of the lines that were put into a slot the last one is there: the lines of the last round
\* are all there.
LEMMA SlotIsLast ==
    ASSUME KEEP \in Nat \ {0}, NEW S, lines \in Seq(S), NEW p \in 1..Len(lines),
           p > Len(lines) - KEEP
    PROVE  Writers!Slot((p - 1) % KEEP) = lines[p]
<1> DEFINE k == (p - 1) % KEEP
           Last(i) == /\ (i - 1) % KEEP = k
                      /\ \A j \in DOMAIN lines : (j - 1) % KEEP = k => j <= i
<1>1. Len(lines) \in Nat /\ DOMAIN lines = 1..Len(lines)
  OBVIOUS
<1>2. ASSUME NEW j \in DOMAIN lines, (j - 1) % KEEP = k PROVE j <= p
  <2>1. SUFFICES ASSUME j > p PROVE FALSE
    BY <1>1
  <2>2. p - 1 \in Nat /\ j - 1 \in Nat /\ p - 1 < j - 1
    BY <1>1, <2>1
  <2>3. (j - 1) - (p - 1) >= KEEP
    BY <1>2, <2>2, FarApart
  <2> QED
    BY <1>1, <2>2, <2>3
<1>3. p \in DOMAIN lines /\ Last(p)
  BY <1>1, <1>2
<1>4. \A i \in DOMAIN lines : Last(i) => i = p
  BY <1>1, <1>2, <1>3
<1> HIDE DEF k
<1>5. (CHOOSE i \in DOMAIN lines : Last(i)) = p
  BY <1>3, <1>4
<1> QED
  BY <1>5 DEF Writers!Slot, k

\* What is written back is the header and the newest lines in their order.
LEMMA RewrittenIsNewest ==
    ASSUME KEEP \in Nat \ {0}, NEW S, lines \in Seq(S)
    PROVE  Writers!Rewritten = <<Header>> \o Writers!Newest(lines, KEEP)
<1> DEFINE count == Len(lines)
           start == IF count > KEEP THEN count % KEEP ELSE 0
           total == IF count > KEEP THEN KEEP ELSE count
           back == [i \in 1..total |-> Writers!Slot((start + i - 1) % KEEP)]
           new == Writers!Newest(lines, KEEP)
<1>1. count \in Nat
  OBVIOUS
<1>2. /\ Len(new) = total /\ new \in Seq(S)
      /\ \A i \in 1..total : new[i] = lines[count - total + i]
  <2>1. CASE count <= KEEP
    <3>1. new = lines /\ total = count
      BY <1>1, <2>1 DEF Writers!Newest
    <3>2. \A i \in 1..count : count - count + i = i
      BY <1>1
    <3> HIDE DEF new, total
    <3> QED
      BY <3>1, <3>2
  <2>2. CASE ~(count <= KEEP)
    <3>1. new = SubSeq(lines, count - KEEP + 1, count) /\ total = KEEP
      BY <1>1, <2>2 DEF Writers!Newest
    <3>2. count - KEEP + 1 \in 1..count
      BY <1>1, <2>2
    <3>3. /\ SubSeq(lines, count - KEEP + 1, count) \in Seq(S)
          /\ Len(SubSeq(lines, count - KEEP + 1, count)) = KEEP
          /\ \A i \in 1..KEEP : SubSeq(lines, count - KEEP + 1, count)[i] = lines[count - KEEP + i]
      BY <1>1, <3>2
    <3> HIDE DEF new, total
    <3> QED
      BY <3>1, <3>3
  <2> QED
    BY <2>1, <2>2
<1>3. ASSUME NEW i \in 1..total
      PROVE  /\ count - total + i \in 1..count /\ count - total + i > count - KEEP
             /\ (start + i - 1) % KEEP = ((count - total + i) - 1) % KEEP
  <2>1. CASE count > KEEP
    <3>1. start = count % KEEP /\ total = KEEP /\ i \in 1..KEEP /\ i - 1 \in Nat
      BY <2>1, <1>3
    <3>2. count % KEEP \in Nat
      BY <1>1
    <3>3. ((count % KEEP) + (i - 1)) % KEEP = (count + (i - 1)) % KEEP
      BY <1>1, <3>1, RemainderOfSum
    <3>4. /\ (count - KEEP + i) - 1 \in Nat
          /\ ((count - KEEP + i) - 1) + KEEP = count + (i - 1)
          /\ (count % KEEP) + i - 1 = (count % KEEP) + (i - 1)
      BY <1>1, <2>1, <3>1, <3>2
    <3>5. (((count - KEEP + i) - 1) + KEEP) % KEEP = ((count - KEEP + i) - 1) % KEEP
      BY <3>4, RoundAgain
    <3>6. count - KEEP + i \in 1..count /\ count - KEEP + i > count - KEEP
      BY <1>1, <2>1, <3>1
    <3> QED
      BY <3>1, <3>3, <3>4, <3>5, <3>6
  <2>2. CASE ~(count > KEEP)
    <3>1. start = 0 /\ total = count
      BY <2>2
    <3>2. start + i - 1 = (count - total + i) - 1 /\ count - total + i = i
      <4>1. i \in Int /\ count \in Int
        BY <1>1, <3>1
      <4> HIDE DEF start, total, count
      <4> QED
        BY <3>1, <4>1
    <3> QED
      BY <1>1, <1>3, <2>2, <3>1, <3>2
  <2> QED
    BY <2>1, <2>2
<1>4. \A i \in 1..total : back[i] = new[i]
  BY <1>2, <1>3, SlotIsLast
<1>5. new = [i \in 1..total |-> new[i]]
  BY <1>1, <1>2
<1>6. back = new
  BY <1>4, <1>5
<1> QED
  BY <1>6 DEF Writers!Rewritten

-----------------------------------------------------------------------------
(* Those who write system.log *)

Entry == Writers!Entry
K(e) == Writers!IsKernelLine(e)

\* The kernel's lines stand in the order of their times; all are older than a time; and those
\* of one sequence are older than those of another behind a place.
Ordered(s) == \A i, j \in 1..Len(s) : i < j /\ K(s[i]) /\ K(s[j]) => s[i].time < s[j].time
Before(s, m) == \A i \in 1..Len(s) : K(s[i]) => s[i].time < m
Older(s, r, place) == \A i \in 1..Len(s), j \in 1..Len(r) :
    j > place /\ K(s[i]) /\ K(r[j]) => s[i].time < r[j].time

WritersTypes ==
    /\ Writers!TypeOK
    /\ monitor = "write" => stamp[Monitor] # 0

\* Who has a time for its line has the lock, and is the newest.
Stamped ==
    /\ Before(log, clock + 1) /\ Before(lines, clock + 1)
    /\ \A t \in Thread :
        stamp[t] # 0 =>
            /\ log_lock = t /\ stamp[t] <= clock
            /\ Before(log, stamp[t]) /\ Before(lines, stamp[t])

\* What rotate_log has read is in order, and older than what it has not.
Reading ==
    /\ rotation \in {"read", "truncate", "write"} /\ cleared = "no" => Ordered(lines)
    /\ rotation = "read" /\ cleared = "no" => Older(lines, log, Len(lines))
    /\ rotation \in {"read", "truncate"} => written = 0

\* What it has written back stands where it has put it; what stands behind is newer.
Writing ==
    rotation = "write" =>
        /\ cleared # "now" =>
            written <= Len(log) /\ \A i \in 1..written : log[i] = Writers!Rewritten[i]
        /\ cleared = "no" => Older(lines, log, written)

LogInOrder == cleared = "no" => Ordered(log)

WritersInv == WritersTypes /\ Stamped /\ Reading /\ Writing /\ LogInOrder

LEMMA LogConstants ==
    KEEP \in Nat \ {0} /\ MaxTime \in Nat /\ Monitor \notin Thread /\ "nobody" \notin Thread
  BY FilesAssumption DEF Writers!LogAssumption, Writers!Nobody

\* The time of a line of the kernel is a number.
LEMMA TimeOfLine == ASSUME NEW e \in Entry, K(e) PROVE e.time \in 1..MaxTime
  BY DEF Entry, K, Writers!Entry, Writers!IsKernelLine

LEMMA TimesOfLines ==
    ASSUME NEW s \in Seq(Entry)
    PROVE  \A i \in 1..Len(s) : s[i] \in Entry /\ (K(s[i]) => s[i].time \in Nat)
<1>1. \A i \in 1..Len(s) : s[i] \in Entry
  OBVIOUS
<1>2. MaxTime \in Nat
  BY LogConstants
<1> QED
  BY <1>1, <1>2, TimeOfLine

\* A line that is newer than all of a sequence goes to its end.
LEMMA OrderedAppend ==
    ASSUME NEW s \in Seq(Entry), NEW e \in Entry, Ordered(s), K(e) => Before(s, e.time)
    PROVE  Ordered(Append(s, e))
<1> DEFINE r == Append(s, e)
<1>1. /\ Len(r) = Len(s) + 1 /\ Len(s) \in Nat
      /\ \A i \in 1..Len(s) : r[i] = s[i]
      /\ r[Len(s) + 1] = e
  OBVIOUS
<1> HIDE DEF r
<1>2. ASSUME NEW i \in 1..Len(r), NEW j \in 1..Len(r), i < j, K(r[i]), K(r[j])
      PROVE  r[i].time < r[j].time
  <2>1. i \in 1..Len(s)
    BY <1>1, <1>2
  <2>2. CASE j \in 1..Len(s)
    BY <1>1, <1>2, <2>1, <2>2 DEF Ordered
  <2>3. CASE j = Len(s) + 1
    BY <1>1, <1>2, <2>1, <2>3 DEF Before
  <2> QED
    BY <1>1, <2>2, <2>3
<1> QED
  BY <1>2 DEF Ordered, r

LEMMA BeforeAppend ==
    ASSUME NEW s \in Seq(Entry), NEW e \in Entry, NEW m, Before(s, m), K(e) => e.time < m
    PROVE  Before(Append(s, e), m)
<1> DEFINE r == Append(s, e)
<1>1. /\ Len(r) = Len(s) + 1 /\ Len(s) \in Nat
      /\ \A i \in 1..Len(s) : r[i] = s[i]
      /\ r[Len(s) + 1] = e
  OBVIOUS
<1> HIDE DEF r
<1>2. \A i \in 1..Len(r) : i \in 1..Len(s) \/ i = Len(s) + 1
  BY <1>1
<1>3. \A i \in 1..Len(r) : K(r[i]) => r[i].time < m
  BY <1>1, <1>2 DEF Before
<1> QED
  BY <1>3 DEF Before, r

LEMMA OlderAppend ==
    ASSUME NEW s \in Seq(Entry), NEW r \in Seq(Entry), NEW e \in Entry, NEW place \in Nat,
           Older(s, r, place), K(e) => Before(s, e.time)
    PROVE  Older(s, Append(r, e), place)
<1> DEFINE q == Append(r, e)
<1>1. /\ Len(q) = Len(r) + 1 /\ Len(r) \in Nat
      /\ \A i \in 1..Len(r) : q[i] = r[i]
      /\ q[Len(r) + 1] = e
  OBVIOUS
<1> HIDE DEF q
<1>2. \A i \in 1..Len(q) : i \in 1..Len(r) \/ i = Len(r) + 1
  BY <1>1
<1>3. ASSUME NEW i \in 1..Len(s), NEW j \in 1..Len(q), j > place, K(s[i]), K(q[j])
      PROVE  s[i].time < q[j].time
  <2>1. CASE j \in 1..Len(r)
    BY <1>1, <1>3, <2>1 DEF Older
  <2>2. CASE j = Len(r) + 1
    BY <1>1, <1>3, <2>2 DEF Before
  <2> QED
    BY <1>2, <2>1, <2>2
<1> QED
  BY <1>3 DEF Older, q

LEMMA NothingIsInOrder ==
    /\ Ordered(<<>>) /\ \A m : Before(<<>>, m)
    /\ \A s, place : Older(s, <<>>, place) /\ Older(<<>>, s, place)
<1>1. Len(<<>>) = 0 /\ 1..0 = {}
  OBVIOUS
<1> QED
  BY <1>1, Zenon DEF Ordered, Before, Older

LEMMA WritersStart == Writers!Init => WritersInv
<1> SUFFICES ASSUME Writers!Init PROVE WritersInv
  OBVIOUS
<1>1. /\ log = <<>> /\ lines = <<>> /\ clock = 0 /\ written = 0 /\ rotation = "sleep"
      /\ stamp = [w \in Thread \union {Monitor} |-> 0] /\ cleared = "no"
  BY DEF Writers!Init
<1>2. WritersTypes
  <2>1. /\ 0 \in 0..MaxTime /\ 0 \in 0..(KEEP + 1)
    BY LogConstants
  <2> QED
    BY <1>1, <2>1 DEF WritersTypes, Writers!TypeOK, Writers!Init
<1>3. Stamped /\ Reading /\ Writing /\ LogInOrder
  BY <1>1, NothingIsInOrder DEF Stamped, Reading, Writing, LogInOrder
<1> QED
  BY <1>2, <1>3 DEF WritersInv

\* A line goes to the end of the log, or is lost.
LEMMA AppendStep ==
    ASSUME WritersInv, NEW e \in Entry, log' \in {log, Append(log, e)},
           UNCHANGED <<lines, rotation, written, cleared>>,
           K(e) => Before(log, e.time) /\ Before(lines, e.time)
    PROVE  /\ log' \in Seq(Entry) /\ Reading' /\ Writing' /\ LogInOrder'
           /\ \A m : Before(log, m) /\ (K(e) => e.time < m) => Before(log', m)
<1>1. log \in Seq(Entry) /\ lines \in Seq(Entry) /\ written \in Nat /\ Len(lines) \in Nat
  BY LogConstants DEF WritersInv, WritersTypes, Writers!TypeOK, Entry
<1>2. CASE log' = log
  <2>1. Writers!Rewritten' = Writers!Rewritten
    BY DEF Writers!Rewritten, Writers!Slot
  <2>2. Reading' /\ LogInOrder'
    BY <1>2 DEF WritersInv, Reading, LogInOrder
  <2>3. Writing'
    BY <1>2, <2>1 DEF WritersInv, Writing
  <2> QED
    BY <1>1, <1>2, <2>2, <2>3
<1>3. CASE log' = Append(log, e)
  <2>1. log' \in Seq(Entry) /\ Len(log') = Len(log) + 1 /\ Len(log) \in Nat
        /\ \A i \in 1..Len(log) : log'[i] = log[i]
    BY <1>1, <1>3
  <2>2. LogInOrder'
    BY <1>1, <1>3, OrderedAppend DEF WritersInv, LogInOrder
  <2>3. Reading'
    BY <1>1, <1>3, OlderAppend DEF WritersInv, Reading
  <2>4. Writing'
    <3>1. ASSUME rotation = "write", cleared # "now"
          PROVE  written <= Len(log') /\ \A i \in 1..written : log'[i] = Writers!Rewritten[i]
      <4>1. written <= Len(log) /\ \A i \in 1..written : log[i] = Writers!Rewritten[i]
        BY <3>1 DEF WritersInv, Writing
      <4>2. \A i \in 1..written : i \in 1..Len(log)
        BY <1>1, <2>1, <4>1
      <4> QED
        BY <1>1, <2>1, <4>1, <4>2
    <3>2. ASSUME rotation = "write", cleared = "no" PROVE Older(lines, log', written)
      BY <1>1, <1>3, <3>2, OlderAppend DEF WritersInv, Writing
    <3>3. Writers!Rewritten' = Writers!Rewritten
      BY DEF Writers!Rewritten, Writers!Slot
    <3> QED
      BY <3>1, <3>2, <3>3 DEF Writing
  <2>5. \A m : Before(log, m) /\ (K(e) => e.time < m) => Before(log', m)
    BY <1>1, <1>3, BeforeAppend
  <2> QED
    BY <2>1, <2>2, <2>3, <2>4, <2>5
<1> QED
  BY <1>2, <1>3

\* A step that moves no line and not the rewrite keeps every order.
LEMMA NoLineMoves ==
    ASSUME WritersInv, UNCHANGED <<log, lines, rotation, written, cleared>>
    PROVE  Reading' /\ Writing' /\ LogInOrder'
<1>1. Writers!Rewritten' = Writers!Rewritten
  BY DEF Writers!Rewritten, Writers!Slot
<1>2. Reading' /\ LogInOrder'
  BY DEF WritersInv, Reading, LogInOrder
<1>3. Writing'
  BY <1>1 DEF WritersInv, Writing
<1> QED
  BY <1>2, <1>3

LEMMA EnterLogStep == ASSUME WritersInv, NEW t \in Thread, Writers!EnterLog(t) PROVE WritersInv'
<1>1. /\ stamp[t] = 0 /\ clock < MaxTime /\ log_lock = "nobody" /\ log_lock' = t
      /\ clock' = clock + 1 /\ stamp' = [stamp EXCEPT ![t] = clock + 1]
      /\ UNCHANGED <<log, daemon_running, cleared, monitor, rotation, lines, written>>
  BY DEF Writers!EnterLog, Writers!rotator, Writers!Nobody
<1>2. clock \in Nat /\ clock <= MaxTime /\ MaxTime \in Nat
  BY LogConstants DEF WritersInv, WritersTypes, Writers!TypeOK
<1>3. clock + 1 \in 0..MaxTime
  BY <1>1, <1>2
<1>4. /\ stamp' \in [Thread \union {Monitor} -> 0..MaxTime] /\ stamp'[t] = clock + 1
      /\ \A u \in Thread \union {Monitor} : u # t => stamp'[u] = stamp[u]
  BY <1>1, <1>3 DEF WritersInv, WritersTypes, Writers!TypeOK
<1>5. WritersTypes'
  BY <1>1, <1>3, <1>4, LogConstants DEF WritersInv, WritersTypes, Writers!TypeOK, Writers!Nobody
<1>6. \A u \in Thread : u # t => stamp'[u] = 0
  BY <1>1, <1>4, LogConstants DEF WritersInv, Stamped
<1>7. log \in Seq(Entry) /\ lines \in Seq(Entry)
  BY DEF WritersInv, WritersTypes, Writers!TypeOK, Entry
<1>8. /\ Before(log, clock + 1) /\ Before(lines, clock + 1)
      /\ Before(log, clock + 1 + 1) /\ Before(lines, clock + 1 + 1)
  <2>1. Before(log, clock + 1) /\ Before(lines, clock + 1)
    BY DEF WritersInv, Stamped
  <2>2. ASSUME NEW s \in Seq(Entry), Before(s, clock + 1) PROVE Before(s, clock + 1 + 1)
    <3>1. \A i \in 1..Len(s) : K(s[i]) => s[i].time \in Nat
      BY TimesOfLines
    <3> QED
      BY <1>2, <2>2, <3>1 DEF Before
  <2> QED
    BY <1>7, <2>1, <2>2
<1>9. Stamped'
  <2>1. clock + 1 <= clock + 1
    BY <1>2
  <2>2. ASSUME NEW u \in Thread, stamp'[u] # 0 PROVE u = t
    BY <1>6, <2>2
  <2> QED
    BY <1>1, <1>4, <1>8, <2>1, <2>2 DEF Stamped
<1>10. Reading' /\ Writing' /\ LogInOrder'
  BY <1>1, NoLineMoves
<1> QED
  BY <1>5, <1>9, <1>10 DEF WritersInv

LEMMA LeaveLogStep == ASSUME WritersInv, NEW t \in Thread, Writers!LeaveLog(t) PROVE WritersInv'
<1> DEFINE e == [by |-> t, time |-> stamp[t]]
<1>1. /\ stamp[t] # 0 /\ log' \in {log, Append(log, e)}
      /\ stamp' = [stamp EXCEPT ![t] = 0] /\ log_lock' = "nobody"
      /\ UNCHANGED <<clock, daemon_running, cleared, monitor, rotation, lines, written>>
  BY DEF Writers!LeaveLog, Writers!rotator, Writers!Nobody
<1>2. /\ stamp \in [Thread \union {Monitor} -> 0..MaxTime] /\ clock \in Nat /\ MaxTime \in Nat
  BY LogConstants DEF WritersInv, WritersTypes, Writers!TypeOK
<1>3. stamp[t] \in 1..MaxTime
  BY <1>1, <1>2
<1>4. e \in Entry
  BY <1>3 DEF Entry, Writers!Entry
<1>5. /\ log_lock = t /\ stamp[t] <= clock /\ Before(log, stamp[t]) /\ Before(lines, stamp[t])
      /\ Before(log, clock + 1) /\ Before(lines, clock + 1)
  BY <1>1 DEF WritersInv, Stamped
<1>6. e.time = stamp[t] /\ stamp[t] < clock + 1
  BY <1>2, <1>3, <1>5
<1> HIDE DEF e
<1>7. /\ log' \in Seq(Entry) /\ Reading' /\ Writing' /\ LogInOrder' /\ Before(log', clock + 1)
  BY <1>1, <1>4, <1>5, <1>6, AppendStep
<1>8. /\ stamp' \in [Thread \union {Monitor} -> 0..MaxTime] /\ stamp'[t] = 0
      /\ \A u \in Thread \union {Monitor} : u # t => stamp'[u] = stamp[u]
  BY <1>1, <1>2
<1>9. WritersTypes'
  BY <1>1, <1>7, <1>8, LogConstants
  DEF WritersInv, WritersTypes, Writers!TypeOK, Entry, Writers!Nobody
<1>10. \A u \in Thread : stamp'[u] = 0
  BY <1>5, <1>8 DEF WritersInv, Stamped
<1>11. Stamped'
  BY <1>1, <1>5, <1>7, <1>10 DEF Stamped
<1> QED
  BY <1>7, <1>9, <1>11 DEF WritersInv

LEMMA StartSnapshotStep == ASSUME WritersInv, Writers!StartSnapshot PROVE WritersInv'
<1>1. /\ clock < MaxTime /\ clock' = clock + 1 /\ monitor' = "write"
      /\ stamp' = [stamp EXCEPT ![Monitor] = clock + 1]
      /\ UNCHANGED <<log, log_lock, daemon_running, cleared, rotation, lines, written>>
  BY DEF Writers!StartSnapshot, Writers!rotator
<1>2. clock \in Nat /\ clock <= MaxTime /\ MaxTime \in Nat
  BY LogConstants DEF WritersInv, WritersTypes, Writers!TypeOK
<1>3. clock + 1 \in 0..MaxTime /\ clock + 1 # 0
  BY <1>1, <1>2
<1>4. /\ stamp' \in [Thread \union {Monitor} -> 0..MaxTime] /\ stamp'[Monitor] = clock + 1
      /\ \A u \in Thread : stamp'[u] = stamp[u]
  BY <1>1, <1>3, LogConstants DEF WritersInv, WritersTypes, Writers!TypeOK
<1>5. WritersTypes'
  BY <1>1, <1>3, <1>4 DEF WritersInv, WritersTypes, Writers!TypeOK
<1>6. log \in Seq(Entry) /\ lines \in Seq(Entry)
  BY DEF WritersInv, WritersTypes, Writers!TypeOK, Entry
<1>7. Before(log, clock + 1 + 1) /\ Before(lines, clock + 1 + 1)
  <2>1. Before(log, clock + 1) /\ Before(lines, clock + 1)
    BY DEF WritersInv, Stamped
  <2>2. ASSUME NEW s \in Seq(Entry), Before(s, clock + 1) PROVE Before(s, clock + 1 + 1)
    <3>1. \A i \in 1..Len(s) : K(s[i]) => s[i].time \in Nat
      BY TimesOfLines
    <3> QED
      BY <1>2, <2>2, <3>1 DEF Before
  <2> QED
    BY <1>6, <2>1, <2>2
<1>8. Stamped'
  <2>1. ASSUME NEW u \in Thread, stamp'[u] # 0
        PROVE  /\ log_lock' = u /\ stamp'[u] <= clock'
               /\ Before(log', stamp'[u]) /\ Before(lines', stamp'[u])
    <3>1. /\ log_lock = u /\ stamp[u] <= clock /\ stamp[u] \in 0..MaxTime
          /\ Before(log, stamp[u]) /\ Before(lines, stamp[u])
      BY <1>4, <2>1 DEF WritersInv, WritersTypes, Writers!TypeOK, Stamped
    <3>2. stamp[u] <= clock + 1
      BY <1>2, <3>1
    <3> QED
      BY <1>1, <1>4, <3>1, <3>2
  <2> QED
    BY <1>1, <1>7, <2>1 DEF Stamped
<1>9. Reading' /\ Writing' /\ LogInOrder'
  BY <1>1, NoLineMoves
<1> QED
  BY <1>5, <1>8, <1>9 DEF WritersInv

LEMMA WriteSnapshotStep == ASSUME WritersInv, Writers!WriteSnapshot PROVE WritersInv'
<1> DEFINE e == [by |-> Monitor, time |-> stamp[Monitor]]
<1>1. /\ monitor = "write" /\ monitor' = "sleep" /\ log' \in {log, Append(log, e)}
      /\ stamp' = [stamp EXCEPT ![Monitor] = 0]
      /\ UNCHANGED <<clock, log_lock, daemon_running, cleared, rotation, lines, written>>
  BY DEF Writers!WriteSnapshot, Writers!rotator
<1>2. stamp \in [Thread \union {Monitor} -> 0..MaxTime] /\ MaxTime \in Nat /\ stamp[Monitor] # 0
  BY <1>1, LogConstants DEF WritersInv, WritersTypes, Writers!TypeOK
<1>3. stamp[Monitor] \in 1..MaxTime
  BY <1>2
<1>4. e \in Entry /\ ~K(e)
  BY <1>3 DEF Entry, Writers!Entry, K, Writers!IsKernelLine
<1> HIDE DEF e
<1>5. /\ log' \in Seq(Entry) /\ Reading' /\ Writing' /\ LogInOrder'
      /\ \A m : Before(log, m) => Before(log', m)
  BY <1>1, <1>4, AppendStep
<1>6. /\ stamp' \in [Thread \union {Monitor} -> 0..MaxTime]
      /\ \A u \in Thread : stamp'[u] = stamp[u]
  BY <1>1, <1>2, LogConstants
<1>7. WritersTypes'
  BY <1>1, <1>5, <1>6 DEF WritersInv, WritersTypes, Writers!TypeOK, Entry
<1>8. Stamped'
  BY <1>1, <1>5, <1>6 DEF WritersInv, Stamped
<1> QED
  BY <1>5, <1>7, <1>8 DEF WritersInv

\* A clearing leaves nothing that could be out of order, but under a rewrite.
LEMMA ClearStep == ASSUME WritersInv, Writers!Clear PROVE WritersInv'
<1>1. /\ log' = <<>>
      /\ cleared' = CASE rotation = "write" -> "now"
                      [] rotation \in {"read", "truncate"} -> cleared
                      [] OTHER -> "no"
      /\ UNCHANGED <<daemon_running, clock, stamp, log_lock, monitor, rotation, lines, written>>
  BY DEF Writers!Clear, Writers!writers, Writers!rotator
<1>2. /\ rotation = "write" => cleared' = "now"
      /\ rotation \in {"read", "truncate"} => cleared' = cleared
      /\ cleared' \in {"no", "now", "once"}
  BY <1>1 DEF WritersInv, WritersTypes, Writers!TypeOK
<1>3. WritersTypes'
  BY <1>1, <1>2 DEF WritersInv, WritersTypes, Writers!TypeOK
<1>4. Stamped'
  BY <1>1, NothingIsInOrder DEF WritersInv, Stamped
<1>5. Reading' /\ Writing' /\ LogInOrder'
  BY <1>1, <1>2, NothingIsInOrder DEF WritersInv, Reading, Writing, LogInOrder
<1> QED
  BY <1>3, <1>4, <1>5 DEF WritersInv

\* Steps that move no line: SIGTERM, the ends of the loops, and files that cannot be opened.
LEMMA IdleStep ==
    ASSUME WritersInv, Writers!Terminate \/ Writers!MonitorStops \/ Writers!EndOfFile
                       \/ Writers!GiveUp \/ Writers!RotatorStops
    PROVE  WritersInv'
<1>1. /\ UNCHANGED <<log, clock, stamp, log_lock, cleared, lines, written>>
      /\ daemon_running' \in BOOLEAN
      /\ monitor' = monitor \/ monitor' = "off"
      /\ rotation' = rotation \/ rotation' \in {"sleep", "off"}
         \/ (rotation = "read" /\ rotation' = "truncate")
  BY DEF Writers!Terminate, Writers!MonitorStops, Writers!EndOfFile, Writers!GiveUp,
     Writers!RotatorStops, Writers!writers, Writers!rotator, WritersInv, WritersTypes,
     Writers!TypeOK
<1>2. WritersTypes'
  BY <1>1 DEF WritersInv, WritersTypes, Writers!TypeOK
<1>3. Stamped' /\ LogInOrder'
  BY <1>1 DEF WritersInv, Stamped, LogInOrder
<1>4. Reading'
  BY <1>1 DEF WritersInv, Reading
<1>5. Writing'
  <2>1. Writers!Rewritten' = Writers!Rewritten
    BY <1>1 DEF Writers!Rewritten, Writers!Slot
  <2> QED
    BY <1>1, <2>1 DEF WritersInv, Writing
<1> QED
  BY <1>2, <1>3, <1>4, <1>5 DEF WritersInv

LEMMA StartRotationStep == ASSUME WritersInv, Writers!StartRotation PROVE WritersInv'
<1>1. /\ rotation' = "read" /\ lines' = <<>> /\ written' = 0
      /\ UNCHANGED <<log, daemon_running, cleared, clock, stamp, log_lock, monitor>>
  BY DEF Writers!StartRotation, Writers!writers
<1>2. WritersTypes'
  <2>1. 0 \in 0..(KEEP + 1)
    BY LogConstants
  <2> QED
    BY <1>1, <2>1 DEF WritersInv, WritersTypes, Writers!TypeOK
<1>3. Stamped' /\ LogInOrder'
  BY <1>1, NothingIsInOrder DEF WritersInv, Stamped, LogInOrder
<1>4. Reading' /\ Writing'
  BY <1>1, NothingIsInOrder DEF Reading, Writing
<1> QED
  BY <1>2, <1>3, <1>4 DEF WritersInv

\* What is read next goes behind what is read, and is newer.
LEMMA ReadLinesStep == ASSUME WritersInv, Writers!ReadLines PROVE WritersInv'
<1>1. PICK n \in (Len(lines) + 1)..Len(log) :
         lines' = lines \o SubSeq(log, Len(lines) + 1, n)
  BY DEF Writers!ReadLines
<1>2. /\ rotation = "read"
      /\ UNCHANGED <<log, daemon_running, cleared, clock, stamp, log_lock, monitor>>
      /\ UNCHANGED <<rotation, written>>
  BY DEF Writers!ReadLines, Writers!writers
<1>3. log \in Seq(Entry) /\ lines \in Seq(Entry) /\ Len(log) \in Nat /\ Len(lines) \in Nat
  BY DEF WritersInv, WritersTypes, Writers!TypeOK, Entry
<1>4. /\ n \in Nat /\ Len(lines) < n /\ n <= Len(log)
      /\ SubSeq(log, Len(lines) + 1, n) \in Seq(Entry)
      /\ Len(SubSeq(log, Len(lines) + 1, n)) = n - Len(lines)
      /\ \A i \in 1..(n - Len(lines)) :
            SubSeq(log, Len(lines) + 1, n)[i] = log[Len(lines) + i]
  BY <1>1, <1>3
<1>5. /\ lines' \in Seq(Entry) /\ Len(lines') = n
      /\ \A i \in 1..n : lines'[i] = IF i <= Len(lines) THEN lines[i] ELSE log[i]
  <2> DEFINE new == SubSeq(log, Len(lines) + 1, n)
  <2>1. /\ new \in Seq(Entry) /\ Len(new) = n - Len(lines)
        /\ \A i \in 1..(n - Len(lines)) : new[i] = log[Len(lines) + i]
        /\ lines' = lines \o new
    BY <1>1, <1>4
  <2> HIDE DEF new
  <2>2. /\ lines' \in Seq(Entry) /\ Len(lines') = Len(lines) + Len(new)
        /\ \A i \in 1..(Len(lines) + Len(new)) :
              lines'[i] = IF i <= Len(lines) THEN lines[i] ELSE new[i - Len(lines)]
    BY <1>3, <2>1, Joined
  <2>4. Len(lines) + Len(new) = n
    BY <1>3, <1>4, <2>1
  <2>3. ASSUME NEW i \in 1..n, ~(i <= Len(lines)) PROVE new[i - Len(lines)] = log[i]
    <3>1. i - Len(lines) \in 1..(n - Len(lines)) /\ Len(lines) + (i - Len(lines)) = i
      BY <1>3, <1>4, <2>3
    <3> QED
      BY <2>1, <3>1
  <2> QED
    BY <2>2, <2>3, <2>4
<1>6. \A i \in 1..n : \/ i \in 1..Len(lines) /\ lines'[i] = lines[i]
                      \/ i \in 1..Len(log) /\ i > Len(lines) /\ lines'[i] = log[i]
  BY <1>3, <1>4, <1>5
<1>7. WritersTypes'
  BY <1>2, <1>5 DEF WritersInv, WritersTypes, Writers!TypeOK, Entry
<1>8. Stamped'
  <2>1. \A m : Before(lines, m) /\ Before(log, m) => Before(lines', m)
    BY <1>5, <1>6 DEF Before
  <2> QED
    BY <1>2, <2>1 DEF WritersInv, Stamped
<1>9. ASSUME cleared = "no" PROVE Ordered(lines')
  <2>1. Ordered(lines) /\ Ordered(log) /\ Older(lines, log, Len(lines))
    BY <1>2, <1>9 DEF WritersInv, Reading, LogInOrder
  <2>2. ASSUME NEW i \in 1..n, NEW j \in 1..n, i < j, K(lines'[i]), K(lines'[j])
        PROVE  lines'[i].time < lines'[j].time
    <3>1. CASE j \in 1..Len(lines) /\ lines'[j] = lines[j]
      <4>1. i \in 1..Len(lines) /\ lines'[i] = lines[i]
        BY <1>3, <1>5, <2>2, <3>1
      <4> QED
        BY <2>1, <2>2, <3>1, <4>1 DEF Ordered
    <3>2. CASE j \in 1..Len(log) /\ j > Len(lines) /\ lines'[j] = log[j]
      BY <1>6, <2>1, <2>2, <3>2 DEF Ordered, Older
    <3> QED
      BY <1>6, <3>1, <3>2
  <2> QED
    BY <1>5, <2>2 DEF Ordered
<1>10. ASSUME cleared = "no" PROVE Older(lines', log, Len(lines'))
  <2>1. Ordered(log) /\ Older(lines, log, Len(lines))
    BY <1>2, <1>10 DEF WritersInv, Reading, LogInOrder
  <2>2. ASSUME NEW i \in 1..n, NEW j \in 1..Len(log), j > n, K(lines'[i]), K(log[j])
        PROVE  lines'[i].time < log[j].time
    <3>1. j > Len(lines) /\ i < j
      BY <1>3, <1>4, <2>2
    <3> QED
      BY <1>6, <2>1, <2>2, <3>1 DEF Ordered, Older
  <2> QED
    BY <1>5, <2>2 DEF Older
<1>11. Reading'
  BY <1>2, <1>9, <1>10 DEF WritersInv, Reading
<1>12. Writing' /\ LogInOrder'
  BY <1>2 DEF WritersInv, Writing, LogInOrder
<1> QED
  BY <1>7, <1>8, <1>11, <1>12 DEF WritersInv

LEMMA TruncateStep == ASSUME WritersInv, Writers!Truncate PROVE WritersInv'
<1>1. /\ rotation = "truncate" /\ log' = <<>> /\ rotation' = "write"
      /\ cleared' = IF cleared = "no" THEN "no" ELSE "once"
      /\ UNCHANGED <<daemon_running, clock, stamp, log_lock, monitor, lines, written>>
  BY DEF Writers!Truncate, Writers!writers
<1>2. written = 0
  BY <1>1 DEF WritersInv, Reading
<1>3. WritersTypes'
  BY <1>1 DEF WritersInv, WritersTypes, Writers!TypeOK
<1>4. Stamped'
  BY <1>1, NothingIsInOrder DEF WritersInv, Stamped
<1>5. Reading'
  BY <1>1 DEF WritersInv, Reading
<1>6. Writing' /\ LogInOrder'
  <2>1. 0 <= Len(<<>>) /\ 1..0 = {}
    OBVIOUS
  <2> QED
    BY <1>1, <1>2, <2>1, NothingIsInOrder DEF Writing, LogInOrder
<1> QED
  BY <1>3, <1>4, <1>5, <1>6 DEF WritersInv

\* What is written back are lines that were read, behind a header.
LEMMA RewrittenLines ==
    ASSUME lines \in Seq(Entry), NEW R, R = Writers!Rewritten
    PROVE  /\ R \in Seq(Entry) /\ Len(R) \in 1..(KEEP + 1) /\ R[1] = Header
           /\ \A i \in 2..Len(R) : /\ Len(lines) - Len(R) + i \in 1..Len(lines)
                                   /\ R[i] = lines[Len(lines) - Len(R) + i]
<1> DEFINE new == Writers!Newest(lines, KEEP)
<1>1. KEEP \in Nat \ {0} /\ Len(lines) \in Nat
  BY LogConstants
<1>2. R = <<Header>> \o new
  BY <1>1, RewrittenIsNewest
<1>3. /\ new \in Seq(Entry) /\ Len(new) \in 0..KEEP /\ Len(new) <= Len(lines)
      /\ \A i \in 1..Len(new) : new[i] = lines[Len(lines) - Len(new) + i]
  <2>1. CASE Len(lines) <= KEEP
    <3>1. new = lines
      BY <2>1 DEF Writers!Newest
    <3>2. \A i \in 1..Len(lines) : Len(lines) - Len(lines) + i = i
      BY <1>1
    <3> HIDE DEF new
    <3> QED
      BY <1>1, <2>1, <3>1, <3>2
  <2>2. CASE ~(Len(lines) <= KEEP)
    <3>1. new = SubSeq(lines, Len(lines) - KEEP + 1, Len(lines))
      BY <2>2 DEF Writers!Newest
    <3>2. Len(lines) - KEEP + 1 \in 1..Len(lines)
      BY <1>1, <2>2
    <3>3. /\ new \in Seq(Entry) /\ Len(new) = KEEP
          /\ \A i \in 1..KEEP : new[i] = lines[Len(lines) - KEEP + i]
      <4> HIDE DEF new
      <4> QED
        BY <1>1, <3>1, <3>2
    <3> HIDE DEF new
    <3> QED
      BY <1>1, <2>2, <3>3
  <2> QED
    BY <2>1, <2>2
<1>4. Header \in Entry
  BY DEF Entry, Writers!Entry
<1> HIDE DEF new
<1>5. /\ <<Header>> \in Seq(Entry) /\ Len(<<Header>>) = 1 /\ <<Header>>[1] = Header
  BY <1>4
<1>6. /\ R \in Seq(Entry) /\ Len(R) = 1 + Len(new)
      /\ \A i \in 1..(1 + Len(new)) : R[i] = IF i <= 1 THEN <<Header>>[i] ELSE new[i - 1]
  BY <1>2, <1>3, <1>5, Joined
<1>7. ASSUME NEW i \in 2..Len(R)
      PROVE  /\ Len(lines) - Len(R) + i \in 1..Len(lines)
             /\ R[i] = lines[Len(lines) - Len(R) + i]
  <2>1. /\ i \in 1..(1 + Len(new)) /\ ~(i <= 1) /\ i - 1 \in 1..Len(new)
        /\ Len(lines) - Len(new) + (i - 1) = Len(lines) - Len(R) + i
        /\ Len(lines) - Len(R) + i \in 1..Len(lines)
    BY <1>1, <1>3, <1>6
  <2> QED
    BY <1>3, <1>6, <2>1
<1>8. Len(R) \in 1..(KEEP + 1) /\ 1 \in 1..(1 + Len(new))
  BY <1>1, <1>3, <1>6
<1> QED
  BY <1>5, <1>6, <1>7, <1>8

\* So they are in the order, and as old, as what was read.
LEMMA RewrittenInOrder ==
    ASSUME lines \in Seq(Entry), NEW R, R = Writers!Rewritten
    PROVE  /\ Ordered(lines) => Ordered(R)
           /\ \A m : Before(lines, m) => Before(R, m)
           /\ \A r, place : Older(lines, r, place) => Older(R, r, place)
<1>1. /\ R \in Seq(Entry) /\ Len(R) \in Nat /\ R[1] = Header
      /\ \A i \in 2..Len(R) : /\ Len(lines) - Len(R) + i \in 1..Len(lines)
                              /\ R[i] = lines[Len(lines) - Len(R) + i]
  BY RewrittenLines, LogConstants
<1>2. ~K(Header)
  BY DEF K, Writers!IsKernelLine
<1>3. \A i \in 1..Len(R) : K(R[i]) => i \in 2..Len(R)
  <2>1. \A i \in 1..Len(R) : i = 1 \/ i \in 2..Len(R)
    BY <1>1
  <2> QED
    BY <1>1, <1>2, <2>1
<1>4. ASSUME Ordered(lines), NEW i \in 1..Len(R), NEW j \in 1..Len(R), i < j, K(R[i]), K(R[j])
      PROVE  R[i].time < R[j].time
  <2>1. i \in 2..Len(R) /\ j \in 2..Len(R) /\ Len(lines) \in Nat
    BY <1>3, <1>4
  <2>2. Len(lines) - Len(R) + i < Len(lines) - Len(R) + j
    BY <1>1, <1>4, <2>1
  <2> QED
    BY <1>1, <1>4, <2>1, <2>2 DEF Ordered
<1>5. ASSUME NEW m, Before(lines, m) PROVE Before(R, m)
  BY <1>1, <1>3, <1>5 DEF Before
<1>6. ASSUME NEW r, NEW place, Older(lines, r, place) PROVE Older(R, r, place)
  BY <1>1, <1>3, <1>6 DEF Older
<1>7. Ordered(lines) => Ordered(R)
  BY <1>4 DEF Ordered
<1> QED
  BY <1>5, <1>6, <1>7

\* Some lines are written where the rewrite stands, over whatever is there; at its end they
\* are all there.
LEMMA WriteLinesStep ==
    ASSUME WritersInv, Writers!WriteLines
    PROVE  /\ WritersInv'
           /\ rotation' # "write" /\ cleared # "now" =>
                 /\ Len(Writers!Rewritten) <= Len(log')
                 /\ \A i \in 1..Len(Writers!Rewritten) : log'[i] = Writers!Rewritten[i]
<1> DEFINE R == Writers!Rewritten
           text(n) == SubSeq(R, written + 1, n)
<1>1. PICK n \in (written + 1)..Len(R) :
         /\ log' = Writers!WriteAt(log, written, text(n))
         /\ written' = n
         /\ rotation' = IF n = Len(R) THEN "sleep" ELSE "write"
  BY DEF Writers!WriteLines
<1>2. /\ rotation = "write"
      /\ UNCHANGED <<daemon_running, cleared, clock, stamp, log_lock, monitor, lines>>
  BY DEF Writers!WriteLines, Writers!writers
<1>3. /\ log \in Seq(Entry) /\ lines \in Seq(Entry) /\ Len(log) \in Nat
      /\ written \in Nat /\ KEEP \in Nat
  BY LogConstants DEF WritersInv, WritersTypes, Writers!TypeOK, Entry
<1>4. R \in Seq(Entry) /\ Len(R) \in 1..(KEEP + 1)
  BY <1>3, RewrittenLines
<1>5. R' = R
  BY <1>2 DEF Writers!Rewritten, Writers!Slot
<1> HIDE DEF R
<1>6. n \in Nat /\ written < n /\ n <= Len(R) /\ n \in 0..(KEEP + 1)
  BY <1>1, <1>3, <1>4
<1>7. /\ Len(text(n)) = n - written
      /\ \A i \in 1..(n - written) : text(n)[i] = R[written + i]
  BY <1>3, <1>4, <1>6
<1> DEFINE size == IF Len(log) > n THEN Len(log) ELSE n
<1>8. /\ log' = [i \in 1..size |-> IF i \in (written + 1)..n THEN R[i]
                                  ELSE IF i <= Len(log) THEN log[i] ELSE Hole]
  <2> HIDE DEF text
  <2>1. written + Len(text(n)) = n
    BY <1>3, <1>6, <1>7
  <2>2. \A i \in (written + 1)..n : text(n)[i - written] = R[i]
    <3>1. \A i \in (written + 1)..n :
             i - written \in 1..(n - written) /\ written + (i - written) = i
      BY <1>3, <1>6
    <3> QED
      BY <1>7, <3>1
  <2> QED
    BY <1>1, <2>1, <2>2 DEF Writers!WriteAt
<1>9. size \in Nat /\ n <= size /\ Len(log) <= size
  BY <1>3, <1>6
<1>10. \A i \in (written + 1)..n : i \in 1..Len(R) /\ i \in 1..size
  BY <1>3, <1>4, <1>6, <1>9
<1>11. Hole \in Entry /\ ~K(Hole)
  BY DEF Entry, Writers!Entry, K, Writers!IsKernelLine
<1>12. \A i \in 1..size : \/ i \in (written + 1)..n /\ log'[i] = R[i]
                          \/ /\ i \notin (written + 1)..n /\ i \in 1..Len(log)
                             /\ log'[i] = log[i]
                          \/ log'[i] = Hole
  <2>1. \A i \in 1..size : i <= Len(log) => i \in 1..Len(log)
    BY <1>3, <1>9
  <2> HIDE DEF size
  <2> QED
    BY <1>8, <2>1
<1>13. log' \in Seq(Entry) /\ Len(log') = size
  <2>1. \A i \in 1..size : log'[i] \in Entry
    <3>1. /\ \A i \in 1..Len(log) : log[i] \in Entry
          /\ \A i \in 1..Len(R) : R[i] \in Entry
      BY <1>3, <1>4
    <3> HIDE DEF size
    <3> QED
      BY <1>10, <1>11, <1>12, <3>1
  <2> HIDE DEF size
  <2>2. log' \in [1..size -> Entry]
    BY <1>8, <2>1
  <2> QED
    BY <1>9, <2>2
<1> HIDE DEF size, text
<1>14. /\ Ordered(lines) => Ordered(R)
       /\ \A m : Before(lines, m) => Before(R, m)
       /\ \A r, place : Older(lines, r, place) => Older(R, r, place)
  BY <1>3, RewrittenInOrder DEF R
<1>15. WritersTypes'
  BY <1>1, <1>2, <1>6, <1>13 DEF WritersInv, WritersTypes, Writers!TypeOK, Entry
<1>16. Stamped'
  <2>1. ASSUME NEW m, Before(lines, m), Before(log, m) PROVE Before(log', m)
    <3>1. Before(R, m)
      BY <1>14, <2>1
    <3> QED
      BY <1>10, <1>11, <1>12, <1>13, <2>1, <3>1 DEF Before
  <2> QED
    BY <1>2, <2>1 DEF WritersInv, Stamped
<1>17. ASSUME cleared # "now"
       PROVE  n <= Len(log') /\ \A i \in 1..n : log'[i] = R[i]
  <2>1. written <= Len(log) /\ \A i \in 1..written : log[i] = R[i]
    BY <1>2, <1>17 DEF WritersInv, Writing, R
  <2>2. ASSUME NEW i \in 1..n PROVE log'[i] = R[i]
    <3>1. i \in 1..size /\ (i \in (written + 1)..n \/ (i \in 1..written /\ i \in 1..Len(log)))
      BY <1>3, <1>6, <1>9, <2>1
    <3>2. CASE i \in (written + 1)..n
      BY <1>8, <3>1, <3>2
    <3>3. CASE i \in 1..written /\ i \in 1..Len(log)
      <4>1. i \notin (written + 1)..n /\ i <= Len(log)
        BY <1>3, <3>3
      <4> QED
        BY <1>8, <2>1, <3>1, <3>3, <4>1
    <3> QED
      BY <3>1, <3>2, <3>3
  <2> QED
    BY <1>9, <1>13, <2>2
<1>18. ASSUME cleared = "no"
       PROVE  \A i \in 1..size :
                 \/ i \in 1..n /\ i \in 1..Len(R) /\ log'[i] = R[i]
                 \/ i > n /\ i > written /\ i \in 1..Len(log) /\ log'[i] = log[i]
  <2>1. ASSUME NEW i \in 1..size, i <= n
        PROVE  i \in 1..n /\ i \in 1..Len(R) /\ log'[i] = R[i]
    <3>1. i \in 1..n /\ i \in 1..Len(R)
      BY <1>4, <1>6, <1>9, <2>1
    <3> QED
      BY <1>17, <1>18, <3>1
  <2>2. ASSUME NEW i \in 1..size, i > n
        PROVE  i > written /\ i \in 1..Len(log) /\ log'[i] = log[i]
    <3>1. i > written /\ i \notin (written + 1)..n /\ i \in Nat
      BY <1>3, <1>6, <1>9, <2>2
    <3>2. i \in 1..Len(log) /\ i <= Len(log)
      BY <1>3, <1>6, <2>2 DEF size
    <3> QED
      BY <1>8, <3>1, <3>2
  <2>3. \A i \in 1..size : i <= n \/ i > n
    BY <1>6, <1>9
  <2>4. ASSUME NEW i \in 1..size
        PROVE  \/ i \in 1..n /\ i \in 1..Len(R) /\ log'[i] = R[i]
               \/ i > n /\ i > written /\ i \in 1..Len(log) /\ log'[i] = log[i]
    <3>1. CASE i <= n
      BY <2>1, <3>1
    <3>2. CASE i > n
      BY <2>2, <3>2
    <3> QED
      BY <2>3, <3>1, <3>2
  <2> QED
    BY <2>4
<1>19. ASSUME cleared = "no" PROVE Ordered(log') /\ Older(lines, log', n)
  <2>1. Ordered(lines) /\ Ordered(log) /\ Older(lines, log, written)
    BY <1>2, <1>19 DEF WritersInv, Reading, Writing, LogInOrder
  <2>2. Ordered(R) /\ Older(R, log, written)
    BY <1>14, <2>1
  <2>3. ASSUME NEW i \in 1..size, NEW j \in 1..size, i < j, K(log'[i]), K(log'[j])
        PROVE  log'[i].time < log'[j].time
    <3>1. CASE j \in 1..n /\ j \in 1..Len(R) /\ log'[j] = R[j]
      <4>1. ~(i > n)
        BY <1>6, <1>9, <2>3, <3>1
      <4>2. i \in 1..Len(R) /\ log'[i] = R[i]
        BY <1>18, <1>19, <4>1
      <4> QED
        BY <2>2, <2>3, <3>1, <4>2 DEF Ordered
    <3>2. CASE j > n /\ j > written /\ j \in 1..Len(log) /\ log'[j] = log[j]
      <4>1. CASE i \in 1..Len(R) /\ log'[i] = R[i]
        BY <2>2, <2>3, <3>2, <4>1 DEF Older
      <4>2. CASE i \in 1..Len(log) /\ log'[i] = log[i]
        BY <2>1, <2>3, <3>2, <4>2 DEF Ordered
      <4> QED
        BY <1>18, <1>19, <4>1, <4>2
    <3> QED
      BY <1>18, <1>19, <3>1, <3>2
  <2>4. ASSUME NEW i \in 1..Len(lines), NEW j \in 1..size, j > n, K(lines[i]), K(log'[j])
        PROVE  lines[i].time < log'[j].time
    <3>1. j \notin 1..n
      BY <1>6, <2>4
    <3>2. j > written /\ j \in 1..Len(log) /\ log'[j] = log[j]
      BY <1>18, <1>19, <3>1
    <3> QED
      BY <2>1, <2>4, <3>2 DEF Older
  <2> QED
    BY <1>13, <2>3, <2>4 DEF Ordered, Older
<1>20. Reading'
  BY <1>1, <1>2 DEF WritersInv, Reading
<1>21. Writing'
  BY <1>1, <1>2, <1>5, <1>17, <1>19 DEF Writing, R
<1>22. LogInOrder'
  BY <1>2, <1>19 DEF LogInOrder
<1>23. rotation' # "write" /\ cleared # "now" =>
          Len(R) <= Len(log') /\ \A i \in 1..Len(R) : log'[i] = R[i]
  BY <1>1, <1>17
<1> QED
  BY <1>15, <1>16, <1>20, <1>21, <1>22, <1>23 DEF WritersInv, R

LEMMA WritersStep == WritersInv /\ [Writers!Next]_writers => WritersInv'
<1> SUFFICES ASSUME WritersInv, [Writers!Next]_writers PROVE WritersInv'
  OBVIOUS
<1>1. CASE UNCHANGED writers
  <2>1. /\ UNCHANGED <<log, lines, rotation, written, cleared>>
        /\ UNCHANGED <<clock, stamp, log_lock, daemon_running, monitor>>
    BY <1>1 DEF writers
  <2>2. Reading' /\ Writing' /\ LogInOrder'
    BY <2>1, NoLineMoves
  <2>3. WritersTypes' /\ Stamped'
    BY <2>1 DEF WritersInv, WritersTypes, Writers!TypeOK, Stamped
  <2> QED
    BY <2>2, <2>3 DEF WritersInv
<1>2. CASE Writers!Next
  <2>1. CASE \E t \in Thread : Writers!EnterLog(t) \/ Writers!LeaveLog(t)
    BY <2>1, EnterLogStep, LeaveLogStep
  <2>2. CASE Writers!Clear \/ Writers!Terminate
    BY <2>2, ClearStep, IdleStep
  <2>3. CASE Writers!MonitorStep
    BY <2>3, StartSnapshotStep, WriteSnapshotStep, IdleStep DEF Writers!MonitorStep
  <2>4. CASE Writers!RotatorStep
    BY <2>4, StartRotationStep, ReadLinesStep, TruncateStep, WriteLinesStep, IdleStep
    DEF Writers!RotatorStep
  <2> QED
    BY <1>2, <2>1, <2>2, <2>3, <2>4 DEF Writers!Next
<1> QED
  BY <1>1, <1>2

LEMMA WritersAlways == Spec => []WritersInv
<1>1. Init => WritersInv
  BY WritersStart DEF Init
<1>2. [Next]_vars => [Writers!Next]_writers
  <2>1. Next => [Writers!Next]_writers
    BY DEF Next
  <2>2. UNCHANGED vars => UNCHANGED writers
    BY DEF vars
  <2> QED
    BY <2>1, <2>2
<1>3. WritersInv /\ [Next]_vars => WritersInv'
  BY <1>2, WritersStep
<1> QED
  BY <1>1, <1>3, PTL DEF Spec

\* What stands at the front of a sequence is a prefix of it.
LEMMA StandsAtFront ==
    ASSUME NEW S, NEW s \in Seq(S), NEW r \in Seq(S), Len(s) <= Len(r),
           \A i \in 1..Len(s) : r[i] = s[i]
    PROVE  Writers!IsPrefix(s, r)
<1>1. Len(s) \in Nat /\ Len(r) \in Nat
  OBVIOUS
<1>2. SubSeq(r, 1, Len(s)) = s
  <2>1. \A i \in 1..Len(s) : i \in 1..Len(r)
    BY <1>1
  <2>2. SubSeq(r, 1, Len(s)) = [i \in 1..Len(s) |-> r[i]]
    BY <1>1
  <2>3. s = [i \in 1..Len(s) |-> s[i]]
    OBVIOUS
  <2> QED
    BY <2>2, <2>3
<1>3. SubSeq(s, 1, Len(s)) = s
  OBVIOUS
<1> QED
  BY <1>2, <1>3 DEF Writers!IsPrefix

\* logger.cpp, log_daemon.cpp: the kernel's lines stand in system.log in the order of their
\* times, whatever number of threads logs and whenever the daemon reads, empties and rewrites
\* the file between them, unless the user has cleared the log under the rewrite.
THEOREM LogIsInOrder == Spec => []KernelLinesInOrder
<1>1. WritersInv => KernelLinesInOrder
  <2> SUFFICES ASSUME WritersInv PROVE Writers!KernelLinesInOrder
    BY DEF KernelLinesInOrder
  <2>2. Writers!TypeOK
    BY DEF WritersInv, WritersTypes
  <2>3. DOMAIN log = 1..Len(log)
    BY <2>2 DEF Writers!TypeOK
  <2>4. ASSUME cleared = "no", NEW i \in DOMAIN log, NEW j \in DOMAIN log, i < j,
               Writers!IsKernelLine(log[i]), Writers!IsKernelLine(log[j])
        PROVE  log[i].time < log[j].time
    BY <2>3, <2>4 DEF WritersInv, LogInOrder, Ordered, K
  <2> QED
    BY <2>2, <2>4 DEF Writers!KernelLinesInOrder
<1> QED
  BY <1>1, WritersAlways, PTL

\* log_daemon.cpp: the step that ends a rotation leaves a log that begins with the header and
\* the newest lines it has read, in their order: the ring array starts at the right place
\* whatever number of lines went round it, and no line appended meanwhile stands in between.
THEOREM NewestAreKept == Spec => RotationKeepsNewest
<1> DEFINE Step == rotation = "write" /\ rotation' # "write" /\ cleared # "now" =>
                     Writers!IsPrefix(<<Header>> \o Writers!Newest(lines, KEEP), log')
<1>1. WritersInv /\ WritersInv' /\ [Next]_vars => [Step]_(Writers!vars)
  <2> SUFFICES ASSUME WritersInv, WritersInv', [Next]_vars,
                      rotation = "write", rotation' # "write", cleared # "now"
               PROVE  Writers!IsPrefix(<<Header>> \o Writers!Newest(lines, KEEP), log')
    OBVIOUS
  <2>1. Writers!Next
    <3>1. rotation' # rotation
      OBVIOUS
    <3>2. ~(UNCHANGED vars) /\ ~(UNCHANGED writers)
      BY <3>1 DEF vars, writers
    <3> QED
      BY <3>2 DEF Next
  <2>2. Writers!WriteLines
    BY <2>1 DEF Writers!Next, Writers!EnterLog, Writers!LeaveLog, Writers!Clear,
       Writers!Terminate, Writers!MonitorStep, Writers!StartSnapshot, Writers!WriteSnapshot,
       Writers!MonitorStops, Writers!RotatorStep, Writers!StartRotation, Writers!ReadLines,
       Writers!EndOfFile, Writers!Truncate, Writers!GiveUp, Writers!RotatorStops,
       Writers!writers, Writers!rotator
  <2> DEFINE R == Writers!Rewritten
  <2>3. /\ log \in Seq(Entry) /\ lines \in Seq(Entry) /\ log' \in Seq(Entry)
        /\ KEEP \in Nat \ {0}
    BY LogConstants DEF WritersInv, WritersTypes, Writers!TypeOK, Entry
  <2>4. R = <<Header>> \o Writers!Newest(lines, KEEP) /\ R \in Seq(Entry)
    BY <2>3, RewrittenIsNewest, RewrittenLines
  <2>5. Len(R) <= Len(log') /\ \A i \in 1..Len(R) : log'[i] = R[i]
    BY <2>2, WriteLinesStep
  <2> HIDE DEF R
  <2>6. Writers!IsPrefix(R, log')
    BY <2>3, <2>4, <2>5, StandsAtFront
  <2> QED
    BY <2>4, <2>6
<1> HIDE DEF Step
<1>2. Spec => [][Step]_(Writers!vars)
  BY <1>1, WritersAlways, PTL DEF Spec
<1> QED
  BY <1>2 DEF RotationKeepsNewest, Writers!RotationKeepsNewest, Step

-----------------------------------------------------------------------------
(* The to-do list *)

\* The windows of the list are opened one after the other.
OneWindow == \E w : Window = {w}

Todo == Todos!Todo

\* Of one window: its file, its list and where it stands.
FileAndList(w) ==
    /\ pc[w] = "menu" /\ ~unsaved[w] =>
          IF todo_txt = NoFile THEN todos[w] = <<>> ELSE todo_txt = todos[w]
    /\ pc[w] = "write" => todo_txt = <<>>
    /\ pc[w] = "flushed" =>
          /\ todo_txt # NoFile
          /\ Len(todo_txt) <= Len(todos[w])
          /\ \A i \in 1..Len(todo_txt) :
                todo_txt[i] = todos[w][i] \/ (i = Len(todo_txt) /\ todo_txt[i].text = Todos!Remnant)

\* No window leaves a file behind that is longer than a list.
TodoInv ==
    /\ Todos!TypeOK
    /\ todo_txt # NoFile => Len(todo_txt) <= MAX_TODOS
    /\ \A w \in Window : FileAndList(w)

LEMMA TodoConstants == MAX_TODOS \in Nat \ {0} /\ NoFile \notin Seq(Todo)
  BY FilesAssumption DEF Todos!TodoAssumption, Todo

\* What the steps of a window have in common.
LEMMA WindowStep ==
    ASSUME OneWindow, NEW w \in Window, TodoInv,
           todo_txt' \in Seq(Todo) \union {NoFile},
           todo_txt' # NoFile => Len(todo_txt') <= MAX_TODOS,
           NEW list \in Seq(Todo), Len(list) <= MAX_TODOS,
           todos' = [todos EXCEPT ![w] = list],
           NEW label \in {"off", "menu", "save", "write", "flushed"},
           pc' = [pc EXCEPT ![w] = label],
           NEW u \in BOOLEAN, unsaved' = [unsaved EXCEPT ![w] = u],
           kept' \subseteq Text,
           label = "menu" /\ ~u => IF todo_txt' = NoFile THEN list = <<>> ELSE todo_txt' = list,
           label = "write" => todo_txt' = <<>>,
           label = "flushed" =>
              /\ todo_txt' # NoFile
              /\ Len(todo_txt') <= Len(list)
              /\ \A i \in 1..Len(todo_txt') :
                    \/ todo_txt'[i] = list[i]
                    \/ i = Len(todo_txt') /\ todo_txt'[i].text = Todos!Remnant
    PROVE  TodoInv'
<1>1. Window = {w}
  BY DEF OneWindow
<1>2. /\ todos \in [Window -> Seq(Todo)] /\ unsaved \in [Window -> BOOLEAN]
      /\ pc \in [Window -> {"off", "menu", "save", "write", "flushed"}]
  BY DEF TodoInv, Todos!TypeOK, Todo
<1>3. todos'[w] = list /\ pc'[w] = label /\ unsaved'[w] = u
  BY <1>2
<1>4. Todos!TypeOK'
  <2>1. /\ todos' \in [Window -> Seq(Todo)] /\ unsaved' \in [Window -> BOOLEAN]
        /\ pc' \in [Window -> {"off", "menu", "save", "write", "flushed"}]
    BY <1>2
  <2>2. \A v \in Window : Len(todos'[v]) <= MAX_TODOS
    BY <1>1, <1>3
  <2> QED
    BY <2>1, <2>2 DEF Todos!TypeOK, Todo
<1>5. FileAndList(w)'
  BY <1>3 DEF FileAndList
<1> QED
  BY <1>1, <1>4, <1>5 DEF TodoInv

\* What TodoInv says of the window that moves.
LEMMA OfWindow ==
    ASSUME TodoInv, NEW w \in Window
    PROVE  /\ todos[w] \in Seq(Todo) /\ Len(todos[w]) <= MAX_TODOS /\ Len(todos[w]) \in Nat
           /\ todo_txt \in Seq(Todo) \union {NoFile} /\ kept \subseteq Text
           /\ todo_txt # NoFile => Len(todo_txt) <= MAX_TODOS /\ todo_txt \in Seq(Todo)
           /\ unsaved[w] \in BOOLEAN
           /\ pc[w] \in {"off", "menu", "save", "write", "flushed"}
           /\ todos = [todos EXCEPT ![w] = todos[w]]
           /\ unsaved = [unsaved EXCEPT ![w] = unsaved[w]]
           /\ FileAndList(w)
<1>1. /\ todos \in [Window -> Seq(Todo)] /\ unsaved \in [Window -> BOOLEAN]
      /\ pc \in [Window -> {"off", "menu", "save", "write", "flushed"}]
      /\ todo_txt \in Seq(Todo) \union {NoFile} /\ kept \subseteq Text
      /\ Len(todos[w]) <= MAX_TODOS
      /\ todo_txt # NoFile => Len(todo_txt) <= MAX_TODOS
  BY DEF TodoInv, Todos!TypeOK, Todo
<1>2. todos = [todos EXCEPT ![w] = todos[w]] /\ unsaved = [unsaved EXCEPT ![w] = unsaved[w]]
  BY <1>1
<1>3. FileAndList(w)
  BY DEF TodoInv
<1>4. todos[w] \in Seq(Todo)
  BY <1>1
<1>5. Len(todos[w]) \in Nat
  BY <1>4
<1> QED
  BY <1>1, <1>2, <1>3, <1>4, <1>5

\* The list changes: what is in the file is of no account before the next save.
LEMMA ChangeStep ==
    ASSUME OneWindow, TodoInv, NEW w \in Window, NEW list \in Seq(Todo),
           Len(list) <= MAX_TODOS, Todos!Change(w, list), kept' \subseteq Text
    PROVE  TodoInv'
<1>1. /\ todos' = [todos EXCEPT ![w] = list] /\ pc' = [pc EXCEPT ![w] = "save"]
      /\ UNCHANGED <<todo_txt, unsaved>>
  BY DEF Todos!Change, Todos!go
<1> QED
  BY <1>1, OfWindow, WindowStep

LEMMA EditStep == ASSUME OneWindow, TodoInv, NEW w \in Window, Todos!Edit(w) PROVE TodoInv'
<1>1. /\ todos[w] \in Seq(Todo) /\ Len(todos[w]) <= MAX_TODOS /\ Len(todos[w]) \in Nat
      /\ kept \subseteq Text /\ MAX_TODOS \in Nat
  BY OfWindow, TodoConstants
<1>2. ASSUME NEW e \in Todo, Len(todos[w]) < MAX_TODOS
      PROVE  Append(todos[w], e) \in Seq(Todo) /\ Len(Append(todos[w], e)) <= MAX_TODOS
  BY <1>1, <1>2
<1>3. CASE \E text \in Text : Todos!Add(w, text)
  <2>1. PICK text \in Text : Todos!Add(w, text)
    BY <1>3
  <2>2. [text |-> text, done |-> FALSE] \in Todo
    BY DEF Todo, Todos!Todo
  <2>3. kept' \subseteq Text
    BY <1>1, <2>1 DEF Todos!Add
  <2> QED
    BY <1>2, <2>1, <2>2, <2>3, ChangeStep DEF Todos!Add
<1>4. CASE Todos!AddNothing(w)
  <2>1. [text |-> Todos!Remnant, done |-> FALSE] \in Todo
    BY DEF Todo, Todos!Todo
  <2>2. kept' \subseteq Text
    BY <1>1, <1>4 DEF Todos!AddNothing
  <2> QED
    BY <1>2, <1>4, <2>1, <2>2, ChangeStep DEF Todos!AddNothing
<1>5. ASSUME NEW idx \in DOMAIN todos[w], Todos!Done(w, idx) PROVE TodoInv'
  <2> DEFINE list == [todos[w] EXCEPT ![idx].done = TRUE]
  <2>1. idx \in 1..Len(todos[w]) /\ todos[w][idx] \in Todo
    BY <1>1
  <2>2. [todos[w][idx] EXCEPT !.done = TRUE] \in Todo
    BY <2>1 DEF Todo, Todos!Todo
  <2>3. list \in Seq(Todo) /\ Len(list) = Len(todos[w])
    BY <1>1, <2>1, <2>2
  <2>4. kept' \subseteq Text /\ Todos!Change(w, list)
    BY <1>1, <1>5 DEF Todos!Done
  <2> QED
    BY <1>1, <2>3, <2>4, ChangeStep
<1>6. ASSUME NEW idx \in DOMAIN todos[w], Todos!RemoveTodo(w, idx) PROVE TodoInv'
  <2> DEFINE list == Todos!RemoveAt(todos[w], idx)
             front == SubSeq(todos[w], 1, idx - 1)
             back == SubSeq(todos[w], idx + 1, Len(todos[w]))
  <2>1. idx \in 1..Len(todos[w])
    BY <1>1
  <2>2. /\ front \in Seq(Todo) /\ Len(front) = idx - 1
        /\ back \in Seq(Todo) /\ Len(back) = Len(todos[w]) - idx
    BY <1>1, <2>1
  <2>3. list = front \o back
    BY DEF Todos!RemoveAt
  <2>4. list \in Seq(Todo) /\ Len(list) = Len(todos[w]) - 1
    <3> HIDE DEF front, back, list
    <3>1. front \o back \in Seq(Todo) /\ Len(front \o back) = Len(front) + Len(back)
      BY <2>2, Joined
    <3> QED
      BY <1>1, <2>1, <2>2, <2>3, <3>1
  <2>5. kept' \subseteq Text /\ Todos!Change(w, list)
    BY <1>1, <1>6 DEF Todos!RemoveTodo
  <2> HIDE DEF list
  <2>6. Len(list) <= MAX_TODOS
    BY <1>1, <2>4
  <2> QED
    BY <2>4, <2>5, <2>6, ChangeStep
<1> QED
  BY <1>3, <1>4, <1>5, <1>6 DEF Todos!Edit

\* A window that starts reads all of the file, which is no longer than a list.
LEMMA LoadStep == ASSUME OneWindow, TodoInv, NEW w \in Window, Todos!load_todos(w) PROVE TodoInv'
<1> DEFINE list == IF todo_txt = NoFile THEN <<>>
                   ELSE SubSeq(todo_txt, 1, IF Len(todo_txt) < MAX_TODOS THEN Len(todo_txt)
                                            ELSE MAX_TODOS)
<1>1. /\ todos' = [todos EXCEPT ![w] = list] /\ pc' = [pc EXCEPT ![w] = "menu"]
      /\ unsaved' = [unsaved EXCEPT ![w] = FALSE] /\ UNCHANGED <<todo_txt, kept>>
  BY DEF Todos!load_todos, Todos!go
<1>2. /\ todo_txt \in Seq(Todo) \union {NoFile} /\ kept \subseteq Text /\ MAX_TODOS \in Nat
      /\ todo_txt # NoFile => Len(todo_txt) <= MAX_TODOS /\ todo_txt \in Seq(Todo)
  BY OfWindow, TodoConstants
<1>3. todo_txt # NoFile => list = todo_txt
  <2>1. SUFFICES ASSUME todo_txt # NoFile PROVE list = todo_txt
    OBVIOUS
  <2>2. list = SubSeq(todo_txt, 1, Len(todo_txt))
    <3>1. Len(todo_txt) \in Nat /\ Len(todo_txt) <= MAX_TODOS
      BY <1>2, <2>1
    <3> QED
      BY <1>2, <2>1, <3>1
  <2>3. SubSeq(todo_txt, 1, Len(todo_txt)) = todo_txt
    BY <1>2, <2>1
  <2> QED
    BY <2>2, <2>3
<1>4. todo_txt = NoFile => list = <<>>
  OBVIOUS
<1> HIDE DEF list
<1>5. list \in Seq(Todo) /\ Len(list) <= MAX_TODOS
  <2>1. CASE todo_txt # NoFile
    BY <1>2, <1>3, <2>1
  <2>2. CASE todo_txt = NoFile
    <3>1. <<>> \in Seq(Todo) /\ Len(<<>>) = 0
      OBVIOUS
    <3> QED
      BY <1>2, <1>4, <2>2, <3>1
  <2> QED
    BY <2>1, <2>2
<1> QED
  BY <1>1, <1>2, <1>3, <1>4, <1>5, WindowStep

\* Steps that touch neither the list nor the file, but for the emptying of it.
LEMMA TodoIdleStep ==
    ASSUME OneWindow, TodoInv, NEW w \in Window,
           Todos!Quit(w) \/ Todos!Kill(w) \/ Todos!OpenFails(w)
    PROVE  TodoInv'
<1>1. /\ UNCHANGED <<todo_txt, todos, kept>>
      /\ \/ pc' = [pc EXCEPT ![w] = "off"] /\ UNCHANGED unsaved
         \/ pc' = [pc EXCEPT ![w] = "menu"] /\ unsaved' = [unsaved EXCEPT ![w] = TRUE]
  BY DEF Todos!Quit, Todos!Kill, Todos!OpenFails, Todos!go
<1>2. CASE pc' = [pc EXCEPT ![w] = "off"] /\ UNCHANGED unsaved
  BY <1>1, <1>2, OfWindow, WindowStep
<1>3. CASE pc' = [pc EXCEPT ![w] = "menu"] /\ unsaved' = [unsaved EXCEPT ![w] = TRUE]
  BY <1>1, <1>3, OfWindow, WindowStep
<1> QED
  BY <1>1, <1>2, <1>3

LEMMA OpenFileStep == ASSUME OneWindow, TodoInv, NEW w \in Window, Todos!OpenFile(w) PROVE TodoInv'
<1>1. /\ todo_txt' = <<>> /\ UNCHANGED <<todos, kept>> /\ pc' = [pc EXCEPT ![w] = "write"]
      /\ unsaved' = [unsaved EXCEPT ![w] = FALSE]
  BY DEF Todos!OpenFile, Todos!go
<1>2. <<>> \in Seq(Todo) /\ Len(<<>>) <= MAX_TODOS
  BY TodoConstants
<1> QED
  BY <1>1, <1>2, OfWindow, WindowStep

\* What was in the file does not show behind a text that is no shorter.
LEMMA OverShorter ==
    ASSUME NEW text \in Seq(Todo), NEW old \in Seq(Todo), Len(old) <= Len(text)
    PROVE  Todos!Over(text, old) = text
<1>1. SubSeq(old, Len(text) + 1, Len(old)) = <<>>
  OBVIOUS
<1>2. text \o <<>> = text
  OBVIOUS
<1> QED
  BY <1>1, <1>2 DEF Todos!Over

LEMMA FlushStep == ASSUME OneWindow, TodoInv, NEW w \in Window, Todos!Flush(w) PROVE TodoInv'
<1>1. /\ pc[w] = "write" /\ pc' = [pc EXCEPT ![w] = "flushed"] /\ UNCHANGED <<todos, unsaved, kept>>
  BY DEF Todos!Flush, Todos!go
<1>2. /\ todos[w] \in Seq(Todo) /\ Len(todos[w]) <= MAX_TODOS /\ Len(todos[w]) \in Nat
      /\ kept \subseteq Text /\ MAX_TODOS \in Nat /\ todo_txt = <<>>
  BY <1>1, OfWindow, TodoConstants DEF FileAndList
<1>3. PICK n \in DOMAIN todos[w] :
         \E last \in {todos[w][n], [text |-> Todos!Remnant, done |-> todos[w][n].done],
                     [text |-> Todos!Remnant, done |-> FALSE]} :
            todo_txt' = Todos!Over(Append(SubSeq(todos[w], 1, n - 1), last), todo_txt)
  BY DEF Todos!Flush
<1>4. n \in 1..Len(todos[w]) /\ todos[w][n] \in Todo
  BY <1>2
<1>5. PICK last \in Todo :
         /\ last = todos[w][n] \/ last.text = Todos!Remnant
         /\ todo_txt' = Todos!Over(Append(SubSeq(todos[w], 1, n - 1), last), todo_txt)
  <2>1. /\ [text |-> Todos!Remnant, done |-> todos[w][n].done] \in Todo
        /\ [text |-> Todos!Remnant, done |-> FALSE] \in Todo
    BY <1>4 DEF Todo, Todos!Todo
  <2> QED
    BY <1>3, <1>4, <2>1
<1>6. /\ SubSeq(todos[w], 1, n - 1) \in Seq(Todo) /\ Len(SubSeq(todos[w], 1, n - 1)) = n - 1
      /\ \A i \in 1..(n - 1) : SubSeq(todos[w], 1, n - 1)[i] = todos[w][i]
  BY <1>2, <1>4
<1> DEFINE text == Append(SubSeq(todos[w], 1, n - 1), last)
<1>7. /\ text \in Seq(Todo) /\ Len(text) = n /\ text[n] = last
      /\ \A i \in 1..(n - 1) : text[i] = todos[w][i]
  BY <1>2, <1>4, <1>6
<1> HIDE DEF text
<1>8. todo_txt' = text
  <2>1. <<>> \in Seq(Todo) /\ Len(<<>>) <= Len(text)
    BY <1>7
  <2> QED
    BY <1>2, <1>5, <1>7, <2>1, OverShorter DEF text
<1>9. \A i \in 1..n : text[i] = todos[w][i] \/ (i = n /\ text[i].text = Todos!Remnant)
  <2>1. \A i \in 1..n : i = n \/ i \in 1..(n - 1)
    BY <1>4
  <2> QED
    BY <1>5, <1>7, <2>1
<1>10. n <= Len(todos[w]) /\ n <= MAX_TODOS
  BY <1>2, <1>4
<1>11. /\ todo_txt' \in Seq(Todo) /\ todo_txt' # NoFile
       /\ Len(todo_txt') <= MAX_TODOS /\ Len(todo_txt') <= Len(todos[w])
       /\ \A i \in 1..Len(todo_txt') :
             \/ todo_txt'[i] = todos[w][i]
             \/ i = Len(todo_txt') /\ todo_txt'[i].text = Todos!Remnant
  BY <1>7, <1>8, <1>9, <1>10, TodoConstants
<1>12. /\ todos' = [todos EXCEPT ![w] = todos[w]]
       /\ unsaved' = [unsaved EXCEPT ![w] = unsaved[w]] /\ unsaved[w] \in BOOLEAN
       /\ kept' \subseteq Text
  BY <1>1, <1>2, OfWindow
<1> QED
  BY <1>1, <1>2, <1>11, <1>12, WindowStep

LEMMA CloseFileStep ==
    ASSUME OneWindow, TodoInv, NEW w \in Window, Todos!CloseFile(w) PROVE TodoInv'
<1>1. /\ pc[w] \in {"write", "flushed"} /\ pc' = [pc EXCEPT ![w] = "menu"]
      /\ todo_txt' = Todos!Over(todos[w], todo_txt) /\ UNCHANGED <<todos, unsaved, kept>>
  BY DEF Todos!CloseFile, Todos!go
<1>2. todos[w] \in Seq(Todo) /\ Len(todos[w]) <= MAX_TODOS /\ Len(todos[w]) \in Nat
  BY OfWindow
<1>3. todo_txt \in Seq(Todo) /\ Len(todo_txt) <= Len(todos[w])
  <2>1. CASE pc[w] = "write"
    <3>1. todo_txt = <<>> /\ <<>> \in Seq(Todo) /\ Len(<<>>) = 0
      BY <2>1, OfWindow DEF FileAndList
    <3> QED
      BY <1>2, <3>1
  <2>2. CASE pc[w] = "flushed"
    BY <2>2, OfWindow DEF FileAndList
  <2> QED
    BY <1>1, <2>1, <2>2
<1>4. todo_txt' = todos[w]
  BY <1>1, <1>2, <1>3, OverShorter
<1> QED
  BY <1>1, <1>2, <1>4, OfWindow, TodoConstants, WindowStep

LEMMA TodoStart == OneWindow /\ Todos!Init => TodoInv
<1> SUFFICES ASSUME Todos!Init PROVE TodoInv
  OBVIOUS
<1>1. <<>> \in Seq(Todo) /\ Len(<<>>) <= MAX_TODOS
  BY TodoConstants
<1>2. Todos!TypeOK
  BY <1>1 DEF Todos!TypeOK, Todos!Init, Todo
<1> QED
  BY <1>2 DEF TodoInv, Todos!Init, FileAndList

LEMMA TodoStep == OneWindow /\ TodoInv /\ [Todos!Next]_todo => TodoInv'
<1> SUFFICES ASSUME OneWindow, TodoInv, [Todos!Next]_todo PROVE TodoInv'
  OBVIOUS
<1>1. CASE UNCHANGED todo
  BY <1>1 DEF todo, TodoInv, Todos!TypeOK, FileAndList
<1>2. CASE Todos!Next
  BY <1>2, LoadStep, EditStep, TodoIdleStep, OpenFileStep, FlushStep, CloseFileStep DEF Todos!Next
<1> QED
  BY <1>1, <1>2

\* todo_list.cpp: as long as one window is open at a time its file is the list at every menu,
\* whatever became of the windows before and of their saves, and while the list is saved the
\* file is the beginning of it, of which at most the last line is cut.
THEOREM OneWindowKeepsItsList == OneWindow /\ Spec => []FileIsList
<1> SUFFICES ASSUME OneWindow PROVE Spec => []FileIsList
  OBVIOUS
<1>1. Init => TodoInv
  BY TodoStart DEF Init
<1>2. TodoInv /\ [Next]_vars => TodoInv'
  <2>1. [Next]_vars => [Todos!Next]_todo
    <3>1. Next => [Todos!Next]_todo
      BY DEF Next
    <3>2. UNCHANGED vars => UNCHANGED todo
      BY DEF vars
    <3> QED
      BY <3>1, <3>2
  <2> QED
    BY <2>1, TodoStep
<1>3. TodoInv => FileIsList
  <2> SUFFICES ASSUME TodoInv PROVE Todos!FileIsList
    BY DEF FileIsList
  <2>1. Todos!TypeOK
    BY DEF TodoInv
  <2>2. ASSUME NEW w \in Window, pc[w] \in {"write", "flushed"}
        PROVE  /\ Len(todo_txt) <= Len(todos[w])
               /\ \A i \in DOMAIN todo_txt :
                     \/ todo_txt[i] = todos[w][i]
                     \/ i = Len(todo_txt) /\ todo_txt[i].text = Todos!Remnant
    <3>1. FileAndList(w) /\ Len(todos[w]) \in Nat
      BY OfWindow
    <3>2. CASE pc[w] = "write"
      <4>1. todo_txt = <<>> /\ Len(<<>>) = 0 /\ DOMAIN <<>> = {}
        BY <3>1, <3>2 DEF FileAndList
      <4> QED
        BY <3>1, <4>1
    <3>3. CASE pc[w] = "flushed"
      <4>1. DOMAIN todo_txt = 1..Len(todo_txt)
        BY <3>1, <3>3, OfWindow DEF FileAndList
      <4> QED
        BY <3>1, <3>3, <4>1 DEF FileAndList
    <3> QED
      BY <2>2, <3>2, <3>3
  <2>3. \A w \in Window : pc[w] = "menu" /\ ~unsaved[w] =>
           IF todo_txt = NoFile THEN todos[w] = <<>> ELSE todo_txt = todos[w]
    BY DEF TodoInv, FileAndList
  <2> QED
    BY <2>1, <2>2, <2>3 DEF Todos!FileIsList
<1> QED
  BY <1>1, <1>2, <1>3, PTL DEF Spec

-----------------------------------------------------------------------------
(* Those who read system.log: what is folded over the lines they have read *)

\* The lines of the log, and what stands in a slot that was never written.
ReaderLine ==
    [what : {"Resources allocated", "Resources reclaimed", "Process created",
             "Process terminated", "rotated", "unwritten"},
     amount : Nat]

LEMMA ReaderConstants ==
    /\ IsFiniteSet(Child) /\ TOTAL \in Nat /\ ram \in [Child -> Nat] /\ KEEP \in Nat
    /\ RING \in Nat \ {0} /\ SHOWN \in 1..RING
    /\ MAX_LOG_LINES \in Nat \ {0} /\ PAGE_SIZE \in Nat \ {0}
<1>1. IsFiniteSet(Child) <=> Readers!IsFiniteSet(Child)
  BY DEF IsFiniteSet, Readers!IsFiniteSet
<1> QED
  BY <1>1, FilesAssumption DEF Readers!ReadersAssumption

LEMMA SameCardinality == ASSUME NEW s PROVE Readers!Cardinality(s) = Cardinality(s)
  BY DEF Readers!Cardinality, Cardinality, IsFiniteSet, Readers!IsFiniteSet

LEMMA SameMax == ASSUME NEW s PROVE Readers!Max(s) = Max(s)
  BY DEF Readers!Max, Max

\* One turn of the task manager's loop.
Keeps(k, l) ==
    IF Readers!Matches(l) THEN [lines |-> [k.lines EXCEPT ![k.count % RING] = l],
                                count |-> k.count + 1]
    ELSE k

NothingKept == [lines |-> [i \in 0..(RING - 1) |-> Readers!Line("unwritten", 0)], count |-> 0]

KeptType == [lines : [0..(RING - 1) -> ReaderLine], count : Nat]

LEMMA KeepsType ==
    /\ NothingKept \in KeptType
    /\ \A k \in KeptType, l \in ReaderLine : Keeps(k, l) \in KeptType
<1>1. RING \in Nat \ {0}
  BY ReaderConstants
<1>2. NothingKept \in KeptType
  BY <1>1 DEF NothingKept, KeptType, ReaderLine, Readers!Line
<1>3. ASSUME NEW k \in KeptType, NEW l \in ReaderLine PROVE Keeps(k, l) \in KeptType
  <2>1. k.lines \in [0..(RING - 1) -> ReaderLine] /\ k.count \in Nat
    BY DEF KeptType
  <2>2. [k.lines EXCEPT ![k.count % RING] = l] \in [0..(RING - 1) -> ReaderLine]
    BY <2>1
  <2> QED
    BY <2>1, <2>2 DEF Keeps, KeptType
<1> QED
  BY <1>2, <1>3

\* The loop is a fold over the lines.
LEMMA KeptRuns ==
    ASSUME seen \in Seq(ReaderLine)
    PROVE  \E r : /\ r[0] = NothingKept
                  /\ \A k \in 1..Len(seen) : r[k] = Keeps(r[k - 1], seen[k])
                  /\ Readers!Kept = r[Len(seen)]
<1> DEFINE n == Len(seen)
           S == DOMAIN seen
           F(J) == [s \in SUBSET S |->
                       IF s = {} THEN NothingKept
                       ELSE Keeps(J[s \ {Readers!Max(s)}], seen[Readers!Max(s)])]
           J == CHOOSE J : J = F(J)
<1>1. S = 1..n /\ n \in Nat /\ \A i \in 1..n : seen[i] \in ReaderLine
  OBVIOUS
<1>2. Readers!Kept = J[S]
  BY DEF Readers!Kept, Readers!FoldLeft, Readers!MapThenFoldSet, Keeps, NothingKept
<1> HIDE DEF S
<1>3. \E I : I = F(I)
  <2> DEFINE f == [v \in KeptType \X (1..n) |-> Keeps(v[1], seen[v[2]])]
  <2>1. f \in [KeptType \X (1..n) -> KeptType]
    <3>1. ASSUME NEW v \in KeptType \X (1..n) PROVE Keeps(v[1], seen[v[2]]) \in KeptType
      BY <1>1, KeepsType
    <3> QED
      BY <3>1
  <2> HIDE DEF f, n
  <2>2. PICK I \in [SUBSET (1..n) -> KeptType] : IsFold(I, n, NothingKept, f)
    BY <1>1, <2>1, KeepsType, FoldExists
  <2>3. ASSUME NEW s \in SUBSET (1..n), s # {}
        PROVE  f[<<I[s \ {Max(s)}], Max(s)>>] = Keeps(I[s \ {Max(s)}], seen[Max(s)])
    <3>1. Max(s) \in 1..n /\ I[s \ {Max(s)}] \in KeptType
      BY <1>1, <2>3, MaxOfPlaces
    <3> QED
      BY <3>1 DEF f
  <2>4. \A s \in SUBSET S : I[s] = IF s = {} THEN NothingKept
                                   ELSE Keeps(I[s \ {Readers!Max(s)}], seen[Readers!Max(s)])
    BY <1>1, <2>2, <2>3, SameMax DEF IsFold
  <2>5. I = [s \in SUBSET S |-> I[s]]
    BY <1>1
  <2>6. I = F(I)
    BY <2>4, <2>5
  <2> QED
    BY <2>6
<1>4. J = F(J)
  <2> HIDE DEF F
  <2> QED
    BY <1>3
<1> HIDE DEF J
<1>5. \A s \in SUBSET S : J[s] = IF s = {} THEN NothingKept
                                 ELSE Keeps(J[s \ {Readers!Max(s)}], seen[Readers!Max(s)])
  BY <1>4
<1> DEFINE r == [k \in 0..n |-> J[1..k]]
<1>6. ASSUME NEW k \in 1..n PROVE r[k] = Keeps(r[k - 1], seen[k])
  <2>1. Readers!Max(1..k) = k /\ (1..k) \ {k} = 1..(k - 1) /\ 1..k # {}
    BY <1>1, UpToPlace, SameMax
  <2>2. k \in 0..n /\ k - 1 \in 0..n /\ 1..k \in SUBSET S
    BY <1>1
  <2>3. J[1..k] = Keeps(J[1..(k - 1)], seen[k])
    BY <1>5, <2>1, <2>2
  <2> QED
    BY <2>2, <2>3
<1>7. r[0] = NothingKept
  <2>1. 1..0 = {} /\ 0 \in 0..n
    BY <1>1
  <2> QED
    BY <1>5, <2>1
<1>8. Readers!Kept = r[n]
  BY <1>1, <1>2
<1> HIDE DEF r
<1> QED
  BY <1>6, <1>7, <1>8

\* One turn of the loop that takes the lines that match.
Takes(es, l) == IF Readers!Matches(l) THEN Append(es, l) ELSE es

LEMMA TakesType ==
    /\ <<>> \in Seq(ReaderLine)
    /\ \A es \in Seq(ReaderLine), l \in ReaderLine : Takes(es, l) \in Seq(ReaderLine)
  BY DEF Takes

\* So are the lines that match.
LEMMA EventsRuns ==
    ASSUME seen \in Seq(ReaderLine)
    PROVE  \E r : /\ r[0] = <<>>
                  /\ \A k \in 1..Len(seen) : r[k] = Takes(r[k - 1], seen[k])
                  /\ Readers!events = r[Len(seen)]
<1> DEFINE n == Len(seen)
           S == DOMAIN seen
           F(J) == [s \in SUBSET S |->
                       IF s = {} THEN <<>>
                       ELSE Takes(J[s \ {Readers!Max(s)}], seen[Readers!Max(s)])]
           J == CHOOSE J : J = F(J)
<1>1. S = 1..n /\ n \in Nat /\ \A i \in 1..n : seen[i] \in ReaderLine
  OBVIOUS
<1>2. Readers!events = J[S]
  BY DEF Readers!events, Readers!FoldLeft, Readers!MapThenFoldSet, Takes
<1> HIDE DEF S
<1>3. \E I : I = F(I)
  <2> DEFINE f == [v \in Seq(ReaderLine) \X (1..n) |-> Takes(v[1], seen[v[2]])]
  <2>1. f \in [Seq(ReaderLine) \X (1..n) -> Seq(ReaderLine)]
    <3>1. ASSUME NEW v \in Seq(ReaderLine) \X (1..n) PROVE Takes(v[1], seen[v[2]]) \in Seq(ReaderLine)
      BY <1>1, TakesType
    <3> QED
      BY <3>1
  <2> HIDE DEF f, n
  <2>2. PICK I \in [SUBSET (1..n) -> Seq(ReaderLine)] : IsFold(I, n, <<>>, f)
    BY <1>1, <2>1, TakesType, FoldExists
  <2>3. ASSUME NEW s \in SUBSET (1..n), s # {}
        PROVE  f[<<I[s \ {Max(s)}], Max(s)>>] = Takes(I[s \ {Max(s)}], seen[Max(s)])
    <3>1. Max(s) \in 1..n /\ I[s \ {Max(s)}] \in Seq(ReaderLine)
      BY <1>1, <2>3, MaxOfPlaces
    <3> QED
      BY <3>1 DEF f
  <2>4. \A s \in SUBSET S : I[s] = IF s = {} THEN <<>>
                                   ELSE Takes(I[s \ {Readers!Max(s)}], seen[Readers!Max(s)])
    BY <1>1, <2>2, <2>3, SameMax DEF IsFold
  <2>5. I = [s \in SUBSET S |-> I[s]]
    BY <1>1
  <2>6. I = F(I)
    BY <2>4, <2>5
  <2> QED
    BY <2>6
<1>4. J = F(J)
  <2> HIDE DEF F
  <2> QED
    BY <1>3
<1> HIDE DEF J
<1>5. \A s \in SUBSET S : J[s] = IF s = {} THEN <<>>
                                 ELSE Takes(J[s \ {Readers!Max(s)}], seen[Readers!Max(s)])
  BY <1>4
<1> DEFINE r == [k \in 0..n |-> J[1..k]]
<1>6. ASSUME NEW k \in 1..n PROVE r[k] = Takes(r[k - 1], seen[k])
  <2>1. Readers!Max(1..k) = k /\ (1..k) \ {k} = 1..(k - 1) /\ 1..k # {}
    BY <1>1, UpToPlace, SameMax
  <2>2. k \in 0..n /\ k - 1 \in 0..n /\ 1..k \in SUBSET S
    BY <1>1
  <2>3. J[1..k] = Takes(J[1..(k - 1)], seen[k])
    BY <1>5, <2>1, <2>2
  <2> QED
    BY <2>2, <2>3
<1>7. r[0] = <<>>
  <2>1. 1..0 = {} /\ 0 \in 0..n
    BY <1>1
  <2> QED
    BY <1>5, <2>1
<1>8. Readers!events = r[n]
  BY <1>1, <1>2
<1> HIDE DEF r
<1> QED
  BY <1>6, <1>7, <1>8

\* One turn of the dashboard's loop.
Adds(what, sum, l) == IF l.what = what THEN sum + l.amount ELSE sum

LEMMA AddsType ==
    ASSUME NEW what, NEW sum \in Nat, NEW l \in ReaderLine PROVE Adds(what, sum, l) \in Nat
<1>1. l.amount \in Nat
  BY DEF ReaderLine
<1> QED
  BY <1>1 DEF Adds

\* And so is a sum.
LEMMA SumRuns ==
    ASSUME seen \in Seq(ReaderLine), NEW what
    PROVE  \E r : /\ r[0] = 0
                  /\ \A k \in 1..Len(seen) : r[k] = Adds(what, r[k - 1], seen[k])
                  /\ Readers!Sum(what) = r[Len(seen)]
<1> DEFINE n == Len(seen)
           S == DOMAIN seen
           F(J) == [s \in SUBSET S |->
                       IF s = {} THEN 0
                       ELSE Adds(what, J[s \ {Readers!Max(s)}], seen[Readers!Max(s)])]
           J == CHOOSE J : J = F(J)
<1>1. S = 1..n /\ n \in Nat /\ \A i \in 1..n : seen[i] \in ReaderLine
  OBVIOUS
<1>2. Readers!Sum(what) = J[S]
  BY DEF Readers!Sum, Readers!FoldLeft, Readers!MapThenFoldSet, Adds
<1> HIDE DEF S
<1>3. \E I : I = F(I)
  <2> DEFINE f == [v \in Nat \X (1..n) |-> Adds(what, v[1], seen[v[2]])]
  <2>1. f \in [Nat \X (1..n) -> Nat]
    <3>1. ASSUME NEW v \in Nat \X (1..n) PROVE Adds(what, v[1], seen[v[2]]) \in Nat
      <4>1. v[1] \in Nat /\ seen[v[2]] \in ReaderLine
        BY <1>1
      <4> QED
        BY <4>1, AddsType
    <3> QED
      BY <3>1
  <2> HIDE DEF f, n
  <2>2. PICK I \in [SUBSET (1..n) -> Nat] : IsFold(I, n, 0, f)
    BY <1>1, <2>1, AddsType, FoldExists
  <2>3. ASSUME NEW s \in SUBSET (1..n), s # {}
        PROVE  f[<<I[s \ {Max(s)}], Max(s)>>] = Adds(what, I[s \ {Max(s)}], seen[Max(s)])
    <3>1. Max(s) \in 1..n /\ I[s \ {Max(s)}] \in Nat
      BY <1>1, <2>3, MaxOfPlaces
    <3> QED
      BY <3>1 DEF f
  <2>4. \A s \in SUBSET S : I[s] = IF s = {} THEN 0
                                   ELSE Adds(what, I[s \ {Readers!Max(s)}], seen[Readers!Max(s)])
    BY <1>1, <2>2, <2>3, SameMax DEF IsFold
  <2>5. I = [s \in SUBSET S |-> I[s]]
    BY <1>1
  <2>6. I = F(I)
    BY <2>4, <2>5
  <2> QED
    BY <2>6
<1>4. J = F(J)
  <2> HIDE DEF F
  <2> QED
    BY <1>3
<1> HIDE DEF J
<1>5. \A s \in SUBSET S : J[s] = IF s = {} THEN 0
                                 ELSE Adds(what, J[s \ {Readers!Max(s)}], seen[Readers!Max(s)])
  BY <1>4
<1> DEFINE r == [k \in 0..n |-> J[1..k]]
<1>6. ASSUME NEW k \in 1..n PROVE r[k] = Adds(what, r[k - 1], seen[k])
  <2>1. Readers!Max(1..k) = k /\ (1..k) \ {k} = 1..(k - 1) /\ 1..k # {}
    BY <1>1, UpToPlace, SameMax
  <2>2. k \in 0..n /\ k - 1 \in 0..n /\ 1..k \in SUBSET S
    BY <1>1
  <2>3. J[1..k] = Adds(what, J[1..(k - 1)], seen[k])
    BY <1>5, <2>1, <2>2
  <2> QED
    BY <2>2, <2>3
<1>7. r[0] = 0
  <2>1. 1..0 = {} /\ 0 \in 0..n
    BY <1>1
  <2> QED
    BY <1>5, <2>1
<1>8. Readers!Sum(what) = r[n]
  BY <1>1, <1>2
<1> HIDE DEF r
<1> QED
  BY <1>6, <1>7, <1>8

-----------------------------------------------------------------------------
(* The task manager's ring *)

\* Of the lines that match, the ring holds those of the last round, each in its place.
Holds(k, es) ==
    /\ k \in KeptType /\ es \in Seq(ReaderLine) /\ k.count = Len(es)
    /\ \A p \in 1..Len(es) : p > Len(es) - RING => k.lines[(p - 1) % RING] = es[p]

LEMMA HoldsStep ==
    ASSUME NEW k, NEW es, Holds(k, es), NEW l \in ReaderLine
    PROVE  Holds(Keeps(k, l), Takes(es, l))
<1>1. /\ k \in KeptType /\ es \in Seq(ReaderLine) /\ k.count = Len(es) /\ Len(es) \in Nat
      /\ k.lines \in [0..(RING - 1) -> ReaderLine]
      /\ \A p \in 1..Len(es) : p > Len(es) - RING => k.lines[(p - 1) % RING] = es[p]
  BY DEF Holds, KeptType
<1>2. CASE ~Readers!Matches(l)
  BY <1>2 DEF Keeps, Takes
<1>3. CASE Readers!Matches(l)
  <2> DEFINE j == Keeps(k, l)
             fs == Takes(es, l)
             place == k.count % RING
  <2>1. /\ fs \in Seq(ReaderLine) /\ Len(fs) = Len(es) + 1 /\ fs[Len(es) + 1] = l
        /\ \A p \in 1..Len(es) : fs[p] = es[p]
    BY <1>1, <1>3 DEF Takes
  <2>2. /\ j.lines = [k.lines EXCEPT ![place] = l] /\ j.count = Len(es) + 1
        /\ j \in KeptType
    BY <1>1, <1>3, KeepsType DEF Keeps
  <2>3. RING \in Nat \ {0} /\ place \in 0..(RING - 1) /\ place = Len(es) % RING
    BY <1>1, ReaderConstants
  <2>4. j.lines[place] = l /\ \A i \in 0..(RING - 1) : i # place => j.lines[i] = k.lines[i]
    BY <1>1, <2>2, <2>3
  <2>5. ASSUME NEW p \in 1..(Len(es) + 1), p > Len(es) + 1 - RING
        PROVE  j.lines[(p - 1) % RING] = fs[p]
    <3>1. CASE p = Len(es) + 1
      <4>1. p - 1 = Len(es)
        BY <1>1, <3>1
      <4> QED
        BY <2>1, <2>3, <2>4, <3>1, <4>1
    <3>2. CASE p # Len(es) + 1
      <4>1. p \in 1..Len(es) /\ p > Len(es) - RING /\ p - 1 \in Nat /\ p - 1 < Len(es)
        BY <1>1, <2>3, <2>5, <3>2
      <4>2. (p - 1) % RING \in 0..(RING - 1)
        BY <2>3, <4>1
      <4>3. (p - 1) % RING # place
        <5>1. SUFFICES ASSUME (p - 1) % RING = place PROVE FALSE
          OBVIOUS
        <5>2. Len(es) - (p - 1) >= RING
          BY <1>1, <2>3, <4>1, <5>1, FarApart
        <5> QED
          BY <1>1, <2>3, <2>5, <4>1, <5>2
      <4> QED
        BY <1>1, <2>1, <2>4, <4>1, <4>2, <4>3
    <3> QED
      BY <3>1, <3>2
  <2> HIDE DEF j, fs
  <2>6. Holds(j, fs)
    <3>1. j.count = Len(fs)
      BY <2>1, <2>2
    <3>2. ASSUME NEW p \in 1..Len(fs), p > Len(fs) - RING
          PROVE  j.lines[(p - 1) % RING] = fs[p]
      <4>1. p \in 1..(Len(es) + 1) /\ p > Len(es) + 1 - RING
        BY <1>1, <2>1, <2>3, <3>2
      <4> QED
        BY <2>5, <4>1
    <3> QED
      BY <2>1, <2>2, <3>1, <3>2 DEF Holds
  <2> QED
    BY <2>6 DEF j, fs
<1> QED
  BY <1>2, <1>3

LEMMA RingHolds ==
    ASSUME seen \in Seq(ReaderLine)
    PROVE  Holds(Readers!Kept, Readers!events)
<1> DEFINE n == Len(seen)
<1>1. n \in Nat /\ \A i \in 1..n : seen[i] \in ReaderLine
  OBVIOUS
<1>2. PICK r : /\ r[0] = NothingKept
               /\ \A k \in 1..n : r[k] = Keeps(r[k - 1], seen[k])
               /\ Readers!Kept = r[n]
  BY KeptRuns
<1>3. PICK e : /\ e[0] = <<>>
               /\ \A k \in 1..n : e[k] = Takes(e[k - 1], seen[k])
               /\ Readers!events = e[n]
  BY EventsRuns
<1> DEFINE N == {k \in Nat : k <= n => Holds(r[k], e[k])}
<1>4. 0 \in N
  <2>1. NothingKept.count = 0 /\ Len(<<>>) = 0 /\ <<>> \in Seq(ReaderLine)
    BY DEF NothingKept
  <2>2. \A p \in 1..Len(<<>>) : FALSE
    OBVIOUS
  <2>3. Holds(NothingKept, <<>>)
    BY <2>1, <2>2, KeepsType DEF Holds
  <2> QED
    BY <1>2, <1>3, <2>3
<1>5. ASSUME NEW k \in N PROVE k + 1 \in N
  <2>1. CASE k + 1 <= n
    <3>1. k \in Nat /\ k + 1 \in 1..n /\ (k + 1) - 1 = k /\ k <= n
      BY <1>1, <2>1
    <3>2. Holds(r[k], e[k]) /\ seen[k + 1] \in ReaderLine
      BY <1>1, <3>1
    <3>3. Holds(Keeps(r[k], seen[k + 1]), Takes(e[k], seen[k + 1]))
      BY <3>2, HoldsStep
    <3>4. Holds(r[k + 1], e[k + 1])
      BY <1>2, <1>3, <3>1, <3>3
    <3> QED
      BY <3>1, <3>4
  <2>2. CASE ~(k + 1 <= n)
    BY <2>2
  <2> QED
    BY <2>1, <2>2
<1> HIDE DEF N
<1>6. N = Nat
  BY <1>4, <1>5, CountingInduction DEF N
<1>7. n <= n /\ n \in N
  BY <1>1, <1>6
<1> QED
  BY <1>2, <1>3, <1>7 DEF N

\* The lines shown are the last ones that match.
LEMMA RecentAreNewest ==
    ASSUME seen \in Seq(ReaderLine)
    PROVE  Readers!RecentEvents
             = SubSeq(Readers!events, Readers!AtLeast0(Len(Readers!events) - SHOWN) + 1,
                      Len(Readers!events))
<1> DEFINE es == Readers!events
           k == Readers!Kept
           count == Len(es)
           start == IF count > SHOWN THEN count - SHOWN ELSE 0
           new == SubSeq(es, start + 1, count)
<1>1. /\ es \in Seq(ReaderLine) /\ count \in Nat /\ k.count = count
      /\ \A p \in 1..count : p > count - RING => k.lines[(p - 1) % RING] = es[p]
  BY RingHolds DEF Holds
<1>2. SHOWN \in Nat /\ RING \in Nat /\ SHOWN <= RING
  BY ReaderConstants
<1>3. Readers!AtLeast0(count - SHOWN) = start
  BY <1>1, <1>2 DEF Readers!AtLeast0
<1>4. Readers!RecentEvents = [i \in 1..(count - start) |-> k.lines[(start + i - 1) % RING]]
  BY <1>1 DEF Readers!RecentEvents
<1> HIDE DEF es, k, count
<1>5. start \in Nat /\ start <= count /\ count - start \in Nat /\ start >= count - SHOWN
  BY <1>1, <1>2
<1>6. ASSUME NEW i \in 1..(count - start)
      PROVE  k.lines[(start + i - 1) % RING] = es[start + i]
  <2>1. /\ start + i \in 1..count /\ start + i > count - RING
        /\ start + i - 1 = (start + i) - 1
    BY <1>1, <1>2, <1>5
  <2> QED
    BY <1>1, <2>1
<1> HIDE DEF start
<1>7. new = [i \in 1..(count - start) |-> es[start + i]]
  <2>1. count - (start + 1) + 1 = count - start
    BY <1>1, <1>5
  <2>2. \A i \in 1..(count - start) : (start + 1) + i - 1 = start + i
    BY <1>1, <1>5
  <2> QED
    BY <1>1, <1>5, <2>1, <2>2 DEF count
<1>8. Readers!RecentEvents = new
  BY <1>4, <1>6, <1>7
<1> QED
  BY <1>3, <1>8 DEF es, count

-----------------------------------------------------------------------------
(* The viewer's pages *)

\* The pages are as many as the lines need: there is one even if there is no line.
LEMMA PagesNeeded ==
    ASSUME NEW n \in Nat, NEW size \in Nat \ {0}
    PROVE  LET p == (n + size - 1) \div size
           IN  p \in Nat /\ p * size >= n /\ (p > 0 => (p - 1) * size < n)
<1>1. n + size - 1 \in Nat
  OBVIOUS
<1>2. PICK q \in Nat, r \in 0..(size - 1) : n + size - 1 = size * q + r
  BY <1>1, Divides
<1>3. (size * q + r) \div size = q
  OBVIOUS
<1>4. size * q \in Nat /\ q * size = size * q /\ (q - 1) * size = size * q - size
  OBVIOUS
<1>5. r \in Nat /\ r < size
  OBVIOUS
<1>6. q * size >= n /\ (q - 1) * size < n
  BY <1>2, <1>4, <1>5
<1> QED
  BY <1>2, <1>3, <1>6

LEMMA TotalPages ==
    ASSUME seen \in Seq(ReaderLine)
    PROVE  /\ Readers!total_pages \in Nat \ {0} /\ Readers!ViewerCount \in 0..Len(seen)
           /\ Readers!total_pages * PAGE_SIZE >= Readers!ViewerCount
           /\ \/ Readers!total_pages = 1
              \/ (Readers!total_pages - 1) * PAGE_SIZE < Readers!ViewerCount
           /\ Readers!ViewerCount = 0 => seen = <<>>
<1> DEFINE n == Readers!ViewerCount
           p == (n + PAGE_SIZE - 1) \div PAGE_SIZE
<1>1. n \in 0..Len(seen) /\ (n = 0 => seen = <<>>) /\ n \in Nat
  BY ReaderConstants DEF Readers!ViewerCount
<1>2. Readers!total_pages = IF p = 0 THEN 1 ELSE p
  BY DEF Readers!total_pages
<1> HIDE DEF n
<1>3. p \in Nat /\ p * PAGE_SIZE >= n /\ (p > 0 => (p - 1) * PAGE_SIZE < n)
  BY <1>1, ReaderConstants, PagesNeeded
<1> HIDE DEF p
<1>4. 1 * PAGE_SIZE >= 0 /\ 0 * PAGE_SIZE = 0
  BY ReaderConstants
<1> QED
  BY <1>1, <1>2, <1>3, <1>4 DEF n

\* The products the proofs need.
LEMMA Products ==
    ASSUME NEW size \in Nat \ {0}, NEW a \in Nat, NEW b \in Nat, a <= b
    PROVE  a * size \in Nat /\ a * size <= b * size /\ (a + 1) * size = a * size + size
<1>1. a * size \in Nat /\ b * size \in Nat /\ (a + 1) * size = a * size + size
  OBVIOUS
<1>2. b - a \in Nat
  OBVIOUS
<1>3. (b - a) * size \in Nat
  BY <1>2
<1>4. (b - a) * size = b * size - a * size
  OBVIOUS
<1> QED
  BY <1>1, <1>3, <1>4

\* The first lines, and those behind them.
LEMMA FirstAndNext ==
    ASSUME NEW S, NEW s \in Seq(S), NEW a \in Nat, NEW b \in Nat, a <= b, b <= Len(s)
    PROVE  SubSeq(s, 1, a) \o SubSeq(s, a + 1, b) = SubSeq(s, 1, b)
<1> DEFINE u == SubSeq(s, 1, a)
           v == SubSeq(s, a + 1, b)
           w == SubSeq(s, 1, b)
<1>1. u \in Seq(S) /\ Len(u) = a /\ \A i \in 1..a : u[i] = s[i]
  OBVIOUS
<1>2. v \in Seq(S) /\ Len(v) = b - a /\ \A i \in 1..(b - a) : v[i] = s[a + i]
  OBVIOUS
<1>3. w \in Seq(S) /\ Len(w) = b /\ \A i \in 1..b : w[i] = s[i]
  OBVIOUS
<1> HIDE DEF u, v, w
<1>4. /\ u \o v \in Seq(S) /\ Len(u \o v) = b
      /\ \A i \in 1..b : (u \o v)[i] = IF i <= a THEN u[i] ELSE v[i - a]
  <2>1. /\ u \o v \in Seq(S) /\ Len(u \o v) = Len(u) + Len(v)
        /\ \A i \in 1..(Len(u) + Len(v)) :
              (u \o v)[i] = IF i <= Len(u) THEN u[i] ELSE v[i - Len(u)]
    BY <1>1, <1>2, Joined
  <2>2. Len(u) + Len(v) = b
    BY <1>1, <1>2
  <2> QED
    BY <1>1, <2>1, <2>2
<1>5. ASSUME NEW i \in 1..b PROVE (u \o v)[i] = w[i]
  <2>1. CASE i <= a
    BY <1>1, <1>3, <1>4, <2>1
  <2>2. CASE ~(i <= a)
    <3>1. i - a \in 1..(b - a) /\ a + (i - a) = i
      BY <2>2
    <3> QED
      BY <1>2, <1>3, <1>4, <2>2, <3>1
  <2> QED
    BY <2>1, <2>2
<1>6. u \o v = w
  BY <1>3, <1>4, <1>5
<1> QED
  BY <1>6 DEF u, v, w

\* Where a page stands.
LEMMA PagePlace ==
    ASSUME seen \in Seq(ReaderLine), NEW p \in 0..(Readers!total_pages - 1)
    PROVE  LET start == p * PAGE_SIZE
               n == Readers!ViewerCount
               end == IF start + PAGE_SIZE > n THEN n ELSE start + PAGE_SIZE
           IN  /\ start \in Nat /\ end \in Nat /\ start <= end /\ end <= Len(seen)
               /\ n > 0 => start < end
               /\ p # Readers!total_pages - 1 => end = start + PAGE_SIZE
               /\ p = Readers!total_pages - 1 => end = n
               /\ Readers!PageAt(p) = SubSeq(seen, start + 1, end)
               /\ (p + 1) * PAGE_SIZE = start + PAGE_SIZE
<1> DEFINE start == p * PAGE_SIZE
           n == Readers!ViewerCount
           t == Readers!total_pages
           end == IF start + PAGE_SIZE > n THEN n ELSE start + PAGE_SIZE
<1>1. /\ t \in Nat \ {0} /\ n \in 0..Len(seen) /\ t * PAGE_SIZE >= n
      /\ t = 1 \/ (t - 1) * PAGE_SIZE < n
  BY TotalPages
<1>2. PAGE_SIZE \in Nat \ {0} /\ Len(seen) \in Nat
  BY ReaderConstants
<1>0. Readers!PageAt(p) = SubSeq(seen, start + 1, end)
  BY DEF Readers!PageAt
<1> HIDE DEF n, t
<1>3. p \in Nat /\ t - 1 \in Nat /\ p <= t - 1
  BY <1>1 DEF t
<1>4. start \in Nat /\ start <= (t - 1) * PAGE_SIZE /\ (p + 1) * PAGE_SIZE = start + PAGE_SIZE
  BY <1>2, <1>3, Products
<1>5. (t - 1) * PAGE_SIZE \in Nat /\ ((t - 1) + 1) * PAGE_SIZE = (t - 1) * PAGE_SIZE + PAGE_SIZE
  BY <1>2, <1>3, Products
<1>6. (t - 1) + 1 = t
  BY <1>1
<1>7. start <= n /\ (n > 0 => start < n)
  <2>1. CASE t = 1
    <3>1. p = 0
      BY <1>3, <2>1
    <3>2. start = 0
      BY <1>2, <3>1
    <3> QED
      BY <1>1, <3>2
  <2>2. CASE (t - 1) * PAGE_SIZE < n
    BY <1>1, <1>4, <1>5, <2>2
  <2> QED
    BY <1>1, <2>1, <2>2
<1>8. p # t - 1 => start + PAGE_SIZE <= n
  <2> SUFFICES ASSUME p # t - 1 PROVE start + PAGE_SIZE <= n
    OBVIOUS
  <2>1. p + 1 \in Nat /\ p + 1 <= t - 1 /\ t # 1
    BY <1>3
  <2>2. (p + 1) * PAGE_SIZE <= (t - 1) * PAGE_SIZE
    BY <1>2, <1>3, <2>1, Products
  <2> HIDE DEF start
  <2> QED
    BY <1>1, <1>2, <1>4, <1>5, <2>1, <2>2
<1>9. p = t - 1 => start + PAGE_SIZE >= n
  <2> HIDE DEF start
  <2> QED
    BY <1>1, <1>4, <1>6
<1> HIDE DEF start
<1>10. /\ start \in Nat /\ end \in Nat /\ start <= end /\ end <= Len(seen)
       /\ n > 0 => start < end
       /\ p # t - 1 => end = start + PAGE_SIZE
       /\ p = t - 1 => end = n
  BY <1>1, <1>2, <1>4, <1>7, <1>8, <1>9
<1> QED
  BY <1>0, <1>4, <1>10 DEF start, n, t

\* The pages put together.
LEMMA PagesAreLines ==
    ASSUME seen \in Seq(ReaderLine)
    PROVE  Readers!FlattenSeq([p \in 1..Readers!total_pages |-> Readers!PageAt(p - 1)])
             = SubSeq(seen, 1, Readers!ViewerCount)
<1> DEFINE n == Readers!ViewerCount
           t == Readers!total_pages
           seqs == [p \in 1..t |-> Readers!PageAt(p - 1)]
           F(f) == [i \in 1..Len(seqs) |-> IF i = 1 THEN seqs[i] ELSE f[i - 1] \o seqs[i]]
           flatten == CHOOSE f : f = F(f)
           M(i) == IF i = t THEN n ELSE i * PAGE_SIZE
           h == [i \in 1..t |-> SubSeq(seen, 1, M(i))]
<1>1. t \in Nat \ {0} /\ n \in 0..Len(seen) /\ Len(seen) \in Nat
  BY TotalPages
<1>2. Len(seqs) = t
  BY <1>1
<1>3. Readers!FlattenSeq(seqs) = flatten[Len(seqs)]
  BY <1>1, <1>2 DEF Readers!FlattenSeq
<1>4. ASSUME NEW i \in 1..t
      PROVE  /\ (i - 1) * PAGE_SIZE \in Nat /\ M(i) \in Nat /\ (i - 1) * PAGE_SIZE <= M(i)
             /\ M(i) <= Len(seen)
             /\ seqs[i] = SubSeq(seen, (i - 1) * PAGE_SIZE + 1, M(i))
  <2>1. i - 1 \in 0..(t - 1) /\ (i - 1) + 1 = i
    BY <1>1
  <2>2. seqs[i] = Readers!PageAt(i - 1)
    OBVIOUS
  <2> HIDE DEF seqs
  <2> DEFINE start == (i - 1) * PAGE_SIZE
             end == IF start + PAGE_SIZE > n THEN n ELSE start + PAGE_SIZE
  <2>3. /\ start \in Nat /\ end \in Nat /\ start <= end /\ end <= Len(seen)
        /\ i - 1 # t - 1 => end = start + PAGE_SIZE
        /\ i - 1 = t - 1 => end = n
        /\ Readers!PageAt(i - 1) = SubSeq(seen, start + 1, end)
        /\ i * PAGE_SIZE = start + PAGE_SIZE
    <3> HIDE DEF start
    <3> QED
      BY <2>1, PagePlace DEF start
  <2> HIDE DEF start, end
  <2>4. M(i) = end
    BY <1>1, <2>1, <2>3
  <2> HIDE DEF M
  <2> QED
    BY <2>2, <2>3, <2>4 DEF start
<1>5. ASSUME NEW i \in 1..t, i # 1
      PROVE  /\ i - 1 \in 1..t /\ M(i - 1) = (i - 1) * PAGE_SIZE
             /\ SubSeq(seen, 1, M(i)) = SubSeq(seen, 1, M(i - 1)) \o seqs[i]
  <2>1. i - 1 \in 1..t /\ i - 1 # t
    BY <1>1, <1>5
  <2>2. M(i - 1) = (i - 1) * PAGE_SIZE
    BY <2>1
  <2> HIDE DEF M, seqs
  <2>3. SubSeq(seen, 1, M(i - 1)) \o SubSeq(seen, M(i - 1) + 1, M(i)) = SubSeq(seen, 1, M(i))
    BY <1>4, <2>2, FirstAndNext
  <2> QED
    BY <1>4, <2>1, <2>2, <2>3
<1>6. 1 \in 1..t /\ seqs[1] = SubSeq(seen, 1, M(1))
  <2>1. 1 \in 1..t /\ (1 - 1) * PAGE_SIZE + 1 = 1
    BY <1>1, ReaderConstants
  <2> HIDE DEF M, seqs
  <2> QED
    BY <1>4, <2>1
<1> HIDE DEF M, seqs, n, t
<1>7. ASSUME NEW i \in 1..t PROVE h[i] = IF i = 1 THEN seqs[i] ELSE h[i - 1] \o seqs[i]
  <2>1. CASE i = 1
    BY <1>6, <2>1
  <2>2. CASE i # 1
    BY <1>5, <2>2
  <2> QED
    BY <2>1, <2>2
<1>8. h = F(h)
  <2>1. h = [i \in 1..t |-> h[i]]
    OBVIOUS
  <2> HIDE DEF h
  <2> QED
    BY <1>2, <1>7, <2>1
<1>9. flatten = F(flatten)
  <2> HIDE DEF F
  <2> QED
    BY <1>8
<1> HIDE DEF flatten
<1>10. \A i \in 1..t : flatten[i] = IF i = 1 THEN seqs[i] ELSE flatten[i - 1] \o seqs[i]
  BY <1>2, <1>9
<1> DEFINE N == {k \in Nat : k + 1 <= t => flatten[k + 1] = h[k + 1]}
<1> HIDE DEF h
<1>11. 0 \in N
  BY <1>6, <1>7, <1>10
<1>12. ASSUME NEW k \in N PROVE k + 1 \in N
  <2>1. CASE (k + 1) + 1 <= t
    <3>1. /\ k \in Nat /\ (k + 1) + 1 \in 1..t /\ (k + 1) + 1 # 1
          /\ ((k + 1) + 1) - 1 = k + 1 /\ k + 1 <= t
      BY <1>1, <2>1
    <3>2. flatten[k + 1] = h[k + 1]
      BY <3>1
    <3>3. flatten[(k + 1) + 1] = h[(k + 1) + 1]
      BY <1>7, <1>10, <3>1, <3>2
    <3> QED
      BY <3>1, <3>3
  <2>2. CASE ~((k + 1) + 1 <= t)
    BY <2>2
  <2> QED
    BY <2>1, <2>2
<1> HIDE DEF N
<1>13. N = Nat
  BY <1>11, <1>12, CountingInduction DEF N
<1>14. flatten[t] = h[t]
  <2>1. t - 1 \in N /\ (t - 1) + 1 = t /\ t <= t
    BY <1>1, <1>13
  <2> QED
    BY <2>1 DEF N
<1>15. h[t] = SubSeq(seen, 1, n)
  BY <1>1 DEF h, M
<1> QED
  BY <1>2, <1>3, <1>14, <1>15 DEF n, t, seqs

LEMMA PageIsShown ==
    ASSUME seen \in Seq(ReaderLine), NEW page \in -1..MAX_LOG_LINES,
           Readers!PageAt(Readers!ShownPage(page)) = <<>>
    PROVE  seen = <<>>
<1> DEFINE p == Readers!ShownPage(page)
           start == p * PAGE_SIZE
           n == Readers!ViewerCount
           end == IF start + PAGE_SIZE > n THEN n ELSE start + PAGE_SIZE
<1>1. Readers!total_pages \in Nat \ {0} /\ n \in 0..Len(seen) /\ (n = 0 => seen = <<>>)
  BY TotalPages
<1>2. p \in 0..(Readers!total_pages - 1)
  BY <1>1, ReaderConstants DEF Readers!ShownPage
<1>3. Readers!PageAt(p) = <<>>
  OBVIOUS
<1> HIDE DEF p, n
<1>4. /\ start \in Nat /\ end \in Nat /\ start <= end /\ end <= Len(seen)
      /\ n > 0 => start < end
      /\ Readers!PageAt(p) = SubSeq(seen, start + 1, end)
  <2> HIDE DEF start
  <2> QED
    BY <1>2, PagePlace DEF n, start
<1> HIDE DEF start, end
<1>5. Len(SubSeq(seen, start + 1, end)) = end - start
  BY <1>4
<1>6. Len(<<>>) = 0
  OBVIOUS
<1>7. n = 0
  BY <1>1, <1>3, <1>4, <1>5, <1>6
<1> QED
  BY <1>1, <1>7

LEMMA AllIsShown ==
    ASSUME seen \in Seq(ReaderLine)
    PROVE  Readers!ReadersShowLines
  BY RecentAreNewest, PagesAreLines, PageIsShown DEF Readers!ReadersShowLines

-----------------------------------------------------------------------------
(* The log and what the kernel has *)

\* What each child has of the memory, and what the log says it has.
Held == [c \in Child |->
            IF maker[c] # "asks" /\ remover[c] \in {"none", "removed"} THEN ram[c] ELSE 0]
Told == [c \in Child |->
            IF maker[c] \in {"logged", "created", "done"} /\ remover[c] \notin {"logged", "done"}
            THEN ram[c] ELSE 0]

ReadersTypes ==
    /\ Readers!TypeOK
    /\ kernel_log \in Seq(ReaderLine) /\ seen \in Seq(ReaderLine)

\* A child is removed after it was created, and in the table in between.
InTurn == \A c \in Child :
    /\ remover[c] # "none" => maker[c] \in {"created", "done"}
    /\ c \in pcbs <=> maker[c] \in {"created", "done"} /\ remover[c] = "none"

RestIsFree == free + SumOf(Held, Child) = TOTAL

\* b is the memory in use behind each line of l: it is never negative.
Net(l) ==
    IF l.what = "Resources allocated" THEN l.amount
    ELSE IF l.what = "Resources reclaimed" THEN 0 - l.amount
    ELSE 0
IsBalance(b, l) ==
    /\ b \in [0..Len(l) -> Nat] /\ b[0] = 0
    /\ \A k \in 1..Len(l) : b[k] = b[k - 1] + Net(l[k])

LogBalances == \E b : IsBalance(b, kernel_log) /\ b[Len(kernel_log)] = SumOf(Told, Child)

\* The lines of a kind are as many as the children whose thread has written one.
LinesOf(l, what) == {i \in 1..Len(l) : l[i].what = what}
DoneOf(place) == {c \in Child : place[c] = "done"}
LinesCounted ==
    /\ Cardinality(LinesOf(kernel_log, "Process created"))
         = Cardinality(DoneOf(maker))
    /\ Cardinality(LinesOf(kernel_log, "Process terminated"))
         = Cardinality(DoneOf(remover))

SeenIsPrefix == Len(seen) <= Len(kernel_log) /\ \A i \in 1..Len(seen) : seen[i] = kernel_log[i]

ReadersInv ==
    /\ ReadersTypes /\ InTurn /\ RestIsFree
    /\ ~disturbed => LogBalances /\ LinesCounted /\ SeenIsPrefix

LEMMA WeightTypes ==
    /\ Held \in [Child -> Nat] /\ Told \in [Child -> Nat]
    /\ SumOf(Held, Child) \in Nat /\ SumOf(Told, Child) \in Nat
<1>1. Held \in [Child -> Nat] /\ Told \in [Child -> Nat] /\ IsFiniteSet(Child)
  BY ReaderConstants DEF Held, Told
<1> QED
  BY <1>1, SumOfNaturals

LEMMA ReadersStart == Readers!Init => ReadersInv
<1> SUFFICES ASSUME Readers!Init PROVE ReadersInv
  OBVIOUS
<1> USE DEF Readers!Init
<1>1. Held = [c \in Child |-> 0] /\ Told = [c \in Child |-> 0]
  BY DEF Held, Told
<1>2. SumOf(Held, Child) = 0 /\ SumOf(Told, Child) = 0
  BY <1>1, ReaderConstants, SumOfZeros
<1>3. ReadersTypes
  <2>1. free \in 0..TOTAL
    BY ReaderConstants
  <2>2. kernel_log \in Seq(ReaderLine) /\ seen \in Seq(ReaderLine)
    OBVIOUS
  <2> QED
    BY <2>1, <2>2 DEF ReadersTypes, Readers!TypeOK
<1>4. InTurn
  BY DEF InTurn
<1>5. RestIsFree
  BY <1>2, ReaderConstants DEF RestIsFree
<1>6. LogBalances
  <2> DEFINE b == [k \in 0..0 |-> 0]
  <2>1. IsBalance(b, kernel_log) /\ b[Len(kernel_log)] = 0
    BY DEF IsBalance
  <2> QED
    BY <1>2, <2>1 DEF LogBalances
<1>7. LinesCounted
  <2>1. LinesOf(kernel_log, "Process created") = {} /\ LinesOf(kernel_log, "Process terminated") = {}
    BY DEF LinesOf
  <2>2. DoneOf(maker) = {} /\ DoneOf(remover) = {}
    BY DEF DoneOf
  <2> QED
    BY <2>1, <2>2 DEF LinesCounted
<1>8. SeenIsPrefix
  BY DEF SeenIsPrefix
<1> QED
  BY <1>3, <1>4, <1>5, <1>6, <1>7, <1>8 DEF ReadersInv

\* The weights of the other children stay.
LEMMA WeightStep ==
    ASSUME NEW f \in [Child -> Nat], NEW g \in [Child -> Nat], NEW c \in Child,
           \A x \in Child \ {c} : g[x] = f[x]
    PROVE  /\ SumOf(f, Child) \in Nat /\ SumOf(g, Child) \in Nat
           /\ SumOf(g, Child) = SumOf(f, Child) + (g[c] - f[c])
<1>1. IsFiniteSet(Child) /\ f \in [Child -> Int] /\ g \in [Child -> Int]
  BY ReaderConstants
<1> QED
  BY <1>1, SumOfChanged, SumOfNaturals

\* One child more.
LEMMA OneMore ==
    ASSUME NEW s \in SUBSET Child, NEW r, NEW c \in Child, c \notin s, r = s \union {c}
    PROVE  Cardinality(s) \in Nat /\ Cardinality(r) = Cardinality(s) + 1
<1>1. IsFiniteSet(s)
  BY ReaderConstants, FS_Subset
<1> QED
  BY <1>1, FS_AddElement, FS_CardinalityType

\* A line more.
LEMMA LineMore ==
    ASSUME NEW l \in Seq(ReaderLine), NEW e \in ReaderLine, NEW what
    PROVE  /\ Cardinality(LinesOf(l, what)) \in Nat
           /\ Cardinality(LinesOf(Append(l, e), what))
                = Cardinality(LinesOf(l, what)) + (IF e.what = what THEN 1 ELSE 0)
<1> DEFINE n == Len(l)
           s == LinesOf(l, what)
           m == Append(l, e)
<1>1. n \in Nat /\ Len(m) = n + 1 /\ m[n + 1] = e /\ \A i \in 1..n : m[i] = l[i]
  OBVIOUS
<1>2. IsFiniteSet(s) /\ n + 1 \notin s
  <2>1. s \in SUBSET (1..n) /\ IsFiniteSet(1..n)
    BY <1>1, FS_Interval DEF LinesOf
  <2> QED
    BY <1>1, <2>1, FS_Subset
<1>3. LinesOf(m, what) = IF e.what = what THEN s \union {n + 1} ELSE s
  <2> HIDE DEF m
  <2>1. \A i \in 1..(n + 1) : i = n + 1 \/ i \in 1..n
    BY <1>1
  <2>2. \A i \in 1..n : i \in 1..(n + 1) /\ i # n + 1
    BY <1>1
  <2>3. n + 1 \in 1..(n + 1)
    BY <1>1
  <2> QED
    BY <1>1, <2>1, <2>2, <2>3 DEF LinesOf
<1> HIDE DEF s, m
<1>4. Cardinality(s) \in Nat /\ Cardinality(s \union {n + 1}) = Cardinality(s) + 1
  BY <1>2, FS_AddElement, FS_CardinalityType
<1> QED
  BY <1>3, <1>4 DEF s, m

LEMMA NetType == ASSUME NEW e \in ReaderLine PROVE Net(e) \in Int
<1>a. e.amount \in Nat
  BY DEF ReaderLine
<1>1. e.amount \in Int /\ 0 - e.amount \in Int
  BY <1>a
<1>2. Net(e) \in {e.amount, 0 - e.amount, 0}
  BY DEF Net
<1> QED
  BY <1>1, <1>2

LEMMA BalanceMore ==
    ASSUME NEW l \in Seq(ReaderLine), NEW b, IsBalance(b, l), NEW e \in ReaderLine,
           b[Len(l)] + Net(e) \in Nat
    PROVE  \E d : /\ IsBalance(d, Append(l, e))
                  /\ d[Len(Append(l, e))] = b[Len(l)] + Net(e)
<1> DEFINE n == Len(l)
           m == Append(l, e)
           last == b[n] + Net(e)
           d == [k \in 0..(n + 1) |-> IF k <= n THEN b[k] ELSE last]
<1>1. n \in Nat /\ Len(m) = n + 1 /\ m[n + 1] = e /\ \A i \in 1..n : m[i] = l[i]
  OBVIOUS
<1>2. /\ b \in [0..n -> Nat] /\ b[0] = 0
      /\ \A k \in 1..n : b[k] = b[k - 1] + Net(l[k])
  BY DEF IsBalance
<1> HIDE DEF last, m
<1>3. last \in Nat
  BY DEF last
<1>4. d \in [0..(n + 1) -> Nat]
  BY <1>1, <1>2, <1>3
<1>5. d[0] = 0 /\ d[n + 1] = last /\ \A k \in 0..n : d[k] = b[k]
  BY <1>1, <1>2
<1> HIDE DEF d
<1>6. ASSUME NEW k \in 1..(n + 1) PROVE d[k] = d[k - 1] + Net(m[k])
  <2>1. CASE k \in 1..n
    <3>1. k \in 0..n /\ k - 1 \in 0..n
      BY <1>1, <2>1
    <3> QED
      BY <1>1, <1>2, <1>5, <2>1, <3>1
  <2>2. CASE k = n + 1
    <3>1. k - 1 = n /\ n \in 0..n
      BY <1>1, <2>2
    <3> QED
      BY <1>1, <1>5, <2>2, <3>1 DEF last
  <2> QED
    BY <1>1, <2>1, <2>2
<1>7. IsBalance(d, m)
  BY <1>1, <1>4, <1>5, <1>6 DEF IsBalance
<1> QED
  BY <1>1, <1>5, <1>7 DEF m, last

\* What was read of a sequence that grows.
LEMMA PrefixStays ==
    ASSUME NEW S, NEW l \in Seq(S), NEW s \in Seq(S), NEW e \in S,
           Len(s) <= Len(l), \A i \in 1..Len(s) : s[i] = l[i]
    PROVE  Len(s) <= Len(Append(l, e)) /\ \A i \in 1..Len(s) : s[i] = Append(l, e)[i]
<1>1. /\ Len(Append(l, e)) = Len(l) + 1 /\ Len(l) \in Nat /\ Len(s) \in Nat
      /\ \A i \in 1..Len(l) : Append(l, e)[i] = l[i]
  OBVIOUS
<1> QED
  BY <1>1

\* What a line that is written adds.
LEMMA LineWritten ==
    ASSUME kernel_log \in Seq(ReaderLine), seen \in Seq(ReaderLine),
           LogBalances, LinesCounted, SeenIsPrefix,
           NEW e \in ReaderLine, kernel_log' = Append(kernel_log, e), seen' = seen,
           Told' \in [Child -> Nat], SumOf(Told', Child) = SumOf(Told, Child) + Net(e),
           Cardinality(DoneOf(maker'))
             = Cardinality(DoneOf(maker))
               + (IF e.what = "Process created" THEN 1 ELSE 0),
           Cardinality(DoneOf(remover'))
             = Cardinality(DoneOf(remover))
               + (IF e.what = "Process terminated" THEN 1 ELSE 0)
    PROVE  LogBalances' /\ LinesCounted' /\ SeenIsPrefix'
<1>1. LogBalances'
  <2>1. PICK b : IsBalance(b, kernel_log) /\ b[Len(kernel_log)] = SumOf(Told, Child)
    BY DEF LogBalances
  <2>2. SumOf(Told', Child) \in Nat
    BY ReaderConstants, SumOfNaturals
  <2>3. PICK d : /\ IsBalance(d, Append(kernel_log, e))
                 /\ d[Len(Append(kernel_log, e))] = b[Len(kernel_log)] + Net(e)
    BY <2>1, <2>2, BalanceMore
  <2>4. IsBalance(d, kernel_log') /\ d[Len(kernel_log')] = SumOf(Told', Child)
    BY <2>1, <2>3
  <2>5. \E a : IsBalance(a, kernel_log') /\ a[Len(kernel_log')] = SumOf(Told', Child)
    BY <2>4
  <2> QED
    BY <2>5 DEF LogBalances
<1>2. LinesCounted'
  <2>1. /\ Cardinality(LinesOf(kernel_log', "Process created"))
             = Cardinality(LinesOf(kernel_log, "Process created"))
               + (IF e.what = "Process created" THEN 1 ELSE 0)
        /\ Cardinality(LinesOf(kernel_log', "Process terminated"))
             = Cardinality(LinesOf(kernel_log, "Process terminated"))
               + (IF e.what = "Process terminated" THEN 1 ELSE 0)
        /\ Cardinality(LinesOf(kernel_log, "Process created")) \in Nat
        /\ Cardinality(LinesOf(kernel_log, "Process terminated")) \in Nat
    BY LineMore
  <2>2. /\ Cardinality(LinesOf(kernel_log, "Process created")) = Cardinality(DoneOf(maker))
        /\ Cardinality(LinesOf(kernel_log, "Process terminated")) = Cardinality(DoneOf(remover))
    BY DEF LinesCounted
  <2>3. /\ Cardinality(LinesOf(kernel_log', "Process created")) = Cardinality(DoneOf(maker'))
        /\ Cardinality(LinesOf(kernel_log', "Process terminated")) = Cardinality(DoneOf(remover'))
    BY <2>1, <2>2
  <2> QED
    BY <2>3 DEF LinesCounted
<1>3. SeenIsPrefix'
  BY PrefixStays DEF SeenIsPrefix
<1> QED
  BY <1>1, <1>2, <1>3

\* A line is written, or is not for that the file cannot be opened.
LEMMA LogStep ==
    ASSUME ReadersInv, NEW e \in ReaderLine, Readers!log_event(e), seen' = seen,
           Told' \in [Child -> Nat], SumOf(Told', Child) = SumOf(Told, Child) + Net(e),
           Cardinality(DoneOf(maker'))
             = Cardinality(DoneOf(maker))
               + (IF e.what = "Process created" THEN 1 ELSE 0),
           Cardinality(DoneOf(remover'))
             = Cardinality(DoneOf(remover))
               + (IF e.what = "Process terminated" THEN 1 ELSE 0)
    PROVE  /\ kernel_log' \in Seq(ReaderLine) /\ disturbed' \in BOOLEAN
           /\ ~disturbed' => (LogBalances /\ LinesCounted /\ SeenIsPrefix)'
<1>1. kernel_log \in Seq(ReaderLine) /\ seen \in Seq(ReaderLine) /\ disturbed \in BOOLEAN
  BY DEF ReadersInv, ReadersTypes, Readers!TypeOK
<1>2. CASE disturbed' = TRUE /\ UNCHANGED kernel_log
  BY <1>1, <1>2
<1>3. CASE kernel_log' = Append(kernel_log, e) /\ UNCHANGED disturbed
  <2>1. kernel_log' \in Seq(ReaderLine)
    BY <1>1, <1>3, Appended
  <2>2. LogBalances /\ LinesCounted /\ SeenIsPrefix => LogBalances' /\ LinesCounted' /\ SeenIsPrefix'
    BY <1>1, <1>3, LineWritten
  <2> QED
    BY <1>1, <1>3, <2>1, <2>2 DEF ReadersInv
<1> QED
  BY <1>2, <1>3 DEF Readers!log_event

\* Nothing is written, and nothing the log is about has changed.
LEMMA QuietStep ==
    ASSUME ReadersInv, Readers!Unlogged, seen' = seen, SumOf(Told', Child) = SumOf(Told, Child),
           Cardinality(DoneOf(maker')) = Cardinality(DoneOf(maker)),
           Cardinality(DoneOf(remover')) = Cardinality(DoneOf(remover))
    PROVE  /\ kernel_log' \in Seq(ReaderLine) /\ disturbed' \in BOOLEAN
           /\ ~disturbed' => (LogBalances /\ LinesCounted /\ SeenIsPrefix)'
<1>1. kernel_log' = kernel_log /\ disturbed' = disturbed
  BY DEF Readers!Unlogged
<1>2. kernel_log \in Seq(ReaderLine) /\ disturbed \in BOOLEAN
  BY DEF ReadersInv, ReadersTypes, Readers!TypeOK
<1> SUFFICES ASSUME ~disturbed PROVE (LogBalances /\ LinesCounted /\ SeenIsPrefix)'
  BY <1>1, <1>2
<1>3. LogBalances /\ LinesCounted /\ SeenIsPrefix
  BY DEF ReadersInv
<1>4. LogBalances'
  BY <1>1, <1>3 DEF LogBalances
<1>5. LinesCounted'
  BY <1>1, <1>3 DEF LinesCounted
<1>6. SeenIsPrefix'
  BY <1>1, <1>3 DEF SeenIsPrefix
<1> QED
  BY <1>4, <1>5, <1>6

-----------------------------------------------------------------------------
(* The steps of the kernel's threads *)

Makers == {"asks", "allocated", "logged", "created", "done"}
Removers == {"none", "removed", "reclaimed", "logged", "done"}

LEMMA WeightTypesNext ==
    /\ Held' \in [Child -> Nat] /\ Told' \in [Child -> Nat]
    /\ SumOf(Held', Child) \in Nat /\ SumOf(Told', Child) \in Nat
<1>1. Held' \in [Child -> Nat] /\ Told' \in [Child -> Nat] /\ IsFiniteSet(Child)
  BY ReaderConstants DEF Held, Told
<1> QED
  BY <1>1, SumOfNaturals

\* A thread that comes to its end.
LEMMA DoneMore ==
    ASSUME NEW S, NEW f \in [Child -> S], NEW c \in Child, f[c] # "done", NEW to
    PROVE  /\ Cardinality(DoneOf(f)) \in Nat
           /\ Cardinality(DoneOf([f EXCEPT ![c] = to]))
                = Cardinality(DoneOf(f)) + (IF to = "done" THEN 1 ELSE 0)
<1>1. DoneOf(f) \in SUBSET Child /\ c \notin DoneOf(f)
  BY DEF DoneOf
<1>2. CASE to = "done"
  <2>1. DoneOf([f EXCEPT ![c] = to]) = DoneOf(f) \union {c}
    BY <1>2 DEF DoneOf
  <2> QED
    BY <1>1, <1>2, <2>1, OneMore
<1>3. CASE to # "done"
  <2>1. DoneOf([f EXCEPT ![c] = to]) = DoneOf(f)
    BY <1>3 DEF DoneOf
  <2>2. Cardinality(DoneOf(f)) \in Nat
    BY <1>1, OneMore
  <2> QED
    BY <1>3, <2>1, <2>2
<1> QED
  BY <1>2, <1>3

LEMMA PlacesOfTypes ==
    ASSUME ReadersInv
    PROVE  /\ free \in 0..TOTAL /\ TOTAL \in Nat /\ pcbs \subseteq Child
           /\ maker \in [Child -> Makers] /\ remover \in [Child -> Removers]
           /\ \A c \in Child : ram[c] \in Nat
           /\ seen \in Seq(ReaderLine)
  BY ReaderConstants DEF ReadersInv, ReadersTypes, Readers!TypeOK, Makers, Removers

\* Where the thread that makes c goes on.
LEMMA MakerMoves ==
    ASSUME ReadersInv, NEW c \in Child, NEW from, NEW to \in Makers, from # "done",
           Readers!MakerGoes(c, from, to), remover' = remover
    PROVE  /\ maker' \in [Child -> Makers] /\ maker[c] = from /\ maker'[c] = to
           /\ \A x \in Child \ {c} : maker'[x] = maker[x]
           /\ SumOf(Held', Child) = SumOf(Held, Child) + (Held'[c] - Held[c])
           /\ SumOf(Told', Child) = SumOf(Told, Child) + (Told'[c] - Told[c])
           /\ Cardinality(DoneOf(maker'))
                = Cardinality(DoneOf(maker)) + (IF to = "done" THEN 1 ELSE 0)
           /\ Cardinality(DoneOf(maker)) \in Nat /\ Cardinality(DoneOf(remover)) \in Nat
           /\ Cardinality(DoneOf(remover')) = Cardinality(DoneOf(remover))
<1>1. maker[c] = from /\ maker' = [maker EXCEPT ![c] = to]
  BY DEF Readers!MakerGoes
<1>2. maker \in [Child -> Makers] /\ remover \in [Child -> Removers]
  BY PlacesOfTypes
<1>3. maker' \in [Child -> Makers] /\ maker'[c] = to /\ \A x \in Child \ {c} : maker'[x] = maker[x]
  BY <1>1, <1>2
<1>4. \A x \in Child \ {c} : Held'[x] = Held[x] /\ Told'[x] = Told[x]
  BY <1>3 DEF Held, Told
<1>5. /\ SumOf(Held', Child) = SumOf(Held, Child) + (Held'[c] - Held[c])
      /\ SumOf(Told', Child) = SumOf(Told, Child) + (Told'[c] - Told[c])
  BY <1>4, WeightTypes, WeightTypesNext, WeightStep
<1>6. /\ Cardinality(DoneOf(maker')) = Cardinality(DoneOf(maker)) + (IF to = "done" THEN 1 ELSE 0)
      /\ Cardinality(DoneOf(maker)) \in Nat
  BY <1>1, <1>2, DoneMore
<1>7. Cardinality(DoneOf(remover)) \in Nat
  <2>1. DoneOf(remover) \in SUBSET Child
    BY DEF DoneOf
  <2> QED
    BY <2>1, ReaderConstants, FS_Subset, FS_CardinalityType
<1> QED
  BY <1>1, <1>3, <1>5, <1>6, <1>7

\* Where the thread that removes c goes on.
LEMMA RemoverMoves ==
    ASSUME ReadersInv, NEW c \in Child, NEW from, NEW to \in Removers, from # "done",
           Readers!RemoverGoes(c, from, to), maker' = maker
    PROVE  /\ remover' \in [Child -> Removers] /\ remover[c] = from /\ remover'[c] = to
           /\ \A x \in Child \ {c} : remover'[x] = remover[x]
           /\ SumOf(Held', Child) = SumOf(Held, Child) + (Held'[c] - Held[c])
           /\ SumOf(Told', Child) = SumOf(Told, Child) + (Told'[c] - Told[c])
           /\ Cardinality(DoneOf(remover'))
                = Cardinality(DoneOf(remover)) + (IF to = "done" THEN 1 ELSE 0)
           /\ Cardinality(DoneOf(maker)) \in Nat /\ Cardinality(DoneOf(remover)) \in Nat
           /\ Cardinality(DoneOf(maker')) = Cardinality(DoneOf(maker))
<1>1. remover[c] = from /\ remover' = [remover EXCEPT ![c] = to]
  BY DEF Readers!RemoverGoes
<1>2. maker \in [Child -> Makers] /\ remover \in [Child -> Removers]
  BY PlacesOfTypes
<1>3. /\ remover' \in [Child -> Removers] /\ remover'[c] = to
      /\ \A x \in Child \ {c} : remover'[x] = remover[x]
  BY <1>1, <1>2
<1>4. \A x \in Child \ {c} : Held'[x] = Held[x] /\ Told'[x] = Told[x]
  BY <1>3 DEF Held, Told
<1>5. /\ SumOf(Held', Child) = SumOf(Held, Child) + (Held'[c] - Held[c])
      /\ SumOf(Told', Child) = SumOf(Told, Child) + (Told'[c] - Told[c])
  BY <1>4, WeightTypes, WeightTypesNext, WeightStep
<1>6. /\ Cardinality(DoneOf(remover'))
           = Cardinality(DoneOf(remover)) + (IF to = "done" THEN 1 ELSE 0)
      /\ Cardinality(DoneOf(remover)) \in Nat
  BY <1>1, <1>2, DoneMore
<1>7. Cardinality(DoneOf(maker)) \in Nat
  <2>1. DoneOf(maker) \in SUBSET Child
    BY DEF DoneOf
  <2> QED
    BY <2>1, ReaderConstants, FS_Subset, FS_CardinalityType
<1> QED
  BY <1>1, <1>3, <1>5, <1>6, <1>7

\* What all steps of the kernel's threads have to show.
LEMMA KernelStep ==
    ASSUME free' \in Nat, free' + SumOf(Held', Child) = TOTAL, pcbs' \subseteq Child,
           maker' \in [Child -> Makers], remover' \in [Child -> Removers],
           seen \in Seq(ReaderLine), seen' = seen, InTurn',
           kernel_log' \in Seq(ReaderLine), disturbed' \in BOOLEAN,
           ~disturbed' => (LogBalances /\ LinesCounted /\ SeenIsPrefix)'
    PROVE  ReadersInv'
<1>1. free' \in 0..TOTAL
  BY WeightTypesNext, ReaderConstants
<1>2. ReadersTypes'
  BY <1>1 DEF ReadersTypes, Readers!TypeOK, Makers, Removers
<1> QED
  BY <1>2 DEF ReadersInv, RestIsFree

LEMMA AllocatesStep == ASSUME ReadersInv, NEW c \in Child, Readers!Allocates(c) PROVE ReadersInv'
<1>1. /\ free >= ram[c] /\ free' = free - ram[c] /\ pcbs' = pcbs /\ remover' = remover /\ seen' = seen
      /\ Readers!MakerGoes(c, "asks", "allocated") /\ Readers!Unlogged
  BY DEF Readers!Allocates
<1>2. /\ free \in 0..TOTAL /\ TOTAL \in Nat /\ ram[c] \in Nat /\ pcbs' \subseteq Child
      /\ remover' \in [Child -> Removers] /\ seen \in Seq(ReaderLine)
  BY <1>1, PlacesOfTypes
<1>3. /\ maker' \in [Child -> Makers] /\ maker[c] = "asks" /\ maker'[c] = "allocated"
      /\ \A x \in Child \ {c} : maker'[x] = maker[x]
      /\ SumOf(Held', Child) = SumOf(Held, Child) + (Held'[c] - Held[c])
      /\ SumOf(Told', Child) = SumOf(Told, Child) + (Told'[c] - Told[c])
      /\ Cardinality(DoneOf(maker')) = Cardinality(DoneOf(maker))
      /\ Cardinality(DoneOf(remover')) = Cardinality(DoneOf(remover))
  BY <1>1, MakerMoves DEF Makers
<1>4. remover[c] = "none" /\ c \notin pcbs
  BY <1>3 DEF ReadersInv, InTurn
<1>5. Held[c] = 0 /\ Held'[c] = ram[c] /\ Told[c] = 0 /\ Told'[c] = 0
  BY <1>1, <1>3, <1>4 DEF Held, Told
<1>6. SumOf(Told', Child) = SumOf(Told, Child) /\ SumOf(Held', Child) = SumOf(Held, Child) + ram[c]
  BY <1>2, <1>3, <1>5, WeightTypes
<1>7. free' \in Nat /\ free' + SumOf(Held', Child) = TOTAL
  BY <1>1, <1>2, <1>6, WeightTypes DEF ReadersInv, RestIsFree
<1>8. /\ kernel_log' \in Seq(ReaderLine) /\ disturbed' \in BOOLEAN
      /\ ~disturbed' => (LogBalances /\ LinesCounted /\ SeenIsPrefix)'
  BY <1>1, <1>3, <1>6, QuietStep
<1>9. InTurn'
  BY <1>1, <1>3, <1>4 DEF ReadersInv, InTurn
<1> QED
  BY <1>1, <1>2, <1>3, <1>7, <1>8, <1>9, KernelStep

LEMMA LogsAllocationStep == ASSUME ReadersInv, NEW c \in Child, Readers!LogsAllocation(c) PROVE ReadersInv'
<1>1. /\ free' = free /\ pcbs' = pcbs /\ remover' = remover /\ seen' = seen
      /\ Readers!MakerGoes(c, "allocated", "logged")
  BY DEF Readers!LogsAllocation
<1>0. Readers!log_event(Readers!Line("Resources allocated", ram[c]))
  BY DEF Readers!LogsAllocation
<1>2. /\ free \in 0..TOTAL /\ TOTAL \in Nat /\ ram[c] \in Nat /\ pcbs' \subseteq Child
      /\ remover' \in [Child -> Removers] /\ seen \in Seq(ReaderLine)
  BY <1>1, PlacesOfTypes
<1>3. /\ maker' \in [Child -> Makers] /\ maker[c] = "allocated" /\ maker'[c] = "logged"
      /\ \A x \in Child \ {c} : maker'[x] = maker[x]
      /\ SumOf(Held', Child) = SumOf(Held, Child) + (Held'[c] - Held[c])
      /\ SumOf(Told', Child) = SumOf(Told, Child) + (Told'[c] - Told[c])
      /\ Cardinality(DoneOf(maker)) \in Nat
      /\ Cardinality(DoneOf(maker')) = Cardinality(DoneOf(maker))
      /\ Cardinality(DoneOf(remover)) \in Nat
      /\ Cardinality(DoneOf(remover')) = Cardinality(DoneOf(remover))
  BY <1>1, MakerMoves DEF Makers
<1>4. remover[c] = "none" /\ c \notin pcbs
  BY <1>3 DEF ReadersInv, InTurn
<1>5. Held'[c] = Held[c] /\ Held[c] \in Nat /\ Told[c] = 0 /\ Told'[c] = ram[c]
  BY <1>1, <1>2, <1>3, <1>4, WeightTypes DEF Held, Told
<1>6. /\ SumOf(Told', Child) = SumOf(Told, Child) + ram[c]
      /\ SumOf(Held', Child) = SumOf(Held, Child)
  BY <1>2, <1>3, <1>5, WeightTypes
<1>7. free' \in Nat /\ free' + SumOf(Held', Child) = TOTAL
  <2>1. free + SumOf(Held, Child) = TOTAL /\ SumOf(Held, Child) \in Nat
    BY WeightTypes DEF ReadersInv, RestIsFree
  <2> QED
    BY <1>1, <1>2, <1>6, <2>1
<1>8. /\ kernel_log' \in Seq(ReaderLine) /\ disturbed' \in BOOLEAN
      /\ ~disturbed' => (LogBalances /\ LinesCounted /\ SeenIsPrefix)'
  <2> DEFINE e == Readers!Line("Resources allocated", ram[c])
             made == IF e.what = "Process created" THEN 1 ELSE 0
             gone == IF e.what = "Process terminated" THEN 1 ELSE 0
  <2>1. e \in ReaderLine /\ Readers!log_event(e)
    BY <1>0, <1>2 DEF ReaderLine, Readers!Line
  <2>2. Net(e) = ram[c] /\ made = 0 /\ gone = 0
    BY <1>2 DEF Readers!Line, Net
  <2> HIDE DEF e, made, gone
  <2>3. SumOf(Told', Child) = SumOf(Told, Child) + Net(e)
    BY <1>2, <1>6, <2>2, WeightTypes
  <2>4. /\ Cardinality(DoneOf(maker')) = Cardinality(DoneOf(maker)) + made
        /\ Cardinality(DoneOf(remover')) = Cardinality(DoneOf(remover)) + gone
    BY <1>3, <2>2
  <2> QED
    BY <1>1, <2>1, <2>3, <2>4, WeightTypesNext, LogStep DEF made, gone
<1>9. InTurn'
  BY <1>1, <1>3, <1>4 DEF ReadersInv, InTurn
<1> QED
  BY <1>1, <1>2, <1>3, <1>7, <1>8, <1>9, KernelStep

LEMMA CreatesStep == ASSUME ReadersInv, NEW c \in Child, Readers!Creates(c) PROVE ReadersInv'
<1>1. /\ free' = free /\ pcbs' = pcbs \union {c} /\ remover' = remover /\ seen' = seen
      /\ Readers!MakerGoes(c, "logged", "created")
  BY DEF Readers!Creates
<1>0. Readers!Unlogged
  BY DEF Readers!Creates
<1>2. /\ free \in 0..TOTAL /\ TOTAL \in Nat /\ ram[c] \in Nat /\ pcbs' \subseteq Child
      /\ remover' \in [Child -> Removers] /\ seen \in Seq(ReaderLine)
  BY <1>1, PlacesOfTypes
<1>3. /\ maker' \in [Child -> Makers] /\ maker[c] = "logged" /\ maker'[c] = "created"
      /\ \A x \in Child \ {c} : maker'[x] = maker[x]
      /\ SumOf(Held', Child) = SumOf(Held, Child) + (Held'[c] - Held[c])
      /\ SumOf(Told', Child) = SumOf(Told, Child) + (Told'[c] - Told[c])
      /\ Cardinality(DoneOf(maker)) \in Nat
      /\ Cardinality(DoneOf(maker')) = Cardinality(DoneOf(maker))
      /\ Cardinality(DoneOf(remover)) \in Nat
      /\ Cardinality(DoneOf(remover')) = Cardinality(DoneOf(remover))
  BY <1>1, MakerMoves DEF Makers
<1>4. remover[c] = "none" /\ c \notin pcbs
  BY <1>3 DEF ReadersInv, InTurn
<1>5. Held'[c] = Held[c] /\ Held[c] \in Nat /\ Told'[c] = Told[c] /\ Told[c] \in Nat
  BY <1>1, <1>2, <1>3, <1>4, WeightTypes DEF Held, Told
<1>6. /\ SumOf(Told', Child) = SumOf(Told, Child)
      /\ SumOf(Held', Child) = SumOf(Held, Child)
  BY <1>2, <1>3, <1>5, WeightTypes
<1>7. free' \in Nat /\ free' + SumOf(Held', Child) = TOTAL
  <2>1. free + SumOf(Held, Child) = TOTAL /\ SumOf(Held, Child) \in Nat
    BY WeightTypes DEF ReadersInv, RestIsFree
  <2> QED
    BY <1>1, <1>2, <1>6, <2>1
<1>8. /\ kernel_log' \in Seq(ReaderLine) /\ disturbed' \in BOOLEAN
      /\ ~disturbed' => (LogBalances /\ LinesCounted /\ SeenIsPrefix)'
  BY <1>0, <1>1, <1>3, <1>6, QuietStep
<1>9. InTurn'
  BY <1>1, <1>3, <1>4 DEF ReadersInv, InTurn
<1> QED
  BY <1>1, <1>2, <1>3, <1>7, <1>8, <1>9, KernelStep

LEMMA LogsCreationStep == ASSUME ReadersInv, NEW c \in Child, Readers!LogsCreation(c) PROVE ReadersInv'
<1>1. /\ free' = free /\ pcbs' = pcbs /\ remover' = remover /\ seen' = seen
      /\ Readers!MakerGoes(c, "created", "done")
  BY DEF Readers!LogsCreation
<1>0. Readers!log_event(Readers!Line("Process created", 0))
  BY DEF Readers!LogsCreation
<1>2. /\ free \in 0..TOTAL /\ TOTAL \in Nat /\ ram[c] \in Nat /\ pcbs' \subseteq Child
      /\ remover' \in [Child -> Removers] /\ seen \in Seq(ReaderLine)
  BY <1>1, PlacesOfTypes
<1>3. /\ maker' \in [Child -> Makers] /\ maker[c] = "created" /\ maker'[c] = "done"
      /\ \A x \in Child \ {c} : maker'[x] = maker[x]
      /\ SumOf(Held', Child) = SumOf(Held, Child) + (Held'[c] - Held[c])
      /\ SumOf(Told', Child) = SumOf(Told, Child) + (Told'[c] - Told[c])
      /\ Cardinality(DoneOf(maker)) \in Nat
      /\ Cardinality(DoneOf(maker')) = Cardinality(DoneOf(maker)) + 1
      /\ Cardinality(DoneOf(remover)) \in Nat
      /\ Cardinality(DoneOf(remover')) = Cardinality(DoneOf(remover))
  BY <1>1, MakerMoves DEF Makers
<1>5. Held'[c] = Held[c] /\ Held[c] \in Nat /\ Told'[c] = Told[c] /\ Told[c] \in Nat
  BY <1>1, <1>2, <1>3, WeightTypes DEF Held, Told
<1>6. /\ SumOf(Told', Child) = SumOf(Told, Child)
      /\ SumOf(Held', Child) = SumOf(Held, Child)
  BY <1>2, <1>3, <1>5, WeightTypes
<1>7. free' \in Nat /\ free' + SumOf(Held', Child) = TOTAL
  <2>1. free + SumOf(Held, Child) = TOTAL /\ SumOf(Held, Child) \in Nat
    BY WeightTypes DEF ReadersInv, RestIsFree
  <2> QED
    BY <1>1, <1>2, <1>6, <2>1
<1>8. /\ kernel_log' \in Seq(ReaderLine) /\ disturbed' \in BOOLEAN
      /\ ~disturbed' => (LogBalances /\ LinesCounted /\ SeenIsPrefix)'
  <2> DEFINE e == Readers!Line("Process created", 0)
             made == IF e.what = "Process created" THEN 1 ELSE 0
             gone == IF e.what = "Process terminated" THEN 1 ELSE 0
  <2>1. e \in ReaderLine /\ Readers!log_event(e)
    BY <1>0, <1>2 DEF ReaderLine, Readers!Line
  <2>2. Net(e) = 0 /\ made = 1 /\ gone = 0
    BY <1>2 DEF Readers!Line, Net
  <2> HIDE DEF e, made, gone
  <2>3. SumOf(Told', Child) = SumOf(Told, Child) + Net(e)
    BY <1>2, <1>6, <2>2, WeightTypes
  <2>4. /\ Cardinality(DoneOf(maker')) = Cardinality(DoneOf(maker)) + made
        /\ Cardinality(DoneOf(remover')) = Cardinality(DoneOf(remover)) + gone
    BY <1>3, <2>2
  <2> QED
    BY <1>1, <2>1, <2>3, <2>4, WeightTypesNext, LogStep DEF made, gone
<1>9. InTurn'
  BY <1>1, <1>3 DEF ReadersInv, InTurn
<1> QED
  BY <1>1, <1>2, <1>3, <1>7, <1>8, <1>9, KernelStep

LEMMA RemovesStep == ASSUME ReadersInv, NEW c \in Child, Readers!Removes(c) PROVE ReadersInv'
<1>1. /\ free' = free /\ pcbs' = pcbs \ {c} /\ maker' = maker /\ seen' = seen /\ c \in pcbs
      /\ Readers!RemoverGoes(c, "none", "removed")
  BY DEF Readers!Removes
<1>0. Readers!Unlogged
  BY DEF Readers!Removes
<1>2. /\ free \in 0..TOTAL /\ TOTAL \in Nat /\ ram[c] \in Nat /\ pcbs' \subseteq Child
      /\ maker' \in [Child -> Makers] /\ seen \in Seq(ReaderLine)
  BY <1>1, PlacesOfTypes
<1>3. /\ remover' \in [Child -> Removers] /\ remover[c] = "none" /\ remover'[c] = "removed"
      /\ \A x \in Child \ {c} : remover'[x] = remover[x]
      /\ SumOf(Held', Child) = SumOf(Held, Child) + (Held'[c] - Held[c])
      /\ SumOf(Told', Child) = SumOf(Told, Child) + (Told'[c] - Told[c])
      /\ Cardinality(DoneOf(remover)) \in Nat
      /\ Cardinality(DoneOf(remover')) = Cardinality(DoneOf(remover))
      /\ Cardinality(DoneOf(maker)) \in Nat
      /\ Cardinality(DoneOf(maker')) = Cardinality(DoneOf(maker))
  BY <1>1, RemoverMoves DEF Removers
<1>4. maker[c] \in {"created", "done"} /\ (c \in pcbs <=> remover[c] = "none")
  BY <1>1, <1>3 DEF ReadersInv, InTurn
<1>5. Held'[c] = Held[c] /\ Held[c] \in Nat /\ Told'[c] = Told[c] /\ Told[c] \in Nat
  BY <1>1, <1>2, <1>3, <1>4, WeightTypes DEF Held, Told
<1>6. /\ SumOf(Told', Child) = SumOf(Told, Child)
      /\ SumOf(Held', Child) = SumOf(Held, Child)
  BY <1>2, <1>3, <1>5, WeightTypes
<1>7. free' \in Nat /\ free' + SumOf(Held', Child) = TOTAL
  <2>1. free + SumOf(Held, Child) = TOTAL /\ SumOf(Held, Child) \in Nat
    BY WeightTypes DEF ReadersInv, RestIsFree
  <2> QED
    BY <1>1, <1>2, <1>6, <2>1
<1>8. /\ kernel_log' \in Seq(ReaderLine) /\ disturbed' \in BOOLEAN
      /\ ~disturbed' => (LogBalances /\ LinesCounted /\ SeenIsPrefix)'
  BY <1>0, <1>1, <1>3, <1>6, QuietStep
<1>9. InTurn'
  BY <1>1, <1>3, <1>4 DEF ReadersInv, InTurn
<1> QED
  BY <1>1, <1>2, <1>3, <1>7, <1>8, <1>9, KernelStep

LEMMA ReclaimsStep == ASSUME ReadersInv, NEW c \in Child, Readers!Reclaims(c) PROVE ReadersInv'
<1>1. /\ free' = free + ram[c] /\ pcbs' = pcbs /\ maker' = maker /\ seen' = seen
      /\ Readers!RemoverGoes(c, "removed", "reclaimed")
  BY DEF Readers!Reclaims
<1>0. Readers!Unlogged
  BY DEF Readers!Reclaims
<1>2. /\ free \in 0..TOTAL /\ TOTAL \in Nat /\ ram[c] \in Nat /\ pcbs' \subseteq Child
      /\ maker' \in [Child -> Makers] /\ seen \in Seq(ReaderLine)
  BY <1>1, PlacesOfTypes
<1>3. /\ remover' \in [Child -> Removers] /\ remover[c] = "removed" /\ remover'[c] = "reclaimed"
      /\ \A x \in Child \ {c} : remover'[x] = remover[x]
      /\ SumOf(Held', Child) = SumOf(Held, Child) + (Held'[c] - Held[c])
      /\ SumOf(Told', Child) = SumOf(Told, Child) + (Told'[c] - Told[c])
      /\ Cardinality(DoneOf(remover)) \in Nat
      /\ Cardinality(DoneOf(remover')) = Cardinality(DoneOf(remover))
      /\ Cardinality(DoneOf(maker)) \in Nat
      /\ Cardinality(DoneOf(maker')) = Cardinality(DoneOf(maker))
  BY <1>1, RemoverMoves DEF Removers
<1>4. maker[c] \in {"created", "done"} /\ (c \in pcbs <=> remover[c] = "none")
  BY <1>1, <1>3 DEF ReadersInv, InTurn
<1>5. Held[c] = ram[c] /\ Held'[c] = 0 /\ Told'[c] = Told[c] /\ Told[c] \in Nat
  BY <1>1, <1>2, <1>3, <1>4, WeightTypes DEF Held, Told
<1>6. /\ SumOf(Told', Child) = SumOf(Told, Child)
      /\ SumOf(Held', Child) = SumOf(Held, Child) - ram[c]
  BY <1>2, <1>3, <1>5, WeightTypes
<1>7. free' \in Nat /\ free' + SumOf(Held', Child) = TOTAL
  <2>1. free + SumOf(Held, Child) = TOTAL /\ SumOf(Held, Child) \in Nat
    BY WeightTypes DEF ReadersInv, RestIsFree
  <2> QED
    BY <1>1, <1>2, <1>6, <2>1
<1>8. /\ kernel_log' \in Seq(ReaderLine) /\ disturbed' \in BOOLEAN
      /\ ~disturbed' => (LogBalances /\ LinesCounted /\ SeenIsPrefix)'
  BY <1>0, <1>1, <1>3, <1>6, QuietStep
<1>9. InTurn'
  BY <1>1, <1>3, <1>4 DEF ReadersInv, InTurn
<1> QED
  BY <1>1, <1>2, <1>3, <1>7, <1>8, <1>9, KernelStep

LEMMA LogsReclaimStep == ASSUME ReadersInv, NEW c \in Child, Readers!LogsReclaim(c) PROVE ReadersInv'
<1>1. /\ free' = free /\ pcbs' = pcbs /\ maker' = maker /\ seen' = seen
      /\ Readers!RemoverGoes(c, "reclaimed", "logged")
  BY DEF Readers!LogsReclaim
<1>0. Readers!log_event(Readers!Line("Resources reclaimed", ram[c]))
  BY DEF Readers!LogsReclaim
<1>2. /\ free \in 0..TOTAL /\ TOTAL \in Nat /\ ram[c] \in Nat /\ pcbs' \subseteq Child
      /\ maker' \in [Child -> Makers] /\ seen \in Seq(ReaderLine)
  BY <1>1, PlacesOfTypes
<1>3. /\ remover' \in [Child -> Removers] /\ remover[c] = "reclaimed" /\ remover'[c] = "logged"
      /\ \A x \in Child \ {c} : remover'[x] = remover[x]
      /\ SumOf(Held', Child) = SumOf(Held, Child) + (Held'[c] - Held[c])
      /\ SumOf(Told', Child) = SumOf(Told, Child) + (Told'[c] - Told[c])
      /\ Cardinality(DoneOf(remover)) \in Nat
      /\ Cardinality(DoneOf(remover')) = Cardinality(DoneOf(remover))
      /\ Cardinality(DoneOf(maker)) \in Nat
      /\ Cardinality(DoneOf(maker')) = Cardinality(DoneOf(maker))
  BY <1>1, RemoverMoves DEF Removers
<1>4. maker[c] \in {"created", "done"} /\ (c \in pcbs <=> remover[c] = "none")
  BY <1>1, <1>3 DEF ReadersInv, InTurn
<1>5. Held'[c] = Held[c] /\ Held[c] \in Nat /\ Told[c] = ram[c] /\ Told'[c] = 0
  BY <1>1, <1>2, <1>3, <1>4, WeightTypes DEF Held, Told
<1>6. /\ SumOf(Told', Child) = SumOf(Told, Child) - ram[c]
      /\ SumOf(Held', Child) = SumOf(Held, Child)
  BY <1>2, <1>3, <1>5, WeightTypes
<1>7. free' \in Nat /\ free' + SumOf(Held', Child) = TOTAL
  <2>1. free + SumOf(Held, Child) = TOTAL /\ SumOf(Held, Child) \in Nat
    BY WeightTypes DEF ReadersInv, RestIsFree
  <2> QED
    BY <1>1, <1>2, <1>6, <2>1
<1>8. /\ kernel_log' \in Seq(ReaderLine) /\ disturbed' \in BOOLEAN
      /\ ~disturbed' => (LogBalances /\ LinesCounted /\ SeenIsPrefix)'
  <2> DEFINE e == Readers!Line("Resources reclaimed", ram[c])
             made == IF e.what = "Process created" THEN 1 ELSE 0
             gone == IF e.what = "Process terminated" THEN 1 ELSE 0
  <2>1. e \in ReaderLine /\ Readers!log_event(e)
    BY <1>0, <1>2 DEF ReaderLine, Readers!Line
  <2>2. Net(e) = 0 - ram[c] /\ made = 0 /\ gone = 0
    BY <1>2 DEF Readers!Line, Net
  <2> HIDE DEF e, made, gone
  <2>3. SumOf(Told', Child) = SumOf(Told, Child) + Net(e)
    BY <1>2, <1>6, <2>2, WeightTypes
  <2>4. /\ Cardinality(DoneOf(maker')) = Cardinality(DoneOf(maker)) + made
        /\ Cardinality(DoneOf(remover')) = Cardinality(DoneOf(remover)) + gone
    BY <1>3, <2>2
  <2> QED
    BY <1>1, <2>1, <2>3, <2>4, WeightTypesNext, LogStep DEF made, gone
<1>9. InTurn'
  BY <1>1, <1>3, <1>4 DEF ReadersInv, InTurn
<1> QED
  BY <1>1, <1>2, <1>3, <1>7, <1>8, <1>9, KernelStep

LEMMA LogsTerminationStep == ASSUME ReadersInv, NEW c \in Child, Readers!LogsTermination(c) PROVE ReadersInv'
<1>1. /\ free' = free /\ pcbs' = pcbs /\ maker' = maker /\ seen' = seen
      /\ Readers!RemoverGoes(c, "logged", "done")
  BY DEF Readers!LogsTermination
<1>0. Readers!log_event(Readers!Line("Process terminated", 0))
  BY DEF Readers!LogsTermination
<1>2. /\ free \in 0..TOTAL /\ TOTAL \in Nat /\ ram[c] \in Nat /\ pcbs' \subseteq Child
      /\ maker' \in [Child -> Makers] /\ seen \in Seq(ReaderLine)
  BY <1>1, PlacesOfTypes
<1>3. /\ remover' \in [Child -> Removers] /\ remover[c] = "logged" /\ remover'[c] = "done"
      /\ \A x \in Child \ {c} : remover'[x] = remover[x]
      /\ SumOf(Held', Child) = SumOf(Held, Child) + (Held'[c] - Held[c])
      /\ SumOf(Told', Child) = SumOf(Told, Child) + (Told'[c] - Told[c])
      /\ Cardinality(DoneOf(remover)) \in Nat
      /\ Cardinality(DoneOf(remover')) = Cardinality(DoneOf(remover)) + 1
      /\ Cardinality(DoneOf(maker)) \in Nat
      /\ Cardinality(DoneOf(maker')) = Cardinality(DoneOf(maker))
  BY <1>1, RemoverMoves DEF Removers
<1>4. maker[c] \in {"created", "done"} /\ (c \in pcbs <=> remover[c] = "none")
  BY <1>1, <1>3 DEF ReadersInv, InTurn
<1>5. Held'[c] = Held[c] /\ Held[c] \in Nat /\ Told'[c] = Told[c] /\ Told[c] \in Nat
  BY <1>1, <1>2, <1>3, <1>4, WeightTypes DEF Held, Told
<1>6. /\ SumOf(Told', Child) = SumOf(Told, Child)
      /\ SumOf(Held', Child) = SumOf(Held, Child)
  BY <1>2, <1>3, <1>5, WeightTypes
<1>7. free' \in Nat /\ free' + SumOf(Held', Child) = TOTAL
  <2>1. free + SumOf(Held, Child) = TOTAL /\ SumOf(Held, Child) \in Nat
    BY WeightTypes DEF ReadersInv, RestIsFree
  <2> QED
    BY <1>1, <1>2, <1>6, <2>1
<1>8. /\ kernel_log' \in Seq(ReaderLine) /\ disturbed' \in BOOLEAN
      /\ ~disturbed' => (LogBalances /\ LinesCounted /\ SeenIsPrefix)'
  <2> DEFINE e == Readers!Line("Process terminated", 0)
             made == IF e.what = "Process created" THEN 1 ELSE 0
             gone == IF e.what = "Process terminated" THEN 1 ELSE 0
  <2>1. e \in ReaderLine /\ Readers!log_event(e)
    BY <1>0, <1>2 DEF ReaderLine, Readers!Line
  <2>2. Net(e) = 0 /\ made = 0 /\ gone = 1
    BY <1>2 DEF Readers!Line, Net
  <2> HIDE DEF e, made, gone
  <2>3. SumOf(Told', Child) = SumOf(Told, Child) + Net(e)
    BY <1>2, <1>6, <2>2, WeightTypes
  <2>4. /\ Cardinality(DoneOf(maker')) = Cardinality(DoneOf(maker)) + made
        /\ Cardinality(DoneOf(remover')) = Cardinality(DoneOf(remover)) + gone
    BY <1>3, <2>2
  <2> QED
    BY <1>1, <2>1, <2>3, <2>4, WeightTypesNext, LogStep DEF made, gone
<1>9. InTurn'
  BY <1>1, <1>3, <1>4 DEF ReadersInv, InTurn
<1> QED
  BY <1>1, <1>2, <1>3, <1>7, <1>8, <1>9, KernelStep

-----------------------------------------------------------------------------
(* The other steps *)

\* What all steps that leave the kernel alone have to show.
LEMMA KernelRests ==
    ASSUME ReadersInv, UNCHANGED <<free, pcbs, maker, remover>>,
           kernel_log' \in Seq(ReaderLine), disturbed' \in BOOLEAN, seen' \in Seq(ReaderLine),
           ~disturbed' => (LogBalances /\ LinesCounted /\ SeenIsPrefix)'
    PROVE  ReadersInv'
<1>1. Held' = Held /\ InTurn'
  BY DEF Held, ReadersInv, InTurn
<1>2. RestIsFree'
  BY <1>1 DEF ReadersInv, RestIsFree
<1>3. ReadersTypes'
  BY DEF ReadersInv, ReadersTypes, Readers!TypeOK
<1> QED
  BY <1>1, <1>2, <1>3 DEF ReadersInv

LEMMA RotatesStep == ASSUME ReadersInv, Readers!Rotates PROVE ReadersInv'
<1> DEFINE e == Readers!Line("rotated", 0)
           rest == SubSeq(kernel_log, Len(kernel_log) - KEEP + 1, Len(kernel_log))
<1>1. /\ UNCHANGED <<free, pcbs, maker, remover>> /\ seen' = seen /\ disturbed' = TRUE
      /\ Len(kernel_log) > KEEP /\ kernel_log' = <<e>> \o rest
  BY DEF Readers!Rotates, Readers!kernel
<1>2. kernel_log \in Seq(ReaderLine) /\ seen \in Seq(ReaderLine)
  BY DEF ReadersInv, ReadersTypes
<1>3. KEEP \in Nat /\ Len(kernel_log) \in Nat
  BY <1>2, ReaderConstants
<1>4. rest \in Seq(ReaderLine)
  BY <1>1, <1>2, <1>3
<1>5. <<e>> \in Seq(ReaderLine)
  BY DEF ReaderLine, Readers!Line
<1> HIDE DEF e, rest
<1>6. kernel_log' \in Seq(ReaderLine)
  BY <1>1, <1>4, <1>5, Joined
<1> QED
  BY <1>1, <1>2, <1>6, KernelRests

LEMMA ClearsStep == ASSUME ReadersInv, Readers!Clears PROVE ReadersInv'
<1>1. /\ UNCHANGED <<free, pcbs, maker, remover>> /\ seen' = seen /\ disturbed' = TRUE
      /\ kernel_log' = <<>>
  BY DEF Readers!Clears, Readers!kernel
<1>2. seen' \in Seq(ReaderLine) /\ kernel_log' \in Seq(ReaderLine)
  BY <1>1 DEF ReadersInv, ReadersTypes
<1> QED
  BY <1>1, <1>2, KernelRests

\* The log as it is, whatever of it was read.
LEMMA LogRests ==
    ASSUME ReadersInv, UNCHANGED <<free, pcbs, maker, remover, kernel_log, disturbed>>,
           seen' \in Seq(ReaderLine), ~disturbed => SeenIsPrefix'
    PROVE  ReadersInv'
<1>1. kernel_log' \in Seq(ReaderLine) /\ disturbed' \in BOOLEAN
  BY DEF ReadersInv, ReadersTypes, Readers!TypeOK
<1>2. Told' = Told /\ DoneOf(maker') = DoneOf(maker) /\ DoneOf(remover') = DoneOf(remover)
  BY DEF Told, DoneOf
<1>3. ASSUME ~disturbed PROVE (LogBalances /\ LinesCounted /\ SeenIsPrefix)'
  <2>1. LogBalances'
    BY <1>2, <1>3 DEF ReadersInv, LogBalances
  <2>2. LinesCounted'
    BY <1>3 DEF ReadersInv, LinesCounted
  <2> QED
    BY <1>3, <2>1, <2>2
<1> QED
  BY <1>1, <1>3, KernelRests

LEMMA ReadsLinesStep == ASSUME ReadersInv, Readers!ReadsLines PROVE ReadersInv'
<1>1. UNCHANGED <<free, pcbs, maker, remover, kernel_log, disturbed>>
  BY DEF Readers!ReadsLines, Readers!kernel
<1>2. PICK n \in (Len(seen) + 1)..Len(kernel_log) :
          seen' = seen \o SubSeq(kernel_log, Len(seen) + 1, n)
  BY DEF Readers!ReadsLines
<1> DEFINE more == SubSeq(kernel_log, Len(seen) + 1, n)
           k == Len(seen)
<1>3. kernel_log \in Seq(ReaderLine) /\ seen \in Seq(ReaderLine)
  BY DEF ReadersInv, ReadersTypes
<1>4. k \in Nat /\ Len(kernel_log) \in Nat /\ n \in Nat /\ k + 1 <= n /\ n <= Len(kernel_log)
  BY <1>2, <1>3
<1>5. /\ more \in Seq(ReaderLine) /\ Len(more) = n - k
      /\ \A i \in 1..(n - k) : more[i] = kernel_log[k + i]
  BY <1>3, <1>4
<1> HIDE DEF more
<1>6. /\ seen' \in Seq(ReaderLine) /\ Len(seen') = n
      /\ \A i \in 1..n : seen'[i] = IF i <= k THEN seen[i] ELSE more[i - k]
  <2>1. seen' = seen \o more
    BY <1>2 DEF more
  <2>2. /\ seen \o more \in Seq(ReaderLine) /\ Len(seen \o more) = Len(seen) + Len(more)
        /\ \A i \in 1..(Len(seen) + Len(more)) :
              (seen \o more)[i] = IF i <= Len(seen) THEN seen[i] ELSE more[i - Len(seen)]
    BY <1>3, <1>5, Joined
  <2>3. Len(seen) + Len(more) = n
    BY <1>4, <1>5
  <2> QED
    BY <2>1, <2>2, <2>3
<1>7. ASSUME ~disturbed PROVE SeenIsPrefix'
  <2>1. \A i \in 1..k : seen[i] = kernel_log[i]
    BY <1>7 DEF ReadersInv, SeenIsPrefix
  <2>2. ASSUME NEW i \in 1..n PROVE seen'[i] = kernel_log[i]
    <3>1. CASE i <= k
      BY <1>4, <1>6, <2>1, <3>1
    <3>2. CASE ~(i <= k)
      <4>1. i - k \in 1..(n - k) /\ k + (i - k) = i
        BY <1>4, <3>2
      <4>2. more[i - k] = kernel_log[i]
        BY <1>5, <4>1
      <4> QED
        BY <1>6, <3>2, <4>2
    <3> QED
      BY <3>1, <3>2
  <2> QED
    BY <1>1, <1>4, <1>6, <2>2 DEF SeenIsPrefix
<1> QED
  BY <1>1, <1>6, <1>7, LogRests

LEMMA NextPassStep == ASSUME ReadersInv, Readers!NextPass PROVE ReadersInv'
<1>1. UNCHANGED <<free, pcbs, maker, remover, kernel_log, disturbed>> /\ seen' = <<>>
  BY DEF Readers!NextPass, Readers!kernel
<1>2. Len(kernel_log) \in Nat
  BY DEF ReadersInv, ReadersTypes
<1>3. seen' \in Seq(ReaderLine) /\ SeenIsPrefix'
  BY <1>1, <1>2 DEF SeenIsPrefix
<1> QED
  BY <1>1, <1>3, LogRests

LEMMA ReadersStep == ReadersInv /\ [Readers!Next]_readers => ReadersInv'
<1> SUFFICES ASSUME ReadersInv, [Readers!Next]_readers PROVE ReadersInv'
  OBVIOUS
<1>1. CASE UNCHANGED readers
  <2>1. UNCHANGED <<free, pcbs, maker, remover, kernel_log, disturbed>> /\ seen' = seen
    BY <1>1 DEF readers
  <2>2. seen' \in Seq(ReaderLine) /\ (~disturbed => SeenIsPrefix')
    BY <2>1 DEF ReadersInv, ReadersTypes, SeenIsPrefix
  <2> QED
    BY <2>1, <2>2, LogRests
<1>2. CASE Readers!Next
  <2>1. ASSUME NEW c \in Child, Readers!Threads(c) PROVE ReadersInv'
    BY <2>1, AllocatesStep, LogsAllocationStep, CreatesStep, LogsCreationStep,
       RemovesStep, ReclaimsStep, LogsReclaimStep, LogsTerminationStep DEF Readers!Threads
  <2> QED
    BY <1>2, <2>1, RotatesStep, ClearsStep, ReadsLinesStep, NextPassStep DEF Readers!Next
<1> QED
  BY <1>1, <1>2

LEMMA ReadersAlways == Spec => []ReadersInv
<1>1. Init => ReadersInv
  BY ReadersStart DEF Init
<1>2. [Next]_vars => [Readers!Next]_readers
  <2>1. Next => [Readers!Next]_readers
    BY DEF Next
  <2>2. UNCHANGED vars => UNCHANGED readers
    BY DEF vars
  <2> QED
    BY <2>1, <2>2
<1>3. ReadersInv /\ [Next]_vars => ReadersInv'
  BY <1>2, ReadersStep
<1> QED
  BY <1>1, <1>3, PTL DEF Spec

\* task_manager.cpp, log_viewer.cpp: what their loops make of any lines that a pass has read
\* are the newest events in their order, and all the pages.
THEOREM ReadersShowWhatTheyRead == Spec => []ReadersShowLines
<1>1. ReadersInv => ReadersShowLines
  BY AllIsShown DEF ReadersInv, ReadersTypes, ReadersShowLines
<1> QED
  BY <1>1, ReadersAlways, PTL

\* What a pass makes of the lines is the balance behind the last one it has read.
LEMMA SumsAreBalance ==
    ASSUME seen \in Seq(ReaderLine), kernel_log \in Seq(ReaderLine), SeenIsPrefix,
           NEW b, IsBalance(b, kernel_log)
    PROVE  /\ Len(seen) \in 0..Len(kernel_log)
           /\ Readers!Sum("Resources allocated") \in Nat /\ Readers!Sum("Resources reclaimed") \in Nat
           /\ Readers!Sum("Resources allocated") - Readers!Sum("Resources reclaimed") = b[Len(seen)]
<1> DEFINE n == Len(seen)
<1>1. /\ n \in Nat /\ Len(kernel_log) \in Nat /\ n <= Len(kernel_log)
      /\ \A i \in 1..n : seen[i] = kernel_log[i] /\ seen[i] \in ReaderLine
  BY DEF SeenIsPrefix
<1>2. PICK a : /\ a[0] = 0
               /\ \A k \in 1..n : a[k] = Adds("Resources allocated", a[k - 1], seen[k])
               /\ Readers!Sum("Resources allocated") = a[n]
  BY SumRuns
<1>3. PICK r : /\ r[0] = 0
               /\ \A k \in 1..n : r[k] = Adds("Resources reclaimed", r[k - 1], seen[k])
               /\ Readers!Sum("Resources reclaimed") = r[n]
  BY SumRuns
<1>4. /\ b \in [0..Len(kernel_log) -> Nat] /\ b[0] = 0
      /\ \A k \in 1..Len(kernel_log) : b[k] = b[k - 1] + Net(kernel_log[k])
  BY DEF IsBalance
<1> HIDE DEF n
<1> DEFINE N == {k \in Nat : k <= n => a[k] \in Nat /\ r[k] \in Nat /\ a[k] - r[k] = b[k]}
<1>5. 0 \in N
  <2>1. a[0] = 0 /\ r[0] = 0 /\ b[0] = 0
    BY <1>2, <1>3, <1>4
  <2> QED
    BY <2>1
<1>6. ASSUME NEW k \in N PROVE k + 1 \in N
  <2> SUFFICES ASSUME k + 1 <= n
               PROVE  a[k + 1] \in Nat /\ r[k + 1] \in Nat /\ a[k + 1] - r[k + 1] = b[k + 1]
    OBVIOUS
  <2> DEFINE l == seen[k + 1]
  <2>1. k + 1 \in 1..n /\ k + 1 \in 1..Len(kernel_log) /\ (k + 1) - 1 = k
    BY <1>1
  <2>2. a[k] \in Nat /\ r[k] \in Nat /\ a[k] - r[k] = b[k] /\ b[k] \in Nat
    <3>1. k <= n /\ k \in 0..Len(kernel_log)
      BY <1>1
    <3>2. b[k] \in Nat
      BY <1>4, <3>1
    <3> QED
      BY <3>1, <3>2
  <2>3. l \in ReaderLine /\ kernel_log[k + 1] = l /\ l.amount \in Nat
    BY <1>1, <2>1 DEF ReaderLine
  <2>4. a[k + 1] = Adds("Resources allocated", a[k], l)
    BY <1>2, <2>1
  <2>5. r[k + 1] = Adds("Resources reclaimed", r[k], l)
    BY <1>3, <2>1
  <2>6. b[k + 1] = b[k] + Net(l)
    BY <1>4, <2>1, <2>3
  <2> HIDE DEF l
  <2>7. a[k + 1] \in Nat /\ r[k + 1] \in Nat
    BY <2>2, <2>3, <2>4, <2>5, AddsType
  <2> DEFINE w == l.what
             m == l.amount
  <2>8. Net(l) = IF w = "Resources allocated" THEN m ELSE IF w = "Resources reclaimed" THEN 0 - m ELSE 0
    BY DEF Net
  <2>9. /\ a[k + 1] = IF w = "Resources allocated" THEN a[k] + m ELSE a[k]
        /\ r[k + 1] = IF w = "Resources reclaimed" THEN r[k] + m ELSE r[k]
    BY <2>4, <2>5 DEF Adds
  <2>10. m \in Nat
    BY <2>3
  <2> HIDE DEF w, m
  <2>11. CASE w = "Resources allocated"
    <3>1. a[k + 1] = a[k] + m /\ r[k + 1] = r[k] /\ Net(l) = m
      BY <2>8, <2>9, <2>11
    <3> QED
      BY <2>2, <2>6, <2>7, <2>10, <3>1
  <2>12. CASE w = "Resources reclaimed"
    <3>1. a[k + 1] = a[k] /\ r[k + 1] = r[k] + m /\ Net(l) = 0 - m
      BY <2>8, <2>9, <2>12
    <3> QED
      BY <2>2, <2>6, <2>7, <2>10, <3>1
  <2>13. CASE w # "Resources allocated" /\ w # "Resources reclaimed"
    <3>1. a[k + 1] = a[k] /\ r[k + 1] = r[k] /\ Net(l) = 0
      BY <2>8, <2>9, <2>13
    <3> QED
      BY <2>2, <2>6, <2>7, <3>1
  <2> QED
    BY <2>11, <2>12, <2>13
<1>7. N = Nat
  BY <1>5, <1>6, CountingInduction
<1>8. a[n] \in Nat /\ r[n] \in Nat /\ a[n] - r[n] = b[n]
  BY <1>1, <1>7
<1>9. n \in 0..Len(kernel_log)
  BY <1>1
<1>10. Readers!Sum("Resources allocated") = a[n] /\ Readers!Sum("Resources reclaimed") = r[n]
  BY <1>2, <1>3
<1> QED
  BY <1>8, <1>9, <1>10 DEF n

\* Where every line is written, the children between table and removal are those in the table.
LEMMA SettledTable ==
    ASSUME ReadersInv, Readers!Settled
    PROVE  /\ Told = Held /\ DoneOf(remover) \subseteq DoneOf(maker)
           /\ pcbs = DoneOf(maker) \ DoneOf(remover) /\ DoneOf(maker) \subseteq Child
<1>1. \A c \in Child : maker[c] \in {"asks", "done"} /\ remover[c] \in {"none", "done"}
  BY DEF Readers!Settled
<1>2. \A c \in Child : /\ remover[c] # "none" => maker[c] \in {"created", "done"}
                       /\ c \in pcbs <=> maker[c] \in {"created", "done"} /\ remover[c] = "none"
  BY DEF ReadersInv, InTurn
<1>3. Told = Held
  BY <1>1 DEF Told, Held
<1>4. DoneOf(remover) \subseteq DoneOf(maker)
  BY <1>1, <1>2 DEF DoneOf
<1>5. pcbs = DoneOf(maker) \ DoneOf(remover)
  BY <1>1, <1>2, PlacesOfTypes DEF DoneOf
<1> QED
  BY <1>3, <1>4, <1>5 DEF DoneOf

LEMMA TimesCounted ==
    ASSUME seen \in Seq(ReaderLine), NEW what
    PROVE  Readers!Times(what) = Cardinality(LinesOf(seen, what))
<1>1. {i \in DOMAIN seen : seen[i].what = what} = LinesOf(seen, what)
  BY DEF LinesOf
<1> QED
  BY <1>1, SameCardinality DEF Readers!Times

LEMMA ActiveIsTable ==
    ASSUME ReadersInv, ~disturbed, Readers!Settled, seen = kernel_log
    PROVE  Readers!active_p = Readers!Cardinality(pcbs)
<1> DEFINE made == DoneOf(maker)
           gone == DoneOf(remover)
<1>1. gone \subseteq made /\ pcbs = made \ gone /\ made \subseteq Child
  BY SettledTable
<1>2. /\ Readers!Times("Process created") = Cardinality(made)
      /\ Readers!Times("Process terminated") = Cardinality(gone)
  <2>1. seen \in Seq(ReaderLine)
    BY DEF ReadersInv, ReadersTypes
  <2> QED
    BY <2>1, TimesCounted DEF ReadersInv, LinesCounted
<1> HIDE DEF made, gone
<1>3. IsFiniteSet(made) /\ IsFiniteSet(gone)
  BY <1>1, ReaderConstants, FS_Subset
<1>4. /\ Cardinality(made) \in Nat /\ Cardinality(gone) \in Nat /\ Cardinality(pcbs) \in Nat
      /\ Cardinality(pcbs) = Cardinality(made) - Cardinality(made \cap gone)
  BY <1>1, <1>3, FS_Difference, FS_CardinalityType
<1>5. made \cap gone = gone
  BY <1>1
<1>6. Cardinality(made) - Cardinality(gone) = Cardinality(pcbs)
  BY <1>4, <1>5
<1>7. Readers!AtLeast0(Cardinality(made) - Cardinality(gone)) = Cardinality(pcbs)
  BY <1>4, <1>6 DEF Readers!AtLeast0
<1> QED
  BY <1>2, <1>7, SameCardinality DEF Readers!active_p

LEMMA UsageIsRight ==
    ASSUME ReadersInv, ~disturbed
    PROVE  /\ Readers!used_ram \in 0..TOTAL
           /\ Readers!Settled /\ seen = kernel_log => Readers!used_ram = TOTAL - free
<1>1. /\ seen \in Seq(ReaderLine) /\ kernel_log \in Seq(ReaderLine) /\ SeenIsPrefix
      /\ LogBalances /\ TOTAL \in Nat /\ free \in 0..TOTAL
  BY PlacesOfTypes DEF ReadersInv, ReadersTypes
<1>2. PICK b : IsBalance(b, kernel_log) /\ b[Len(kernel_log)] = SumOf(Told, Child)
  BY <1>1 DEF LogBalances
<1> DEFINE n == Len(seen)
           a == Readers!Sum("Resources allocated")
           r == Readers!Sum("Resources reclaimed")
           used == b[n]
<1>3. n \in 0..Len(kernel_log) /\ a \in Nat /\ r \in Nat /\ a - r = used
  BY <1>1, <1>2, SumsAreBalance
<1>4. used \in Nat
  BY <1>2, <1>3 DEF IsBalance
<1>5. Readers!used_ram = TOTAL - Readers!AtLeast0(TOTAL - a + r)
  BY DEF Readers!used_ram, Readers!free_ram
<1>6. Readers!Settled /\ seen = kernel_log => used = TOTAL - free
  <2> SUFFICES ASSUME Readers!Settled, seen = kernel_log PROVE used = TOTAL - free
    OBVIOUS
  <2>1. used = SumOf(Held, Child)
    BY <1>2, SettledTable
  <2>2. free + SumOf(Held, Child) = TOTAL /\ SumOf(Held, Child) \in Nat
    BY WeightTypes DEF ReadersInv, RestIsFree
  <2> QED
    BY <1>1, <2>1, <2>2
<1> HIDE DEF a, r, used, n
<1>7. TOTAL - a + r = TOTAL - used
  BY <1>1, <1>3, <1>4
<1>8. Readers!used_ram = IF TOTAL - used < 0 THEN TOTAL ELSE used
  BY <1>1, <1>4, <1>5, <1>7 DEF Readers!AtLeast0
<1>9. Readers!used_ram \in 0..TOTAL
  BY <1>1, <1>4, <1>8
<1>10. used = TOTAL - free => Readers!used_ram = TOTAL - free
  BY <1>1, <1>4, <1>8
<1> QED
  BY <1>6, <1>9, <1>10

\* resource_dashboard.cpp: as long as no line is lost, the usage stays between zero and the total
\* wherever a pass ends, and is the kernel's once every line is written and read.
THEOREM DashboardShowsKernel == Spec => []DashboardIsRight
<1>1. ReadersInv => Readers!DashboardIsRight
  <2> SUFFICES ASSUME ReadersInv PROVE Readers!DashboardIsRight
    OBVIOUS
  <2>1. Readers!TypeOK
    BY DEF ReadersInv, ReadersTypes
  <2> QED
    BY <2>1, UsageIsRight, ActiveIsTable DEF Readers!DashboardIsRight
<1>2. ReadersInv => DashboardIsRight
  BY <1>1 DEF DashboardIsRight
<1> QED
  BY <1>2, ReadersAlways, PTL
=============================================================================
