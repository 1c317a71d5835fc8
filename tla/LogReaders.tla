----------------------------- MODULE LogReaders -----------------------------
(***************************************************************************)
(* What resource_dashboard.cpp, task_manager.cpp and log_viewer.cpp make   *)
(* of system.log while the kernel allocates, creates, removes and reclaims *)
(* and writes a line about each a little later, outside the lock of what   *)
(* the line is about.  Rotation and clearing take lines away.  The table   *)
(* has room for all: a full one drops a process but logs its creation.     *)
(***************************************************************************)
EXTENDS Integers, SequencesExt

CONSTANTS
    Child,
    ram,            \* what each child asks for
    TOTAL,
    KEEP,           \* the lines a rotation keeps
    RING, SHOWN,    \* the task manager's array, and the lines it shows: 100 and 15
    MAX_LOG_LINES, PAGE_SIZE

VARIABLES
    free,
    pcbs,           \* the children in the PCB table
    maker,          \* the place of each child's thread in handle_ipc_request and create_pcb
    remover,        \* and that of the thread that removes it
    log,
    disturbed,      \* whether lines were rotated away, cleared or not written
    seen            \* the lines a reader has read in this pass

kernel == <<free, pcbs, maker, remover>>
vars == <<kernel, log, disturbed, seen>>

Line(what, amount) == [what |-> what, amount |-> amount]

\* log_event, and the same where the file cannot be opened.
log_event(line) ==
    \/ log' = Append(log, line) /\ UNCHANGED disturbed
    \/ disturbed' = TRUE /\ UNCHANGED log
Unlogged == UNCHANGED <<log, disturbed>>

MakerGoes(c, from, to) == maker[c] = from /\ maker' = [maker EXCEPT ![c] = to]
RemoverGoes(c, from, to) == remover[c] = from /\ remover' = [remover EXCEPT ![c] = to]

-----------------------------------------------------------------------------

\* What is assumed of the constants, where they get their values.
ReadersAssumption ==
    /\ IsFiniteSet(Child) /\ TOTAL \in Nat /\ ram \in [Child -> Nat] /\ KEEP \in Nat
    /\ RING \in Nat \ {0} /\ SHOWN \in 1..RING
    /\ MAX_LOG_LINES \in Nat \ {0} /\ PAGE_SIZE \in Nat \ {0}

Allocates(c) ==
    /\ free >= ram[c] /\ free' = free - ram[c]
    /\ MakerGoes(c, "asks", "allocated")
    /\ Unlogged /\ UNCHANGED <<pcbs, remover>> /\ UNCHANGED seen

LogsAllocation(c) ==
    /\ MakerGoes(c, "allocated", "logged")
    /\ log_event(Line("Resources allocated", ram[c]))
    /\ UNCHANGED <<free, pcbs, remover>> /\ UNCHANGED seen

\* Mutant: the PCB is made before the line is written.
Creates_early(c) ==
    /\ maker[c] \in {"allocated", "logged"} /\ c \notin pcbs /\ remover[c] = "none"
    /\ pcbs' = pcbs \union {c}
    /\ maker' = [maker EXCEPT ![c] = IF @ = "logged" THEN "created" ELSE @]
    /\ Unlogged /\ UNCHANGED <<free, remover>> /\ UNCHANGED seen

Creates(c) ==
    /\ MakerGoes(c, "logged", "created")
    /\ pcbs' = pcbs \union {c}
    /\ Unlogged /\ UNCHANGED <<free, remover>> /\ UNCHANGED seen

LogsCreation(c) ==
    /\ MakerGoes(c, "created", "done")
    /\ log_event(Line("Process created", 0))
    /\ UNCHANGED <<free, pcbs, remover>> /\ UNCHANGED seen

Removes(c) ==
    /\ c \in pcbs
    /\ pcbs' = pcbs \ {c}
    /\ RemoverGoes(c, "none", "removed")
    /\ Unlogged /\ UNCHANGED <<free, maker>> /\ UNCHANGED seen

Reclaims(c) ==
    /\ RemoverGoes(c, "removed", "reclaimed")
    /\ free' = free + ram[c]
    /\ Unlogged /\ UNCHANGED <<pcbs, maker>> /\ UNCHANGED seen

LogsReclaim(c) ==
    /\ RemoverGoes(c, "reclaimed", "logged")
    /\ log_event(Line("Resources reclaimed", ram[c]))
    /\ UNCHANGED <<free, pcbs, maker>> /\ UNCHANGED seen

LogsTermination(c) ==
    /\ RemoverGoes(c, "logged", "done")
    /\ log_event(Line("Process terminated", 0))
    /\ UNCHANGED <<free, pcbs, maker>> /\ UNCHANGED seen

\* The log daemon, and the user who clears the log.
Rotates ==
    /\ Len(log) > KEEP
    /\ log' = <<Line("rotated", 0)>> \o SubSeq(log, Len(log) - KEEP + 1, Len(log))
    /\ disturbed' = TRUE
    /\ UNCHANGED kernel /\ UNCHANGED seen
Clears ==
    /\ log' = <<>> /\ disturbed' = TRUE
    /\ UNCHANGED kernel /\ UNCHANGED seen

-----------------------------------------------------------------------------
(* A reader's pass: some lines at a time from where it stands, until the   *)
(* end of the file, where it shows what it has made of them.               *)

ReadsLines ==
    /\ \E n \in (Len(seen) + 1)..Len(log) : seen' = seen \o SubSeq(log, Len(seen) + 1, n)
    /\ UNCHANGED <<kernel, log, disturbed>>

AtEnd == Len(seen) >= Len(log)

\* The dashboard.
Sum(what) == FoldLeft(LAMBDA s, l : IF l.what = what THEN s + l.amount ELSE s, 0, seen)
Times(what) == Cardinality({i \in DOMAIN seen : seen[i].what = what})
AtLeast0(n) == IF n < 0 THEN 0 ELSE n

\* The line with the totals sets free_ram; what comes before it does not count, but only
\* the boot writes one, as the first.
free_ram == AtLeast0(TOTAL - Sum("Resources allocated") + Sum("Resources reclaimed"))
used_ram == TOTAL - free_ram
active_p == AtLeast0(Times("Process created") - Times("Process terminated"))

\* The task manager: lines[] is a ring of the lines that match, written as they are read.
Matches(l) == l.what # "rotated"
Kept ==
    FoldLeft(LAMBDA k, l : IF Matches(l) THEN [lines |-> [k.lines EXCEPT ![k.count % RING] = l],
                                               count |-> k.count + 1]
                           ELSE k,
             [lines |-> [i \in 0..(RING - 1) |-> Line("unwritten", 0)], count |-> 0],
             seen)

\* Mutant: it starts a line too early.
RecentEvents_one ==
    LET start == IF Kept.count > SHOWN THEN Kept.count - SHOWN - 1 ELSE 0
    IN  [i \in 1..(Kept.count - start) |-> Kept.lines[(start + i - 1) % RING]]

RecentEvents ==
    LET start == IF Kept.count > SHOWN THEN Kept.count - SHOWN ELSE 0
    IN  [i \in 1..(Kept.count - start) |-> Kept.lines[(start + i - 1) % RING]]

\* The viewer: the first lines of the log, in pages.
ViewerCount == IF Len(seen) > MAX_LOG_LINES THEN MAX_LOG_LINES ELSE Len(seen)

total_pages ==
    LET pages == (ViewerCount + PAGE_SIZE - 1) \div PAGE_SIZE
    IN  IF pages = 0 THEN 1 ELSE pages

PageAt(p) ==
    LET start == p * PAGE_SIZE
        end == IF start + PAGE_SIZE > ViewerCount THEN ViewerCount ELSE start + PAGE_SIZE
    IN  SubSeq(seen, start + 1, end)

\* The page shown where the user has come to page: the last one or a page on, or back to the
\* first one with a new filter.
ShownPage(page) ==
    LET clamped == IF page >= total_pages THEN total_pages - 1 ELSE page
    IN  IF clamped < 0 THEN 0 ELSE clamped

\* Each pass opens the file anew.
NextPass ==
    /\ AtEnd
    /\ seen' = <<>>
    /\ UNCHANGED <<kernel, log, disturbed>>

-----------------------------------------------------------------------------

Init ==
    /\ free = TOTAL /\ pcbs = {}
    /\ maker = [c \in Child |-> "asks"] /\ remover = [c \in Child |-> "none"]
    /\ log = <<>> /\ disturbed = FALSE
    /\ seen = <<>>

Threads(c) ==
    \/ Allocates(c) \/ LogsAllocation(c) \/ Creates(c) \/ LogsCreation(c)
    \/ Removes(c) \/ Reclaims(c) \/ LogsReclaim(c) \/ LogsTermination(c)

Next ==
    \/ \E c \in Child : Threads(c)
    \/ Rotates \/ Clears \/ ReadsLines \/ NextPass

Spec == Init /\ [][Next]_vars

-----------------------------------------------------------------------------

TypeOK ==
    /\ free \in 0..TOTAL /\ pcbs \subseteq Child
    /\ maker \in [Child -> {"asks", "allocated", "logged", "created", "done"}]
    /\ remover \in [Child -> {"none", "removed", "reclaimed", "logged", "done"}]
    /\ disturbed \in BOOLEAN

\* Nothing is between a step of the kernel and its line in the log.
Settled == \A c \in Child :
    maker[c] \in {"asks", "done"} /\ remover[c] \in {"none", "done"}

\* As long as no line is lost, the dashboard never shows a usage below zero or above the
\* total, at whatever place in the log a pass has ended, although lines are written after
\* the fact and in another order; and once all are written it shows what the kernel has.
DashboardIsRight ==
    /\ TypeOK
    /\ ~disturbed =>
        /\ used_ram \in 0..TOTAL
        /\ Settled /\ seen = log => used_ram = TOTAL - free /\ active_p = Cardinality(pcbs)

\* The lines that match, in their order.
events == FoldLeft(LAMBDA es, l : IF Matches(l) THEN Append(es, l) ELSE es, <<>>, seen)

\* The task manager shows the newest events in their order, out of its ring; the viewer's
\* pages put together are the log's first lines, and a page is shown empty only if all are,
\* though the log may have shrunk since its number was chosen.
ReadersShowLines ==
    /\ RecentEvents = SubSeq(events, AtLeast0(Len(events) - SHOWN) + 1, Len(events))
    /\ FlattenSeq([p \in 1..total_pages |-> PageAt(p - 1)]) = SubSeq(seen, 1, ViewerCount)
    /\ \A page \in -1..MAX_LOG_LINES : PageAt(ShownPage(page)) = <<>> => seen = <<>>

\* "Live RAM/HDD usage bars, active process count" (README.md:221), also behind a rotation.
DashboardIsLive == Settled /\ seen = log => used_ram = TOTAL - free
=============================================================================
