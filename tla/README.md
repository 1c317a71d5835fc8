# A formal model of NEBULA OS

NEBULA OS is a terminal program that plays an operating system: a *kernel*
process (`os.cpp` and the kernel files) keeps process control blocks, run
queues and memory counters, and forks one real child process per application.
This directory holds TLA+ modules translated from its source, TLC
configurations that check them on small instances, and theorems with proofs for
TLAPS that hold for every instance.

`src/...:n` below is line n of a source file. A definition has the name of the
function or variable it stands for wherever TLA+ allows it; `PROJECT.json`
maps every definition to its lines.

## 1. The system

### The kernel process

| Component | State | Operations | Shares it with |
|---|---|---|---|
| Types and globals (`kernel.h`, `os.cpp:20-43`) | `pcb_table`, `pcb_count`, `queue_Q0..Q2`, `free_RAM`, `free_HDD`, `free_cores`, locks and conditions | `KernelQueue::push/pop/get/size/remove` | everybody |
| Process manager | PCB table, queues | `create_pcb`, `remove_pcb`, `update_state`, `set_process_priority`, `get_queue_level` | IPC threads, listener, menu, signal handler |
| Memory manager | resource counters | `allocate_resources`, `reclaim_resources`, `acquire_core`, `release_core` | IPC threads, `remove_pcb`, interrupt handler |
| Scheduler | queues, PCB states | `scheduler_loop` (dispatch), `aging_loop` (promotion) | `queue_cond` with process manager and interrupt handler |
| Interrupt handler | PCB states, cores | `sigchld_handler`, `send_minimize`, `send_resume`, `send_interrupt`, `unblock_after_delay` | menu thread |
| IPC manager | one FIFO per child | `handle_ipc_request` (one thread per child), `ipc_listener_loop`; in the child `send_resource_request`, `wait_for_grant`, `send_termination_notice` | kernel and children |
| Shell (`os.cpp`) | `foreground_pid`, `bg_tasks`, `os_running` | start of daemons, `launch_task`, `foreground_task`, `manage_foreground`, `shutdown_os` | all of the above |
| Deadlock detector | a graph, rebuilt every 5 s | `run_detection`, `dfs` | reads the PCB table |
| Logger | `system.log` | `log_event` | two daemon processes write the same file |

### The applications

Each is a program of its own, forked by the shell into a process group of its
own, which asks the kernel for memory first and takes turns at one terminal.

| Component | State | Operations | Shares it with |
|---|---|---|---|
| Log daemon, system monitor | `system.log` | rotation, snapshots | the kernel's `log_event`, the menu's clearing, each other |
| Log readers | a log while it changes | the dashboard's sums, the task manager's ring, the viewer's pages | those who write the log |
| Notepad | `text_buffer`, a note | typing, `:w`, `:q`, autosave | its own autosave thread |
| To-Do list | `todo.txt` | add, done, remove, each with a save | its other windows |
| File tools and readers, mini terminal, storage manager | `nebula_hdd` | create, rename, move, copy, compress, delete, `mkdir`, `echo >` | each other |
| Alarm, stopwatch, countdown | a time and a line of input | loops around `select` and `fgets` | the terminal |
| Clock, music player | the terminal's mode; an `mpg123` | set and restore; play, `q`, end | the shell, stop signals |
| Calendar | a month | turn the page | the C library's calendar |
| Calculator, games, guide | nothing lasting | dialogues | nobody |

### Where it is hard

* **Threads over one table.** Up to `MAX_PROCESSES` IPC threads, the listener,
  the menu thread, the scheduler, the aging thread, one timer per interrupt and
  a signal handler act on the same table, in critical sections of four locks
  that are taken one after the other and not around whole operations:
  `remove_pcb` unlocks the table before it gives the memory back, the scheduler
  unlocks it before it waits.
* **Queues of addresses.** A queue holds addresses of table entries, and
  `remove_pcb` moves the entries behind the one it removes.
* **Real processes.** A child can die anywhere, and both the menu thread and
  the handler of SIGCHLD reap it.
* **Named pipes.** Request, answer and notice use the same path in both
  directions, the path is unlinked and made again, and opening blocks until
  somebody opens the other end.
* **Files written by several processes**, with no lock that all of them take, and
  directories in which a name checked is another file when it is used.
* **A signal handler that takes locks**, on a thread that may hold them.
* **One terminal for all**: stop signals go to groups, `kill` to processes, and
  `tcsetpgrp` and `setpgid` run in two processes at once.
* **Scheduling.** Lost wake-ups, lost queue entries, starvation, aging.

### What makes each part correct

* table and queues: every queue holds the entries the table calls for, and no
  process that waits is missing; at most one PCB for a child;
* memory: nothing is lost or given back twice, at every interleaving;
* scheduler: the most urgent READY process goes first, and each gets its turn;
* IPC: a task runs only behind its `create_pcb` and keeps the PCB that made, no
  false grant, the kernel's thread never hangs once it has a request;
* shutdown: both threads stop;
* detector: reports a cycle exactly when there is one;
* locks: whoever waits, waits for somebody who goes on;
* log, notes, lists: a file is one version of its contents, in order, and who
  reads it gets what was written;
* file tools: nothing is lost but what a tool is to delete, replace or write, and
  a copy is a copy;
* terminal: at the menu nothing else can be seen or heard, and a shutdown leaves
  nobody behind but who waits for the kernel's answer;
* timers: nothing rings early, and no loop ends that has neither rung nor been
  cancelled.

## 2. The modules

    Kernel  <-- MemoryManager <-- ProcessManager <-- Scheduler ------\
                       |               ^---- IpcManager --\           \
                       \-- InterruptHandler ------------- Shell --- NebulaKernel
                                          DeadlockDetector ---------/    |
                                                              MCNebulaKernel
    BoundedFifo <..implements.. KernelQueue
    GrantProtocol <..implements.. IpcHandshake --> NamedPipe
    LockBodies <-- LockOrder, SignalLocks <-- MCSignalLocks
    HddFiles <-- VirtualHdd <-- MCVirtualHdd           TerminalJobs
    MCStandAlone --> KernelQueue, DepthFirst, IpcHandshake, Notepad, Timers,
                     Calendar
    MCSharedFiles --> TodoList, SystemLog, LogReaders
    NebulaKernel <-- NebulaKernelProofs
    SignalLocks, LockOrder <-- SignalLocksProofs
    MCStandAlone <-- StandAloneProofs --> HandshakeProofs
    MCSharedFiles <-- SharedFilesProofs
    TerminalJobs <-- TerminalJobsProofs                VirtualHdd <-- VirtualHddProofs
    CountingLemmas <-- NebulaKernelProofs, StandAloneProofs, SharedFilesProofs

The component modules define the steps of their functions on the shared
variables; `NebulaKernel` adds what each step leaves alone, and interleaves
them.

| Module | Stands for | State and actions |
|---|---|---|
| `Kernel` | `kernel.h` and the globals | `pcb_table` is a sequence of PCBs, `pcb_count` its length; a queue is the sequence of the table slots its addresses point at, so a slot means another process once entries have moved, just as an address does. `queue_cond` says whether its one waiter waits and was signalled. |
| `MemoryManager` | `memory_manager.cpp` | One operator for each function. |
| `ProcessManager` | `process_manager.cpp` | `remove_pcb` is two steps, the one under `pcb_lock` and `FinishRemove`, which gives back what the first one copied (`reclaiming`). |
| `Scheduler` | `scheduler.cpp` | `scheduler` is the place in `scheduler_loop`; between "idle" and "waiting" no lock is held, and a signal sent there is lost. `AgingTick` is one round of `aging_loop` with the rebuild of the queues. |
| `InterruptHandler` | `interrupt_handler.cpp` | The timer a `send_interrupt` starts is in `unblocking`. |
| `IpcManager` | `ipc_manager.cpp/.h` as far as the table sees it | `ipc[p]` is what became of p's request, `notice[p]` what of its notice. Answers and notices may arrive at any later time or never. |
| `Shell` | `os.cpp`, `sigchld_handler` | A `waitpid` of the menu that comes after the handler's finds no child and leaves `status` unwritten: both readings of it are possible (`ForegroundExits`, `ForegroundMisread`). |
| `DeadlockDetector` | the graph of `run_detection` | `adj(table)`; the thread changes no state of the kernel's. |
| `NebulaKernel` | the whole kernel process and its children | `handler_stuck` says that `sigchld_handler` has stopped its own thread, after its `waitpid` or inside `remove_pcb`; threads and menu may stop then or go on. `Commands` and `Api` choose what the user does and which functions without a caller in the repository are called all the same. |
| `KernelQueue`, `BoundedFifo` | the ring buffer of `kernel.h:61-104`; what it promises | `data`, `head`, `tail`, `count`; the refinement maps the ring's entries to a sequence. |
| `IpcHandshake`, `NamedPipe`, `GrantProtocol` | one child's IPC system call by system call; FIFO files (external); the promise of README.md | One `pc` each for menu, child, thread and listener. `registered` is the child's PCB; on a full table `create_pcb` drops it ("dropped") and the answer is GRANT all the same. |
| `DepthFirst` | `dfs` and its caller, step by step, on any graph | `calls` is the C stack. |
| `SystemLog` | `logger.cpp`, `log_daemon.cpp`, `sys_monitor.cpp`, the clearing in `os.cpp` | A file is its sequence of lines; an append goes to its end and the rotation's writes to a position. |
| `Notepad` | `notepad.cpp` | `buffer_lock`, both threads, and a file written line by line whenever the C library likes. |
| `TodoList` | `todo_list.cpp` | Windows that may be started again, each with the list it read. |
| `LockBodies`, `LockOrder` | the mutex calls of the kernel's functions; what they have in common | A function is the sequence of its locks and unlocks, and a branch that locks is a parameter. `LockOrder` assumes of these constants what TLC evaluates for good. |
| `SignalLocks` | every kernel thread, with `sigchld_handler` on top of any of them | `main[t]` and `handler[t]` are what is left of a function; the handler may start anywhere, since nothing masks SIGCHLD. |
| `HddFiles`, `VirtualHdd` | `nebula_hdd` as system calls see it (external); the file tools, readers, `storage_manager.cpp` and `mini_terminal.cpp` | Names lead to inodes; a window that opened a file keeps it when its name goes. One action per system call that another window may precede. |
| `TerminalJobs` | the shell's half of job control, `music_player.cpp`, `clock.cpp`, the task manager's kill | `front` is the foreground group, `proc` and `song` the processes of each group. What signals do to groups is external. From fork to its loop a job makes its group ("start"), execs ("exec") and waits for the kernel's answer ("request"), the last with its SIGTERM handler installed and for ever, if it must. |
| `LogReaders` | `resource_dashboard.cpp`, `task_manager.cpp`, `log_viewer.cpp` | The kernel's steps and their log lines are apart, as in the code; `seen` is what a pass has read, and `Kept` is the task manager's ring array after it. |
| `Timers` | `alarm.cpp`, `stopwatch.cpp` | `typed` is in the terminal, where `select` sees it; `kept` is in the C library, where it does not. `rung` is where an announcement was made; "refused" and "quit" are the ends of a dialogue that never came to its loop. |
| `Calendar` | `calendar.cpp` | The month on the page, drawn row by row; `mktime` is external and a formula of its own. |
| `CountingLemmas` | no code: induction, folds and sums for the proofs | None. |
| `MCStandAlone`, `MCSharedFiles` | nothing of their own | The initial state chooses one of their parts, which alone moves from then on, with its own fairness. |

Operators whose name ends in an underscore and a word (`Rewritten_unrotated`)
stand before the definition they vary: each is that definition with a plausible
bug, and shows that a property would notice it.

## 3. What the runs check

| Run | Question | Properties |
|---|---|---|
| `kernel_shipped` | Do table, queues, memory and cores agree at every interleaving of the program as it ships? | `QueuesMatchTable`, `ReadyIsQueued`, `OnePcbPerChild`, `Conservation`, `OnlyCoreZero`, `RunningHasPcb` |
| `kernel_boot` | In which order are the three levels served while daemons start, die and are promoted? | `TypeOK`, `FcfsQueuesExact`, `DispatchesFirst` |
| `kernel_api` | And with the functions that nothing calls yet? | `LevelsOnlyRise`, `AccountingStep` |
| `kernel_live` | Does every process get its turn, does memory come back, does shutdown end, as long as no handler stops its thread? | `ReadyIsDispatched`, `DeadGiveBack`, `ThreadsStop` |
| `signal_locks` | Who can block whom, and are all dead children waited for? | `OnlyHandlerBlocksItself`, `DeadAreReaped` |
| `terminal_jobs` | Who has the terminal, who is stopped or heard, and who survives the shell, also with a handshake that never ends? | `MenuIsAlone`, `NoSongAlone`, `ShutdownEndsAll` |
| `virtual_hdd` | What may two windows overwrite or lose (`MayDestroy`), and what is in a copy? | `CopiesAgree`, `KeepsData` |
| `shared_files` | Is `todo.txt` the list, across windows that are killed in the middle of a save? | `FileIsList` |
| | What does a rotation without a lock keep? | `KernelLinesInOrder`, `RotationKeepsNewest` |
| | What do the log's readers show while it is written, rotated and cleared? | `DashboardIsRight`, `ReadersShowLines` |
| `stand_alone` | Is the ring buffer a bounded FIFO queue, `remove` included? | `ImplementsFifo` |
| | Is the detector's search right although `visited` is never cleared? | `FindsExactlyCycles`, `Ends` |
| | What survives of the protocol when children die anywhere and pipes are replaced? | `AnswerNeedsNoWait`, `MessagesNeverMix`, `ImplementsGrantProtocol`, `RequestIsServed` |
| | Do the editor's two threads ever mix two texts in one file, and does quitting save and end? | `FileIsOneText`, `QuitSavesAll`, `LeavingEnds` |
| | Does an alarm ring in time, and does every loop end? | `RingsInTime`, `LoopEnds` |
| | Does each month follow on the one before? | `MonthIsRight` |
| `finding_leak` | violated: `TerminationReclaims` | see below |
| `finding_lost_answer` | violated: `AnswerIsRead` | see below |
| `finding_self_deadlock` | violated: `HandlerEnds` | see below |

The parts of `shared_files` and of `stand_alone` share no state with each other.
They are checked in one run each because each is small: the initial state picks
a part, and the others never move. The run counts the choice as one action per
part; that every action of each of these modules happens is seen when TLC runs
the module alone with the same constants and `-coverage 1`.

What they show that is worth knowing:

* The missing sort of `queue_Q0` (`scheduler.cpp:33`, two loops without a body)
  is harmless: a process is in that queue only with priority 0, so taking the
  first is taking the highest (`DispatchesFirst` says both).
* `DispatchQ1` pops the front of `queue_Q1` whichever entry it dispatched, and
  so loses processes from it, but never one that is READY
  (`ReadyIsQueued`). A signal on `queue_cond` may be lost as well, and the timed wait makes up for
  it, so that nobody starves as long as the scheduler's thread runs
  (`ReadyIsDispatched`).
* `remove_pcb` may be called by three threads for the same process; memory is
  conserved all the same (`Conservation`), because what a removal gives back is
  copied under `pcb_lock`.
* `cycle[]` of the detector has no room for a cycle through every node: the
  search may write one entry behind its end, and never two
  (a part of `FindsExactlyCycles`). That is of the search on any graph; the graph the
  kernel builds never has a cycle at all, since what requests is BLOCKED and what holds is
  RUNNING, which is among the findings of section 4 (`HoldersAreInGraph`).
* The IPC thread keeps its reading end open while it answers; that is what
  keeps it from waiting for a child that is gone and from a SIGPIPE that would
  end the kernel (`AnswerNeedsNoWait`).
* All functions take nested locks in one order, `log_lock` last, and
  `sigchld_handler` takes its locks one after the other. So no two threads can
  wait for each other, even where the handler interrupts a thread that holds
  something; the only thread that can stop for ever is one whose handler wants a
  lock it holds itself (`OnlyHandlerBlocksItself`). `acquire_core`, which nothing
  calls, is left out: it waits on `core_cv` within `core_mutex`. The locks inside
  the C library, which the handler may want as well, are not modelled.
* Between `stat` and `fopen` or `rename` another window may create the name, and
  its data is then lost. `KeepsData` says that `create_file` and `rename_file` lose data in
  no other way, and what the others may destroy: of a confirmed deletion any listed file; of
  a copy, a compression and an echo the target, of which the first two derive the name
  (`_copy`, `.neb`) and open it even where the source is gone, so that a former copy may be
  emptied; of a move the file it replaces in the folder. More than these it does not promise.
* A copy whose source is renamed, deleted or moved meanwhile is still right,
  because the source stays open, and two windows that make the same copy both end
  up with it (`CopiesAgree`).
* A shutdown ends every player and every job that is stopped or in its loop
  (`ShutdownEndsAll`). A clock or a daemon that still waits for the kernel's answer then
  has noted the SIGTERM in its handler, and waits on: `signal` restarts its `open` and
  `read`, and nobody is left to answer (`SigtermEndsDaemons` of section 4).
* No step loses memory, whatever the table (`AccountingStep`), but `create_pcb` on a full
  one: what it drops are the megabytes of the one child it was called for.
* When `tcsetpgrp` fails, because the child has not made its group, the task
  stops as soon as it touches the terminal, the shell takes this for Ctrl+Z and
  comes back to the menu: the race costs a resume and never the terminal
  (`MenuIsAlone`).
* The dashboard subtracts what the log says. Lines are written after the fact and
  by other threads, and still no prefix of the log gives a usage out of range
  (`DashboardIsRight`): a process's allocation is logged before its PCB exists,
  so before anybody can give it back.

### Bounds, and why they are enough

* **Children and table.** Two or three children: two already give every pair of
  competing steps, a removal under somebody else's slot, and a queue with a
  front that is not the entry dispatched; three daemons give two processes in
  `queue_Q0` and one that rises through all levels. The theorems of section 5
  lift the central invariants to any number.
* **Memory.** One unit of RAM and HDD for most children, two for `copy`, none of
  HDD for the clock, out of 2 or 3: both outcomes of `allocate_resources` occur.
* **Aging.** `AGING_INTERVAL` 1 or 2 instead of 5 and priorities up to 3 instead
  of 10 (0, 1, 2 as defaults instead of 0, 3, 6), `Q0_PROMOTE_THRESH` 1 as in
  the source: the order of the constants is the program's, so each promotion
  happens, only sooner. `wait_time` is counted modulo `AGING_INTERVAL`, which is
  all that is ever tested.
* **`MaxApiCalls`** 1: one call of a function without a caller. The type
  invariant's proof has no bound on it.
* **`MaxFifos`** 2: `mkfifo` in the model has no bound, and the type invariant
  shows that one child never sees a third FIFO.
* **`GRAPH_SIZE`** 4: all 4096 graphs of four nodes.
* **Threads and `MaxDeaths`** in `signal_locks`: the menu thread and an IPC thread,
  which between them call all functions that the handler's locks meet, and two
  deaths, which may make one SIGCHLD. `LocksAreOrdered` (section 5) has any number
  of threads, of any role.
* **Jobs** in `terminal_jobs`: a task that starts another process, a daemon that
  touches the terminal and one that does not; the clock is also resumed from the
  menu, where it is a task. Two tasks are never in front at once.
* **`Window`, `Typed`, `Block`, `MaxBlocks`, `MaxEndings`, `MaxCommands`** in
  `virtual_hdd`: two windows, a name each for a file and a folder with their
  endings, files of up to two blocks, and two tools or commands at a time. A race
  needs one tool's check, the other's action, and the first one's action. Windows
  and blocks are interchangeable, so the run uses symmetry; it checks no liveness.
  Six inodes besides the root are what two commands can use. What only four commands
  reach is in the proofs (section 5), which have no bound.
* **`MaxSeconds`, `MaxLines`** 2: a second left, two lines, or a line that comes in
  two pieces. **`FirstYear`, `LastYear`** 1996 to 2104: leap years, 2000 and 2100.
* **`RING`, `SHOWN`, `MAX_LOG_LINES`, `PAGE_SIZE`** 3, 2, 3, 2 instead of 100, 15,
  and the viewer's: the log outgrows each, in the order the source's values have.
* **`KEEP`, `MAX_LOG_SIZE`, `MaxTime`** 2, 3, 5: a log longer than what a
  rotation keeps, lines behind the last read, and a second rotation. Five lines are
  too few for a log that was cleared under one rewrite to be read and cleared under
  the next; `LogIsInOrder` (section 5) has no bound.
* **`MAX_LINES`** 2, **`MAX_TODOS`** 3: a buffer that is empty, partly filled
  and full.

`CHECK_DEADLOCK FALSE` stands where the program may stop: after a shutdown,
with every child dead, at the end of a search, of an editor or an alarm, of the
bounded commands of `virtual_hdd` or the bounded time of a log, or with every
thread in `signal_locks` blocked. In `stand_alone` a child and a thread that
wait on different FIFOs stand still for ever.

### Fairness

Weak fairness, of threads that the code keeps running: the scheduler and the
aging thread (`KernelThreads` in `NebulaKernel`), whose waits are timed or for
locks held over bounded code; the timers of interrupts; the delivery of SIGCHLD
and the end of a `remove_pcb` already begun. All this only while `handler_stuck` is
false: a handler that wants a lock its thread holds may do so at any `waitpid` and in
any `remove_pcb`, from then on nothing is owed, and the liveness properties of the
kernel say so. In `IpcHandshake` the IPC thread
and the listener, with blocked system calls not enabled; in `Notepad` both
threads; in `DepthFirst` the search; in `Timers` the program and the clock. In
`SignalLocks` a thread leaves its critical sections and a signal is delivered;
a lock that is free again and again is obtained (strong fairness), since every
loop of the kernel sleeps between two rounds and holds no lock then. Threads
need not call anything. In `TerminalJobs` shell and jobs run on, a song ends
some time, a loop that was told to end ends, and once the shell is gone the
player's question for a song is answered by the end of its input; the handshake
("request") need not ever end, and a job in the
background need not ever try to read. Users, children and messages owe nothing.

## 4. Where the program does not do what is said of it

Each `finding_*.cfg` makes TLC print a shortest history. Three of them are runs
of this project:

* **`finding_leak`.** A child that dies after its memory was granted and before
  `create_pcb` is reaped while there is nothing to remove; the PCB made
  afterwards stays for ever, with its memory. README.md:171: "On process
  termination, all resources are automatically reclaimed."
* **`finding_lost_answer`.** The IPC thread writes its answer and closes both
  ends before the child opens the pipe to read: the FIFO's contents are gone
  and the child waits for ever. README.md:266: "Task reads response via
  wait_for_grant()".

* **`finding_self_deadlock`.** SIGCHLD interrupts a thread within `log_event`,
  `create_pcb` or any function that holds `log_lock`, `pcb_lock` or
  `resource_lock`; the handler wants the same mutex (`interrupt_handler.cpp:39`,
  `:40`), and the thread waits for itself. README.md:182: "`SIGCHLD` | Detect
  child termination, clean up PCB".

The others can be run the same way, with the module that defines the property.
Where no configuration is named, put the property into the one in brackets:

| Configuration | Module | Property | What happens | What is said |
|---|---|---|---|---|
| [`kernel_shipped`] | `MCNebulaKernel` | `FreeCoresBounded` | A dispatch takes no core (`scheduler.cpp:13`), a minimise gives one back (`interrupt_handler.cpp:77`): `free_cores` passes `total_cores`. | README.md:104 |
| `finding_q1_loses` | `MCNebulaKernel` | | `scheduler.cpp:54` pops another process than it dispatched. | README.md:161 |
| `finding_table_full` | `MCNebulaKernel` | | `create_pcb` returns silently when the table is full, and the task is granted its request (in `IpcHandshake`: `registered` is "dropped"). | README.md:148 |
| [`kernel_shipped`] | `MCNebulaKernel` | `AgesOnlyWaiting` | The test for 'R' at `scheduler.cpp:93` takes RUNNING for READY. | README.md:286 |
| [`kernel_shipped`] | `MCNebulaKernel` | `HoldersAreInGraph` | The graph has requests of BLOCKED processes and holdings of RUNNING ones only (`deadlock_detector.cpp:43`, `:48`), so that no process waits while it holds: no graph has a cycle, and no deadlock is ever reported. | README.md:177 |
| [`finding_lost_answer`] | `IpcHandshake` | `RequestIsRead` | The child opens its FIFO before the kernel replaces it: both wait on different files. | README.md:264 |
| [`finding_lost_answer`] | `IpcHandshake` | `ListenerTakesOnlyNotices` | The listener reads the answer and drops it. | README.md:265 |
| [`finding_lost_answer`] | `IpcHandshake` | `NoticeIsWritten` | No notice is written unless the listener has the pipe open at that moment. | README.md:271 |
| [`stand_alone`] | `MCStandAlone` | `Editor!AutosaveKeepsNote` | The autosave empties a note on a `line_count` it read without the lock. | README.md:191 |
| `finding_todo_lost` | `TodoList` | | A second window writes back the list from before. | README.md:220 |
| `finding_log_lost` | `SystemLog` | | What is logged between a rotation's last read and its `fopen` is lost. | README.md:189 |
| `finding_song` | `TerminalJobs` | `QStopsSong` | After Ctrl+Z and a resume the player runs and its `mpg123` does not, since `send_resume` signals the pid alone; 'q' then sends a SIGTERM that is not acted on, and the player waits for ever. | `music_player.cpp:76` |
| [`terminal_jobs`] | `TerminalJobs` | `SigtermEndsDaemons` | A daemon in its handshake only notes the SIGTERM of the shutdown (`clock.cpp:30-34`, `log_daemon.cpp:42-46`, `sys_monitor.cpp:38-42`) and waits for ever. | README.md:186 |
| [`terminal_jobs`] | `TerminalJobs` | `DaemonsRun` | The clock daemon sets the mode of a terminal it is not in front of, and stops. | README.md:71 |
| [`terminal_jobs`] | `TerminalJobs` | `MenuEchoes` | A clock stopped by Ctrl+Z leaves the terminal without echo. | `clock.cpp:25` |
| [`virtual_hdd`] | `MCVirtualHdd` | `RenameReplacesNone` | A name created between `stat` and `rename` is replaced. | `rename_file.cpp:56` |
| [`stand_alone`] | `MCStandAlone` | `Clocks!DaemonIsHeard` | Behind `setsid` there is no `/dev/tty`, and stdout is closed: an alarm in the background rings nowhere. | `alarm.cpp:78` |
| [`shared_files`] | `MCSharedFiles` | `Readers!DashboardIsLive` | A rotation takes allocations away from the dashboard's sum. | README.md:221 |

A property behind a `!` needs a definition of its own in the module named.

## 5. What is proved

The theorems hold for every value of the constants that satisfies the named
assumptions, which TLC evaluates on the instances it checks: finitely many
children, natural requests, a table of at least one entry, a positive aging
interval, default priorities within the range (`KernelAssumption`,
`ApiAssumption`); finitely many windows, names and inodes, two names to type, and a
disk that is not full, since a tool and a command of the terminal make one file or
folder at most (`HddAssumption`); disjoint sets of programs (`JobsAssumption`); a log that is only
rotated when it is longer than what is kept (`LogAssumption`); readers with a
ring of at least the entries they show, a page of at least one line, and natural requests
of finitely many children (`ReadersAssumption`); years after 0
(`CalendarAssumption`); the file that does not exist is no text
(`TodoAssumption`); two FIFOs at least, since a child makes one
when it is faster than the kernel (`HandshakeAssumption`). They hold for any set
of commands and any number of calls of the functions without a caller, but where
a theorem names what it supposes more.

### The kernel

* **`TypeCorrect`** (`NebulaKernelProofs`): `Spec => []TypeOK`. `TypeOK` is
  inductive as it stands; it bounds the table by `MAX_PROCESSES`, the queue
  entries by the table, and says that the free counters never fall below zero.
  One lemma per operator says what it does to the types, and `TypeStep` has one
  step per action.
* **`QueuesMatch`**: `Spec => []QueuesMatchTable`, by
  induction together with `TypeOK`. `QueueSteps` sorts the steps of the kernel
  into those that leave level and place of each PCB alone, those that rebuild
  all queues from the table (`remove_pcb`, aging), the one that appends a
  process to the table and to its queue, and the dispatch from `queue_Q1`. The
  dispatch is the reason why the invariant speaks of the number of entries and
  not of which: popping one and pushing another keeps the number.
* **`FcfsExact`**: `Spec => []FcfsQueuesExact`; `queue_Q0` and `queue_Q2` are
  exactly the table's processes of their level in the table's order. It needs
  `InTableOrderIsSorted` (`NebulaKernelProofs`): the rebuilt queue lists each slot
  of the level once and in ascending order, shown by ranks: a slot has a rank among
  those of its level, later slots have higher ranks, and each rank is taken.
* **`ReadyAreQueued`**: a READY process stands in its queue, also in the
  `queue_Q1` that loses entries. The induction needs the two before it and that
  nobody is BLOCKED: the front that `DispatchQ1` drops is either not READY or the
  process that is dispatched. It supposes `Api \cap {"send_interrupt",
  "update_state"} = {}`, since these two functions, which nothing in the repository
  calls, make a process READY without a queue.
* **`MostUrgentFirst`**: `Spec => DispatchesFirst`, an action property. It adds
  `SystemIsMostUrgent`, that all of level Q0 has priority 0, by which the sort
  that the code does not do is not missed. It supposes the same of `Api` and that
  `DEFAULT_PRIORITY_Q0` is 0, as in `kernel.h`.
* **`NeverSinks`**: `Spec => LevelsOnlyRise`. `EachBecame` says what a step makes of
  each entry of the table, whatever place it moves to.
* **`OneCoreOnly`**: `Spec => []OnlyCoreZero`, together with
  `free_cores >= total_cores`; it supposes that `acquire_core` and `update_state`,
  which nothing calls, are not called.
* **`OnePcb`**: `Spec => []OnePcbPerChild`, by induction
  together with `TypeOK` and `UnbornIsIdle`: a child that was not started has no
  request under way. Without it a step could start a child whose former request
  is answered, and forget that its PCB exists. `HoldingSteps` sorts the steps
  into those that leave pids, allocations and free counters alone and the four
  that move memory: the grant, `create_pcb`, the critical section of
  `remove_pcb` and its `reclaim_resources`. When the table closes a gap,
  `Origin` says where the entry at each place came from.
* **`Accounting`**: `Spec => AccountingStep`, for a full table too, from the same
  invariant: what a child holds is the sum of what its PCB, its granted request
  and its unfinished removal hold, and each of the four operations moves one of
  these parts into another or to and from the free counters. Only
  the `create_pcb` that finds no room moves one part nowhere (`DropsPcb`). The
  theorem supposes that there is a child at all.
* **`MemoryIsConserved`**: `[]Conservation`, the sum over all children. The sum is a
  fold of the community modules; that it changes by what one child's part changes by
  is `SubsetInduction`, induction over the subsets of a finite set. A full table
  makes the invariant false (`finding_table_full.cfg`), so the theorem supposes
  `[]TableHasRoom`; **`MemoryIsConservedForFew`** supposes instead
  `Cardinality(Pid) <= MAX_PROCESSES`, from which `OnePcb` gives the room.
* **`RunningIsListed`**, **`RunningIsListedForFew`**: `[]RunningHasPcb` under the
  same hypotheses. `ChildAndRequest` bounds how far a child has come by how far its
  request has, and `AnsweredHasPcb` is what a reply leaves behind.

### The signal handler's locks

* **`LocksAreOrdered`** (`SignalLocksProofs`): `Spec => []OnlyHandlerBlocksItself`
  for any set of threads, each in any role. The inductive invariant says that a
  thread holds exactly what it has still to release, in the function it runs or
  in the handler on top (`HolderOwes`), that only a thread in the handler has
  handler's work left, and that the handler has passed none of the locks its
  thread held before (`HandlerPassedFree`): had it wanted one, it would still
  wait there. From it, who waits wants a lock above all it holds, unless it
  waits for itself, so that in a circle of waiting threads the lock of the
  highest rank could have no holder (`NotAtRank`, by the five ranks in turn). The
  facts about the bodies themselves, `BodiesInOrder` and `BodiesHoldNothing`, are
  assumptions without parameters that TLC evaluates in `stand_alone`.

### The handshake over a named pipe

`HandshakeProofs` proves one invariant, `IInv`, with a lemma for each of the 26
system calls. Its parts say where each of menu, child, thread and listener can be
given where the others are (`Places`, `Paths`, `Exchange`), which end each has open
there (`Ends`), whom an `open` keeps waiting (`Waits`), and what can lie in the FIFO
(`Buffers`). The key is `Ends`: all that is open is open on the FIFO made last, but
for the first opening of a child that a second `mkfifo` has overtaken, and that one
waits for ever.

* **`AnswersWithoutWaiting`**, **`NothingMixes`** (`StandAloneProofs`): the
  thread's answer needs no wait and meets no SIGPIPE; no FIFO ever holds two messages.
* **`ProtocolIsImplemented`**: `Spec => ImplementsGrantProtocol`. The promise is
  that a task runs only behind its `create_pcb`, without a PCB only if the table had no room,
  and that a PCB is given back once at most and under nobody who runs. Initial states map
  to initial states, and `ProtocolStep` has one case for each step of the handshake:
  a step of the protocol, or one that leaves it alone.

### The detector's search, the editor, the timers, the calendar

* **`ExactlyTheCycles`**: on a graph of any size the search finds a cycle exactly when
  there is one. The invariant `Explored` says that a finished node has
  finished successors only, and that no cycle lies in the finished nodes.
  The step that finishes a node needs that it has been compared with all of its
  successors (`LoopAt`), and that the calls are of different nodes bounds the
  recursion and what is written behind `cycle[]` (`Room`).
* **`OneText`**: `[]FileIsOneText`, and **`QuitSaves`**: `[]QuitSavesAll`. `EditorFile`: the
  file is a beginning of what the last save was to write, and all of it while nobody has the
  lock. `EditorQuits`: behind `:q` the buffer changes no more, so that a later
  autosave writes the same.
* **`RingsWhenDue`**: `[]RingsInTime` for alarms of any length: nothing is announced early
  and no alarm once cancelled, and no alarm or countdown leaves its loop unannounced unless
  a `q` cancelled it. `ClocksRung` carries why a loop was left to where it is announced.
* **`EveryMonthIsRight`**: `[]MonthIsRight`, for any range of years. The loop that prints a month
  is a fold; `TableRuns` takes it turn by turn, and after each turn the table is
  `Filled`, seven to a row, so that a day stands in the column of its weekday because the first
  one does (`TableIsFilled`). `LeapYears` says that the years' formula of `mktime` grows by a
  leap year's day exactly where `is_leap` says so, centuries included, from
  which follow the lengths of the months (`MonthLengths`), that each goes on where the one
  before ends (`MonthsFollow`), and the weekday a month starts with (`Weekdays`).

### The ring buffer

* **`RingIsFifo`**: `Spec => ImplementsFifo`. The invariant is `Rings`, the shape of the
  record with the rear where front and count say. `PushAppends` and `PopTakesFirst`
  are arithmetic of places that go round once at most (`RearGoesOn`, `FrontGoesOn`).
  `remove` is two folds: `FoldExists` shows that a fold over places is a function of
  the sets of places, from which come its values turn by turn (`DrainRuns`,
  `FillRuns`), and with them that the first loop keeps what
  `BoundedFifo` keeps (`DrainKeepsOthers`) and the second puts it back in its order
  (`FillRestores`). `Without` of `BoundedFifo` is a recursive function for this
  reason: of `SelectSeq`, which would say the same, the provers know nothing.

### The terminal

* **`OnlyDaemonsBehindMenu`**: `[]MenuIsAlone`, and **`SongsHavePlayers`**:
  `[]NoSongAlone` (`TerminalJobsProofs`), for any number of jobs. `OneInFront`: of what is
  no daemon only the job the shell is about runs. `SongsAreHeld`: a song that goes on has a
  running player that is at the place where it asks for a key. `Calms` is what all
  signals have in common.

### The shared files

* **`LogIsInOrder`** (`SharedFilesProofs`): `[]KernelLinesInOrder`, for any number of
  threads and rotations. A thread that has a time for its line holds `log_lock`, and
  its time is later than every line's (`Stamped`). While the daemon reads, what it has read is
  in order and older than what it has not (`Reading`); while it writes, what it
  has written stands where it has put it and what stands behind is newer (`Writing`), which
  is the reason why a daemon that takes no lock does not disturb the order.
* **`NewestAreKept`**: `Spec => RotationKeepsNewest`, from the same invariant and
  `RewrittenIsNewest`: for every number of lines the ring array, read from `start`,
  is the last `KEEP` lines in their order. That is an argument about
  remainders: two places with the same remainder are `KEEP` apart at least (`FarApart`).
* **`OneWindowKeepsItsList`**: `[]FileIsList` for one window, opened any number of times.
  The invariant adds that the file is no longer than a list, whoever was killed when:
  without it a window would leave out lines it reads.

* **`DashboardShowsKernel`**: `[]DashboardIsRight`, for any children and requests. The
  invariant `ReadersInv` holds each call's place in the kernel against what it has
  written so far (`InTurn`), says that what is free and what the children hold is the
  whole (`RestIsFree`), and, while no rotation or clearing has taken a line, that the
  log's lines added up one by one never fall below zero and end at what the calls have
  told (`LogBalances`). A dashboard that stops reading anywhere stops at a beginning of
  the log (`SeenIsPrefix`), whose balance is one of these; that is why it never shows
  less than nothing or more than there is. `SumsAreBalance` ties the two sums of the
  code to the balance.
* **`ReadersShowWhatTheyRead`**: `[]ReadersShowLines`. It needs no more of a log than that it
  is a sequence of lines. `RingHolds` follows the ring array line by line, and
  `RecentAreNewest` reads it from `start`; `PagesAreLines` puts the pages
  together, each line at the place that quotient and remainder give it, and `PageIsShown`
  says that the page the viewer falls back to has a line on it.

### The virtual disk

Both theorems (`VirtualHddProofs`) rest on one classification: `SomeStep` finds for each
action of a window the disk `disk1` its system call leaves and the place `next` it goes
to, and `Step` says what all have in common.

* **`DataIsKept`**: `Spec => KeepsData`, for any number of windows and names, with the
  exceptions of `MayDestroy` (section 3). The
  invariant `HddInv` says that the directories are a tree of names (`Tree`): what has a name
  has one and exists, and a folder that has names in it has a name itself. The last
  is what `rename` and `remove` could break, which take the name from a folder; they take
  it from an empty one only. Then what is open exists, the check of a window nobody has
  overtaken holds (`Checked`), and there is an inode for whoever may still make
  something (`Room`). One lemma per system call says what it makes of names and data
  (`MadeInAdds`, `TruncateEmpties`, `WriteFills`, `RenameMoves`, `RemoveUnlinks`), and
  `CollectedLooks` that giving inodes back takes nothing away.
* **`CopiesAreCopies`**: `Spec => []CopiesAgree`. `CopyGrows` is the invariant of a copy
  several windows make: each block of the source is in the copy, or a window that is
  undisturbed and makes the same copy has it still before it (`Awaited`). So a window
  that empties the copy is one of those who will write all of it, and a block written
  behind the end leaves holes only where somebody will write. The type invariant
  of the disk is part of `CopiesAgree` and follows from `Tree`, name by name where
  `TypeOK` counts (`TreesCount`).

### What the proofs showed about the model

`KernelLinesInOrder` was not inductive, and for a reason: with seven lines
instead of five TLC finds a log that is cleared under a rewrite, rotated, and cleared again
while that rotation reads, after which old lines come back behind new ones.
`SystemLog`'s `cleared` therefore stays until what such a rewrite left is gone, from
the log and from what the daemon has read, and not until the next clearing. The
code is the same; what is promised of it is.

`CopiesAgree` was false with four commands, which the run does not reach: a window
whose source is changed while it holds an old block writes that block into the copy
another window has since made of the new source. The other one was not counted as disturbed,
because both make the same copy. `Disturbs` of `VirtualHdd` now lets pass only who makes
the same copy and is undisturbed itself; the promise is as strong as the code allows.

`ReadersShowLines` is false for some constants: with a ring shorter than what is shown the
task manager would show a line twice, and with no line to a page the viewer would divide
by zero. `ReadersAssumption` says so; the source's constants (a ring of 100 for 15 lines,
15 lines to a page) satisfy it. `MonthIsRight` is proved for years after 0 only, where C's
division and that of TLA+ are the same; the program starts at the present year.

### Only model-checked

* Liveness under fairness (`ReadyIsDispatched`, `DeadGiveBack`, `ThreadsStop`,
  `DeadAreReaped`, `Ends`, `RequestIsServed`, `LeavingEnds`, `LoopEnds`,
  `ShutdownEndsAll`): TLAPS reasons about neither `ENABLED` nor fairness.
* The properties of the configurations of section 4, which are false.

Every safety invariant and every action property of the passing runs is a theorem.

Induction and folds are not out of reach: `LeastExists` (`CountingLemmas`) gives the
least counterexample among the natural numbers, and with it come `CountingInduction`
and `SubsetInduction`, each stated for a set instead of a predicate.
`FoldExists` and `RunExists` make of a fold over a sequence its values turn by turn, and
`SumExists` does the same for a sum over a finite set. What the provers know
nothing of is `SelectSeq` and the other recursive definitions of the libraries, for
which reason the loops of the code are folds here.

## 6. What is not modelled

* The calculator, the games and the guide: one process each, with floating-point
  numbers, random numbers or fixed texts, and nothing shared.
* In the shell: the dialogue for RAM, HDD and cores, a `fork` that fails, pids
  that are used again, Ctrl+Z at the menu itself, and the hang-up of the whole
  terminal.
* `acquire_core` in `SignalLocks`, and locks within the C library.
* In the file tools: write errors (the disk is never full, though `copy_file.cpp:56`
  does not look at what `fwrite` returns), names with a slash, more than the hundred
  files a list has room for, and a directory that is changed while it is listed.
* Two editors started in the same second, which write the same note.
* The viewer's filter, which makes of the log a shorter one; the HDD's half of the
  dashboard, which is the RAM's over again.
* The wording of log lines and messages.

## 7. Plan

The order in which the modules were and will be written, the most important
behaviour first:

1. *Done:* the kernel and its components, the ring buffer, the handshake, the
   detector, the log, the editor and the list; type correctness, the queues
   and the accounting of memory proved.
2. *Done:* the locks under the signal handler, with the proof of their order; the
   virtual disk; the terminal, its jobs and signals; the log's readers; the
   timers and the calendar.
3. *Done:* proofs: the scheduler's queues and order, conservation as a sum, the
   handshake and the ring buffer with their refinements, the search, the editor, the
   timers, the calendar, the terminal, the log and its readers, the list and the virtual
   disk.
4. A failing `fork`: `bg_tasks` and `foreground_task` with a pid of -1, for which
   `waitpid` takes any child.
