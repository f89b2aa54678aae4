# Verification of the kernel, the CPU and the programs around them

The repository is a small distributed operating system: a **console** sends
commands to a **kernel**, the kernel schedules processes and sends them to a
**CPU**, the CPU asks a **memory** module for instructions. This directory
holds TLA+ modules of its core, of what a process computes and of the connections
between its programs, TLC configurations that check them and proofs that TLAPS
checks. Paths below are relative to `src/`.

## The system

| Component | State it keeps | Operations | Speaks to | What makes it correct |
|---|---|---|---|---|
| kernel queues (`kernel/src/queues.c`) | `queue_new`, `queue_ready`, `queue_exec`, one blocked queue per resource, the PCBs of the heap | the moves between queues, `finish_process` | memory | a process is in one place; a finished one is nowhere; no freed PCB is used |
| planners (`kernel/src/planners.c`, `semaphores.c`) | `sem_long_term_planner`, `sem_short_term_planner`, `sem_multiprogrammming_degree`, `sem_process_new/ready/blocked`, `sem_cpu_available` | long and short term loops, three algorithms, the quantum interrupt | CPU, both sockets | counts match queues; the CPU gets one process; the degree is kept |
| resources (`kernel/src/deadlocks.c`) | `all_resources_instances`, the resource list of each PCB | WAIT, SIGNAL, release at the end, `check_deadlocks` | CPU dispatch socket | no count is negative; instances are neither lost nor minted; a cycle is reported |
| connection threads (`kernel/src/handle_connection.c`) | `id_to_assign`, `mutex_stopping_planner`, sleep threads | the commands of a console, the requests of the CPU, sleeping | console, CPU | every command ends; STOP stops; a sleeper comes back |
| CPU (`cpu/src`) | the PCB it runs, `has_interrupt`, `mutex_interrupt` | `execute_process`, the interrupt listener | kernel, memory | a process is sent back once; the mutex is given back |
| memory (`memory/src`) | page tables, frames | instruction fetch, paging | CPU, kernel, filesystem | the instruction at the program counter is the one returned |
| shared (`shared/src`) | none | PCB and package serialisation, connecting, sockets | all | what is taken is what was added; a connection that fails or ends harms nobody else |
| console (`console/src`) | none | menu and script files | kernel | what is typed is what is sent |
| filesystem (`old/filesystem/src`) | free swap blocks | greeting, swap | memory | a process gets its blocks |
| io | none | does not compile | - | - |

Every kernel thread shares the heap of PCBs, the queues and the semaphores:
one thread per console connection, the two planners, the dispatch listener, and
one thread per sleeping process. The CPU has one thread per socket. The
dispatch socket carries processes down, and requests and interrupted processes
up; the interrupt socket carries bare `INTERRUPT_QUANTUM` headers.

What is hard here: a PCB is *copied* whenever it crosses the socket while
`queue_exec` keeps the original; semaphores are posted before or after the
queue operation they count; `finish_process` runs on two kinds of threads with
no lock over its steps; an interrupt can meet any instruction or the next
process; `STOP_PLANNING` takes the planners' tokens from them; the programs are
started by hand, each connects once and looks at no result, and nobody notices
the end of a connection. `PROJECT.json` lists each hazard at its line with the properties aimed at it.

## Modules

| Module | Models |
|---|---|
| `Shared` | PCB, instructions, the messages and sockets between kernel and CPU, `Fetch` for the memory's answer |
| `Kernel` | `kernel/src`: one action per step of every handler, planner and helper |
| `Cpu` | `cpu/src`: the two threads of the CPU |
| `System` | both composed, scheduling (`Next`, `Fairness`) and all the properties |
| `Lifecycle` | the abstract scheduler: one stage per process, the arrows of the state diagram |
| `MCSystem` | programs, scripts and constants for TLC |
| `Link` | the abstract connection: whole messages, each once, in each sender's order |
| `Framing` | `shared/src`: packages over a socket, and the reading ends in kernel and memory |
| `MCFraming` | messages and links for TLC |
| `Machine` | the abstract process: a program on registers of 32 bits that nothing interrupts |
| `Execution` | the instructions and the copies of one PCB on their way between kernel and CPU |
| `MCExecution` | programs and a small width for TLC |
| `Network` | the five programs: starting, connecting, greeting, the traffic of a process from console to end, the end of a stream |
| `MCNetwork` | two sessions of a user for TLC |
| `SeqLemmas` | lemmas about `RemoveFirst`, `Append`, `Tail` and element replacement |
| `SystemProofs`, `SafetyProofs`, `ExclusionProofs`, `PlacementProofs` | theorems about `System` |
| `ExecutionProofs`, `NetworkProofs` | theorems about `Execution` and `Network` |

State corresponds to the code name by name (`queue[Ready]` is `queue_ready`,
`sem["cpu"]` is `sem_cpu_available`, ...). `pc[t]` is where thread `t` is,
`ptr[t]` its PCB pointer, `fin[t]` the locals of a `finish_process` call. A
pointer is an index of `heap`; `freed` says which ones `destroy_pcb` took.
`detector` has the locals of `check_deadlocks` and of the two functions below it,
`frame` what the dead frame of the last `block_process` names.

### Grain of a step

* An operation on a queue under its mutex is one step, and so is each access to
  shared data that no mutex protects. A WAIT tests the count
  (`deadlocks.c:184`), loads it again (97) and stores it (98): three steps, and a
  console's kill can load and store between any two of them.
* `check_deadlocks` reads without a mutex and is a loop of steps: one per blocked
  queue that `get_required_resource` searches, one per `queue_size`, per
  `list_get`, per retained list, and one per line of the log, in the middle of the
  loop. A console that answers the first line with a kill meets the rest of
  it: an element that is gone (NULL) or a process that is on no blocked queue any
  more, for which `get_required_resource` returns no value (`DetectorDangling`).
* A sleep thread reads its arguments, pops `queue_exec` and, after `usleep`,
  pushes its process: three steps, at any distance from each other and from the
  dispatch thread, which posts `sem_cpu_available` and waits for none of them.
* `sem_wait` joins the local work behind it and `sem_post` the step before it;
  receiving a message joins the first step of its handler.
* Undefined behaviour is nondeterminism or `Crash`. NULL or freed memory
  dereferenced: the kernel stops there. `id_to_assign++` reads the variable once
  or twice. A sleep thread reads its arguments from the frame of a function
  that returned: it finds those of the last call of `block_process`, its own or a
  later one, or no address at all. `sort_by_priority` compares a field `t_pcb` does not
  declare (`shared/src/process.c:216`; the tree needs it restored to compile),
  so the order it leaves is any.

### Sleep threads that keep up

Nothing in the code makes a sleep thread take its process off `queue_exec` before
the next process is there and asks for something, or read its arguments
before they are overwritten: it has the time of one trip to the CPU, and needs less
than that on a machine that is not loaded. `Spec` lets it be as late as can be.
`TimelySpec` is `Spec` restricted to steps that satisfy `KeepUp`: a sleep thread
finds its own arguments, and the dispatch thread takes no message while a sleep thread
has not popped. This is a hypothesis on the scheduling and not a translation of any line.

What it excludes does go wrong. p sleeps and its thread is late, q is dispatched:
`queue_exec` is [p, q]. q's WAIT of a resource without instances blocks the head, p
(`queues.c:297`); the sleep thread then pops q. p is on a blocked queue and asleep, q is
nowhere. Without `KeepUp`, `OnePlace`, `NoCrash`, `FinishedIsGone` and
`RefinesLifecycle` are false of `sys_fifo`; `CpuExclusive`, `ReadyTokens` and
`AvailableNonNegative` are not disturbed, and the first and the last are proved of `Spec`.
So each run and theorem says which of the two it is about:

* `Spec`: `sys_rr` (nothing sleeps in it), `sys_race` (two sleep, late and with
  overwritten arguments), `v_stop`, `v_wedge`, and the theorems of `SystemProofs`, `SafetyProofs`
  and `ExclusionProofs`;
* `TimelySpec`: `sys_fifo`, `sys_deadlock`, `v_minted`;
* the theorems of `PlacementProofs`: `TimelySpec` for programs that sleep, `Spec` for
  programs that do not.

### Abstractions

Resources are numbers, a program is a list of `CPU`, `SLEEP`, `WAIT`, `SIGNAL`
and `EXIT` (an instruction that touches registers only is `CPU`). A message is
sent and received whole, which `Framing` justifies for the dispatch socket. The
memory module always answers and connections stay open: what happens otherwise
is in `Network`. A
kernel that crashed takes no further step. `MODIFY_MULTIPROGRAMMING_DEGREE` is
accepted by the kernel though this console has no menu entry for it; `sys_rr`
sends it, as any client of the kernel's port can. `sem_init` of the semaphore
the long term planner sleeps on leaves it there for good or not (label `"lost"`).

`create_pcb` also reads `process->quantum`, a field `t_process` lacks
(`kernel/src/handle_connection.c:352`); nothing in the scheduler depends on it.

### Framing

`Framing` has one wire: what `send_package` puts on it in three calls of
`send_all`, and what `receive_header` and `receive_payload` take off it. A cell
is one byte of a header or a size, or a whole integer or text; each `send` and
`recv` moves any number of cells, so a package is cut everywhere. `Added` and
`Taken` are the two lists of fields of every message, as the code writes them
down twice; the take functions walk the buffer by its offset as the code does.
`phase` is where the reading thread is: at a header, a size or a payload, or gone
for good: `"returned"` (default case of the dispatch thread), `"spin"` (the memory's
`handle_finish_process`) or `"undefined"` (taking behind the end of a buffer).

Three links are examined, `console`, `dispatch` and `memory`. On the dispatch
socket one thread writes at each end at a time while `CpuExclusive` holds, so
`RefinesLink` is what entitles `Shared` to model it as two queues of messages. On
`memory_connection` every kernel thread may write.

### Execution

`Execution` follows one process and all copies of its PCB: `kept` is what the
kernel's queues hold, `down` and `up` are in the dispatch socket, `process` is the
CPU's. `System` says who runs when; here every scheduling is possible: `place` is
where the kernel has the process, and whether a WAIT is granted, blocks or ends it
is the environment's choice. A register is a cell of a list of pointers in the CPU
(64 bits), a `uint32_t` on the wire, and an `int` or `uint32_t` while it is
computed with; `Half` is 2^31. JNZ does not jump: it inserts its number in front of
the register it tests (`instruction_execution.c:79`).

`Machine` is the promise: the program in order, in 32 bits, as if nothing moved it.
It has one exception, `SetBack`, because the code has: a WAIT that blocks drops the
PCB that arrived and queues the one in `queue_exec`, which is as it was when last
dispatched (`queues.c:297`), so the process does again what it did since then.

### Network

`Network` has the five programs and the six connections between them. A main
connects in its order and goes on whatever comes of it: a refused connection is a
descriptor on which sends fail and `recv_all` never returns
(`sockets.c:56-61, 86-97`); only the console leaves. A server's thread reads a greeting and enters the function of
its `switch`. Behind that travels what one process causes, as headers: CREATE to
kernel, memory and filesystem, EXECUTE, an exchange of INSTRUCTIONS and INSTRUCTION
for each instruction, FINISH to kernel and memory. A program may die of the end of a
stream: `receive_header` returns a byte it has not set, and each `EndOf...` action
takes every case the thread's `switch` has for one. The filesystem is the one in
`old/`, the only one the tree has; the scripts in `scripts/` start it.

The session of a user is lines typed at the menu or the lines of a script file,
which keep their newline (`console.c:34-38`): a command without argument in the
middle of a script is not `Recognised`.

## What is checked

The `sys_` runs use `MCSystem`, `links` uses `MCFraming`,
`execution` `MCExecution` and `network` `MCNetwork`. Deadlock checking is off
because the kernel rests when there is no work left, and a reader when nothing
comes.

| Run | Question | Instance | States |
|---|---|---|---|
| `sys_fifo` | Do semaphores match queues, is a process in one place, does the scheduler refine the lifecycle, does every process end? | FIFO, degree 2, three processes for one instance of one resource, two of them asleep while they hold it; `TimelySpec` | 37,729 |
| `sys_rr` | Does the CPU get one process at a time when interrupts come at any moment, and does STOP freeze? | ROUND_ROBIN, two processes that WAIT for one instance, one of which then signals it twice and the other asks for a resource there is not; degree 1 raised to 2 while the planner may wait for it, a STOP | 91,245 |
| `sys_deadlock` | Is a circular wait reported, and is the kill of a blocked process clean? | PRIORITIES, degree 3, two resources in opposite orders, then processes that signal what they do not hold or name no resource; the kill comes as soon as the log has the name, or later; `TimelySpec` | 269,921 |
| `sys_race` | Can the unprotected counts go wrong? | PRIORITIES (`queue_ready` in any order), a second console whose kill comes at any moment, while the first still creates the two processes that WAIT too; sleep threads that pop late or find their arguments overwritten | 1,525,412 |
| `links` | Do packages arrive whole, in order and field by field? | the five commands of a console, the CPU's four requests, CREATE and FINISH to memory; six cells in the socket | 1,087 |
| `execution` | Does a process compute the same whatever interrupts it? | one of three programs with sums and differences that overflow, WAIT, SIGNAL, SLEEP and JNZ; integers of three bits; any interrupt, any WAIT granted or not | 1,456 |
| `network` | Does starting, refusing or leaving harm what does not depend on it? | five programs started in any order; a script with planning first and last, or two processes at the menu; two instructions each | 536,681 |

Properties (in the components' modules, stated there with the lines they are about):
`TypeOK`; `CpuExclusive` (one token for the CPU, wherever it is: semaphore,
planner, socket, CPU, dispatch thread); `ReadyTokens` (`sem_process_ready`
against `queue_ready`, step by step); `OnePlace` (each process is on one queue, in one
thread's hands, asleep or freed, and there once, whatever copies of its PCB are
made); `NoCrash`; `FinishedIsGone`;
`AvailableNonNegative`; `ExecHeadIsSender` (the process popped blindly is the
one the message is about, although a sleeper stood before it: it leaves out the
moments in which the sleep thread has yet to pop, in which `KeepUp` has the dispatch
thread take no message); `StopFreezes`; `CycleReported`; `RefinesLifecycle`
(`Lifecycle!Spec` under the mapping `StageOfPid`, with the largest degree there
will be); `AllFinish` (liveness). `sys_deadlock` does not claim `NoCrash`: the kill that
answers the first line of the log may find the detector in its loop, and the kernel dies
of it. `CycleReported` asks for the report once the detector is through. Of
`links`: `RefinesLink` (`Link!Spec`) and `Delivered` (every message is acted on,
unless the memory's thread met the `FINISH_PROCESS` it does not survive). Of
`execution`: `TypeOK` (with the 32 bits of what travels), `OneTraveller` (one copy
under way, and only while `queue_exec` has the process) and `RefinesMachine`
(`Machine!Spec`). Of `network`: `TypeOK`; `RightHandler` (a thread runs the function
written for the client at the other end); `DiesOfAPeer` (a program dies of a
peer it is connected to, never of a refusal); `Served` (liveness: what a console created ends once planning was asked for,
although the memory's thread is lost with the first process that ends, and even
when the kernel reached no memory or the memory no filesystem; needed are the dispatch
and the fetch connection).

Bounds. Two or three processes, one or two resources, one console (two in `sys_race`) and four or
five (in `sys_deadlock` seven) commands: enough for a waiter, a holder and an overtaker of each semaphore,
and for the interleavings of one `finish_process` on the dispatch thread with one
on a console. `MaxIrq = 1` bounds the interrupt headers in the socket; two
undelivered quanta do no more than one, as the flag is a boolean. `KillAfter`
lets the operator kill once the log names a process; `Kill` at any time. In
`links` a socket of six cells is smaller than every package with a PCB, so
senders block in the middle of one; texts, registers and resources all differ, so
a field taken for another shows; the two lists occur empty and with elements.
In `execution` a width of three bits is enough for each sum and difference to overflow
and change sign, and the proofs hold for every width. In `network` two processes are
enough for the second to meet a memory whose thread is lost, and two instructions
for a fetch that another message can overtake.

Fairness. Each thread is weakly fair as a whole: the operating system runs a
thread that can go on, a blocked `sem_wait` or `recv` is not enabled, and
`usleep` returns. No step inside a thread and no outcome of a race has fairness
of its own. In `Framing` the reader and each writer are weakly fair: `send` blocks
only while the socket is full, `recv` while it is empty. In `Network` each server's thread, each main, the
kernel's planners and its dispatch thread are weakly fair; nobody is obliged to start
a program, to type or to leave, and the ends of a stream are not fair, because the byte
that is read may be any one every time. `Execution` has safety only.

### What the code does not keep

Five runs show a disagreement between the code and what the repository says
(`PROJECT.json`, findings):

* `v_stop`: `STOP_PLANNING` waits for tokens that an idle planner holds while it
  waits for work, so the console's connection hangs and a later
  `START_PLANNING` is never read.
* `v_minted`: WAIT and SIGNAL change the travelling copy of a PCB; the stale
  list in `queue_exec` is released at the end, and `RESOURCES_INSTANCES` grows.
* `v_wedge`: an interrupt that meets an instruction that ends the execution
  leaves `mutex_interrupt` taken, and the CPU stops for good.
* `v_mixed`: no sender takes `mutex_memory_connection`; the packages of two
  consoles that create processes mix on the wire, and the memory takes bytes of
  one for fields of the other.
* `v_closed`: when a console leaves, the kernel takes a byte that was never set for a
  command with a payload and dereferences NULL.

Five more are visible in the models without a run of their own. A sleep thread that
pops late lets a WAIT block the wrong process (above). A kill in answer to the
first DEADLOCK DETECTED line can reach the detector in the middle of its loop
(`deadlocks.c:39-43, 67-76`): NULL, or a required resource that was never returned; in
`sys_deadlock` the kernel stops there. The memory's
`handle_finish_process` reads from the address of the library function `socket`
and `recv_all` compares an unsigned -1 with 0 (`Delivered` allows the reader its
`"spin"`, `Network` loses the thread). Killing the process that executes frees it
in the kernel while the CPU goes on with it (the code says TODO; `sys_race` has
it). And the rollback of a WAIT that blocks is the promise's one exception.

The passing runs avoid exactly these: `sys_fifo` ends its script before
stopping, `sys_rr` asks no liveness, `sys_deadlock` kills a blocked process and claims no
`NoCrash`, and no passing run claims that instances are conserved;
`links` has one writer at a time and allows the memory its `"spin"`; `Served`
gives up when someone has gone.

## What is proved

TLAPS checks every leaf; the constants are arbitrary (any set of consoles, any
scripts, programs, degree, algorithm), under the assumptions named in `Shared`,
`Kernel` and `Cpu`.

* `SystemProofs!TypeCorrect`: `Spec => []TypeOK`. `TypeOK` is inductive because
  it contains `LocalOK`: what each thread relies on between two labels (a
  pointer that is not NULL, an index inside the queues, an answer to send).
  Without it a step could push NULL or index past the blocked queues. The proof
  goes thread by thread, one step per action.
* `SafetyProofs!CountsNeverNegative`: `Spec => []AvailableNonNegative`. The
  inductive invariant `CountsOK` adds to the property what has been loaded and not
  stored: a quantity in a `finish_process` frame, the value in the dispatch
  thread's answer. A WAIT decrements what it loads after the test, not what it has
  tested; but only the dispatch thread ever decrements. What another thread stores between
  the test and the second load is a count it loaded, never negative, plus one: the count that
  was tested positive is positive still, and even a lost update cannot make one negative.
* `ExclusionProofs!CpuExclusion`: `NoKill => (Spec => []CpuExclusive)`.
  `CpuTokens` never increases: each lemma shows it for one thread
  (`FinishTokens`, `ConsoleTokens`, `ShortTokens`, `DispatchTokens`, ...). The
  hypothesis `NoKill`, that no console sends FINISH_PROCESS, is needed: the kill of
  an executing process posts `sem_cpu_available` while the CPU runs it
  (`queues.c:174-178`). With it no console is ever inside
  `finish_process` (`ConsolesIdle`), the other half of the invariant.
* `PlacementProofs`, for every orderly system: `ProcessesStayApart` (`OnePlace`),
  `NeverCrashes` (`NoCrash`), `ReadyCounted` (`ReadyTokens`), `SenderHeadsExec`
  (`ExecHeadIsSender`), `FinishedForGood` (`FinishedIsGone`) and `DeadlocksReported`
  (`CycleReported`). See below.
* `SafetyProofs!StopIsKept`: `OneOperator => (Spec => StopFreezes)`, kills and changes
  of the degree included. The invariant `Gate` is a count: each planner has one token, on
  its semaphore, with the planner at work or, while the planning is stopped, on
  `mutex_stopping_planner`; a STOP under way has posted the last before it has taken
  the first two. `OneOperator` says that one console at most sends START or STOP:
  a second one may start what the first has stopped.
* `ExecutionProofs`: `PcbTypes`, `OneTravellerHolds` and `Refinement`, for every set of
  programs and every `Half`. The inductive invariant adds to the first two what
  ties the copies together: in the middle of a cycle `queue_exec` has the process
  (`CycleRuns`), a message is about the instruction the counter is at
  (`AskedFor`), and so is a sleep (`AsleepFor`). The arithmetic that makes
  `Int32`, `Uint32` and `Sent` agree modulo 2 * `Half` is in lemmas of its own. Each
  action is then a step of `Machine` or a stutter.
* `NetworkProofs`: `DeathIsAPeers` and `HandlerIsRight`, for every set of sessions and
  every length. `LinkOK` is the invariant of one connection: an accepted one is
  open, and the first message on it, as long as its thread has not read one, is
  its client's greeting. Every action but `Start` and `Connect` changes a link in one of
  four ways (`LinkStep`) and kills at most a program whose peer has gone (`Deaths`);
  a connection is made once (`Untried`), so the peer that explains a death stays one.
* `NetworkProofs!TypeCorrect`: `TypeOK` of `Network`, the counters included. `Token` says
  that one process at a time is away from the kernel: on its way to the CPU, in it or on its
  way back, and only while the kernel is `busy` with it (the kernel's greeting counts as
  one more until the CPU has read it); `Count` says that commands on the wire, processes
  waiting, the one away and those that ended are no more than the lines typed.

### The argument of `PlacementProofs`

The hypothesis is `Orderly`, two conditions the code needs and does not enforce:

* `NoKill`: no console sends FINISH_PROCESS. The kill of an executing process frees a PCB
  the CPU works for and posts a token too many (`queues.c:174-178`).
* `OneCreator`: one console at most creates processes. `create_pcb` reads and increments
  `id_to_assign` without a lock (`handle_connection.c:350, 368`), and `finish_process` and the
  operator know a process by its pid.

Each theorem has two parts. Of any programs it says `TimelySpec => []P`, while the sleep
threads keep up. Of programs that do not sleep (`NoSleep`) it says `Spec => []P`, every
interleaving there is: such a system has no sleep thread (`Sleepless`), so every step of
it satisfies `KeepUp` (`SleeplessStep`), and the same invariant serves.

`sys_fifo` and `sys_rr` are orderly systems; they start, sleep, wait, block, wake, are interrupted,
change the degree and stop. `sys_deadlock` goes further than the theorems: there `ReadyTokens`,
`CycleReported` and `FinishedIsGone` are checked with the kill of a blocked process, in the midst
of the detector's loop too.

The inductive invariant `Inv` adds to `TypeOK`, the tokens of the CPU and `OnePlace`:
`ExecOK` (`queue_exec` has a process whose sleep thread has yet to pop it, then the one on
the CPU, and everything under way in sockets, CPU and dispatch thread is about the latter);
`SleepersOK` (at most one sleep thread has yet to pop `queue_exec`, its head is the process it
was made for, and the dispatch thread is at its next message); `FinishOK` (the locals of `finish_process`:
where the process was found, and that the waiter is still on the queue it was read from);
`DetectOK` (the detector's pointers: what it reads by position is on the queue whose size it
read, and whom it checks is on a blocked queue); `PidsOK` (pids are given out in increasing
order); `StateOK`; `CountOK`. None of the six
properties is inductive without the others: `NoCrash` at `list_remove` of
`queue_exec` needs `ExecOK`, `ExecOK` at the pop of a sleep thread needs `SleepersOK`,
and that nothing is popped that was freed needs `OnePlace`.

The proof has one lemma per action, about the part of the invariant that the action
can disturb. A move between two places is shown with `PushOnce`, `PopOnce` and
lemmas on how a step that moves one pid keeps `Apart`. `CycleReported` needs in addition
that it is kept from the moment the last member of a cycle blocks until the detector is through
(`CycleOK`): a cycle without the process that has just blocked was there before and is
reported. One with it has a member that retains what the blocked process requires; once
the detector has passed that member (`Evaluated`), the log has the blocked process's pid
(`CoveredOK`), and when it is through it has passed every one.

### Only model-checked

`RefinesLifecycle` (its safety is within reach with `Inv`, see the plan) and
`RefinesLink`, whose module `Framing` has no proofs. Liveness (`AllFinish`,
`Delivered`, `Served`) is beyond the prover and stays with TLC.

## Not modelled

* `show_all_processes` (it writes nothing; that it may read a freed PCB is a hazard no
  run covers), `handle_interrupt_connection` of the kernel and the page
  fault thread (the CPU never sends what they wait for), `BLOCK_PROCESS`.
* Two consoles that create at once, in a run: `sys_race` has a second console, but it only
  kills; two that create are eight to ten million states. `create_pcb` reads and increments
  `id_to_assign` without a lock, so two processes may get one pid, and the code promises
  nothing about it. `TypeOK`, `AvailableNonNegative` and `CpuExclusive` are proved for
  any number of creators; `PlacementProofs` has `OneCreator` as a hypothesis.
* Paging. `create_page_table` is commented out
  (`memory/src/handle_connection.c:156`), so `page_table_list` is empty for ever, the
  MMU is never called, and no program sends `GET_FRAME`, `PAGE_FAULT`, `READ_MEMORY` or
  `WRITE_MEMORY`: no state in which these handlers do anything can be reached.
* Swap and FAT. The memory does not greet the filesystem, whose thread therefore
  returns with its first message (`RightHandler` says so) and never reserves a
  block; what `filesystem.c` has of a FAT is commented out.
* `io`: it greets with a header that `t_operation_code` does not have and does not
  compile. `old/cpu` and `old/memory` are the same files as `cpu` and `memory`.
* The names of files, configuration files, logging.

## Plan

Done: the scheduler (`Shared`, `Kernel`, `Cpu`, `System`) and its abstract
lifecycle; the connections (`Link`, `Framing`); what a process computes (`Machine`,
`Execution`); the programs from start to end (`Network`); theorems in six modules
and the lemmas on sequences they share.
In order of importance, what is left:

1. proofs: the refinement of `Lifecycle` for orderly systems, step by step from `Inv`.
   What is missing is the account of the degree (`sem_multiprogrammming_degree` plus
   the processes admitted, until a console sets it anew) and that `StageOfPid` changes
   for one pid at a time; then that a reader's cells and the wire make up
   what was sent (`Framing`);
2. two consoles that both write: two `finish_process` calls in their wake loops at
   once (`queues.c:160-165`), two STOPs, two creations;
3. `show_all_processes` as steps of `Kernel`, with the read of a freed PCB as a crash.
