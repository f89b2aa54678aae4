-------------------------------- MODULE Kernel --------------------------------
(***************************************************************************)
(* The kernel (src/kernel): a thread per console, the long and the short   *)
(* term planners, the thread of the dispatch socket and one thread per     *)
(* sleeping process, over five queues, a heap of PCBs and ten semaphores.  *)
(*                                                                         *)
(* A step is a semaphore wait with the local work behind it, or one access *)
(* to shared state with the posts behind it: an operation on a queue under *)
(* its mutex is one step, a read or a write without a mutex is one step.   *)
(***************************************************************************)
EXTENDS Shared, SequencesExt

CONSTANTS
    Console,        \* connections accepted on the console port
    Script,         \* the commands each console sends, in order
    Algorithm,      \* PLANNING_ALGORITHM
    Degree,         \* MULTIPROGRAMMING_DEGREE
    MaxIrq          \* bound: interrupt headers the socket buffers

Command ==
    [op : {"CREATE_PROCESS"}, path : Path]
        \cup [op : {"FINISH_PROCESS"}, pid : Nat, after : BOOLEAN]
        \cup [op : {"STOP_PLANNING", "START_PLANNING"}]
        \cup [op : {"MODIFY_MULTIPROGRAMMING_DEGREE"}, degree : Nat]

ASSUME ScriptAssumption == Script \in [Console -> Seq(Command)]
ASSUME AlgorithmAssumption == Algorithm \in {"FIFO", "ROUND_ROBIN", "PRIORITIES"}
ASSUME DegreeAssumption == Degree \in Nat
ASSUME MaxIrqAssumption == MaxIrq \in Nat
ASSUME ConsoleAssumption == Console \cap {"long", "short", "dispatch"} = {}

Finisher == Console \cup {"dispatch"}           \* threads that call finish_process
Thread == Finisher \cup {"long", "short"}

\* build_all_queues_in_list: the index of every queue.
New == 1
Ready == 2
Exec == 3
Blocked(resource) == 3 + resource
QueueIndex == 1 .. 3 + Len(Instances)

\* sem_short_term_planner, sem_long_term_planner, mutex_stopping_planner,
\* sem_multiprogrammming_degree, sem_process_new, _ready, _blocked, sem_cpu_available
Semaphore == {"short", "long", "stopping", "multi", "new", "ready", "blocked", "cpu"}

FinishLabel == {"find", "inspect", "mark", "release", "credit", "unlink", "wake",
                "loop", "get", "move", "drop", "count", "notify", "settle"}
ConsoleLabel == {"listen", "assigned", "create", "admit", "stopShort", "stopLong"}
                    \cup FinishLabel
DetectLabel == {"require", "scan", "evaluate", "retain", "logChecked", "logEvaluated"}
DispatchLabel == {"listen", "requeue", "block", "load", "store", "respond"}
                    \cup FinishLabel \cup DetectLabel
ShortLabel == {"planner", "ready", "cpu", "sort", "pop", "push", "send", "quantum"}
LongLabel == {"planner", "degree", "lost", "new", "push"}

Ptr == Nat  \* an address of the heap; 0 is NULL

Frame ==
    [pid : Nat, index : Nat, previous : ProcessState, item : Nat,
     position : Nat, quantity : Int, waiter : Ptr]

NoFrame ==
    [pid |-> 0, index |-> 0, previous |-> "NEW", item |-> 0,
     position |-> 0, quantity |-> 0, waiter |-> 0]

NoResponse == <<>>

Response ==
    [op : {"WAIT_RESPONSE", "SIGNAL_RESPONSE"}, pcb : PCB, resource : Resource, value : Int]

Sleeper == [key : Ptr, args : Ptr, phase : {"start", "read", "asleep"}]

\* The locals of check_deadlocks and of the calls below it; lists count from 1, and
\* a required resource 0 is what get_required_resource leaves when it falls off its end.
Detector ==
    [required : Nat, list : Nat, size : Nat, position : Nat, evaluated : Ptr, walk : Nat]

NoDetector ==
    [required |-> 0, list |-> 1, size |-> 0, position |-> 1, evaluated |-> 0, walk |-> 1]

VARIABLES
    commands,   \* how many commands each console's thread has received
    pc,         \* where each thread is
    ptr,        \* each thread's PCB pointer
    fin,        \* locals of a finish_process call, per thread that can make it
    response,   \* what the dispatch thread is about to answer to WAIT or SIGNAL
    detector,   \* locals of the dispatch thread's check_deadlocks
    frame,      \* the process the dead frame of the last block_process names
    sem,        \* the semaphores that are not mutexes of one structure
    queue,      \* queue_new, queue_ready, queue_exec, list_of_queue_blocked
    heap,       \* every PCB allocated, by address
    freed,      \* addresses given to destroy_pcb
    available,  \* all_resources_instances
    idToAssign, \* id_to_assign
    sleepers,   \* live sleep threads
    reported,   \* pids named by a DEADLOCK DETECTED line
    crashed     \* NULL or freed memory was dereferenced: the run ends here

locals == <<pc, ptr, fin, response>>
memory == <<heap, freed>>
idle == <<idToAssign, reported, crashed, detector, frame>>
inert == <<commands, response, available, sleepers, idle, channels>>
kernelVars == <<commands, pc, ptr, fin, response, detector, frame, sem, queue, heap, freed,
                available, idToAssign, sleepers, reported, crashed>>
vars == <<kernelVars, channels>>

\* What the thread relies on between two labels: a pointer that is not NULL, an
\* index that is one, an answer to send.
LocalOK(t) ==
    /\ t \in Console /\ pc[t] \in {"assigned", "create", "admit"} => ptr[t] # 0
    /\ t = "long" /\ pc[t] = "push" => ptr[t] # 0
    /\ t = "short" /\ pc[t] \in {"push", "send"} => ptr[t] # 0
    /\ t = "dispatch" /\ pc[t] \in {"requeue", "block"} \cup DetectLabel => ptr[t] # 0
    /\ t = "dispatch" /\ pc[t] = "block" => fin[t].item \in Resource
    /\ t = "dispatch" /\ pc[t] \in DetectLabel \ {"require", "scan"}
           => detector.list \in Resource
    /\ t = "dispatch" /\ pc[t] \in {"load", "store", "respond"} => response \in Response
    /\ t \in Finisher /\ pc[t] \in FinishLabel => fin[t].index \in QueueIndex
    /\ t \in Finisher /\ pc[t] \in {"loop", "get", "move", "drop", "count"}
           => fin[t].item \in Resource

KernelTypeOK ==
    /\ \A t \in Thread : LocalOK(t)
    /\ commands \in [Console -> Nat]
    /\ pc \in [Thread -> ConsoleLabel \cup DispatchLabel \cup ShortLabel \cup LongLabel]
    /\ \A c \in Console : pc[c] \in ConsoleLabel
    /\ pc["dispatch"] \in DispatchLabel
    /\ pc["short"] \in ShortLabel
    /\ pc["long"] \in LongLabel
    /\ heap \in Seq(PCB)
    /\ ptr \in [Thread -> 0 .. Len(heap)]
    /\ fin \in [Finisher -> Frame]
    /\ \A t \in Finisher : fin[t].waiter \in 0 .. Len(heap)
    /\ response \in Response \cup {NoResponse}
    /\ detector \in Detector
    /\ detector.evaluated \in 0 .. Len(heap)
    /\ frame \in 0 .. Len(heap)
    /\ sem \in [Semaphore -> Nat]
    /\ queue \in [QueueIndex -> Seq(1 .. Len(heap))]
    /\ freed \subseteq 1 .. Len(heap)
    /\ available \in [Resource -> Int]
    /\ idToAssign \in Nat
    /\ sleepers \subseteq Sleeper
    /\ \A s \in sleepers : s.key \in 1 .. Len(heap) /\ s.args \in 0 .. Len(heap)
    /\ reported \subseteq Nat
    /\ crashed \in BOOLEAN

KernelInit ==
    /\ commands = [c \in Console |-> 0]
    /\ pc = [t \in Thread |-> IF t \in Finisher THEN "listen" ELSE "planner"]
    /\ ptr = [t \in Thread |-> 0]
    /\ fin = [t \in Finisher |-> NoFrame]
    /\ response = NoResponse
    /\ detector = NoDetector
    /\ frame = 0
    /\ sem = [s \in Semaphore |-> CASE s \in {"cpu", "stopping"} -> 1
                                    [] s = "multi" -> Degree
                                    [] OTHER -> 0]
    /\ queue = [i \in QueueIndex |-> <<>>]
    /\ heap = <<>>
    /\ freed = {}
    /\ available = Instances
    /\ idToAssign = 0
    /\ sleepers = {}
    /\ reported = {}
    /\ crashed = FALSE

-----------------------------------------------------------------------------

Goto(t, label) == pc' = [pc EXCEPT ![t] = label]

Push(i, p) == queue' = [queue EXCEPT ![i] = Append(@, p)]

\* queue_pop of an empty queue returns NULL and removes nothing.
Rest(q) == IF q = <<>> THEN <<>> ELSE Tail(q)
Pop(i) == queue' = [queue EXCEPT ![i] = Rest(@)]

SetState(p, state) == heap' = [heap EXCEPT ![p].state = state]

\* Mutant: nobody pops queue_exec.
KeepExecHead == UNCHANGED queue

\* INTERRUPT and thread_sleep_process drop the head of queue_exec unseen.
DropExecHead == Pop(Exec)

\* Mutant: the comparison is >= 0.
HasInstancesOffByOne(resource) == available[resource] >= 0

\* quantity_resource_instance_available > 0.
HasInstances(resource) == available[resource] > 0

\* The undefined behaviour of a NULL or dangling pointer.
Crash == crashed' = TRUE
         /\ UNCHANGED <<commands, locals, sem, queue, memory, available, sleepers,
                        idToAssign, reported, detector, frame, channels>>

\* A pointer whose target can be read.
Live(p) == p # 0 /\ p \notin freed

-----------------------------------------------------------------------------
(***************************************************************************)
(* finish_process, called by a console's thread and by the dispatch thread *)
(***************************************************************************)

Finish(t, pid) ==
    /\ Goto(t, "find")
    /\ fin' = [fin EXCEPT ![t].pid = pid, ![t].index = New]

Return(t) ==
    /\ Goto(t, "listen")
    /\ fin' = [fin EXCEPT ![t] = NoFrame]
    /\ ptr' = [ptr EXCEPT ![t] = 0]

\* One queue of the search, under its mutex; find_process_from_queue reads the
\* pid of every element up to the one it returns.
FindProcess(t) ==
    /\ pc[t] = "find"
    /\ LET q == queue[fin[t].index]
           At(i) == q[i] \in freed \/ heap[q[i]].pid = fin[t].pid
       IN  \/ /\ \A i \in DOMAIN q : ~At(i)
              /\ IF fin[t].index + 1 \in QueueIndex
                 THEN /\ fin' = [fin EXCEPT ![t].index = @ + 1]
                      /\ UNCHANGED <<pc, ptr>>
                 ELSE Return(t)
              /\ UNCHANGED crashed
           \/ \E i \in DOMAIN q :
                  /\ At(i)
                  /\ \A j \in 1 .. i - 1 : ~At(j)
                  /\ IF q[i] \in freed
                     THEN crashed' = TRUE /\ UNCHANGED <<pc, ptr, fin>>
                     ELSE /\ ptr' = [ptr EXCEPT ![t] = q[i]]
                          /\ Goto(t, "inspect")
                          /\ UNCHANGED <<fin, crashed>>
    /\ UNCHANGED <<commands, response, sem, queue, memory, available, sleepers, idToAssign,
                   reported, detector, frame, channels>>

\* previous_state is read without a mutex.
InspectState(t) ==
    /\ pc[t] = "inspect"
    /\ Live(ptr[t])
    /\ fin' = [fin EXCEPT ![t].previous = heap[ptr[t]].state]
    /\ Goto(t, "mark")
    /\ UNCHANGED <<inert, ptr, sem, queue, memory>>

MarkExit(t) ==
    /\ pc[t] = "mark"
    /\ Live(ptr[t])
    /\ SetState(ptr[t], "EXIT")
    /\ fin' = [fin EXCEPT ![t].item = 1]
    /\ Goto(t, "release")
    /\ UNCHANGED <<inert, ptr, sem, queue, freed>>

\* Mutant: free_resources_retained is not called.
ReleaseNothing(t) ==
    /\ pc[t] = "release"
    /\ Goto(t, "unlink")
    /\ UNCHANGED <<inert, ptr, fin, sem, queue, memory>>

\* free_resources_retained: for each element of the list an unprotected
\* atoi (load) ...
ReleaseResource(t) ==
    /\ pc[t] = "release"
    /\ Live(ptr[t])
    /\ LET resources == heap[ptr[t]].resources
       IN  IF fin[t].item \in DOMAIN resources
           THEN /\ fin' = [fin EXCEPT ![t].quantity = available[resources[fin[t].item]]]
                /\ Goto(t, "credit")
           ELSE /\ Goto(t, "unlink")
                /\ UNCHANGED fin
    /\ UNCHANGED <<inert, ptr, sem, queue, memory>>

\* ... and a list_replace (store).
CreditResource(t) ==
    /\ pc[t] = "credit"
    /\ Live(ptr[t])
    /\ LET resource == heap[ptr[t]].resources[fin[t].item]
       IN  available' = [available EXCEPT ![resource] = fin[t].quantity + 1]
    /\ fin' = [fin EXCEPT ![t].item = @ + 1]
    /\ Goto(t, "release")
    /\ UNCHANGED <<commands, ptr, response, sem, queue, memory, sleepers, idle, channels>>

\* Mutant: the process stays on its queue.
UnlinkNothing(t) ==
    /\ pc[t] = "unlink"
    /\ fin' = [fin EXCEPT ![t].item = 1]
    /\ Goto(t, "wake")
    /\ UNCHANGED <<inert, ptr, sem, queue, memory>>

\* list_remove_element compares addresses: nothing is removed when another
\* thread already took the process out of that queue.
UnlinkProcess(t) ==
    /\ pc[t] = "unlink"
    /\ queue' = [queue EXCEPT ![fin[t].index] = RemoveFirst(@, ptr[t])]
    /\ fin' = [fin EXCEPT ![t].item = 1]
    /\ Goto(t, "wake")
    /\ UNCHANGED <<inert, ptr, sem, memory>>

\* check_process_in_blocked_and_send_to_ready: the next resource.
CheckBlocked(t) ==
    /\ pc[t] = "wake"
    /\ LET r == fin[t].item
       IN  IF r \notin Resource
           THEN Goto(t, "notify") /\ UNCHANGED fin
           ELSE IF queue[Blocked(r)] # <<>> /\ available[r] > 0
           THEN /\ fin' = [fin EXCEPT ![t].quantity = available[r], ![t].position = 1]
                /\ Goto(t, "loop")
           ELSE fin' = [fin EXCEPT ![t].item = @ + 1] /\ UNCHANGED pc
    /\ UNCHANGED <<inert, ptr, sem, queue, memory>>

\* queue_index < get_minimun(quantity, queue_size): the size is read again
\* in every round, without the mutex.
ContinueWaking(t) ==
    /\ pc[t] = "loop"
    /\ IF fin[t].position <= fin[t].quantity
          /\ fin[t].position <= Len(queue[Blocked(fin[t].item)])
       THEN Goto(t, "get") /\ UNCHANGED fin
       ELSE /\ Goto(t, "wake")
            /\ fin' = [fin EXCEPT ![t].item = @ + 1]
    /\ UNCHANGED <<inert, ptr, sem, queue, memory>>

\* list_get under mutex_queue_blocked: NULL past the end.
GetWaiter(t) ==
    /\ pc[t] = "get"
    /\ LET q == queue[Blocked(fin[t].item)]
           p == IF fin[t].position \in DOMAIN q THEN q[fin[t].position] ELSE 0
       IN  IF Live(p)
           THEN /\ fin' = [fin EXCEPT ![t].waiter = p]
                /\ Goto(t, "move")
                /\ UNCHANGED <<inert, ptr, sem, queue, memory>>
           ELSE Crash

\* move_process_from_block_to_ready: on the ready queue first ...
MoveWaiter(t) ==
    /\ pc[t] = "move"
    /\ Live(fin[t].waiter)
    /\ SetState(fin[t].waiter, "READY")
    /\ Push(Ready, fin[t].waiter)
    /\ Goto(t, "drop")
    /\ UNCHANGED <<inert, ptr, fin, sem, freed>>

\* ... then off the blocked queue ...
DropWaiter(t) ==
    /\ pc[t] = "drop"
    /\ queue' = [queue EXCEPT ![Blocked(fin[t].item)] = RemoveFirst(@, fin[t].waiter)]
    /\ Goto(t, "count")
    /\ UNCHANGED <<inert, ptr, fin, sem, memory>>

\* Mutant: sem_process_ready is not posted.
CountWaiterUnposted(t) ==
    /\ pc[t] = "count"
    /\ sem["blocked"] > 0
    /\ sem' = [sem EXCEPT !["blocked"] = @ - 1]
    /\ fin' = [fin EXCEPT ![t].position = @ + 1, ![t].waiter = 0]
    /\ Goto(t, "loop")
    /\ UNCHANGED <<inert, ptr, queue, memory>>

\* ... then sem_wait(sem_process_blocked), sem_post(sem_process_ready).
CountWaiter(t) ==
    /\ pc[t] = "count"
    /\ sem["blocked"] > 0
    /\ sem' = [sem EXCEPT !["blocked"] = @ - 1, !["ready"] = @ + 1]
    /\ fin' = [fin EXCEPT ![t].position = @ + 1, ![t].waiter = 0]
    /\ Goto(t, "loop")
    /\ UNCHANGED <<inert, ptr, queue, memory>>

\* FINISH_PROCESS to the memory module, on the socket every thread shares.
NotifyMemory(t) ==
    /\ pc[t] = "notify"
    /\ Live(ptr[t])
    /\ Goto(t, "settle")
    /\ UNCHANGED <<inert, ptr, fin, sem, queue, memory>>

\* update_queue_semaphores by the state the process was found in, destroy_pcb.
Settle(t) ==
    /\ pc[t] = "settle"
    /\ Live(ptr[t])
    /\ \/ /\ fin[t].previous = "EXECUTION"
          /\ sem' = [sem EXCEPT !["cpu"] = @ + 1, !["multi"] = @ + 1]
       \/ /\ fin[t].previous = "READY"
          /\ sem["ready"] > 0
          /\ sem' = [sem EXCEPT !["ready"] = @ - 1, !["multi"] = @ + 1]
       \/ /\ fin[t].previous = "BLOCKED"
          /\ sem["blocked"] > 0
          /\ sem' = [sem EXCEPT !["blocked"] = @ - 1, !["multi"] = @ + 1]
       \/ /\ fin[t].previous \in {"NEW", "EXIT"}
          /\ sem["new"] > 0
          /\ sem' = [sem EXCEPT !["new"] = @ - 1]
    /\ freed' = freed \cup {ptr[t]}
    /\ Return(t)
    /\ UNCHANGED <<inert, queue, heap>>

\* The steps above that read or free the process, when another thread freed it.
FinishDangling(t) ==
    \/ /\ pc[t] \in {"inspect", "mark", "release", "credit", "notify", "settle"}
       /\ ~Live(ptr[t])
       /\ Crash
    \/ /\ pc[t] = "move"
       /\ ~Live(fin[t].waiter)
       /\ Crash

-----------------------------------------------------------------------------
(***************************************************************************)
(* handler_connection: the thread of a console                             *)
(***************************************************************************)

\* The next command of c is op, and its thread is back at receive_header.
Receives(c, op) ==
    /\ pc[c] = "listen"
    /\ commands[c] < Len(Script[c])
    /\ Script[c][commands[c] + 1].op = op

Received(c) == Script[c][commands[c] + 1]

Consume(c) == commands' = [commands EXCEPT ![c] = @ + 1]

\* create_pcb up to "id_to_assign++": the pid is read here ...
ReceiveCreateProcess(c) ==
    /\ Receives(c, "CREATE_PROCESS")
    /\ Consume(c)
    /\ heap' = Append(heap, [pid |-> idToAssign, path |-> Received(c).path, counter |-> 0,
                             resources |-> <<>>, state |-> "NEW"])
    /\ ptr' = [ptr EXCEPT ![c] = Len(heap) + 1]
    /\ Goto(c, "assigned")
    /\ UNCHANGED <<fin, response, sem, queue, freed, available, sleepers, idle, channels>>

\* ... and id_to_assign is incremented here, without a mutex: the new value is
\* computed from a read of its own or, in the same register, from the first.
IncrementId(c) ==
    /\ pc[c] = "assigned"
    /\ idToAssign' \in {idToAssign + 1, heap[ptr[c]].pid + 1}
    /\ Goto(c, "create")
    /\ UNCHANGED <<commands, ptr, fin, response, sem, queue, memory, available, sleepers,
                   reported, crashed, detector, frame, channels>>

\* move_process_to_new: CREATE_PROCESS to the memory module ...
CreateInMemory(c) ==
    /\ pc[c] = "create"
    /\ Goto(c, "admit")
    /\ UNCHANGED <<inert, ptr, fin, sem, queue, memory>>

\* ... and the process joins queue_new.
MoveProcessToNew(c) ==
    /\ pc[c] = "admit"
    /\ Push(New, ptr[c])
    /\ sem' = [sem EXCEPT !["new"] = @ + 1]
    /\ Goto(c, "listen")
    /\ ptr' = [ptr EXCEPT ![c] = 0]
    /\ UNCHANGED <<inert, fin, memory>>

\* The operator types FINALIZAR_PROCESO; with "after" only once a line of the
\* log has named the process as deadlocked.
ReceiveFinishProcess(c) ==
    /\ Receives(c, "FINISH_PROCESS")
    /\ Received(c).after => Received(c).pid \in reported
    /\ Consume(c)
    /\ Finish(c, Received(c).pid)
    /\ UNCHANGED <<ptr, response, sem, queue, memory, available, sleepers, idle, channels>>

StopPlanning(c) ==
    /\ Receives(c, "STOP_PLANNING")
    /\ Consume(c)
    /\ sem' = [sem EXCEPT !["stopping"] = @ + 1]
    /\ Goto(c, "stopShort")
    /\ UNCHANGED <<ptr, fin, response, queue, memory, available, sleepers, idle, channels>>

StopShortTerm(c) ==
    /\ pc[c] = "stopShort"
    /\ sem["short"] > 0
    /\ sem' = [sem EXCEPT !["short"] = @ - 1]
    /\ Goto(c, "stopLong")
    /\ UNCHANGED <<inert, ptr, fin, queue, memory>>

\* Mutant: the long term planner is not waited for.
StopLongUnwaited(c) ==
    /\ pc[c] = "stopLong"
    /\ Goto(c, "listen")
    /\ UNCHANGED <<inert, ptr, fin, sem, queue, memory>>

StopLongTerm(c) ==
    /\ pc[c] = "stopLong"
    /\ sem["long"] > 0
    /\ sem' = [sem EXCEPT !["long"] = @ - 1]
    /\ Goto(c, "listen")
    /\ UNCHANGED <<inert, ptr, fin, queue, memory>>

StartPlanning(c) ==
    /\ Receives(c, "START_PLANNING")
    /\ sem["stopping"] > 0
    /\ Consume(c)
    /\ sem' = [sem EXCEPT !["stopping"] = @ - 1, !["short"] = @ + 1, !["long"] = @ + 1]
    /\ UNCHANGED <<locals, queue, memory, available, sleepers, idle, channels>>

\* modify_multiprogramming_degree: sem_init of the live semaphore. A long term
\* planner asleep on it may be forgotten: the new value wakes nobody.
ModifyDegree(c) ==
    /\ Receives(c, "MODIFY_MULTIPROGRAMMING_DEGREE")
    /\ Consume(c)
    /\ sem' = [sem EXCEPT !["multi"] = Received(c).degree]
    /\ \/ UNCHANGED pc
       \/ pc["long"] = "degree" /\ sem["multi"] = 0 /\ Goto("long", "lost")
    /\ UNCHANGED <<ptr, fin, response, queue, memory, available, sleepers, idle, channels>>

-----------------------------------------------------------------------------
(***************************************************************************)
(* long_term_planner                                                       *)
(***************************************************************************)

LongWaitPlanner ==
    /\ pc["long"] = "planner"
    /\ sem["long"] > 0
    /\ sem' = [sem EXCEPT !["long"] = @ - 1]
    /\ Goto("long", "degree")
    /\ UNCHANGED <<inert, ptr, fin, queue, memory>>

\* Mutant: the degree is counted and not waited for.
LongIgnoresDegree ==
    /\ pc["long"] = "degree"
    /\ sem' = [sem EXCEPT !["multi"] = @ - 1]
    /\ Goto("long", "new")
    /\ UNCHANGED <<inert, ptr, fin, queue, memory>>

LongWaitDegree ==
    /\ pc["long"] = "degree"
    /\ sem["multi"] > 0
    /\ sem' = [sem EXCEPT !["multi"] = @ - 1]
    /\ Goto("long", "new")
    /\ UNCHANGED <<inert, ptr, fin, queue, memory>>

\* sem_wait(sem_process_new), and the first half of move_process_to_ready.
LongPopNew ==
    /\ pc["long"] = "new"
    /\ sem["new"] > 0
    /\ IF queue[New] # <<>> /\ Live(Head(queue[New]))
       THEN /\ sem' = [sem EXCEPT !["new"] = @ - 1]
            /\ Pop(New)
            /\ ptr' = [ptr EXCEPT !["long"] = Head(queue[New])]
            /\ SetState(Head(queue[New]), "READY")
            /\ Goto("long", "push")
            /\ UNCHANGED <<inert, fin, freed>>
       ELSE Crash

LongPushReady ==
    /\ pc["long"] = "push"
    /\ Push(Ready, ptr["long"])
    /\ ptr' = [ptr EXCEPT !["long"] = 0]
    /\ sem' = [sem EXCEPT !["ready"] = @ + 1, !["long"] = @ + 1]
    /\ Goto("long", "planner")
    /\ UNCHANGED <<inert, fin, memory>>

-----------------------------------------------------------------------------
(***************************************************************************)
(* short_term_planner: planing_with_fifo, planning_with_round_robin and    *)
(* planning_with_priorities share the three waits and the dispatch         *)
(***************************************************************************)

\* One of the three waits at the top of the loop.
ShortWait(at, s, to) ==
    /\ pc["short"] = at
    /\ sem[s] > 0
    /\ sem' = [sem EXCEPT ![s] = @ - 1]
    /\ Goto("short", to)
    /\ UNCHANGED <<inert, ptr, fin, queue, memory>>

\* Mutants: one of the waits is missing.
ShortSkips(at, to) ==
    /\ pc["short"] = at
    /\ Goto("short", to)
    /\ UNCHANGED <<inert, ptr, fin, sem, queue, memory>>
ShortIgnoresReady == ShortSkips("ready", "cpu")
ShortIgnoresCpu == ShortSkips("cpu", "pop")

ShortWaitPlanner == ShortWait("planner", "short", "ready")
ShortWaitReady == ShortWait("ready", "ready", "cpu")
ShortWaitCpu == ShortWait("cpu", "cpu", IF Algorithm = "PRIORITIES" THEN "sort" ELSE "pop")

\* sort_queue: the comparison reads a priority t_pcb does not have, so the
\* order it leaves is any.
SortQueue ==
    /\ pc["short"] = "sort"
    /\ LET q == queue[Ready]
       IN  IF Len(q) < 2 \/ \A p \in ToSet(q) : Live(p)
           THEN /\ \E f \in [1 .. Len(q) -> 1 .. Len(q)] :
                       /\ \A i, j \in 1 .. Len(q) : f[i] = f[j] => i = j
                       /\ queue' = [queue EXCEPT ![Ready] = [i \in 1 .. Len(q) |-> q[f[i]]]]
                /\ Goto("short", "pop")
                /\ UNCHANGED <<inert, ptr, fin, sem, memory>>
           ELSE Crash

\* move_process_to_exec: the pop and the new state ...
ShortPopReady ==
    /\ pc["short"] = "pop"
    /\ IF queue[Ready] # <<>> /\ Live(Head(queue[Ready]))
       THEN /\ Pop(Ready)
            /\ ptr' = [ptr EXCEPT !["short"] = Head(queue[Ready])]
            /\ SetState(Head(queue[Ready]), "EXECUTION")
            /\ Goto("short", "push")
            /\ UNCHANGED <<inert, fin, sem, freed>>
       ELSE Crash

\* ... the push ...
ShortPushExec ==
    /\ pc["short"] = "push"
    /\ Push(Exec, ptr["short"])
    /\ Goto("short", "send")
    /\ UNCHANGED <<inert, ptr, fin, sem, memory>>

\* ... and dispatch_process_to_cpu. Without a quantum the loop ends here.
DispatchProcess ==
    /\ pc["short"] = "send"
    /\ IF Live(ptr["short"])
       THEN /\ toCpu' = Append(toCpu, [op |-> "EXECUTE_PROCESS", pcb |-> heap[ptr["short"]]])
            /\ ptr' = [ptr EXCEPT !["short"] = 0]
            /\ IF Algorithm = "ROUND_ROBIN"
               THEN Goto("short", "quantum") /\ UNCHANGED sem
               ELSE /\ Goto("short", "planner")
                    /\ sem' = [sem EXCEPT !["short"] = @ + 1]
            /\ UNCHANGED <<commands, fin, response, queue, memory, available, sleepers,
                           idle, toKernel, quantumIrq>>
       ELSE Crash

\* usleep(quantum), then interrupt_process, whoever is on the CPU by then.
InterruptProcess ==
    /\ pc["short"] = "quantum"
    /\ quantumIrq < MaxIrq
    /\ quantumIrq' = quantumIrq + 1
    /\ sem' = [sem EXCEPT !["short"] = @ + 1]
    /\ Goto("short", "planner")
    /\ UNCHANGED <<commands, ptr, fin, response, queue, memory, available, sleepers, idle,
                   toCpu, toKernel>>

-----------------------------------------------------------------------------
(***************************************************************************)
(* handle_dispatch_connection                                              *)
(***************************************************************************)

\* The next message from the CPU is op.
ReceivesFromCpu(op) ==
    /\ pc["dispatch"] = "listen"
    /\ toKernel # <<>>
    /\ Head(toKernel).op = op
    /\ toKernel' = Tail(toKernel)
    /\ UNCHANGED <<commands, toCpu, quantumIrq>>

Arrived == Head(toKernel)

DispatchFinish ==
    /\ ReceivesFromCpu("FINISH_PROCESS")
    /\ Finish("dispatch", Arrived.pcb.pid)
    /\ UNCHANGED <<ptr, response, sem, queue, memory, available, sleepers, idle>>

\* INTERRUPT: whatever heads queue_exec is dropped, the CPU is free, and the PCB
\* the CPU sent is what goes on.
DispatchInterrupt ==
    /\ ReceivesFromCpu("INTERRUPT")
    /\ heap' = Append(heap, [Arrived.pcb EXCEPT !.state = "READY"])
    /\ ptr' = [ptr EXCEPT !["dispatch"] = Len(heap) + 1]
    /\ DropExecHead
    /\ sem' = [sem EXCEPT !["cpu"] = @ + 1]
    /\ Goto("dispatch", "requeue")
    /\ UNCHANGED <<fin, response, freed, available, sleepers, idle>>

RequeueInterrupted ==
    /\ pc["dispatch"] = "requeue"
    /\ Push(Ready, ptr["dispatch"])
    /\ ptr' = [ptr EXCEPT !["dispatch"] = 0]
    /\ sem' = [sem EXCEPT !["ready"] = @ + 1]
    /\ Goto("dispatch", "listen")
    /\ UNCHANGED <<inert, fin, memory>>

\* finish_process_if_is_not_valid: the resource is not configured.
DispatchInvalid ==
    /\ \/ ReceivesFromCpu("WAIT_REQUEST")
       \/ ReceivesFromCpu("SIGNAL_REQUEST")
    /\ Arrived.resource \notin Resource
    /\ Finish("dispatch", Arrived.pcb.pid)
    /\ UNCHANGED <<ptr, response, sem, queue, memory, available, sleepers, idle>>

\* WAIT with an instance left: the answer is the CPU's copy of the PCB, one
\* instruction on, holding the resource; queue_exec keeps the dispatched one.
\* The count is only tested here; value is set by LoadInstances.
DispatchWaitGranted ==
    /\ ReceivesFromCpu("WAIT_REQUEST")
    /\ Arrived.resource \in Resource
    /\ HasInstances(Arrived.resource)
    /\ response' = [op |-> "WAIT_RESPONSE",
                    pcb |-> [Arrived.pcb EXCEPT
                                 !.counter = @ + 1,
                                 !.resources = Append(@, Arrived.resource)],
                    resource |-> Arrived.resource,
                    value |-> 0]
    /\ Goto("dispatch", "load")
    /\ UNCHANGED <<ptr, fin, sem, queue, memory, available, sleepers, idle>>

\* remove_resource_instance loads the count again ...
LoadInstances ==
    /\ pc["dispatch"] = "load"
    /\ response' = [response EXCEPT !.value = available[response.resource] - 1]
    /\ Goto("dispatch", "store")
    /\ UNCHANGED <<commands, ptr, fin, sem, queue, memory, available, sleepers, idle, channels>>

\* WAIT without: move_process_from_exec_to_blocked takes the head of queue_exec,
\* not the PCB the CPU sent, and frees the CPU ...
DispatchWaitBlocked ==
    /\ ReceivesFromCpu("WAIT_REQUEST")
    /\ Arrived.resource \in Resource
    /\ ~HasInstances(Arrived.resource)
    /\ IF queue[Exec] # <<>> /\ Live(Head(queue[Exec]))
       THEN /\ Pop(Exec)
            /\ ptr' = [ptr EXCEPT !["dispatch"] = Head(queue[Exec])]
            /\ sem' = [sem EXCEPT !["cpu"] = @ + 1]
            /\ fin' = [fin EXCEPT !["dispatch"].item = Arrived.resource]
            /\ Goto("dispatch", "block")
            /\ UNCHANGED crashed
       ELSE crashed' = TRUE /\ UNCHANGED <<pc, ptr, fin, sem, queue>>
    /\ UNCHANGED <<response, memory, available, sleepers, idToAssign, reported, detector, frame>>

\* ... and it joins the blocked queue of the resource.
BlockProcess ==
    /\ pc["dispatch"] = "block"
    /\ IF Live(ptr["dispatch"])
       THEN /\ SetState(ptr["dispatch"], "BLOCKED")
            /\ Push(Blocked(fin["dispatch"].item), ptr["dispatch"])
            /\ sem' = [sem EXCEPT !["blocked"] = @ + 1]
            /\ Goto("dispatch", "require")
            /\ UNCHANGED <<inert, ptr, fin, freed>>
       ELSE Crash

-----------------------------------------------------------------------------
(***************************************************************************)
(* check_deadlocks, log_deadlock and get_required_resource: the dispatch   *)
(* thread walks the blocked queues without their mutex                     *)
(***************************************************************************)

\* The process get_required_resource is called for.
Sought == IF pc["dispatch"] = "logEvaluated" THEN detector.evaluated ELSE ptr["dispatch"]

\* find_process_from_queue reads the pids of one queue up to the one it returns.
Stops(p) == p \in freed \/ heap[p].pid = heap[Sought].pid
Hit ==
    /\ Live(Sought)
    /\ detector.walk \in Resource
    /\ LET q == queue[Blocked(detector.walk)]
       IN  \E i \in DOMAIN q : /\ Stops(q[i])
                               /\ \A j \in 1 .. i - 1 : ~Stops(q[j])
                               /\ q[i] \notin freed
Missed ==
    /\ Live(Sought)
    /\ detector.walk \in Resource
    /\ \A p \in ToSet(queue[Blocked(detector.walk)]) : ~Stops(p)

\* The process is not in that queue: on to the next one.
WalkBlockedQueues ==
    /\ pc["dispatch"] \in {"require", "logChecked", "logEvaluated"}
    /\ Missed
    /\ detector' = [detector EXCEPT !.walk = @ + 1]
    /\ UNCHANGED <<commands, locals, sem, queue, memory, available, sleepers,
                   idToAssign, reported, crashed, frame, channels>>

\* The first blocked queue that has the process just blocked names the resource;
\* without one the function ends without a value.
GetRequiredResource ==
    /\ pc["dispatch"] = "require"
    /\ \/ Hit /\ detector' = [NoDetector EXCEPT !.required = detector.walk]
       \/ Live(Sought) /\ detector.walk \notin Resource /\ detector' = NoDetector
    /\ Goto("dispatch", "scan")
    /\ UNCHANGED <<commands, ptr, fin, response, sem, queue, memory, available, sleepers,
                   idToAssign, reported, crashed, frame, channels>>

\* Mutant: process_index stops one process early.
ReadQueueSizeShort ==
    /\ pc["dispatch"] = "scan"
    /\ IF detector.list \in Resource
       THEN /\ detector' = [detector EXCEPT !.size = Len(queue[Blocked(detector.list)]) - 1,
                                            !.position = 1]
            /\ Goto("dispatch", "evaluate")
            /\ UNCHANGED <<ptr, fin>>
       ELSE detector' = NoDetector /\ Return("dispatch")
    /\ UNCHANGED <<commands, response, sem, queue, memory, available, sleepers,
                   idToAssign, reported, crashed, frame, channels>>

\* queue_size, read once per blocked queue; after the last one the dispatch
\* thread is back at receive_header.
ReadQueueSize ==
    /\ pc["dispatch"] = "scan"
    /\ IF detector.list \in Resource
       THEN /\ detector' = [detector EXCEPT !.size = Len(queue[Blocked(detector.list)]),
                                            !.position = 1]
            /\ Goto("dispatch", "evaluate")
            /\ UNCHANGED <<ptr, fin>>
       ELSE detector' = NoDetector /\ Return("dispatch")
    /\ UNCHANGED <<commands, response, sem, queue, memory, available, sleepers,
                   idToAssign, reported, crashed, frame, channels>>

\* list_get: NULL when the queue has shrunk.
GetEvaluated ==
    /\ pc["dispatch"] = "evaluate"
    /\ LET q == queue[Blocked(detector.list)]
           i == detector.position
       IN  IF i <= detector.size
           THEN /\ detector' = [detector EXCEPT !.evaluated = IF i \in DOMAIN q THEN q[i] ELSE 0]
                /\ Goto("dispatch", "retain")
           ELSE /\ detector' = [detector EXCEPT !.list = @ + 1]
                /\ Goto("dispatch", "scan")
    /\ UNCHANGED <<commands, ptr, fin, response, sem, queue, memory, available, sleepers,
                   idToAssign, reported, crashed, frame, channels>>

\* find_resource in the list of the evaluated process.
FindRetained ==
    /\ pc["dispatch"] = "retain"
    /\ Live(detector.evaluated)
    /\ LET resources == heap[detector.evaluated].resources
       IN  /\ detector.required # 0 \/ resources = <<>>
           /\ IF detector.required \in ToSet(resources)
              THEN /\ detector' = [detector EXCEPT !.walk = 1]
                   /\ Goto("dispatch", "logChecked")
              ELSE /\ detector' = [detector EXCEPT !.position = @ + 1]
                   /\ Goto("dispatch", "evaluate")
    /\ UNCHANGED <<commands, ptr, fin, response, sem, queue, memory, available, sleepers,
                   idToAssign, reported, crashed, frame, channels>>

\* log_deadlock writes its line once get_required_resource has returned: first for
\* the process just blocked, then for the one that retains what it requires.
LogDeadlock ==
    /\ Hit
    /\ reported' = reported \cup {heap[Sought].pid}
    /\ \/ /\ pc["dispatch"] = "logChecked"
          /\ detector' = [detector EXCEPT !.walk = 1]
          /\ Goto("dispatch", "logEvaluated")
       \/ /\ pc["dispatch"] = "logEvaluated"
          /\ detector' = [detector EXCEPT !.position = @ + 1]
          /\ Goto("dispatch", "evaluate")
    /\ UNCHANGED <<commands, ptr, fin, response, sem, queue, memory, available, sleepers,
                   idToAssign, crashed, frame, channels>>

\* A kill meanwhile: the thread reads a PCB that was freed or NULL, prints a
\* resource get_required_resource did not return or compares a name with it.
DetectorDangling ==
    /\ \/ /\ pc["dispatch"] \in {"require", "logChecked", "logEvaluated"}
          /\ ~Hit /\ ~Missed
          /\ pc["dispatch"] = "require" => ~Live(Sought) \/ detector.walk \in Resource
       \/ /\ pc["dispatch"] = "retain"
          /\ \/ ~Live(detector.evaluated)
             \/ detector.required = 0 /\ heap[detector.evaluated].resources # <<>>
    /\ Crash

-----------------------------------------------------------------------------

\* SIGNAL of a resource the CPU's copy holds: add_resource_instance loads the
\* count and adds one ...
DispatchSignal ==
    /\ ReceivesFromCpu("SIGNAL_REQUEST")
    /\ Arrived.resource \in Resource
    /\ Arrived.resource \in ToSet(Arrived.pcb.resources)
    /\ response' = [op |-> "SIGNAL_RESPONSE",
                    pcb |-> [Arrived.pcb EXCEPT
                                 !.counter = @ + 1,
                                 !.resources = RemoveFirst(@, Arrived.resource)],
                    resource |-> Arrived.resource,
                    value |-> available[Arrived.resource] + 1]
    /\ Goto("dispatch", "store")
    /\ UNCHANGED <<ptr, fin, sem, queue, memory, available, sleepers, idle>>

\* (a SIGNAL of one it does not hold finishes it)
DispatchSignalUnheld ==
    /\ ReceivesFromCpu("SIGNAL_REQUEST")
    /\ Arrived.resource \in Resource
    /\ Arrived.resource \notin ToSet(Arrived.pcb.resources)
    /\ Finish("dispatch", Arrived.pcb.pid)
    /\ UNCHANGED <<ptr, response, sem, queue, memory, available, sleepers, idle>>

\* ... and, like remove_resource_instance, stores the sum later.
StoreInstances ==
    /\ pc["dispatch"] = "store"
    /\ available' = [available EXCEPT ![response.resource] = response.value]
    /\ Goto("dispatch", "respond")
    /\ UNCHANGED <<commands, ptr, fin, response, sem, queue, memory, sleepers, idle, channels>>

\* send_pcb on the dispatch socket, without its mutex.
Respond ==
    /\ pc["dispatch"] = "respond"
    /\ toCpu' = Append(toCpu, [op |-> response.op, pcb |-> response.pcb])
    /\ response' = NoResponse
    /\ Goto("dispatch", "listen")
    /\ UNCHANGED <<commands, ptr, fin, sem, queue, memory, available, sleepers, idle,
                   toKernel, quantumIrq>>

\* handle_sleep_interruption: a thread is created and the CPU is free, before
\* that thread has taken the process off queue_exec.
DispatchSleep ==
    /\ ReceivesFromCpu("SLEEP_REQUEST")
    /\ heap' = Append(heap, Arrived.pcb)
    /\ sleepers' = sleepers
           \cup {[key |-> Len(heap) + 1, args |-> Len(heap) + 1, phase |-> "start"]}
    /\ frame' = Len(heap) + 1
    /\ sem' = [sem EXCEPT !["cpu"] = @ + 1]
    /\ UNCHANGED <<locals, queue, freed, available, idToAssign, reported, crashed, detector>>

-----------------------------------------------------------------------------
(***************************************************************************)
(* thread_sleep_process                                                    *)
(***************************************************************************)

\* The thread reads its arguments from the frame of block_process, which has
\* returned: it finds those of the last call or, overwritten by another call of
\* the dispatch thread, no address.
SleepArguments(s) ==
    /\ s.phase = "start"
    /\ \E args \in {frame, 0} :
           sleepers' = (sleepers \ {s}) \cup {[s EXCEPT !.args = args, !.phase = "read"]}
    /\ UNCHANGED <<commands, locals, sem, queue, memory, available, idle, channels>>

\* It pops queue_exec and names the process in a line of the log.
SleepPop(s) ==
    /\ s.phase = "read"
    /\ IF Live(s.args)
       THEN /\ DropExecHead
            /\ sleepers' = (sleepers \ {s}) \cup {[s EXCEPT !.phase = "asleep"]}
            /\ UNCHANGED <<commands, locals, sem, memory, available, idle, channels>>
       ELSE Crash

Awakened(pcb) == [pcb EXCEPT !.state = "READY", !.counter = @ + 1]

\* usleep is over.
SleepEnd(s) ==
    /\ s.phase = "asleep"
    /\ IF Live(s.args)
       THEN /\ heap' = [heap EXCEPT ![s.args] = Awakened(heap[s.args])]
            /\ Push(Ready, s.args)
            /\ sem' = [sem EXCEPT !["ready"] = @ + 1]
            /\ sleepers' = sleepers \ {s}
            /\ UNCHANGED <<commands, locals, freed, available, idle, channels>>
       ELSE Crash

=============================================================================
