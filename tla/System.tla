-------------------------------- MODULE System --------------------------------
(***************************************************************************)
(* The kernel and the CPU joined by their two sockets, and what they       *)
(* promise together.                                                       *)
(***************************************************************************)
EXTENDS Kernel, Cpu

allVars == <<vars, cpuVars>>

Init == KernelInit /\ CpuInit /\ ChannelsInit

\* One step of a thread of the kernel: it goes on until the kernel dies.
Step(A) == ~crashed /\ A /\ UNCHANGED cpuVars

FinishProcess(t) ==
    \/ Step(FindProcess(t))     \/ Step(InspectState(t))   \/ Step(MarkExit(t))
    \/ Step(ReleaseResource(t)) \/ Step(CreditResource(t)) \/ Step(UnlinkProcess(t))
    \/ Step(CheckBlocked(t))    \/ Step(ContinueWaking(t)) \/ Step(GetWaiter(t))
    \/ Step(MoveWaiter(t))      \/ Step(DropWaiter(t))     \/ Step(CountWaiter(t))
    \/ Step(NotifyMemory(t))    \/ Step(Settle(t))         \/ Step(FinishDangling(t))

HandlerConnection(c) ==
    \/ Step(ReceiveCreateProcess(c)) \/ Step(IncrementId(c))   \/ Step(CreateInMemory(c))
    \/ Step(MoveProcessToNew(c))     \/ Step(ReceiveFinishProcess(c))
    \/ Step(StopPlanning(c))         \/ Step(StopShortTerm(c)) \/ Step(StopLongTerm(c))
    \/ Step(StartPlanning(c))        \/ Step(ModifyDegree(c))

LongTermPlanner ==
    \/ Step(LongWaitPlanner) \/ Step(LongWaitDegree)
    \/ Step(LongPopNew)      \/ Step(LongPushReady)

ShortTermPlanner ==
    \/ Step(ShortWaitPlanner) \/ Step(ShortWaitReady) \/ Step(ShortWaitCpu)
    \/ Step(SortQueue)        \/ Step(ShortPopReady)  \/ Step(ShortPushExec)
    \/ Step(DispatchProcess)  \/ Step(InterruptProcess)

CheckDeadlocks ==
    \/ Step(WalkBlockedQueues) \/ Step(GetRequiredResource) \/ Step(ReadQueueSize)
    \/ Step(GetEvaluated)      \/ Step(FindRetained)        \/ Step(LogDeadlock)
    \/ Step(DetectorDangling)

HandleDispatchConnection ==
    \/ Step(DispatchFinish)  \/ Step(DispatchInterrupt)   \/ Step(RequeueInterrupted)
    \/ Step(DispatchInvalid) \/ Step(DispatchWaitGranted) \/ Step(DispatchWaitBlocked)
    \/ Step(BlockProcess)    \/ Step(DispatchSignal)      \/ Step(DispatchSignalUnheld)
    \/ Step(LoadInstances)   \/ Step(StoreInstances)      \/ Step(Respond)
    \/ Step(DispatchSleep)   \/ CheckDeadlocks

SleepThread ==
    \E s \in sleepers : Step(SleepArguments(s)) \/ Step(SleepPop(s)) \/ Step(SleepEnd(s))

\* One step of a thread of the CPU.
CpuStep(A) == A /\ UNCHANGED kernelVars

ExecuteProcess ==
    \/ CpuStep(ReceiveProcess)  \/ CpuStep(ExecuteInstructionCycle)
    \/ CpuStep(NoInterrupt)     \/ CpuStep(YieldProcess)
    \/ CpuStep(RejectInterrupt) \/ CpuStep(ClearInterrupt) \/ CpuStep(RelockInterrupt)

InterruptThread == CpuStep(ReceiveInterrupt)

Next ==
    \/ \E c \in Console : HandlerConnection(c)
    \/ \E t \in Finisher : FinishProcess(t)
    \/ LongTermPlanner
    \/ ShortTermPlanner
    \/ HandleDispatchConnection
    \/ SleepThread
    \/ ExecuteProcess
    \/ InterruptThread

Spec == Init /\ [][Next]_allVars

\* Every thread is scheduled again and again, and usleep returns.
Fairness ==
    /\ \A c \in Console : WF_allVars(HandlerConnection(c) \/ FinishProcess(c))
    /\ WF_allVars(LongTermPlanner)
    /\ WF_allVars(ShortTermPlanner)
    /\ WF_allVars(HandleDispatchConnection \/ FinishProcess("dispatch"))
    /\ WF_allVars(SleepThread)
    /\ WF_allVars(ExecuteProcess)
    /\ WF_allVars(InterruptThread)

FairSpec == Spec /\ Fairness

-----------------------------------------------------------------------------
(***************************************************************************)
(* A hypothesis on the scheduling of the sleep threads                     *)
(***************************************************************************)

\* Not in the code: a sleep thread finds the arguments it was given, and it has
\* popped queue_exec when the dispatch thread takes the next message. Both have
\* to be done within a trip of a process to the CPU, but nothing waits for them
\* (handle_connection.c:102-109, 199-221).
Starting == {s \in sleepers : s.phase # "asleep"}
KeepUp ==
    /\ \A s \in sleepers' : s.args = s.key
    /\ Len(toKernel') < Len(toKernel) => Starting = {}

TimelySpec == Init /\ [][Next /\ KeepUp]_allVars
FairTimelySpec == TimelySpec /\ Fairness

-----------------------------------------------------------------------------

TypeOK == KernelTypeOK /\ CpuTypeOK /\ ChannelsTypeOK

-----------------------------------------------------------------------------
(***************************************************************************)
(* One token for the CPU                                                   *)
(***************************************************************************)

\* sem_cpu_available is one token. It is on the semaphore, with the planner
\* that took it, with the process wherever it travels, or with the dispatch
\* thread until it gives it back.
ShortHoldsCpu == pc["short"] \in {"sort", "pop", "push", "send"}
CpuBusy == cpuPc = "cycle" \/ (cpuPc = "check" /\ ~ended)
DispatchHoldsCpu == pc["dispatch"] \in FinishLabel \cup {"load", "store", "respond"}

One(b) == IF b THEN 1 ELSE 0

CpuTokens == sem["cpu"] + One(ShortHoldsCpu) + Len(toCpu) + One(CpuBusy)
                + Len(toKernel) + One(DispatchHoldsCpu)

\* While no console kills an executing process there is never a second token:
\* two processes are never given to the CPU, and a WAIT or SIGNAL response never
\* shares the dispatch socket with an EXECUTE_PROCESS
\* (queues.c:177, queues.c:302, handle_connection.c:139 and 202).
CpuExclusive == CpuTokens <= 1

-----------------------------------------------------------------------------
(***************************************************************************)
(* Counting semaphores and the queues they count                           *)
(***************************************************************************)

\* sem_process_ready never promises more processes than queue_ready holds: the
\* short term planner never pops an empty queue. The difference is exactly the
\* process a wake-up has pushed and not counted yet (queues.c:320, 329).
Waking == {t \in Finisher : pc[t] \in {"drop", "count"}}
ReadyTokens ==
    sem["ready"] + One(pc["short"] \in {"cpu", "sort", "pop"}) + Cardinality(Waking)
        = Len(queue[Ready])

\* No NULL or freed PCB is ever dereferenced.
NoCrash == ~crashed

\* A pid that finish_process has freed is on no queue, in no message, asleep
\* nowhere and not on the CPU: "has been finished" means gone (queues.c:142-147).
FinishedIsGone ==
    \A p \in freed :
        LET Gone(q) == q # p /\ heap[q].pid # heap[p].pid
        IN  /\ \A i \in QueueIndex : \A q \in ToSet(queue[i]) : Gone(q)
            /\ \A s \in sleepers : s.args # 0 => Gone(s.args)
            /\ \A m \in ToSet(toCpu) \cup ToSet(toKernel) : m.pcb.pid # heap[p].pid
            /\ CpuBusy => process.pid # heap[p].pid

\* No interleaving of the unprotected load and store of a resource count, not
\* even a lost update, hands out an instance that does not exist
\* (deadlocks.c:96-98, 184).
AvailableNonNegative == \A r \in Resource : available[r] >= 0

-----------------------------------------------------------------------------
(***************************************************************************)
(* Where a process is                                                      *)
(***************************************************************************)

PidsOf(ps) == {heap[p].pid : p \in ps}

\* No pid is twice on q, a queue of PCBs of the heap h.
EachOnce(h, q) == \A j, k \in DOMAIN q : h[q[j]].pid = h[q[k]].pid => j = k

\* move_process_from_block_to_ready has its process on both queues for a step.
Dropping(i) ==
    {fin[t].waiter : t \in {t \in Finisher : pc[t] = "drop" /\ Blocked(fin[t].item) = i}}
QueuePids(i) == PidsOf(ToSet(queue[i])) \ PidsOf(Dropping(i))

\* Labels between two queues: the process is the thread's alone.
Carrying ==
    {"assigned", "create", "admit", "push", "requeue", "block",
     "wake", "loop", "get", "move", "drop", "count", "notify", "settle"}
ThreadPids(t) == IF pc[t] \in Carrying THEN {heap[ptr[t]].pid} ELSE {}

\* Until its thread has popped queue_exec a process that sleeps is still there.
Asleep == {s \in sleepers : s.phase = "asleep"}
SleepPids == PidsOf({s.args : s \in Asleep})

Place ==
    ({"queue"} \X QueueIndex) \cup ({"thread"} \X Thread)
        \cup {<<"asleep", "asleep">>, <<"freed", "freed">>}
PidsAt(place) ==
    CASE place[1] = "queue" -> QueuePids(place[2])
      [] place[1] = "thread" -> ThreadPids(place[2])
      [] place[1] = "asleep" -> SleepPids
      [] OTHER -> PidsOf(freed)

Apart == \A a, b \in Place : a # b => PidsAt(a) \cap PidsAt(b) = {}

\* Whatever copies of a PCB are made and dropped, a process is in one place at a
\* time, and there once: on one queue, in the hands of one thread, asleep, or
\* freed and nowhere else (queues.c:96-148 and 286-330, handle_connection.c:127-145).
OnePlace ==
    /\ Apart
    /\ \A i \in QueueIndex : EachOnce(heap, queue[i])
    /\ \A s, u \in Asleep : heap[s.args].pid = heap[u.args].pid => s = u

-----------------------------------------------------------------------------
(***************************************************************************)
(* queue_exec and the process on the CPU                                   *)
(***************************************************************************)

\* When the dispatch thread may take a message and no sleep thread has still to pop,
\* the process at the head of queue_exec is the one the message is about, whoever
\* stood before it; move_process_from_exec_to_blocked and INTERRUPT pop it without
\* looking (queues.c:297, handle_connection.c:136). Until its sleep thread has popped, the
\* process that sleeps is in front; KeepUp has no message taken then.
ExecHeadIsSender ==
    toKernel # <<>> /\ pc["dispatch"] = "listen" /\ Starting = {}
        => queue[Exec] # <<>> /\ heap[Head(queue[Exec])].pid = Head(toKernel).pcb.pid

-----------------------------------------------------------------------------
(***************************************************************************)
(* Stopping                                                                *)
(***************************************************************************)

\* STOP_PLANNING was the last command of c and it has returned.
Stopped(c) ==
    /\ pc[c] = "listen"
    /\ commands[c] > 0
    /\ Script[c][commands[c]].op = "STOP_PLANNING"

\* Every command a console sends is carried out (handle_connection.c:13-59).
ScriptDone == <>(\A c \in Console : commands[c] = Len(Script[c]) /\ pc[c] = "listen")

\* Between a STOP_PLANNING that returned and the next command no process is
\* admitted and none is dispatched, whatever the dispatch thread and the sleep
\* threads go on doing (handle_connection.c:30-36). Other consoles may restart.
StopFreezes ==
    [][\A c \in Console :
           (Stopped(c) /\ \A d \in Console \ {c} : commands[d] = Len(Script[d]))
               => pc'["long"] = pc["long"] /\ pc'["short"] = pc["short"]]_allVars

-----------------------------------------------------------------------------
(***************************************************************************)
(* Deadlocks                                                               *)
(***************************************************************************)

BlockedOn(r) == ToSet(queue[Blocked(r)])

\* RESOURCES_INSTANCES says how many instances of a resource there are.
InstancesConserved == \A r \in Resource : available[r] <= Instances[r]

\* Every circular wait among blocked processes, of any length, has a member the
\* log names once the detector is through with its lists, which it walks one
\* unprotected read at a time while the planners and the sleep threads go on
\* (deadlocks.c:27-50).
CycleReported ==
    pc["dispatch"] \notin DetectLabel =>
        \A cycle \in SUBSET UNION {BlockedOn(r) : r \in Resource} :
            (/\ cycle # {}
             /\ \A p \in cycle : \E q \in cycle : \E r \in Resource :
                    p \in BlockedOn(r) /\ r \in ToSet(heap[q].resources))
                => \E p \in cycle : heap[p].pid \in reported

-----------------------------------------------------------------------------
(***************************************************************************)
(* The lifecycle, as a refinement                                          *)
(***************************************************************************)

Creations(c) == {c} \X {i \in DOMAIN Script[c] : Script[c][i].op = "CREATE_PROCESS"}
AllPids == 0 .. Cardinality(UNION {Creations(c) : c \in Console}) - 1

HasPid(ps, pid) == \E p \in ps : heap[p].pid = pid
Holding(labels) == {ptr[t] : t \in {t \in Thread : pc[t] \in labels}} \ {0}

\* Threads past the search of finish_process that work on pid.
FinishersOf(pid) ==
    {t \in Finisher : pc[t] \in FinishLabel \ {"find", "inspect"} /\ heap[ptr[t]].pid = pid}

StageOf(state) ==
    CASE state = "NEW" -> "new" [] state = "READY" -> "ready"
      [] state = "EXECUTION" -> "exec" [] state = "BLOCKED" -> "blocked"
      [] OTHER -> "exit"

ReadyPtrs ==
    ToSet(queue[Ready]) \cup Holding({"requeue"})
        \cup (IF pc["short"] = "push" THEN {ptr["short"]} ELSE {})
BlockedPtrs == UNION {BlockedOn(r) : r \in Resource} \cup Holding({"block"})
NewPtrs ==
    ToSet(queue[New]) \cup Holding({"create", "admit"})
        \cup (IF pc["long"] = "push" THEN {ptr["long"]} ELSE {})

StageOfPid(pid) ==
    IF pid >= idToAssign THEN "absent"
    ELSE IF FinishersOf(pid) # {}
    THEN StageOf(fin[CHOOSE t \in FinishersOf(pid) : TRUE].previous)
    ELSE IF HasPid({s.key : s \in sleepers}, pid) THEN "asleep"
    ELSE IF HasPid(ReadyPtrs, pid) THEN "ready"
    ELSE IF HasPid(ToSet(queue[Exec]), pid) THEN "exec"
    ELSE IF HasPid(BlockedPtrs, pid) THEN "blocked"
    ELSE IF HasPid(NewPtrs, pid) THEN "new"
    ELSE "exit"

\* The largest degree there will ever be: that of the configuration or of a command.
Modifications(c) ==
    {i \in DOMAIN Script[c] : Script[c][i].op = "MODIFY_MULTIPROGRAMMING_DEGREE"}
Degrees ==
    {Degree} \cup UNION {{Script[c][i].degree : i \in Modifications(c)} : c \in Console}

L == INSTANCE Lifecycle WITH
         Pid <- AllPids, Degree <- Max(Degrees), stage <- [p \in AllPids |-> StageOfPid(p)]

\* Every process moves along the arrows of the lifecycle only, at most one
\* executes and at most the largest degree are admitted (queues.c and handle_connection.c).
RefinesLifecycle == L!Spec

\* Every command is carried out and every process created ends
\* (planners.c:34-133, queues.c:96-148).
AllFinish ==
    <>[](/\ \A c \in Console : commands[c] = Len(Script[c]) /\ pc[c] = "listen"
         /\ \A p \in AllPids : StageOfPid(p) = "exit")
=============================================================================
