------------------------------ MODULE SafetyProofs ------------------------------
(***************************************************************************)
(* What System keeps for every program, script, algorithm and degree, with *)
(* consoles that kill whatever they like: no resource count is negative,   *)
(* and planning that is stopped stays stopped.                             *)
(***************************************************************************)
EXTENDS SystemProofs

-----------------------------------------------------------------------------
(***************************************************************************)
(* The counts of the resources                                             *)
(***************************************************************************)

\* Nothing negative is stored, and nothing negative is about to be stored: the
\* count the dispatch thread found positive is positive when it loads it again,
\* because the other threads only store a count they loaded, plus one.
CountsOK ==
    /\ \A r \in Resource : available[r] >= 0
    /\ \A t \in Finisher : fin[t].quantity >= 0
    /\ pc["dispatch"] = "load" => available[response.resource] >= 1
    /\ pc["dispatch"] = "store" => response.value >= 0

\* The step reads and writes no count.
CountsKept ==
    /\ UNCHANGED <<available, response>>
    /\ \A t \in Finisher : fin'[t].quantity = fin[t].quantity
    /\ \A label \in {"load", "store"} : pc'["dispatch"] = label => pc["dispatch"] = label

\* Such a step keeps the counts as they should be.
LEMMA CountsStutter == CountsOK /\ CountsKept => CountsOK'
  BY DEF CountsOK, CountsKept

\* A step that writes another local of finish_process reads and writes no count.
LEMMA FinishLocalCounts ==
    ASSUME TypeOK, NEW t \in Finisher, NEW label \in FinishLabel, Goto(t, label),
           UNCHANGED <<available, response>>,
           \/ UNCHANGED fin
           \/ fin' = [fin EXCEPT ![t].item = 1]
           \/ fin' = [fin EXCEPT ![t].item = @ + 1]
    PROVE  CountsKept
  <1>1. fin \in [Finisher -> Frame] /\ fin[t] \in Frame
    BY DEF TypeOK, KernelTypeOK
  <1>2. \A u \in Finisher : fin'[u].quantity = fin[u].quantity
    BY <1>1 DEF Frame
  <1>3. \A l \in {"load", "store"} : pc'["dispatch"] = l => pc["dispatch"] = l
    BY DEF Goto, FinishLabel, TypeOK, KernelTypeOK
  <1> QED
    BY <1>2, <1>3 DEF CountsKept

\* A call of finish_process starts without touching a count.
LEMMA FinishQuantity ==
    ASSUME TypeOK, NEW t \in Finisher, NEW pid \in Nat, Finish(t, pid)
    PROVE  \A u \in Finisher : fin'[u].quantity = fin[u].quantity
  <1>1. fin \in [Finisher -> Frame] /\ fin[t] \in Frame
    BY DEF TypeOK, KernelTypeOK
  <1> QED
    BY <1>1 DEF Finish, Frame

\* The steps of finish_process keep the counts: the only store is of a count
\* that was loaded, plus one.
LEMMA FinishProcessCounts ==
    ASSUME TypeOK, CountsOK, NEW t \in Finisher, FinishProcess(t)
    PROVE  CountsOK'
  <1>0. /\ fin \in [Finisher -> Frame] /\ fin[t] \in Frame
        /\ available \in [Resource -> Int] /\ fin[t].quantity \in Int
        /\ t \in Thread /\ pc \in [Thread -> ConsoleLabel \cup DispatchLabel \cup ShortLabel \cup LongLabel]
        /\ NoFrame.quantity = 0
    BY AccessType DEF TypeOK, KernelTypeOK, Frame, NoFrame
  <1>1. ASSUME Step(FindProcess(t)) PROVE CountsOK'
    <2>1. FindProcess(t) /\ UNCHANGED <<available, response>>
      BY <1>1 DEF Step, FindProcess
    <2>2. CASE Return(t)
      BY <1>0, <2>1, <2>2 DEF Return, Goto, CountsOK
    <2>3. CASE fin' = [fin EXCEPT ![t].index = @ + 1] /\ UNCHANGED pc
      BY <1>0, <2>1, <2>3 DEF CountsOK, Frame
    <2>4. CASE UNCHANGED fin /\ (Goto(t, "inspect") \/ UNCHANGED pc)
      <3>1. \A l \in {"load", "store"} : pc'["dispatch"] = l => pc["dispatch"] = l
        BY <1>0, <2>4, AccessType DEF Goto, TypeOK, KernelTypeOK
      <3> QED
        BY <2>1, <2>4, <3>1, CountsStutter DEF CountsKept
    <2> QED
      BY <2>1, <2>2, <2>3, <2>4 DEF FindProcess
  <1>2. ASSUME Step(InspectState(t)) PROVE CountsOK'
    <2>1. InspectState(t)
      BY <1>2 DEF Step
    <2>2. \A u \in Finisher : fin'[u].quantity = fin[u].quantity
      BY <1>0, <2>1 DEF InspectState, Frame
    <2> QED
      BY <1>0, <2>1, <2>2 DEF InspectState, Goto, CountsOK, inert
  <1>3. ASSUME Step(MarkExit(t)) PROVE CountsOK'
    BY <1>3, FinishLocalCounts, CountsStutter DEF Step, MarkExit, inert, FinishLabel
  <1>4. ASSUME Step(ReleaseResource(t)) PROVE CountsOK'
    <2>1. ReleaseResource(t)
      BY <1>4 DEF Step
    <2> DEFINE resources == heap[ptr[t]].resources
    <2>2. CASE /\ fin[t].item \in DOMAIN resources
               /\ fin' = [fin EXCEPT ![t].quantity = available[resources[fin[t].item]]]
               /\ Goto(t, "credit")
      <3>1. resources[fin[t].item] \in Resource
        <4>1. resources \in Seq(Resource)
          BY <1>0, <2>1, AccessType DEF ReleaseResource, Live, PCB
        <4> QED
          BY <2>2, <4>1, LenProperties, ElementOfSeq
      <3>2. available[resources[fin[t].item]] \in Int /\ available[resources[fin[t].item]] >= 0
        BY <1>0, <3>1 DEF CountsOK
      <3> HIDE DEF resources
      <3>3. \A u \in Finisher : fin'[u].quantity >= 0
        BY <1>0, <2>2, <3>2 DEF CountsOK, Frame
      <3> QED
        BY <1>0, <2>1, <2>2, <3>3 DEF ReleaseResource, Goto, CountsOK, inert
    <2>3. CASE Goto(t, "unlink") /\ UNCHANGED fin
      BY <2>1, <2>3, FinishLocalCounts, CountsStutter DEF ReleaseResource, inert, FinishLabel
    <2> QED
      BY <2>1, <2>2, <2>3 DEF ReleaseResource
  <1>5. ASSUME Step(CreditResource(t)) PROVE CountsOK'
    <2>1. CreditResource(t)
      BY <1>5 DEF Step
    <2>2. \A u \in Finisher : fin'[u].quantity = fin[u].quantity
      BY <1>0, <2>1 DEF CreditResource, Frame
    <2>3. fin[t].quantity + 1 >= 0
      BY <1>0 DEF CountsOK
    <2>4. \A r \in Resource : available'[r] >= 0 /\ available'[r] \in {available[r], fin[t].quantity + 1}
      BY <1>0, <2>1, <2>3 DEF CreditResource, CountsOK
    <2>5. pc["dispatch"] = "load" => available'[response.resource] >= 1
      <3>1. pc["dispatch"] = "load" => response.resource \in Resource
        BY AccessType DEF TypeOK, KernelTypeOK, LocalOK, Response
      <3> QED
        BY <1>0, <2>4, <3>1 DEF CountsOK
    <2>6. UNCHANGED response /\ \A l \in {"load", "store"} : pc'["dispatch"] = l => pc["dispatch"] = l
      BY <1>0, <2>1 DEF CreditResource, Goto
    <2> QED
      BY <1>0, <2>2, <2>4, <2>5, <2>6 DEF CountsOK
  <1>6. ASSUME Step(UnlinkProcess(t)) PROVE CountsOK'
    BY <1>6, FinishLocalCounts, CountsStutter DEF Step, UnlinkProcess, inert, FinishLabel
  <1>7. ASSUME Step(CheckBlocked(t)) PROVE CountsOK'
    <2>1. CheckBlocked(t)
      BY <1>7 DEF Step
    <2> DEFINE r == fin[t].item
    <2>2. CASE Goto(t, "notify") /\ UNCHANGED fin
      BY <2>1, <2>2, FinishLocalCounts, CountsStutter DEF CheckBlocked, inert, FinishLabel
    <2>3. CASE fin' = [fin EXCEPT ![t].item = @ + 1] /\ UNCHANGED pc
      BY <1>0, <2>1, <2>3 DEF CheckBlocked, CountsOK, inert, Frame
    <2>4. CASE /\ available[r] > 0
               /\ fin' = [fin EXCEPT ![t].quantity = available[r], ![t].position = 1]
               /\ Goto(t, "loop")
               /\ r \in Resource
      <3>1. available[r] \in Int /\ available[r] >= 0
        BY <1>0, <2>4
      <3> DEFINE f == [fin EXCEPT ![t].quantity = available[r]]
      <3>2. f \in [Finisher -> Frame] /\ \A u \in Finisher : f[u].quantity >= 0
        BY <1>0, <3>1 DEF CountsOK, Frame
      <3>3. fin' = [f EXCEPT ![t].position = 1]
        BY <2>4
      <3> HIDE DEF f
      <3>4. \A u \in Finisher : fin'[u].quantity >= 0
        BY <3>2, <3>3 DEF Frame
      <3> QED
        BY <1>0, <2>1, <2>4, <3>4 DEF CheckBlocked, Goto, CountsOK, inert
    <2> QED
      BY <2>1, <2>2, <2>3, <2>4 DEF CheckBlocked
  <1>8. ASSUME Step(ContinueWaking(t)) PROVE CountsOK'
    BY <1>8, FinishLocalCounts, CountsStutter DEF Step, ContinueWaking, inert, FinishLabel
  <1>9. ASSUME Step(GetWaiter(t)) PROVE CountsOK'
    <2>1. GetWaiter(t)
      BY <1>9 DEF Step
    <2>2. CASE Crash
      BY <2>2 DEF Crash, CountsOK, locals
    <2> DEFINE q == queue[Blocked(fin[t].item)]
               p == IF fin[t].position \in DOMAIN q THEN q[fin[t].position] ELSE 0
    <2>3. CASE /\ fin' = [fin EXCEPT ![t].waiter = p]
               /\ Goto(t, "move")
               /\ UNCHANGED <<inert, ptr, sem, queue, memory>>
      <3> HIDE DEF p
      <3>1. \A u \in Finisher : fin'[u].quantity = fin[u].quantity
        BY <1>0, <2>3 DEF Frame
      <3> QED
        BY <1>0, <2>3, <3>1 DEF Goto, CountsOK, inert
    <2> QED
      BY <2>1, <2>2, <2>3 DEF GetWaiter
  <1>10. ASSUME Step(MoveWaiter(t)) PROVE CountsOK'
    BY <1>10, FinishLocalCounts, CountsStutter DEF Step, MoveWaiter, inert, FinishLabel
  <1>11. ASSUME Step(DropWaiter(t)) PROVE CountsOK'
    BY <1>11, FinishLocalCounts, CountsStutter DEF Step, DropWaiter, inert, FinishLabel
  <1>12. ASSUME Step(CountWaiter(t)) PROVE CountsOK'
    <2>1. CountWaiter(t)
      BY <1>12 DEF Step
    <2> DEFINE f == [fin EXCEPT ![t].position = @ + 1]
    <2>2. f \in [Finisher -> Frame] /\ \A u \in Finisher : f[u].quantity = fin[u].quantity
      BY <1>0 DEF Frame
    <2>3. fin' = [f EXCEPT ![t].waiter = 0]
      BY <2>1 DEF CountWaiter
    <2> HIDE DEF f
    <2>4. \A u \in Finisher : fin'[u].quantity = fin[u].quantity
      BY <2>2, <2>3 DEF Frame
    <2> QED
      BY <1>0, <2>1, <2>4 DEF CountWaiter, Goto, CountsOK, inert
  <1>13. ASSUME Step(NotifyMemory(t)) PROVE CountsOK'
    BY <1>13, FinishLocalCounts, CountsStutter DEF Step, NotifyMemory, inert, FinishLabel
  <1>14. ASSUME Step(Settle(t)) PROVE CountsOK'
    BY <1>0, <1>14 DEF Step, Settle, Return, Goto, CountsOK, inert
  <1>15. ASSUME Step(FinishDangling(t)) PROVE CountsOK'
    BY <1>15 DEF Step, FinishDangling, Crash, CountsOK, locals
  <1> QED
    BY <1>1, <1>2, <1>3, <1>4, <1>5, <1>6, <1>7, <1>8, <1>9, <1>10, <1>11, <1>12, <1>13,
       <1>14, <1>15 DEF FinishProcess

\* The other threads: only the dispatch thread loads a count, and takes from it
\* only what it found there.
LEMMA OthersCounts ==
    ASSUME TypeOK, CountsOK,
           \/ \E c \in Console : HandlerConnection(c)
           \/ LongTermPlanner \/ ShortTermPlanner \/ SleepThread
           \/ ExecuteProcess \/ InterruptThread
           \/ UNCHANGED allVars
    PROVE  CountsOK'
  <1>0. /\ fin \in [Finisher -> Frame] /\ "dispatch" \notin Console
        /\ Console \subseteq Finisher /\ "dispatch" \in Finisher
        /\ Finisher \cup {"long", "short"} = Thread
        /\ pc \in [Thread -> ConsoleLabel \cup DispatchLabel \cup ShortLabel \cup LongLabel]
    BY AccessType DEF TypeOK, KernelTypeOK, Thread
  <1>1. ASSUME NEW c \in Console, HandlerConnection(c) PROVE CountsOK'
    <2>0. UNCHANGED <<available, response>>
      BY <1>1
         DEF HandlerConnection, Step, ReceiveCreateProcess, IncrementId, CreateInMemory,
             MoveProcessToNew, ReceiveFinishProcess, StopPlanning, StopShortTerm, StopLongTerm,
             StartPlanning, ModifyDegree, inert, locals
    <2>1. pc'["dispatch"] = pc["dispatch"]
      BY <1>0, <1>1
         DEF HandlerConnection, Step, ReceiveCreateProcess, IncrementId, CreateInMemory,
             MoveProcessToNew, ReceiveFinishProcess, StopPlanning, StopShortTerm, StopLongTerm,
             StartPlanning, ModifyDegree, Finish, Goto, locals
    <2>2. UNCHANGED fin \/ \E pid \in Nat : Finish(c, pid)
      <3>1. CASE ReceiveFinishProcess(c)
        <4>1. Received(c).pid \in Nat
          BY <3>1, ReceivedType DEF ReceiveFinishProcess, Command
        <4> QED
          BY <3>1, <4>1 DEF ReceiveFinishProcess
      <3>2. CASE ~ReceiveFinishProcess(c)
        BY <1>1, <3>2
           DEF HandlerConnection, Step, ReceiveCreateProcess, IncrementId, CreateInMemory,
               MoveProcessToNew, StopPlanning, StopShortTerm, StopLongTerm, StartPlanning,
               ModifyDegree, inert, locals
      <3> QED
        BY <3>1, <3>2
    <2>3. \A u \in Finisher : fin'[u].quantity = fin[u].quantity
      <3>1. ASSUME NEW pid \in Nat, Finish(c, pid)
            PROVE  \A u \in Finisher : fin'[u].quantity = fin[u].quantity
        BY <1>0, <3>1, FinishQuantity
      <3> QED
        BY <2>2, <3>1
    <2> QED
      BY <2>0, <2>1, <2>3 DEF CountsOK
  <1>2. CASE LongTermPlanner
    <2>0. UNCHANGED <<available, response, fin>>
      BY <1>2
         DEF LongTermPlanner, Step, LongWaitPlanner, LongWaitDegree, LongPopNew, LongPushReady,
             Crash, inert, locals
    <2>1. pc'["dispatch"] = pc["dispatch"]
      BY <1>0, <1>2
         DEF LongTermPlanner, Step, LongWaitPlanner, LongWaitDegree, LongPopNew, LongPushReady,
             Crash, Goto, locals
    <2> QED
      BY <2>0, <2>1 DEF CountsOK
  <1>3. CASE ShortTermPlanner
    <2>0. UNCHANGED <<available, response, fin>>
      BY <1>3
         DEF ShortTermPlanner, Step, ShortWaitPlanner, ShortWaitReady, ShortWaitCpu, ShortWait,
             SortQueue, ShortPopReady, ShortPushExec, DispatchProcess, InterruptProcess,
             Crash, inert, locals
    <2>1. pc'["dispatch"] = pc["dispatch"]
      BY <1>0, <1>3
         DEF ShortTermPlanner, Step, ShortWaitPlanner, ShortWaitReady, ShortWaitCpu, ShortWait,
             SortQueue, ShortPopReady, ShortPushExec, DispatchProcess, InterruptProcess,
             Crash, Goto, locals
    <2> QED
      BY <2>0, <2>1 DEF CountsOK
  <1>4. CASE SleepThread
    <2>1. UNCHANGED <<available, response, fin, pc>>
      BY <1>4 DEF SleepThread, Step, SleepArguments, SleepPop, SleepEnd, Crash, locals
    <2> QED
      BY <2>1 DEF CountsOK
  <1>5. CASE ExecuteProcess \/ InterruptThread \/ UNCHANGED allVars
    <2>1. UNCHANGED <<available, response, fin, pc>>
      BY <1>5 DEF ExecuteProcess, InterruptThread, CpuStep, allVars, vars, kernelVars
    <2> QED
      BY <2>1 DEF CountsOK
  <1> QED
    BY <1>1, <1>2, <1>3, <1>4, <1>5

\* The dispatch thread: a count is decremented only where it was found positive.
LEMMA DispatchCounts ==
    ASSUME TypeOK, CountsOK, HandleDispatchConnection
    PROVE  CountsOK'
  <1>0. /\ fin \in [Finisher -> Frame] /\ "dispatch" \in Finisher /\ "dispatch" \in Thread
        /\ available \in [Resource -> Int]
        /\ pc \in [Thread -> ConsoleLabel \cup DispatchLabel \cup ShortLabel \cup LongLabel]
        /\ NoFrame.quantity = 0
    BY AccessType DEF TypeOK, KernelTypeOK, NoFrame
  <1>1. ASSUME NEW pid \in Nat, Finish("dispatch", pid), UNCHANGED <<available, response>>
        PROVE  CountsOK'
    <2>1. \A u \in Finisher : fin'[u].quantity = fin[u].quantity
      BY <1>0, <1>1, FinishQuantity
    <2> QED
      BY <1>0, <1>1, <2>1 DEF Finish, Goto, CountsOK
  <1>2. CASE Step(DispatchFinish) \/ Step(DispatchInvalid) \/ Step(DispatchSignalUnheld)
    <2>1. Arrived.pcb.pid \in Nat
      BY <1>2, ArrivedType DEF Step, DispatchFinish, DispatchInvalid, DispatchSignalUnheld, PCB
    <2> QED
      BY <1>1, <1>2, <2>1 DEF Step, DispatchFinish, DispatchInvalid, DispatchSignalUnheld
  <1>3. CASE Step(DispatchWaitGranted)
    <2>1. Arrived.resource \in Resource /\ available[Arrived.resource] > 0
      BY <1>0, <1>3 DEF Step, DispatchWaitGranted, HasInstances
    <2>2. /\ response'.resource = Arrived.resource /\ UNCHANGED <<available, fin>>
          /\ pc'["dispatch"] = "load"
      BY <1>0, <1>3 DEF Step, DispatchWaitGranted, Goto
    <2> QED
      BY <1>0, <2>1, <2>2 DEF CountsOK
  <1>4. CASE Step(DispatchSignal)
    <2>1. available[Arrived.resource] \in Int /\ available[Arrived.resource] >= 0
      BY <1>0, <1>4 DEF Step, DispatchSignal, CountsOK
    <2>2. response'.value >= 0 /\ UNCHANGED <<available, fin>> /\ pc'["dispatch"] = "store"
      BY <1>0, <1>4, <2>1 DEF Step, DispatchSignal, Goto
    <2> QED
      BY <2>2 DEF CountsOK
  <1>5. CASE Step(StoreInstances)
    <2>1. response.value >= 0
      BY <1>5 DEF Step, StoreInstances, CountsOK
    <2> QED
      BY <1>0, <1>5, <2>1 DEF Step, StoreInstances, Goto, CountsOK
  <1>6. CASE Step(DispatchWaitBlocked)
    <2>0. DispatchWaitBlocked /\ UNCHANGED <<available, response>>
      BY <1>6 DEF Step, DispatchWaitBlocked
    <2>1. fin["dispatch"] \in Frame
      BY <1>0
    <2>2. \A u \in Finisher : fin'[u].quantity = fin[u].quantity
      <3>1. CASE fin' = [fin EXCEPT !["dispatch"].item = Arrived.resource]
        BY <1>0, <2>1, <3>1 DEF Frame
      <3>2. CASE UNCHANGED fin
        BY <3>2
      <3> QED
        BY <2>0, <3>1, <3>2 DEF DispatchWaitBlocked
    <2>3. pc'["dispatch"] \notin {"load", "store"}
      BY <1>0, <2>0 DEF DispatchWaitBlocked, ReceivesFromCpu, Goto
    <2> QED
      BY <2>0, <2>2, <2>3 DEF CountsOK
  <1>7. CASE CheckDeadlocks
    <2>1. UNCHANGED <<available, response>> /\ (UNCHANGED fin \/ Return("dispatch"))
      BY <1>7, DetectionFrame
    <2>2. pc'["dispatch"] \notin {"load", "store"}
      BY <1>0, <1>7, DetectionFrame DEF Return, Goto, DetectLabel
    <2> QED
      BY <1>0, <2>1, <2>2 DEF Return, CountsOK
  <1>8. CASE Step(DispatchInterrupt) \/ Step(RequeueInterrupted) \/ Step(DispatchSleep)
             \/ Step(BlockProcess)
    <2>1. UNCHANGED <<available, response, fin>>
          /\ (pc'["dispatch"] \notin {"load", "store"} \/ UNCHANGED pc)
      BY <1>0, <1>8
         DEF Step, DispatchInterrupt, RequeueInterrupted, DispatchSleep, BlockProcess, Crash,
             Goto, inert, locals
    <2> QED
      BY <2>1 DEF CountsOK
  <1>9. CASE Step(Respond)
    <2>1. UNCHANGED <<available, fin>> /\ pc'["dispatch"] \notin {"load", "store"}
      BY <1>0, <1>9 DEF Step, Respond, Goto
    <2> QED
      BY <2>1 DEF CountsOK
  <1>10. CASE Step(LoadInstances)
    <2>1. LoadInstances /\ response \in Response
      BY <1>10, AccessType DEF Step, LoadInstances, TypeOK, KernelTypeOK, LocalOK
    <2>2. available[response.resource] \in Int /\ available[response.resource] >= 1
      BY <1>0, <2>1 DEF LoadInstances, CountsOK, Response
    <2>3. /\ response'.value >= 0 /\ UNCHANGED <<available, fin>> /\ pc'["dispatch"] = "store"
      BY <1>0, <2>1, <2>2 DEF LoadInstances, Response, Goto
    <2> QED
      BY <2>3 DEF CountsOK
  <1> QED
    BY <1>2, <1>3, <1>4, <1>5, <1>6, <1>7, <1>8, <1>9, <1>10 DEF HandleDispatchConnection

\* No interleaving of the test, the loads and the stores of a resource count that
\* no mutex protects, kills by any console included, makes a count negative or
\* hands out an instance of none. Between the test of a WAIT (deadlocks.c:184)
\* and its load (deadlocks.c:96-97) a finisher can store a stale count, but one
\* that is positive; what deadlocks.c:96-98 can lose are returned instances.
THEOREM CountsNeverNegative == Spec => []AvailableNonNegative
  <1>1. Init => CountsOK
    <2> SUFFICES ASSUME Init PROVE CountsOK
      OBVIOUS
    <2>1. \A r \in Resource : Instances[r] >= 0
      <3>1. Instances \in [1 .. Len(Instances) -> Nat]
        BY InstancesAssumption, LenProperties
      <3> QED
        BY <3>1 DEF Resource
    <2> QED
      BY <2>1 DEF Init, KernelInit, NoFrame, Finisher, Thread, CountsOK
  <1>2. TypeOK /\ CountsOK /\ [Next]_allVars => CountsOK'
    BY FinishProcessCounts, OthersCounts, DispatchCounts DEF Next
  <1>3. CountsOK => AvailableNonNegative
    BY DEF CountsOK, AvailableNonNegative
  <1> QED
    BY TypeCorrect, <1>1, <1>2, <1>3, PTL DEF Spec

-----------------------------------------------------------------------------
(***************************************************************************)
(* Stopping                                                                *)
(***************************************************************************)

\* One console at most starts and stops the planning: with a second one the
\* planning that one has stopped the other starts.
Plans(c) == \E i \in DOMAIN Script[c] : Script[c][i].op \in {"START_PLANNING", "STOP_PLANNING"}
OneOperator == \A c, d \in Console : Plans(c) /\ Plans(d) => c = d

LastIsStop(c) == commands[c] > 0 /\ Script[c][commands[c]].op = "STOP_PLANNING"

Stopping == {"stopShort", "stopLong"}

\* Each planner has one token. It is on the planner's semaphore, with the planner
\* at work, or on mutex_stopping_planner while the planning is stopped; a STOP
\* under way posts that one before it has taken the two others.
Gate(o) ==
    /\ \A c \in Console : commands[c] <= Len(Script[c])
    /\ \A c \in Console \ {o} : pc[c] \notin Stopping
    /\ sem["short"] + One(pc["short"] # "planner") + sem["stopping"]
         = 1 + One(pc[o] = "stopShort")
    /\ sem["long"] + One(pc["long"] # "planner") + sem["stopping"]
         = 1 + One(pc[o] = "stopShort") + One(pc[o] = "stopLong")
    /\ LastIsStop(o) => pc[o] \in Stopping \cup {"listen"} /\ sem["stopping"] >= 1
    /\ ~LastIsStop(o) => pc[o] \notin Stopping

LEMMA Gates ==
    ASSUME TypeOK
    PROVE  /\ sem["short"] \in Nat /\ sem["long"] \in Nat /\ sem["stopping"] \in Nat
           /\ sem \in [Semaphore -> Nat]
           /\ pc \in [Thread -> ConsoleLabel \cup DispatchLabel \cup ShortLabel \cup LongLabel]
           /\ commands \in [Console -> Nat]
           /\ {"dispatch", "long", "short"} \subseteq Thread /\ Console \subseteq Thread
           /\ Console \cap {"short", "long", "dispatch"} = {}
  BY AccessType, ConsoleAssumption DEF TypeOK, KernelTypeOK, Semaphore

\* A step that moves none of the tokens, of which the operator's thread is part
\* or not.
LEMMA GateKept ==
    ASSUME TypeOK, NEW o \in Console, Gate(o),
           \A c \in Console : commands'[c] <= Len(Script[c]),
           \A s \in {"short", "long", "stopping"} : sem'[s] = sem[s],
           \A t \in {"short", "long"} : pc'[t] = "planner" <=> pc[t] = "planner",
           \A c \in Console \ {o} : pc'[c] \notin Stopping,
           \A label \in Stopping : pc'[o] = label <=> pc[o] = label,
           LastIsStop(o)' => LastIsStop(o) /\ pc'[o] \in Stopping \cup {"listen"},
           ~LastIsStop(o)' => pc[o] \notin Stopping
    PROVE  Gate(o)'
  <1>1. /\ One(pc'["short"] # "planner") = One(pc["short"] # "planner")
        /\ One(pc'["long"] # "planner") = One(pc["long"] # "planner")
        /\ One(pc'[o] = "stopShort") = One(pc[o] = "stopShort")
        /\ One(pc'[o] = "stopLong") = One(pc[o] = "stopLong")
    BY DEF One, Stopping
  <1>2. ~LastIsStop(o)' => pc'[o] \notin Stopping
    BY DEF Stopping
  <1>3. LastIsStop(o)' => pc'[o] \in Stopping \cup {"listen"} /\ sem'["stopping"] >= 1
    BY DEF Gate
  <1> QED
    BY <1>1, <1>2, <1>3 DEF Gate

\* A thread that is none of the consoles'.
LEMMA GateElsewhere ==
    ASSUME TypeOK, NEW o \in Console, Gate(o), commands' = commands,
           \A s \in {"short", "long", "stopping"} : sem'[s] = sem[s],
           \A t \in {"short", "long"} : pc'[t] = "planner" <=> pc[t] = "planner",
           \A c \in Console : pc'[c] = pc[c]
    PROVE  Gate(o)'
  <1>1. \A c \in Console : commands'[c] <= Len(Script[c])
    BY DEF Gate
  <1>2. \A c \in Console \ {o} : pc'[c] \notin Stopping
    BY DEF Gate
  <1>3. LastIsStop(o)' <=> LastIsStop(o)
    BY DEF LastIsStop
  <1>4. /\ LastIsStop(o)' => LastIsStop(o) /\ pc'[o] \in Stopping \cup {"listen"}
        /\ ~LastIsStop(o)' => pc[o] \notin Stopping
    BY <1>3 DEF Gate
  <1> QED
    BY <1>1, <1>2, <1>4, GateKept

\* The command a thread takes is one of its script's, and the last after that.
LEMMA Consumed ==
    ASSUME TypeOK, NEW o \in Console, Gate(o), NEW c \in Console, NEW op, Receives(c, op),
           commands' = [commands EXCEPT ![c] = @ + 1]
    PROVE  /\ \A d \in Console : commands'[d] <= Len(Script[d])
           /\ \A d \in Console \ {c} : commands'[d] = commands[d]
           /\ commands'[c] \in DOMAIN Script[c] /\ commands'[c] > 0
           /\ Script[c][commands'[c]].op = op
           /\ pc[c] = "listen"
  <1>1. Script[c] \in Seq(Command) /\ commands \in [Console -> Nat]
    BY ScriptAssumption, Gates
  <1>2. commands'[c] = commands[c] + 1 /\ \A d \in Console \ {c} : commands'[d] = commands[d]
    BY <1>1
  <1>3. commands[c] + 1 <= Len(Script[c]) /\ Len(Script[c]) \in Nat /\ commands[c] \in Nat
    BY <1>1, LenProperties DEF Receives
  <1>4. commands'[c] \in 1 .. Len(Script[c])
    BY <1>2, <1>3
  <1>5. \A d \in Console : commands'[d] <= Len(Script[d])
    BY <1>2, <1>3 DEF Gate
  <1> QED
    BY <1>1, <1>2, <1>3, <1>4, <1>5, LenProperties DEF Receives

\* A console's thread: only START_PLANNING and STOP_PLANNING move the tokens.
LEMMA ConsoleGate ==
    ASSUME TypeOK, NEW o \in Console, \A c \in Console \ {o} : ~Plans(c), Gate(o),
           NEW c \in Console, HandlerConnection(c)
    PROVE  Gate(o)'
  <1>0. /\ c \in Thread /\ c \notin {"short", "long", "dispatch"} /\ o \in Thread
        /\ \A d \in Console : d \in Thread /\ d \notin {"short", "long", "dispatch"}
    BY Gates
  <1>1. CASE \/ Step(ReceiveCreateProcess(c)) \/ Step(ReceiveFinishProcess(c))
             \/ Step(ModifyDegree(c))
    <2>1. PICK op \in {"CREATE_PROCESS", "FINISH_PROCESS", "MODIFY_MULTIPROGRAMMING_DEGREE"} :
              Receives(c, op)
      BY <1>1 DEF Step, ReceiveCreateProcess, ReceiveFinishProcess, ModifyDegree
    <2>2. commands' = [commands EXCEPT ![c] = @ + 1]
      BY <1>1 DEF Step, ReceiveCreateProcess, ReceiveFinishProcess, ModifyDegree, Consume
    <2>3. /\ \A d \in Console : commands'[d] <= Len(Script[d])
          /\ \A d \in Console \ {c} : commands'[d] = commands[d]
          /\ Script[c][commands'[c]].op = op
          /\ pc[c] = "listen"
      BY <2>1, <2>2, Consumed
    <2>4. /\ \A s \in {"short", "long", "stopping"} : sem'[s] = sem[s]
          /\ \A t \in {"short", "long"} : pc'[t] = "planner" <=> pc[t] = "planner"
          /\ pc'[c] \notin Stopping
          /\ \A d \in Console \ {c} : pc'[d] = pc[d]
      BY <1>0, <1>1, <2>3, Gates
         DEF Step, ReceiveCreateProcess, ReceiveFinishProcess, ModifyDegree, Finish, Goto,
             Stopping, Semaphore
    <2>5. \A d \in Console \ {o} : pc'[d] \notin Stopping
      BY <2>4 DEF Gate
    <2>6. \A label \in Stopping : pc'[o] = label <=> pc[o] = label
      BY <2>3, <2>4 DEF Stopping
    <2>7. CASE c = o
      <3>1. ~LastIsStop(o)'
        BY <2>3, <2>7 DEF LastIsStop
      <3>2. pc[o] \notin Stopping
        BY <2>3, <2>7 DEF Stopping
      <3> QED
        BY <2>3, <2>4, <2>5, <2>6, <3>1, <3>2, GateKept
    <2>8. CASE c # o
      <3>1. LastIsStop(o)' <=> LastIsStop(o)
        BY <2>3, <2>8 DEF LastIsStop
      <3>2. pc'[o] = pc[o]
        BY <2>4, <2>8
      <3>3. /\ LastIsStop(o)' => LastIsStop(o) /\ pc'[o] \in Stopping \cup {"listen"}
            /\ ~LastIsStop(o)' => pc[o] \notin Stopping
        BY <3>1, <3>2 DEF Gate
      <3> QED
        BY <2>3, <2>4, <2>5, <2>6, <3>3, GateKept
    <2> QED
      BY <2>7, <2>8
  <1>2. CASE \/ Step(IncrementId(c)) \/ Step(CreateInMemory(c)) \/ Step(MoveProcessToNew(c))
    <2>1. /\ commands' = commands
          /\ \A s \in {"short", "long", "stopping"} : sem'[s] = sem[s]
          /\ \A t \in {"short", "long"} : pc'[t] = pc[t]
          /\ \A d \in Console \ {c} : pc'[d] = pc[d]
          /\ pc[c] \notin Stopping \cup {"listen"} /\ pc'[c] \notin Stopping
      BY <1>0, <1>2, Gates
         DEF Step, IncrementId, CreateInMemory, MoveProcessToNew, Goto, Stopping, Semaphore,
             inert
    <2>2. \A d \in Console : commands'[d] <= Len(Script[d])
      BY <2>1 DEF Gate
    <2>3. \A d \in Console \ {o} : pc'[d] \notin Stopping
      BY <2>1 DEF Gate
    <2>4. LastIsStop(o)' <=> LastIsStop(o)
      BY <2>1 DEF LastIsStop
    <2>5. \A label \in Stopping : pc'[o] = label <=> pc[o] = label
      BY <2>1 DEF Stopping
    <2>6. /\ LastIsStop(o)' => LastIsStop(o) /\ pc'[o] \in Stopping \cup {"listen"}
          /\ ~LastIsStop(o)' => pc[o] \notin Stopping
      BY <2>1, <2>4 DEF Gate
    <2> QED
      BY <2>1, <2>2, <2>3, <2>5, <2>6, GateKept
  <1>3. CASE Step(StopPlanning(c))
    <2>1. Receives(c, "STOP_PLANNING") /\ commands' = [commands EXCEPT ![c] = @ + 1]
      BY <1>3 DEF Step, StopPlanning, Consume
    <2>2. /\ \A d \in Console : commands'[d] <= Len(Script[d])
          /\ commands'[c] \in DOMAIN Script[c] /\ commands'[c] > 0
          /\ Script[c][commands'[c]].op = "STOP_PLANNING"
          /\ pc[c] = "listen"
      BY <2>1, Consumed
    <2>3. c = o
      BY <2>2 DEF Plans
    <2>4. /\ sem'["short"] = sem["short"] /\ sem'["long"] = sem["long"]
          /\ sem'["stopping"] = sem["stopping"] + 1
          /\ pc'["short"] = pc["short"] /\ pc'["long"] = pc["long"]
          /\ pc'[o] = "stopShort"
          /\ \A d \in Console \ {o} : pc'[d] = pc[d]
      BY <1>0, <1>3, <2>3, Gates DEF Step, StopPlanning, Goto, Semaphore
    <2>5. LastIsStop(o)'
      BY <2>2, <2>3 DEF LastIsStop
    <2>6. /\ One(pc[o] = "stopShort") = 0 /\ One(pc'[o] = "stopShort") = 1
          /\ One(pc[o] = "stopLong") = 0 /\ One(pc'[o] = "stopLong") = 0
      BY <2>2, <2>3, <2>4 DEF One
    <2>7. /\ One(pc'["short"] # "planner") = One(pc["short"] # "planner")
          /\ One(pc'["long"] # "planner") = One(pc["long"] # "planner")
          /\ One(pc["short"] # "planner") \in Nat /\ One(pc["long"] # "planner") \in Nat
      BY <2>4 DEF One
    <2> DEFINE shortAway == One(pc["short"] # "planner")
               longAway == One(pc["long"] # "planner")
    <2>8. /\ shortAway \in Int /\ longAway \in Int
          /\ One(pc'["short"] # "planner") = shortAway
          /\ One(pc'["long"] # "planner") = longAway
      BY <2>2, <2>4 DEF One
    <2>9. /\ sem["short"] + shortAway + sem["stopping"] = 1 + One(pc[o] = "stopShort")
          /\ sem["long"] + longAway + sem["stopping"]
               = 1 + One(pc[o] = "stopShort") + One(pc[o] = "stopLong")
      BY DEF Gate
    <2> HIDE DEF shortAway, longAway
    <2>10. /\ sem["short"] + shortAway + (sem["stopping"] + 1) = 2
           /\ sem["long"] + longAway + (sem["stopping"] + 1) = 2
           /\ {sem["short"], sem["long"], sem["stopping"] + 1} \subseteq Int
      BY <2>3, <2>4, <2>6, <2>8, <2>9, Gates
    <2>11. /\ \A d \in Console : commands'[d] <= Len(Script[d])
           /\ \A d \in Console \ {o} : pc'[d] \notin Stopping
      BY <2>2, <2>4 DEF Gate
    <2>12. LastIsStop(o)' /\ pc'[o] \in Stopping /\ sem["stopping"] + 1 >= 1
      BY <2>4, <2>5, Gates DEF Stopping
    <2> QED
      <3>1. /\ sem'["short"] + One(pc'["short"] # "planner") + sem'["stopping"]
                 = 1 + One(pc'[o] = "stopShort")
            /\ sem'["long"] + One(pc'["long"] # "planner") + sem'["stopping"]
                 = 1 + One(pc'[o] = "stopShort") + One(pc'[o] = "stopLong")
        BY <2>3, <2>4, <2>6, <2>8, <2>10
      <3>2. sem'["stopping"] >= 1 \/ ~LastIsStop(o)'
        BY <2>4, <2>12
      <3> QED
        BY <2>11, <2>12, <3>1, <3>2 DEF Gate, Stopping
  <1>4. CASE Step(StopShortTerm(c))
    <2>1. c = o /\ pc[o] = "stopShort"
      BY <1>4 DEF Step, StopShortTerm, Gate, Stopping
    <2>2. /\ sem'["short"] = sem["short"] - 1 /\ sem'["long"] = sem["long"]
          /\ sem'["stopping"] = sem["stopping"]
          /\ pc'["short"] = pc["short"] /\ pc'["long"] = pc["long"]
          /\ pc'[o] = "stopLong" /\ commands' = commands
          /\ \A d \in Console \ {o} : pc'[d] = pc[d]
      BY <1>0, <1>4, <2>1, Gates DEF Step, StopShortTerm, Goto, Semaphore, inert
    <2>3. /\ One(pc[o] = "stopShort") = 1 /\ One(pc'[o] = "stopShort") = 0
          /\ One(pc[o] = "stopLong") = 0 /\ One(pc'[o] = "stopLong") = 1
      BY <2>1, <2>2 DEF One
    <2>4. /\ One(pc'["short"] # "planner") = One(pc["short"] # "planner")
          /\ One(pc'["long"] # "planner") = One(pc["long"] # "planner")
          /\ One(pc["short"] # "planner") \in Nat /\ One(pc["long"] # "planner") \in Nat
      BY <2>2 DEF One
    <2>5. LastIsStop(o) /\ LastIsStop(o)'
      BY <2>1, <2>2 DEF LastIsStop, Gate, Stopping
    <2> QED
      BY <2>2, <2>3, <2>4, <2>5, Gates DEF Gate, Stopping
  <1>5. CASE Step(StopLongTerm(c))
    <2>1. c = o /\ pc[o] = "stopLong"
      BY <1>5 DEF Step, StopLongTerm, Gate, Stopping
    <2>2. /\ sem'["short"] = sem["short"] /\ sem'["long"] = sem["long"] - 1
          /\ sem'["stopping"] = sem["stopping"]
          /\ pc'["short"] = pc["short"] /\ pc'["long"] = pc["long"]
          /\ pc'[o] = "listen" /\ commands' = commands
          /\ \A d \in Console \ {o} : pc'[d] = pc[d]
      BY <1>0, <1>5, <2>1, Gates DEF Step, StopLongTerm, Goto, Semaphore, inert
    <2>3. /\ One(pc[o] = "stopShort") = 0 /\ One(pc'[o] = "stopShort") = 0
          /\ One(pc[o] = "stopLong") = 1 /\ One(pc'[o] = "stopLong") = 0
      BY <2>1, <2>2 DEF One
    <2>4. /\ One(pc'["short"] # "planner") = One(pc["short"] # "planner")
          /\ One(pc'["long"] # "planner") = One(pc["long"] # "planner")
          /\ One(pc["short"] # "planner") \in Nat /\ One(pc["long"] # "planner") \in Nat
      BY <2>2 DEF One
    <2>5. LastIsStop(o) /\ LastIsStop(o)'
      BY <2>1, <2>2 DEF LastIsStop, Gate, Stopping
    <2> DEFINE shortAway == One(pc["short"] # "planner")
               longAway == One(pc["long"] # "planner")
    <2>8. /\ shortAway \in Int /\ longAway \in Int
          /\ One(pc'["short"] # "planner") = shortAway
          /\ One(pc'["long"] # "planner") = longAway
      BY <2>2, <2>4 DEF One
    <2>9. /\ sem["short"] + shortAway + sem["stopping"] = 1 + One(pc[o] = "stopShort")
          /\ sem["long"] + longAway + sem["stopping"]
               = 1 + One(pc[o] = "stopShort") + One(pc[o] = "stopLong")
      BY DEF Gate
    <2> HIDE DEF shortAway, longAway
    <2>10. /\ sem["short"] + shortAway + sem["stopping"] = 1
           /\ (sem["long"] - 1) + longAway + sem["stopping"] = 1
           /\ {sem["short"], sem["long"] - 1, sem["stopping"]} \subseteq Int
      BY <2>3, <2>4, <2>8, <2>9, Gates
    <2>11. /\ \A d \in Console : commands'[d] <= Len(Script[d])
           /\ \A d \in Console \ {o} : pc'[d] \notin Stopping
      BY <2>2, <2>4 DEF Gate
    <2>12. LastIsStop(o)' /\ pc'[o] \in Stopping \cup {"listen"} /\ sem["stopping"] >= 1
      BY <2>2, <2>5 DEF Gate
    <2> QED
      <3>1. /\ sem'["short"] + One(pc'["short"] # "planner") + sem'["stopping"]
                 = 1 + One(pc'[o] = "stopShort")
            /\ sem'["long"] + One(pc'["long"] # "planner") + sem'["stopping"]
                 = 1 + One(pc'[o] = "stopShort") + One(pc'[o] = "stopLong")
        BY <2>2, <2>3, <2>8, <2>10
      <3>2. sem'["stopping"] >= 1 \/ ~LastIsStop(o)'
        BY <2>2, <2>12
      <3> QED
        BY <2>11, <2>12, <3>1, <3>2 DEF Gate, Stopping
  <1>6. CASE Step(StartPlanning(c))
    <2>1. Receives(c, "START_PLANNING") /\ commands' = [commands EXCEPT ![c] = @ + 1]
      BY <1>6 DEF Step, StartPlanning, Consume
    <2>2. /\ \A d \in Console : commands'[d] <= Len(Script[d])
          /\ commands'[c] \in DOMAIN Script[c] /\ commands'[c] > 0
          /\ Script[c][commands'[c]].op = "START_PLANNING"
          /\ pc[c] = "listen"
      BY <2>1, Consumed
    <2>3. c = o
      BY <2>2 DEF Plans
    <2>4. /\ sem'["short"] = sem["short"] + 1 /\ sem'["long"] = sem["long"] + 1
          /\ sem'["stopping"] = sem["stopping"] - 1 /\ sem["stopping"] > 0
          /\ pc' = pc
      BY <1>6, Gates DEF Step, StartPlanning, Semaphore, locals
    <2>5. ~LastIsStop(o)' /\ pc'[o] \notin Stopping
      BY <2>2, <2>3, <2>4 DEF LastIsStop, Stopping
    <2>6. /\ One(pc["short"] # "planner") \in Nat /\ One(pc["long"] # "planner") \in Nat
          /\ One(pc[o] = "stopShort") = 0 /\ One(pc[o] = "stopLong") = 0
      BY <2>2, <2>3 DEF One
    <2> DEFINE shortAway == One(pc["short"] # "planner")
               longAway == One(pc["long"] # "planner")
    <2>8. /\ shortAway \in Int /\ longAway \in Int
          /\ One(pc'["short"] # "planner") = shortAway
          /\ One(pc'["long"] # "planner") = longAway
      BY <2>2, <2>4 DEF One
    <2>9. /\ sem["short"] + shortAway + sem["stopping"] = 1 + One(pc[o] = "stopShort")
          /\ sem["long"] + longAway + sem["stopping"]
               = 1 + One(pc[o] = "stopShort") + One(pc[o] = "stopLong")
      BY DEF Gate
    <2> HIDE DEF shortAway, longAway
    <2>10. /\ (sem["short"] + 1) + shortAway + (sem["stopping"] - 1) = 1
           /\ (sem["long"] + 1) + longAway + (sem["stopping"] - 1) = 1
           /\ {sem["short"] + 1, sem["long"] + 1, sem["stopping"] - 1} \subseteq Int
      BY <2>3, <2>4, <2>6, <2>8, <2>9, Gates
    <2>11. /\ \A d \in Console : commands'[d] <= Len(Script[d])
           /\ \A d \in Console \ {o} : pc'[d] \notin Stopping
      BY <2>2, <2>4 DEF Gate
    <2>12. ~LastIsStop(o)' /\ pc'[o] \notin Stopping
      BY <2>5
    <2> QED
      <3>1. /\ sem'["short"] + One(pc'["short"] # "planner") + sem'["stopping"]
                 = 1 + One(pc'[o] = "stopShort")
            /\ sem'["long"] + One(pc'["long"] # "planner") + sem'["stopping"]
                 = 1 + One(pc'[o] = "stopShort") + One(pc'[o] = "stopLong")
        BY <2>3, <2>4, <2>6, <2>8, <2>10
      <3>2. sem'["stopping"] >= 1 \/ ~LastIsStop(o)'
        BY <2>4, <2>12
      <3> QED
        BY <2>11, <2>12, <3>1, <3>2 DEF Gate, Stopping
  <1> QED
    BY <1>1, <1>2, <1>3, <1>4, <1>5, <1>6 DEF HandlerConnection

\* A planner that takes its token or puts it back.
LEMMA GatePlanner ==
    ASSUME TypeOK, NEW o \in Console, Gate(o), commands' = commands,
           sem'["stopping"] = sem["stopping"],
           \A t \in {"short", "long"} :
               sem'[t] + One(pc'[t] # "planner") = sem[t] + One(pc[t] # "planner"),
           \A c \in Console : pc'[c] = pc[c]
    PROVE  Gate(o)'
  <1>1. /\ One(pc'[o] = "stopShort") = One(pc[o] = "stopShort")
        /\ One(pc'[o] = "stopLong") = One(pc[o] = "stopLong")
    BY DEF One
  <1>2. LastIsStop(o)' <=> LastIsStop(o)
    BY DEF LastIsStop
  <1>3. /\ sem'["short"] + One(pc'["short"] # "planner") = sem["short"] + One(pc["short"] # "planner")
        /\ sem'["long"] + One(pc'["long"] # "planner") = sem["long"] + One(pc["long"] # "planner")
    OBVIOUS
  <1>4. /\ sem'["short"] + One(pc'["short"] # "planner") + sem'["stopping"]
             = 1 + One(pc'[o] = "stopShort")
        /\ sem'["long"] + One(pc'["long"] # "planner") + sem'["stopping"]
             = 1 + One(pc'[o] = "stopShort") + One(pc'[o] = "stopLong")
    BY <1>1, <1>3 DEF Gate
  <1> QED
    BY <1>2, <1>4 DEF Gate

LEMMA LongGate ==
    ASSUME TypeOK, NEW o \in Console, Gate(o), LongTermPlanner
    PROVE  Gate(o)'
  <1>0. \A c \in Console : c \in Thread /\ c \notin {"short", "long", "dispatch"}
    BY Gates
  <1>1. /\ commands' = commands
        /\ sem'["stopping"] = sem["stopping"] /\ sem'["short"] = sem["short"]
        /\ pc'["short"] = pc["short"]
        /\ \A c \in Console : pc'[c] = pc[c]
    BY <1>0, Gates
       DEF LongTermPlanner, Step, LongWaitPlanner, LongWaitDegree, LongPopNew, LongPushReady,
           Crash, Goto, inert, locals, Semaphore
  <1>2. sem'["long"] + One(pc'["long"] # "planner") = sem["long"] + One(pc["long"] # "planner")
    <2>1. CASE Step(LongWaitPlanner)
      <3>1. /\ sem'["long"] = sem["long"] - 1
            /\ pc["long"] = "planner" /\ pc'["long"] = "degree"
        BY <2>1, Gates DEF Step, LongWaitPlanner, Goto, Semaphore
      <3> QED
        BY <3>1, Gates DEF One
    <2>2. CASE Step(LongPushReady)
      <3>1. /\ sem'["long"] = sem["long"] + 1
            /\ pc["long"] = "push" /\ pc'["long"] = "planner"
        BY <2>2, Gates DEF Step, LongPushReady, Goto, Semaphore
      <3> QED
        BY <3>1, Gates DEF One
    <2>3. CASE Step(LongWaitDegree) \/ Step(LongPopNew)
      <3>1. /\ sem'["long"] = sem["long"]
            /\ pc["long"] # "planner" /\ pc'["long"] # "planner"
        BY <2>3, Gates DEF Step, LongWaitDegree, LongPopNew, Crash, Goto, locals, Semaphore
      <3> QED
        BY <3>1 DEF One
    <2> QED
      BY <2>1, <2>2, <2>3 DEF LongTermPlanner
  <1>3. One(pc'["short"] # "planner") = One(pc["short"] # "planner")
    BY <1>1 DEF One
  <1> QED
    BY <1>1, <1>2, <1>3, GatePlanner

LEMMA ShortGate ==
    ASSUME TypeOK, NEW o \in Console, Gate(o), ShortTermPlanner
    PROVE  Gate(o)'
  <1>0. \A c \in Console : c \in Thread /\ c \notin {"short", "long", "dispatch"}
    BY Gates
  <1>1. /\ commands' = commands
        /\ sem'["stopping"] = sem["stopping"] /\ sem'["long"] = sem["long"]
        /\ pc'["long"] = pc["long"]
        /\ \A c \in Console : pc'[c] = pc[c]
    BY <1>0, Gates
       DEF ShortTermPlanner, Step, ShortWaitPlanner, ShortWaitReady, ShortWaitCpu, ShortWait,
           SortQueue, ShortPopReady, ShortPushExec, DispatchProcess, InterruptProcess, Crash,
           Goto, inert, locals, Semaphore
  <1>2. sem'["short"] + One(pc'["short"] # "planner") = sem["short"] + One(pc["short"] # "planner")
    <2>1. CASE Step(ShortWaitPlanner)
      <3>1. /\ sem'["short"] = sem["short"] - 1
            /\ pc["short"] = "planner" /\ pc'["short"] = "ready"
        BY <2>1, Gates DEF Step, ShortWaitPlanner, ShortWait, Goto, Semaphore
      <3> QED
        BY <3>1, Gates DEF One
    <2>2. CASE Step(DispatchProcess) \/ Step(InterruptProcess)
      <3>1. pc["short"] # "planner"
        BY <2>2 DEF Step, DispatchProcess, InterruptProcess
      <3>2. \/ sem'["short"] = sem["short"] + 1 /\ pc'["short"] = "planner"
            \/ sem'["short"] = sem["short"] /\ pc'["short"] # "planner"
        BY <2>2, <3>1, Gates
           DEF Step, DispatchProcess, InterruptProcess, Crash, Goto, locals, Semaphore
      <3> QED
        BY <3>1, <3>2, Gates DEF One
    <2>3. CASE \/ Step(ShortWaitReady) \/ Step(ShortWaitCpu) \/ Step(SortQueue)
               \/ Step(ShortPopReady) \/ Step(ShortPushExec)
      <3>1. /\ sem'["short"] = sem["short"]
            /\ pc["short"] # "planner" /\ pc'["short"] # "planner"
        BY <2>3, Gates
           DEF Step, ShortWaitReady, ShortWaitCpu, ShortWait, SortQueue, ShortPopReady,
               ShortPushExec, Crash, Goto, locals, Semaphore
      <3> QED
        BY <3>1 DEF One
    <2> QED
      BY <2>1, <2>2, <2>3 DEF ShortTermPlanner
  <1>3. One(pc'["long"] # "planner") = One(pc["long"] # "planner")
    BY <1>1 DEF One
  <1> QED
    BY <1>1, <1>2, <1>3, GatePlanner

\* finish_process moves none of these tokens, and a console's thread that is
\* inside it was sent FINISH_PROCESS last.
LEMMA FinishGate ==
    ASSUME TypeOK, NEW o \in Console, Gate(o), NEW t \in Finisher, FinishProcess(t)
    PROVE  Gate(o)'
  <1>0. \A c \in Console : c \in Thread /\ c \notin {"short", "long", "dispatch"}
    BY Gates
  <1>1. t \in Thread /\ t # "short" /\ t # "long"
    BY AccessType
  <1>2. /\ commands' = commands
        /\ \A s \in {"short", "long", "stopping"} : sem'[s] = sem[s]
    BY Gates
       DEF FinishProcess, Step, FindProcess, InspectState, MarkExit, ReleaseResource,
           CreditResource, UnlinkProcess, CheckBlocked, ContinueWaking, GetWaiter, MoveWaiter,
           DropWaiter, CountWaiter, NotifyMemory, Settle, FinishDangling, Crash, inert, Semaphore
  <1>3. /\ pc[t] \in FinishLabel /\ pc'[t] \in FinishLabel \cup {"listen"}
        /\ \A u \in Thread \ {t} : pc'[u] = pc[u]
    BY <1>1, Gates
       DEF FinishProcess, Step, FindProcess, InspectState, MarkExit, ReleaseResource,
           CreditResource, UnlinkProcess, CheckBlocked, ContinueWaking, GetWaiter, MoveWaiter,
           DropWaiter, CountWaiter, NotifyMemory, Settle, FinishDangling, Crash, Goto, Return,
           locals, FinishLabel
  <1>4. FinishLabel \cap (Stopping \cup {"listen"}) = {} /\ "listen" \notin Stopping
    BY DEF FinishLabel, Stopping
  <1>5. \A c \in Console : commands'[c] <= Len(Script[c])
    BY <1>2 DEF Gate
  <1>6. \A c \in Console \ {o} : pc'[c] \notin Stopping
    BY <1>0, <1>3, <1>4 DEF Gate
  <1>7. \A label \in Stopping : pc'[o] = label <=> pc[o] = label
    BY <1>0, <1>3, <1>4
  <1>8. LastIsStop(o)' <=> LastIsStop(o)
    BY <1>2 DEF LastIsStop
  <1>9. /\ LastIsStop(o)' => LastIsStop(o) /\ pc'[o] \in Stopping \cup {"listen"}
        /\ ~LastIsStop(o)' => pc[o] \notin Stopping
    BY <1>0, <1>3, <1>4, <1>8 DEF Gate
  <1>10. \A u \in {"short", "long"} : pc'[u] = "planner" <=> pc[u] = "planner"
    BY <1>1, <1>3, Gates
  <1> QED
    BY <1>2, <1>5, <1>6, <1>7, <1>9, <1>10, GateKept

LEMMA DispatchGate ==
    ASSUME TypeOK, NEW o \in Console, Gate(o), HandleDispatchConnection
    PROVE  Gate(o)'
  <1>0. \A c \in Console : c \in Thread /\ c \notin {"short", "long", "dispatch"}
    BY Gates
  <1>1. /\ commands' = commands
        /\ \A s \in {"short", "long", "stopping"} : sem'[s] = sem[s]
    BY Gates, DetectionFrame
       DEF HandleDispatchConnection, Step, DispatchFinish, DispatchInterrupt, RequeueInterrupted,
           DispatchInvalid, DispatchWaitGranted, DispatchWaitBlocked, BlockProcess,
           DispatchSignal, DispatchSignalUnheld, LoadInstances, StoreInstances, Respond,
           DispatchSleep, ReceivesFromCpu, Crash, inert, Semaphore
  <1>2. \A u \in Thread \ {"dispatch"} : pc'[u] = pc[u]
    BY Gates, DetectionFrame
       DEF HandleDispatchConnection, Step, DispatchFinish, DispatchInterrupt, RequeueInterrupted,
           DispatchInvalid, DispatchWaitGranted, DispatchWaitBlocked, BlockProcess,
           DispatchSignal, DispatchSignalUnheld, LoadInstances, StoreInstances, Respond,
           DispatchSleep, Finish, Crash, Goto, locals
  <1>3. /\ \A c \in Console : pc'[c] = pc[c]
        /\ \A t \in {"short", "long"} : pc'[t] = "planner" <=> pc[t] = "planner"
    BY <1>0, <1>2, Gates
  <1> QED
    BY <1>1, <1>3, GateElsewhere

LEMMA OthersGate ==
    ASSUME TypeOK, NEW o \in Console, Gate(o),
           SleepThread \/ ExecuteProcess \/ InterruptThread \/ UNCHANGED allVars
    PROVE  Gate(o)'
  <1>1. CASE SleepThread
    <2>1. commands' = commands /\ pc' = pc /\ \A s \in {"short", "long", "stopping"} : sem'[s] = sem[s]
      BY <1>1, Gates
         DEF SleepThread, Step, SleepArguments, SleepPop, SleepEnd, Crash, locals, Semaphore
    <2> QED
      BY <2>1, GateElsewhere
  <1>2. CASE ExecuteProcess \/ InterruptThread \/ UNCHANGED allVars
    <2>1. commands' = commands /\ pc' = pc /\ sem' = sem
      BY <1>2 DEF ExecuteProcess, InterruptThread, CpuStep, allVars, vars, kernelVars
    <2> QED
      BY <2>1, GateElsewhere
  <1> QED
    BY <1>1, <1>2

-----------------------------------------------------------------------------

LEMMA GateInit ==
    ASSUME Init, NEW o \in Console
    PROVE  Gate(o)
  <1>1. /\ o \in Thread /\ \A c \in Console : c \in Finisher /\ c \in Thread
        /\ {"short", "long"} \subseteq Thread /\ {"short", "long"} \cap Finisher = {}
    BY ConsoleAssumption DEF Thread, Finisher
  <1>2. /\ \A c \in Console : pc[c] = "listen" /\ commands[c] = 0
        /\ pc["short"] = "planner" /\ pc["long"] = "planner"
        /\ sem["short"] = 0 /\ sem["long"] = 0 /\ sem["stopping"] = 1
    BY <1>1 DEF Init, KernelInit, Semaphore
  <1>3. \A c \in Console : commands[c] <= Len(Script[c])
    <2> TAKE c \in Console
    <2>1. Script[c] \in Seq(Command)
      BY ScriptAssumption
    <2> QED
      BY <1>2, <2>1, LenProperties
  <1>4. ~LastIsStop(o)
    BY <1>2 DEF LastIsStop
  <1> QED
    BY <1>2, <1>3, <1>4 DEF Gate, Stopping, One

LEMMA GateNext ==
    ASSUME TypeOK, NEW o \in Console, \A c \in Console \ {o} : ~Plans(c), Gate(o), [Next]_allVars
    PROVE  Gate(o)'
  BY ConsoleGate, LongGate, ShortGate, FinishGate, DispatchGate, OthersGate DEF Next

\* Where the last command was a STOP that has returned, neither planner has its
\* token, and nobody takes a step for a planner that waits for it.
LEMMA GateFreezes ==
    ASSUME TypeOK, NEW o \in Console, \A c \in Console \ {o} : ~Plans(c), Gate(o),
           NEW c \in Console, Stopped(c), [Next]_allVars
    PROVE  pc'["long"] = pc["long"] /\ pc'["short"] = pc["short"]
  <1>1. c = o
    <2>1. Script[c] \in Seq(Command) /\ commands[c] \in Nat /\ commands[c] > 0 /\
          commands[c] <= Len(Script[c])
      BY ScriptAssumption, Gates DEF Stopped, Gate
    <2>2. commands[c] \in DOMAIN Script[c]
      BY <2>1, LenProperties
    <2> QED
      BY <2>2 DEF Plans, Stopped
  <1>2. LastIsStop(o) /\ pc[o] = "listen"
    BY <1>1 DEF Stopped, LastIsStop
  <1>3. /\ sem["stopping"] >= 1
        /\ One(pc[o] = "stopShort") = 0 /\ One(pc[o] = "stopLong") = 0
    BY <1>2 DEF Gate, One
  <1>4. One(pc["short"] # "planner") \in {0, 1} /\ One(pc["long"] # "planner") \in {0, 1}
    BY DEF One
  <1>5. /\ sem["short"] = 0 /\ One(pc["short"] # "planner") = 0
        /\ sem["long"] = 0 /\ One(pc["long"] # "planner") = 0
    <2>1. /\ sem["short"] + One(pc["short"] # "planner") + sem["stopping"] = 1
          /\ sem["long"] + One(pc["long"] # "planner") + sem["stopping"] = 1
      BY <1>3 DEF Gate
    <2> DEFINE a == One(pc["short"] # "planner")
               b == One(pc["long"] # "planner")
    <2> HIDE DEF a, b
    <2>2. a \in {0, 1} /\ b \in {0, 1} /\
          sem["short"] + a + sem["stopping"] = 1 /\ sem["long"] + b + sem["stopping"] = 1
      BY <1>4, <2>1 DEF a, b
    <2>3. a = 0 /\ b = 0 /\ sem["short"] = 0 /\ sem["long"] = 0
      BY <1>3, <2>2, Gates
    <2> QED
      BY <2>3 DEF a, b
  <1>6. pc["short"] = "planner" /\ pc["long"] = "planner"
    BY <1>5 DEF One
  <1>7. ~LongTermPlanner /\ ~ShortTermPlanner
    BY <1>5, <1>6
       DEF LongTermPlanner, Step, LongWaitPlanner, LongWaitDegree, LongPopNew, LongPushReady,
           ShortTermPlanner, ShortWaitPlanner, ShortWaitReady, ShortWaitCpu, ShortWait,
           SortQueue, ShortPopReady, ShortPushExec, DispatchProcess, InterruptProcess
  <1>8. \A d \in Console : d \in Thread /\ d \notin {"short", "long", "dispatch"}
    BY Gates
  <1>9. ASSUME NEW d \in Console, HandlerConnection(d)
        PROVE  pc'["long"] = pc["long"] /\ pc'["short"] = pc["short"]
    BY <1>6, <1>8, <1>9, Gates
       DEF HandlerConnection, Step, ReceiveCreateProcess, IncrementId, CreateInMemory,
           MoveProcessToNew, ReceiveFinishProcess, StopPlanning, StopShortTerm, StopLongTerm,
           StartPlanning, ModifyDegree, Finish, Goto, locals
  <1>10. ASSUME NEW t \in Finisher, FinishProcess(t)
         PROVE  pc'["long"] = pc["long"] /\ pc'["short"] = pc["short"]
    <2>1. t \in Thread /\ t # "short" /\ t # "long"
      BY AccessType
    <2> QED
      BY <1>10, <2>1, Gates
         DEF FinishProcess, Step, FindProcess, InspectState, MarkExit, ReleaseResource,
             CreditResource, UnlinkProcess, CheckBlocked, ContinueWaking, GetWaiter, MoveWaiter,
             DropWaiter, CountWaiter, NotifyMemory, Settle, FinishDangling, Crash, Goto, Return,
             locals
  <1>11. CASE HandleDispatchConnection
    BY <1>11, Gates, DetectionFrame
       DEF HandleDispatchConnection, Step, DispatchFinish, DispatchInterrupt, RequeueInterrupted,
           DispatchInvalid, DispatchWaitGranted, DispatchWaitBlocked, BlockProcess,
           DispatchSignal, DispatchSignalUnheld, LoadInstances, StoreInstances, Respond,
           DispatchSleep, Finish, Crash, Goto, locals
  <1>12. CASE SleepThread \/ ExecuteProcess \/ InterruptThread \/ UNCHANGED allVars
    <2>1. pc' = pc
      BY <1>12
         DEF SleepThread, Step, SleepArguments, SleepPop, SleepEnd, Crash, locals,
             ExecuteProcess, InterruptThread, CpuStep, allVars, vars, kernelVars
    <2> QED
      BY <2>1
  <1> QED
    BY <1>7, <1>9, <1>10, <1>11, <1>12 DEF Next

\* A STOP_PLANNING that has returned has stopped both planners until the operator
\* sends START_PLANNING, whatever else goes on in the kernel, kills and changes
\* of the degree included: no process is admitted and none is dispatched, even
\* where STOP or START is sent twice or the planner waits for a process while the
\* STOP arrives (handle_connection.c:30-36, planners.c:34-133).
THEOREM StopIsKept ==
    ASSUME OneOperator
    PROVE  Spec => StopFreezes
  <1>1. CASE Console = {}
    <2>1. [Next]_allVars =>
              [\A c \in Console :
                  (Stopped(c) /\ \A d \in Console \ {c} : commands[d] = Len(Script[d]))
                      => pc'["long"] = pc["long"] /\ pc'["short"] = pc["short"]]_allVars
      BY <1>1
    <2> QED
      BY <2>1, PTL DEF Spec, StopFreezes
  <1>2. CASE Console # {}
    <2>1. PICK o \in Console : \A c \in Console \ {o} : ~Plans(c)
      <3>1. CASE \E d \in Console : Plans(d)
        BY <3>1 DEF OneOperator
      <3>2. CASE \A d \in Console : ~Plans(d)
        BY <1>2, <3>2
      <3> QED
        BY <3>1, <3>2
    <2>2. Init => Gate(o)
      BY GateInit
    <2>3. TypeOK /\ Gate(o) /\ [Next]_allVars => Gate(o)'
      BY <2>1, GateNext
    <2>4. TypeOK /\ Gate(o) /\ [Next]_allVars =>
              [\A c \in Console :
                  (Stopped(c) /\ \A d \in Console \ {c} : commands[d] = Len(Script[d]))
                      => pc'["long"] = pc["long"] /\ pc'["short"] = pc["short"]]_allVars
      BY <2>1, GateFreezes
    <2> QED
      BY TypeCorrect, <2>2, <2>3, <2>4, PTL DEF Spec, StopFreezes
  <1> QED
    BY <1>1, <1>2
=============================================================================
