----------------------------- MODULE ExclusionProofs -----------------------------
(***************************************************************************)
(* The CPU is one token: without a console that kills a process, the       *)
(* kernel never believes the CPU free while it runs one, whatever the      *)
(* program, the algorithm, the degree and the number of consoles.          *)
(***************************************************************************)
EXTENDS SystemProofs

\* No console sends FINISH_PROCESS: a kill of the executing process posts
\* sem_cpu_available while the CPU still runs it (queues.c:177).
NoKill == \A c \in Console : \A i \in DOMAIN Script[c] : Script[c][i].op # "FINISH_PROCESS"

\* No console is inside finish_process.
ConsolesIdle == \A c \in Console : pc[c] \notin FinishLabel

\* Where the token is not on the semaphore, at each place it can be.
ShortLabels == {"sort", "pop", "push", "send"}
DispatchLabels == FinishLabel \cup {"load", "store", "respond"}

-----------------------------------------------------------------------------

\* Every place holds a number of tokens.
LEMMA PlacesType ==
    ASSUME TypeOK
    PROVE  /\ sem["cpu"] \in Nat /\ Len(toCpu) \in Nat /\ Len(toKernel) \in Nat
           /\ sem \in [Semaphore -> Nat]
           /\ pc \in [Thread -> ConsoleLabel \cup DispatchLabel \cup ShortLabel \cup LongLabel]
           /\ {"dispatch", "long", "short"} \subseteq Thread
           /\ toCpu \in Seq(MessageToCpu) /\ toKernel \in Seq(MessageToKernel)
  BY AccessType, LenProperties DEF TypeOK, KernelTypeOK, ChannelsTypeOK, Semaphore

\* The tokens that a thread of the kernel can move.
KernelTokens ==
    sem["cpu"] + One(pc["short"] \in ShortLabels) + Len(toCpu) + Len(toKernel)
        + One(pc["dispatch"] \in DispatchLabels)

\* The CPU holds the rest.
LEMMA TokensSplit ==
    TypeOK => /\ CpuTokens = KernelTokens + One(CpuBusy)
              /\ KernelTokens \in Int
              /\ One(CpuBusy) \in Int
  <1> SUFFICES ASSUME TypeOK
      PROVE CpuTokens = KernelTokens + One(CpuBusy) /\ KernelTokens \in Int /\ One(CpuBusy) \in Int
    OBVIOUS
  <1>1. /\ One(CpuBusy) \in Int
        /\ One(pc["short"] \in ShortLabels) \in Int
        /\ One(pc["dispatch"] \in DispatchLabels) \in Int
    BY DEF One
  <1> QED
    BY <1>1, PlacesType
       DEF CpuTokens, KernelTokens, ShortHoldsCpu, DispatchHoldsCpu, ShortLabels, DispatchLabels

\* A thread of the kernel takes nothing from the CPU and brings nothing to it.
LEMMA KernelStep ==
    ASSUME TypeOK, TypeOK', UNCHANGED cpuVars, KernelTokens' <= KernelTokens
    PROVE  CpuTokens' <= CpuTokens
  <1>1. TypeOK' => (/\ CpuTokens = KernelTokens + One(CpuBusy)
                    /\ KernelTokens \in Int
                    /\ One(CpuBusy) \in Int)'
    BY TokensSplit, PTL
  <1>2. One(CpuBusy)' = One(CpuBusy)
    BY DEF One, CpuBusy, cpuVars
  <1> QED
    BY <1>1, <1>2, TokensSplit

\* A step that moves no token.
LEMMA KeptTokens ==
    ASSUME TypeOK, TypeOK', UNCHANGED cpuVars,
           sem'["cpu"] = sem["cpu"], UNCHANGED <<toCpu, toKernel>>,
           pc'["short"] \in ShortLabels => pc["short"] \in ShortLabels,
           pc'["dispatch"] \in DispatchLabels => pc["dispatch"] \in DispatchLabels
    PROVE  CpuTokens' <= CpuTokens
  <1>1. KernelTokens' <= KernelTokens
    BY PlacesType DEF KernelTokens, One
  <1> QED
    BY <1>1, KernelStep

-----------------------------------------------------------------------------

\* finish_process gives the token back once, in its last step, and only when the
\* process was found executing.
LEMMA FinishTokens ==
    ASSUME TypeOK, TypeOK', FinishProcess("dispatch")
    PROVE  CpuTokens' <= CpuTokens
  <1>0. /\ pc["dispatch"] \in FinishLabel
        /\ UNCHANGED <<cpuVars, toCpu, toKernel>>
        /\ pc'["short"] = pc["short"]
    BY PlacesType
       DEF FinishProcess, Step, FinishLabel, Goto, Return, Crash, locals, inert, channels,
           FindProcess, InspectState, MarkExit, ReleaseResource, CreditResource,
           UnlinkProcess, CheckBlocked, ContinueWaking, MoveWaiter, DropWaiter,
           CountWaiter, NotifyMemory, FinishDangling, GetWaiter, Settle
  <1>1. CASE Step(Settle("dispatch"))
    <2>1. pc["dispatch"] \in DispatchLabels /\ pc'["dispatch"] \notin DispatchLabels
      BY <1>0, <1>1, PlacesType DEF Step, Settle, Return, Goto, DispatchLabels, FinishLabel
    <2>2. sem'["cpu"] \in {sem["cpu"], sem["cpu"] + 1}
      BY <1>1, PlacesType DEF Step, Settle, Semaphore
    <2>3. KernelTokens' <= KernelTokens
      BY <1>0, <2>1, <2>2, PlacesType DEF KernelTokens, One
    <2> QED
      BY <1>0, <2>3, KernelStep
  <1>2. CASE ~Step(Settle("dispatch"))
    <2>1. sem'["cpu"] = sem["cpu"]
      BY <1>2, PlacesType
         DEF FinishProcess, Step, Crash, locals, inert, Semaphore,
             FindProcess, InspectState, MarkExit, ReleaseResource, CreditResource,
             UnlinkProcess, CheckBlocked, ContinueWaking, MoveWaiter, DropWaiter,
             CountWaiter, NotifyMemory, FinishDangling, GetWaiter
    <2> QED
      BY <1>0, <2>1, KeptTokens DEF DispatchLabels
  <1> QED
    BY <1>1, <1>2

\* A console that kills nothing moves no token.
LEMMA ConsoleTokens ==
    ASSUME TypeOK, TypeOK', NoKill, NEW c \in Console, HandlerConnection(c)
    PROVE  /\ CpuTokens' <= CpuTokens
           /\ pc'[c] = pc[c] \/ pc'[c] \notin FinishLabel
           /\ \A d \in Console \ {c} : pc'[d] = pc[d]
  <1>0. /\ c \in Thread /\ c \notin {"short", "long", "dispatch"}
        /\ Console \subseteq Thread /\ Console \cap {"short", "long", "dispatch"} = {}
    BY ConsoleAssumption DEF Thread, Finisher
  <1>1. ~ReceiveFinishProcess(c)
    <2>1. ASSUME Receives(c, "FINISH_PROCESS") PROVE FALSE
      <3>1. Script[c] \in Seq(Command) /\ commands[c] \in Nat
        BY ScriptAssumption DEF TypeOK, KernelTypeOK
      <3>2. commands[c] + 1 \in DOMAIN Script[c]
        BY <2>1, <3>1, LenProperties DEF Receives
      <3> QED
        BY <2>1, <3>2 DEF Receives, NoKill
    <2> QED
      BY <2>1 DEF ReceiveFinishProcess
  <1>2. UNCHANGED <<cpuVars, toCpu, toKernel>> /\ sem'["cpu"] = sem["cpu"]
    BY <1>1, PlacesType
       DEF HandlerConnection, Step, ReceiveCreateProcess, IncrementId, CreateInMemory,
           MoveProcessToNew, StopPlanning, StopShortTerm, StopLongTerm, StartPlanning,
           ModifyDegree, Semaphore, inert, channels
  <1>3. /\ pc'["short"] = pc["short"] /\ pc'["dispatch"] = pc["dispatch"]
        /\ \A d \in Console \ {c} : pc'[d] = pc[d]
        /\ pc'[c] = pc[c] \/ pc'[c] \notin FinishLabel
    BY <1>0, <1>1, PlacesType
       DEF HandlerConnection, Step, ReceiveCreateProcess, IncrementId, CreateInMemory,
           MoveProcessToNew, StopPlanning, StopShortTerm, StopLongTerm, StartPlanning,
           ModifyDegree, Goto, locals, FinishLabel
  <1> QED
    BY <1>2, <1>3, KeptTokens

\* The short term planner takes the token and sends it with the process.
LEMMA ShortTokens ==
    ASSUME TypeOK, TypeOK', ShortTermPlanner
    PROVE  CpuTokens' <= CpuTokens
  <1>1. CASE Step(ShortWaitCpu)
    <2>1. /\ pc["short"] \notin ShortLabels /\ pc'["short"] \in ShortLabels
          /\ pc'["dispatch"] = pc["dispatch"]
      BY <1>1, PlacesType DEF Step, ShortWaitCpu, ShortWait, Goto, ShortLabels
    <2>2. sem'["cpu"] = sem["cpu"] - 1 /\ UNCHANGED <<cpuVars, toCpu, toKernel>>
      BY <1>1, PlacesType DEF Step, ShortWaitCpu, ShortWait, Semaphore, inert, channels
    <2>3. KernelTokens' <= KernelTokens
      BY <2>1, <2>2, PlacesType DEF KernelTokens, One
    <2> QED
      BY <2>2, <2>3, KernelStep
  <1>2. CASE Step(DispatchProcess) /\ ~crashed'
    <2>1. /\ pc["short"] \in ShortLabels /\ pc'["short"] \notin ShortLabels
          /\ pc'["dispatch"] = pc["dispatch"]
      BY <1>2, PlacesType DEF Step, DispatchProcess, Crash, Goto, ShortLabels
    <2>2. sem'["cpu"] = sem["cpu"] /\ UNCHANGED <<cpuVars, toKernel>>
      BY <1>2, PlacesType DEF Step, DispatchProcess, Crash, Semaphore
    <2>3. Len(toCpu') = Len(toCpu) + 1
      <3>1. \E m : toCpu' = Append(toCpu, m)
        BY <1>2 DEF Step, DispatchProcess, Crash
      <3> QED
        BY <3>1, PlacesType
    <2>4. KernelTokens' <= KernelTokens
      BY <2>1, <2>2, <2>3, PlacesType DEF KernelTokens, One
    <2> QED
      BY <2>2, <2>4, KernelStep
  <1>3. CASE ~Step(ShortWaitCpu) /\ ~(Step(DispatchProcess) /\ ~crashed')
    <2>1. UNCHANGED <<cpuVars, toCpu, toKernel>> /\ sem'["cpu"] = sem["cpu"]
      <3>1. CASE Step(ShortWaitPlanner) \/ Step(ShortWaitReady) \/ Step(InterruptProcess)
        BY <3>1, PlacesType
           DEF Step, ShortWaitPlanner, ShortWaitReady, ShortWait, InterruptProcess, inert,
               channels, Semaphore
      <3>2. CASE Step(SortQueue) \/ Step(ShortPopReady) \/ Step(ShortPushExec)
        BY <3>2 DEF Step, SortQueue, ShortPopReady, ShortPushExec, Crash, inert, channels
      <3>3. CASE Step(DispatchProcess) /\ crashed'
        BY <3>3 DEF Step, DispatchProcess, Crash, channels, idle
      <3> QED
        BY <1>3, <3>1, <3>2, <3>3 DEF ShortTermPlanner
    <2>2. /\ pc'["short"] \in ShortLabels => pc["short"] \in ShortLabels
          /\ pc'["dispatch"] = pc["dispatch"]
      BY <1>3, PlacesType
         DEF ShortTermPlanner, Step, ShortWaitPlanner, ShortWaitReady, ShortWait, SortQueue,
             ShortPopReady, ShortPushExec, DispatchProcess, InterruptProcess, Crash, Goto,
             locals, ShortLabels
    <2> QED
      BY <2>1, <2>2, KeptTokens
  <1> QED
    BY <1>1, <1>2, <1>3

\* The long term planner moves no token.
LEMMA LongTokens ==
    ASSUME TypeOK, TypeOK', LongTermPlanner
    PROVE  CpuTokens' <= CpuTokens
  <1>1. UNCHANGED <<cpuVars, toCpu, toKernel>> /\ sem'["cpu"] = sem["cpu"]
    BY PlacesType
       DEF LongTermPlanner, Step, LongWaitPlanner, LongWaitDegree, LongPopNew, LongPushReady,
           Crash, inert, channels, Semaphore
  <1>2. pc'["short"] = pc["short"] /\ pc'["dispatch"] = pc["dispatch"]
    BY PlacesType
       DEF LongTermPlanner, Step, LongWaitPlanner, LongWaitDegree, LongPopNew, LongPushReady,
           Crash, Goto, locals
  <1> QED
    BY <1>1, <1>2, KeptTokens

\* A sleep thread moves no token: it was given back before the thread started.
LEMMA SleepTokens ==
    ASSUME TypeOK, TypeOK', SleepThread
    PROVE  CpuTokens' <= CpuTokens
  <1>1. UNCHANGED <<cpuVars, toCpu, toKernel, pc>> /\ sem'["cpu"] = sem["cpu"]
    BY PlacesType
       DEF SleepThread, Step, SleepArguments, SleepPop, SleepEnd, Crash, locals, channels,
           Semaphore
  <1> QED
    BY <1>1, KeptTokens

\* Each message from the CPU is one token that the dispatch thread keeps for a
\* while or gives back at once.
LEMMA DispatchTokens ==
    ASSUME TypeOK, TypeOK', HandleDispatchConnection
    PROVE  CpuTokens' <= CpuTokens
  <1>1. ASSUME NEW op, ReceivesFromCpu(op)
        PROVE  /\ Len(toKernel') = Len(toKernel) - 1 /\ toCpu' = toCpu
               /\ pc["dispatch"] \notin DispatchLabels
    BY <1>1, PlacesType DEF ReceivesFromCpu, DispatchLabels, FinishLabel
  <1>2. CASE \/ Step(DispatchFinish) \/ Step(DispatchInvalid) \/ Step(DispatchWaitGranted)
             \/ Step(DispatchSignal) \/ Step(DispatchSignalUnheld)
    <2>1. /\ Len(toKernel') = Len(toKernel) - 1 /\ toCpu' = toCpu
          /\ pc["dispatch"] \notin DispatchLabels
      BY <1>1, <1>2
         DEF Step, DispatchFinish, DispatchInvalid, DispatchWaitGranted, DispatchSignal,
             DispatchSignalUnheld
    <2>2. UNCHANGED <<cpuVars, sem>> /\ pc'["short"] = pc["short"]
      BY <1>2, PlacesType
         DEF Step, DispatchFinish, DispatchInvalid, DispatchWaitGranted, DispatchSignal,
             DispatchSignalUnheld, Finish, Goto
    <2>3. KernelTokens' <= KernelTokens
      BY <2>1, <2>2, PlacesType DEF KernelTokens, One
    <2> QED
      BY <2>2, <2>3, KernelStep
  <1>3. CASE \/ Step(DispatchInterrupt) \/ Step(DispatchWaitBlocked) \/ Step(DispatchSleep)
    <2>1. /\ Len(toKernel') = Len(toKernel) - 1 /\ toCpu' = toCpu
          /\ pc["dispatch"] \notin DispatchLabels
      BY <1>1, <1>3 DEF Step, DispatchInterrupt, DispatchWaitBlocked, DispatchSleep
    <2>2. /\ UNCHANGED cpuVars
          /\ sem'["cpu"] \in {sem["cpu"], sem["cpu"] + 1}
      BY <1>3, PlacesType
         DEF Step, DispatchInterrupt, DispatchWaitBlocked, DispatchSleep, Semaphore
    <2>3. pc'["short"] = pc["short"] /\ pc'["dispatch"] \notin DispatchLabels
      BY <1>3, <2>1, PlacesType
         DEF Step, DispatchInterrupt, DispatchWaitBlocked, DispatchSleep, Goto, locals,
             DispatchLabels, FinishLabel
    <2>4. KernelTokens' <= KernelTokens
      BY <2>1, <2>2, <2>3, PlacesType DEF KernelTokens, One
    <2> QED
      BY <2>2, <2>4, KernelStep
  <1>4. CASE \/ Step(RequeueInterrupted) \/ Step(BlockProcess) \/ CheckDeadlocks
             \/ Step(LoadInstances) \/ Step(StoreInstances)
    <2>1. UNCHANGED <<cpuVars, toCpu, toKernel>> /\ sem'["cpu"] = sem["cpu"]
      BY <1>4, PlacesType, DetectionFrame
         DEF Step, RequeueInterrupted, BlockProcess, LoadInstances, StoreInstances, Crash,
             inert, channels, Semaphore
    <2>2. CASE CheckDeadlocks
      BY <2>1, <2>2, PlacesType, DetectionFrame, KeptTokens
         DEF Return, Goto, DispatchLabels, FinishLabel, DetectLabel
    <2>3. CASE ~CheckDeadlocks
      <3>1. /\ pc'["short"] = pc["short"]
            /\ pc'["dispatch"] \in DispatchLabels => pc["dispatch"] \in DispatchLabels
        BY <1>4, <2>3, PlacesType
           DEF Step, RequeueInterrupted, BlockProcess, LoadInstances, StoreInstances, Crash,
               Goto, locals, DispatchLabels, FinishLabel
      <3> QED
        BY <2>1, <3>1, KeptTokens
    <2> QED
      BY <2>2, <2>3
  <1>5. CASE Step(Respond)
    <2>1. /\ UNCHANGED <<cpuVars, sem, toKernel>>
          /\ \E m : toCpu' = Append(toCpu, m)
      BY <1>5 DEF Step, Respond
    <2>2. Len(toCpu') = Len(toCpu) + 1
      BY <2>1, PlacesType
    <2>3. /\ pc'["short"] = pc["short"]
          /\ pc["dispatch"] \in DispatchLabels /\ pc'["dispatch"] \notin DispatchLabels
      BY <1>5, PlacesType DEF Step, Respond, Goto, DispatchLabels, FinishLabel
    <2>4. KernelTokens' <= KernelTokens
      BY <2>1, <2>2, <2>3, PlacesType DEF KernelTokens, One
    <2> QED
      BY <2>1, <2>4, KernelStep
  <1> QED
    BY <1>2, <1>3, <1>4, <1>5 DEF HandleDispatchConnection

\* The CPU holds one token from the message it takes to the one it sends.
LEMMA CpuThreadTokens ==
    ASSUME TypeOK, TypeOK', ExecuteProcess \/ InterruptThread
    PROVE  CpuTokens' <= CpuTokens
  <1>1. UNCHANGED <<sem, pc>>
    BY DEF ExecuteProcess, InterruptThread, CpuStep, kernelVars
  <1>2. Len(toCpu') + One(CpuBusy)' + Len(toKernel') <= Len(toCpu) + One(CpuBusy) + Len(toKernel)
    <2>1. CASE ReceiveProcess
      <3>1. Len(toCpu') = Len(toCpu) - 1 /\ UNCHANGED toKernel
        BY <2>1, PlacesType DEF ReceiveProcess
      <3>2. ~CpuBusy
        BY <2>1 DEF ReceiveProcess, CpuBusy
      <3> QED
        BY <3>1, <3>2, PlacesType DEF One
    <2>2. CASE ExecuteInstructionCycle
      <3>1. CASE toKernel' = toKernel
        <4>1. CpuBusy /\ toCpu' = toCpu
          BY <2>2 DEF ExecuteInstructionCycle, CpuBusy
        <4> QED
          BY <3>1, <4>1, PlacesType DEF One
      <3>2. CASE toKernel' # toKernel
        <4>1. CpuBusy /\ ~CpuBusy' /\ toCpu' = toCpu
          BY <2>2, <3>2 DEF ExecuteInstructionCycle, CpuBusy
        <4>2. \E m : toKernel' = Append(toKernel, m)
          BY <2>2, <3>2 DEF ExecuteInstructionCycle
        <4>3. Len(toKernel') = Len(toKernel) + 1
          BY <4>2, PlacesType
        <4> QED
          BY <4>1, <4>3, PlacesType DEF One
      <3> QED
        BY <3>1, <3>2
    <2>3. CASE YieldProcess
      <3>1. CpuBusy /\ ~CpuBusy' /\ toCpu' = toCpu
        BY <2>3 DEF YieldProcess, Leave, CpuBusy
      <3>2. Len(toKernel') = Len(toKernel) + 1
        BY <2>3, PlacesType DEF YieldProcess
      <3> QED
        BY <3>1, <3>2, PlacesType DEF One
    <2>4. CASE NoInterrupt \/ RejectInterrupt \/ ClearInterrupt \/ RelockInterrupt
               \/ ReceiveInterrupt
      <3>1. UNCHANGED <<toCpu, toKernel>>
        BY <2>4
           DEF NoInterrupt, RejectInterrupt, ClearInterrupt, RelockInterrupt, ReceiveInterrupt,
               channels
      <3>2. CpuBusy' => CpuBusy
        BY <2>4
           DEF NoInterrupt, RejectInterrupt, ClearInterrupt, RelockInterrupt, ReceiveInterrupt,
               Leave, CpuBusy
      <3> QED
        BY <3>1, <3>2, PlacesType DEF One
    <2> QED
      BY <2>1, <2>2, <2>3, <2>4 DEF ExecuteProcess, InterruptThread, CpuStep
  <1>3. Len(toCpu') \in Int /\ Len(toKernel') \in Int
    BY LenProperties DEF TypeOK, ChannelsTypeOK
  <1>4. KernelTokens' = KernelTokens - Len(toCpu) - Len(toKernel) + Len(toCpu') + Len(toKernel')
    <2> DEFINE others == sem["cpu"] + One(pc["short"] \in ShortLabels)
               answering == One(pc["dispatch"] \in DispatchLabels)
    <2>1. /\ others \in Int /\ answering \in Int /\ Len(toCpu) \in Int /\ Len(toKernel) \in Int
      BY PlacesType DEF One
    <2>2. /\ KernelTokens = others + Len(toCpu) + Len(toKernel) + answering
          /\ KernelTokens' = others + Len(toCpu') + Len(toKernel') + answering
      BY <1>1 DEF KernelTokens, One
    <2> HIDE DEF others, answering
    <2> QED
      BY <1>3, <2>1, <2>2
  <1>5. TypeOK' => (/\ CpuTokens = KernelTokens + One(CpuBusy)
                    /\ KernelTokens \in Int
                    /\ One(CpuBusy) \in Int)'
    BY TokensSplit, PTL
  <1>6. CpuTokens' = KernelTokens' + One(CpuBusy)' /\ One(CpuBusy)' \in Int /\ KernelTokens' \in Int
    BY <1>5
  <1>7. CpuTokens = KernelTokens + One(CpuBusy) /\ One(CpuBusy) \in Int /\ KernelTokens \in Int
    BY TokensSplit
  <1> DEFINE after == One(CpuBusy)'
             before == One(CpuBusy)
             kernelBefore == KernelTokens
  <1>8. /\ CpuTokens' = kernelBefore - Len(toCpu) - Len(toKernel) + Len(toCpu') + Len(toKernel') + after
        /\ CpuTokens = kernelBefore + before
        /\ {after, before, kernelBefore} \subseteq Int
        /\ Len(toCpu') + after + Len(toKernel') <= Len(toCpu) + before + Len(toKernel)
    BY <1>2, <1>4, <1>6, <1>7
  <1> DEFINE cpuNext == Len(toCpu')
             kernelNext == Len(toKernel')
             cpu == Len(toCpu)
             kernel == Len(toKernel)
             tokens == CpuTokens
             tokensNext == CpuTokens'
  <1>9. {cpuNext, kernelNext, cpu, kernel} \subseteq Int
    BY <1>3, PlacesType
  <1>10. /\ tokensNext = kernelBefore - cpu - kernel + cpuNext + kernelNext + after
         /\ tokens = kernelBefore + before
         /\ cpuNext + after + kernelNext <= cpu + before + kernel
    BY <1>8
  <1>11. {after, before, kernelBefore} \subseteq Int
    BY <1>8
  <1> HIDE DEF after, before, kernelBefore, cpuNext, kernelNext, cpu, kernel, tokens, tokensNext
  <1>12. tokensNext <= tokens
    BY <1>9, <1>10, <1>11
  <1> QED
    BY <1>12 DEF tokens, tokensNext

-----------------------------------------------------------------------------

\* There is one token at the start.
LEMMA FirstToken == Init => ConsolesIdle /\ CpuTokens = 1
  BY ConsoleAssumption
     DEF Init, KernelInit, CpuInit, ChannelsInit, ConsolesIdle, CpuTokens, One, ShortHoldsCpu,
         DispatchHoldsCpu, CpuBusy, FinishLabel, Semaphore, Thread, Finisher

\* A thread that takes a step of finish_process is at one of its labels.
LEMMA FinishLabels ==
    ASSUME NEW t \in Finisher, FinishProcess(t)
    PROVE  pc[t] \in FinishLabel
  <1>1. FindProcess(t) \/ InspectState(t) \/ MarkExit(t) \/ ReleaseResource(t)
            \/ CreditResource(t) \/ UnlinkProcess(t) \/ CheckBlocked(t)
            => pc[t] \in FinishLabel
    BY DEF FinishLabel, FindProcess, InspectState, MarkExit, ReleaseResource, CreditResource,
           UnlinkProcess, CheckBlocked
  <1>2. ContinueWaking(t) \/ GetWaiter(t) \/ MoveWaiter(t) \/ DropWaiter(t) \/ CountWaiter(t)
            \/ NotifyMemory(t) \/ Settle(t) \/ FinishDangling(t)
            => pc[t] \in FinishLabel
    BY DEF FinishLabel, ContinueWaking, GetWaiter, MoveWaiter, DropWaiter, CountWaiter,
           NotifyMemory, Settle, FinishDangling
  <1> QED
    BY <1>1, <1>2 DEF FinishProcess, Step

\* No step of any thread makes a second one.
LEMMA NoSecondToken ==
    ASSUME NoKill, TypeOK, TypeOK', ConsolesIdle, [Next]_allVars
    PROVE  ConsolesIdle' /\ CpuTokens' <= CpuTokens
  <1>0. /\ CpuTokens \in Int
        /\ Console \subseteq Thread /\ Console \cap {"short", "long", "dispatch"} = {}
    BY TokensSplit, AccessType, ConsoleAssumption
  <1>1. CASE \E c \in Console : HandlerConnection(c)
    BY <1>1, ConsoleTokens DEF ConsolesIdle
  <1>2. CASE \E t \in Finisher : FinishProcess(t)
    <2>1. FinishProcess("dispatch")
      <3>1. \A t \in Finisher : FinishProcess(t) => pc[t] \in FinishLabel
        BY FinishLabels
      <3> QED
        BY <1>2, <3>1 DEF ConsolesIdle, Finisher
    <2>2. \A c \in Console : pc'[c] = pc[c]
      BY <1>0, <2>1, PlacesType
         DEF FinishProcess, Step, FindProcess, InspectState, MarkExit, ReleaseResource,
             CreditResource, UnlinkProcess, CheckBlocked, ContinueWaking, GetWaiter, MoveWaiter,
             DropWaiter, CountWaiter, NotifyMemory, Settle, FinishDangling, Goto, Return, Crash,
             locals
    <2> QED
      BY <2>1, <2>2, FinishTokens DEF ConsolesIdle
  <1>3. CASE LongTermPlanner
    <2>1. \A c \in Console : pc'[c] = pc[c]
      BY <1>0, <1>3, PlacesType
         DEF LongTermPlanner, Step, LongWaitPlanner, LongWaitDegree, LongPopNew, LongPushReady,
             Crash, Goto, locals
    <2> QED
      BY <1>3, <2>1, LongTokens DEF ConsolesIdle
  <1>4. CASE ShortTermPlanner
    <2>1. \A c \in Console : pc'[c] = pc[c]
      BY <1>0, <1>4, PlacesType
         DEF ShortTermPlanner, Step, ShortWaitPlanner, ShortWaitReady, ShortWaitCpu, ShortWait,
             SortQueue, ShortPopReady, ShortPushExec, DispatchProcess, InterruptProcess, Crash,
             Goto, locals
    <2> QED
      BY <1>4, <2>1, ShortTokens DEF ConsolesIdle
  <1>5. CASE HandleDispatchConnection
    <2>1. \A c \in Console : pc'[c] = pc[c]
      BY <1>0, <1>5, PlacesType, DetectionFrame
         DEF HandleDispatchConnection, Step, DispatchFinish, DispatchInterrupt,
             RequeueInterrupted, DispatchInvalid, DispatchWaitGranted, DispatchWaitBlocked,
             BlockProcess, DispatchSignal, DispatchSignalUnheld, LoadInstances, StoreInstances,
             Respond, DispatchSleep, Finish, Crash, Goto, locals
    <2> QED
      BY <1>5, <2>1, DispatchTokens DEF ConsolesIdle
  <1>6. CASE SleepThread \/ ExecuteProcess \/ InterruptThread
    <2>1. UNCHANGED pc
      BY <1>6
         DEF SleepThread, Step, SleepArguments, SleepPop, SleepEnd, Crash, locals,
             ExecuteProcess, InterruptThread, CpuStep, kernelVars
    <2> QED
      BY <1>6, <2>1, SleepTokens, CpuThreadTokens DEF ConsolesIdle
  <1>7. CASE UNCHANGED allVars
    BY <1>0, <1>7
       DEF ConsolesIdle, CpuTokens, One, ShortHoldsCpu, DispatchHoldsCpu, CpuBusy, allVars, vars,
           kernelVars, cpuVars, channels
  <1> QED
    BY <1>1, <1>2, <1>3, <1>4, <1>5, <1>6, <1>7 DEF Next

\* Without a console that kills a process, at most one process is believed to
\* have the CPU, whatever the threads of the kernel and of the CPU interleave:
\* the short term planner dispatches only to a CPU that runs nothing, and the
\* answer to a WAIT or SIGNAL meets no other message on its socket
\* (planners.c:75, queues.c:177 and 302, handle_connection.c:139 and 202).
THEOREM CpuExclusion ==
    ASSUME NoKill
    PROVE  Spec => []CpuExclusive
  <1> DEFINE IInv == ConsolesIdle /\ CpuTokens <= 1
  <1>1. Init => IInv
    BY FirstToken
  <1>2. TypeOK /\ TypeOK' /\ IInv /\ [Next]_allVars => IInv'
    <2> SUFFICES ASSUME TypeOK, TypeOK', IInv, [Next]_allVars PROVE IInv'
      OBVIOUS
    <2>1. ConsolesIdle' /\ CpuTokens' <= CpuTokens
      BY NoSecondToken
    <2>2. CpuTokens \in Int
      BY TokensSplit
    <2>3. CpuTokens' \in Int
      <3>1. TypeOK' => (/\ CpuTokens = KernelTokens + One(CpuBusy)
                        /\ KernelTokens \in Int
                        /\ One(CpuBusy) \in Int)'
        BY TokensSplit, PTL
      <3> QED
        BY <3>1
    <2> HIDE DEF CpuTokens
    <2> QED
      BY <2>1, <2>2, <2>3
  <1>3. IInv => CpuExclusive
    BY DEF CpuExclusive
  <1> QED
    BY TypeCorrect, <1>1, <1>2, <1>3, PTL DEF Spec
=============================================================================
