----------------------------- MODULE SystemProofs -----------------------------
(***************************************************************************)
(* Type correctness of System, proved for every program, script, algorithm *)
(* and degree: one lemma per thread, one step per action.                  *)
(***************************************************************************)
EXTENDS System, SeqLemmas

-----------------------------------------------------------------------------
(***************************************************************************)
(* What the type invariant says of one access                              *)
(***************************************************************************)

\* The control state of every thread.
PcOK ==
    /\ pc \in [Thread -> ConsoleLabel \cup DispatchLabel \cup ShortLabel \cup LongLabel]
    /\ \A c \in Console : pc[c] \in ConsoleLabel
    /\ pc["dispatch"] \in DispatchLabel
    /\ pc["short"] \in ShortLabel
    /\ pc["long"] \in LongLabel

\* Memory and every pointer into it.
StoreOK ==
    /\ heap \in Seq(PCB)
    /\ ptr \in [Thread -> 0 .. Len(heap)]
    /\ \A t \in Finisher : fin[t].waiter \in 0 .. Len(heap)
    /\ queue \in [QueueIndex -> Seq(1 .. Len(heap))]
    /\ freed \subseteq 1 .. Len(heap)
    /\ sleepers \subseteq Sleeper
    /\ \A s \in sleepers : s.key \in 1 .. Len(heap) /\ s.args \in 0 .. Len(heap)
    /\ detector.evaluated \in 0 .. Len(heap)
    /\ frame \in 0 .. Len(heap)

\* The rest of the kernel's variables.
ValuesOK ==
    /\ commands \in [Console -> Nat]
    /\ fin \in [Finisher -> Frame]
    /\ response \in Response \cup {NoResponse}
    /\ detector \in Detector
    /\ sem \in [Semaphore -> Nat]
    /\ available \in [Resource -> Int]
    /\ idToAssign \in Nat
    /\ reported \subseteq Nat
    /\ crashed \in BOOLEAN

\* The type invariant in parts.
LEMMA Parts ==
    TypeOK <=> /\ PcOK /\ StoreOK /\ ValuesOK /\ CpuTypeOK /\ ChannelsTypeOK
               /\ \A t \in Thread : LocalOK(t)
  BY DEF TypeOK, KernelTypeOK, PcOK, StoreOK, ValuesOK

\* The type invariant in parts, after a step.
LEMMA PartsNext ==
    TypeOK' <=> /\ PcOK' /\ StoreOK' /\ ValuesOK' /\ CpuTypeOK' /\ ChannelsTypeOK'
                /\ \A t \in Thread : LocalOK(t)'
  BY DEF TypeOK, KernelTypeOK, PcOK, StoreOK, ValuesOK

\* The threads are distinct, and a live pointer is the address of a PCB.
LEMMA AccessType ==
    ASSUME TypeOK
    PROVE  /\ Finisher \subseteq Thread /\ Console \subseteq Finisher
           /\ {"dispatch", "long", "short"} \subseteq Thread
           /\ "dispatch" \in Finisher /\ "long" \notin Finisher /\ "short" \notin Finisher
           /\ "dispatch" \notin Console
           /\ Len(heap) \in Nat
           /\ \A p \in 1 .. Len(heap) : heap[p] \in PCB
           /\ \A t \in Thread : ptr[t] # 0 => ptr[t] \in 1 .. Len(heap)
           /\ \A t \in Finisher : fin[t].waiter # 0 => fin[t].waiter \in 1 .. Len(heap)
  <1>1. heap \in Seq(PCB) /\ ptr \in [Thread -> 0 .. Len(heap)]
        /\ \A t \in Finisher : fin[t].waiter \in 0 .. Len(heap)
    BY DEF TypeOK, KernelTypeOK
  <1>2. Len(heap) \in Nat /\ \A p \in 1 .. Len(heap) : heap[p] \in PCB
    BY <1>1, LenProperties, ElementOfSeq
  <1> QED
    BY <1>1, <1>2, ConsoleAssumption DEF Finisher, Thread

\* The indices build_all_queues_in_list uses are indices.
LEMMA IndexType ==
    /\ {New, Ready, Exec} \subseteq QueueIndex
    /\ \A r \in Resource : Blocked(r) \in QueueIndex
  <1>1. Len(Instances) \in Nat
    BY InstancesAssumption, LenProperties
  <1> QED
    BY <1>1 DEF New, Ready, Exec, Blocked, QueueIndex, Resource

\* A thread that goes to one of its labels keeps the control state well formed.
LEMMA GotoType ==
    ASSUME TypeOK, NEW t \in Thread, NEW label, Goto(t, label),
           \/ t \in Console /\ label \in ConsoleLabel
           \/ t = "dispatch" /\ label \in DispatchLabel
           \/ t = "short" /\ label \in ShortLabel
           \/ t = "long" /\ label \in LongLabel
    PROVE  PcOK'
  <1>1. pc \in [Thread -> ConsoleLabel \cup DispatchLabel \cup ShortLabel \cup LongLabel]
    BY DEF TypeOK, KernelTypeOK
  <1>2. pc' \in [Thread -> ConsoleLabel \cup DispatchLabel \cup ShortLabel \cup LongLabel]
    BY <1>1 DEF Goto
  <1>3. /\ \A c \in Console : pc'[c] \in ConsoleLabel
        /\ pc'["dispatch"] \in DispatchLabel
        /\ pc'["short"] \in ShortLabel
        /\ pc'["long"] \in LongLabel
    BY <1>1, ConsoleAssumption DEF Goto, TypeOK, KernelTypeOK, Thread, Finisher
  <1> QED
    BY <1>2, <1>3 DEF PcOK

\* The labels of finish_process are labels of each thread that calls it.
LEMMA GotoFinishType ==
    ASSUME TypeOK, NEW t \in Finisher, NEW label \in FinishLabel \cup {"listen"}, Goto(t, label)
    PROVE  PcOK'
  BY GotoType, AccessType DEF Finisher, ConsoleLabel, DispatchLabel

\* Writing the state of a PCB moves no PCB.
LEMMA SetStateType ==
    ASSUME TypeOK, NEW p \in 1 .. Len(heap), NEW state \in ProcessState, SetState(p, state)
    PROVE  heap' \in Seq(PCB) /\ Len(heap') = Len(heap)
  <1>1. heap \in Seq(PCB) /\ heap[p] \in PCB
    BY AccessType DEF TypeOK, KernelTypeOK
  <1>2. [heap[p] EXCEPT !.state = state] \in PCB
    BY <1>1 DEF PCB
  <1>3. heap' = [heap EXCEPT ![p] = [heap[p] EXCEPT !.state = state]]
    BY DEF SetState
  <1> QED
    BY <1>1, <1>2, <1>3, ExceptSeq

\* The three accesses to a queue keep its elements addresses of PCBs.
LEMMA PushType ==
    ASSUME TypeOK, NEW i \in QueueIndex, NEW p \in 1 .. Len(heap), Push(i, p)
    PROVE  queue' \in [QueueIndex -> Seq(1 .. Len(heap))]
  <1>1. queue \in [QueueIndex -> Seq(1 .. Len(heap))]
    BY DEF TypeOK, KernelTypeOK
  <1>2. Append(queue[i], p) \in Seq(1 .. Len(heap))
    BY <1>1, AppendProperties
  <1> QED
    BY <1>1, <1>2 DEF Push

\* A pop, of an empty queue too.
LEMMA PopType ==
    ASSUME TypeOK, NEW i \in QueueIndex, Pop(i)
    PROVE  queue' \in [QueueIndex -> Seq(1 .. Len(heap))]
  <1>1. queue \in [QueueIndex -> Seq(1 .. Len(heap))]
    BY DEF TypeOK, KernelTypeOK
  <1>2. Rest(queue[i]) \in Seq(1 .. Len(heap))
    BY <1>1, TailType DEF Rest
  <1> QED
    BY <1>1, <1>2 DEF Pop

\* list_remove_element, of an absent element too.
LEMMA RemoveType ==
    ASSUME TypeOK, NEW i \in QueueIndex, NEW p,
           queue' = [queue EXCEPT ![i] = RemoveFirst(@, p)]
    PROVE  queue' \in [QueueIndex -> Seq(1 .. Len(heap))]
  <1>1. queue \in [QueueIndex -> Seq(1 .. Len(heap))]
    BY DEF TypeOK, KernelTypeOK
  <1>2. RemoveFirst(queue[i], p) \in Seq(1 .. Len(heap))
    BY <1>1, RemoveFirstType
  <1> QED
    BY <1>1, <1>2

\* A new PCB invalidates no pointer.
LEMMA AllocateType ==
    ASSUME TypeOK, NEW pcb \in PCB, heap' = Append(heap, pcb)
    PROVE  /\ heap' \in Seq(PCB)
           /\ Len(heap') = Len(heap) + 1
           /\ queue \in [QueueIndex -> Seq(1 .. Len(heap'))]
           /\ 1 .. Len(heap) \subseteq 1 .. Len(heap')
           /\ 0 .. Len(heap) \subseteq 0 .. Len(heap')
           /\ Len(heap) + 1 \in 1 .. Len(heap')
  <1>1. heap \in Seq(PCB) /\ queue \in [QueueIndex -> Seq(1 .. Len(heap))]
    BY DEF TypeOK, KernelTypeOK
  <1>2. heap' \in Seq(PCB) /\ Len(heap') = Len(heap) + 1 /\ Len(heap) \in Nat
    BY <1>1, AppendProperties, LenProperties
  <1>3. \A i \in QueueIndex : queue[i] \in Seq(1 .. Len(heap'))
    BY <1>1, <1>2, GrowType
  <1> QED
    BY <1>1, <1>2, <1>3

\* A step of t leaves the locals of the other threads alone.
Others(t) ==
    /\ \A u \in Thread \ {t} : pc'[u] = pc[u] /\ ptr'[u] = ptr[u]
    /\ \A u \in Finisher \ {t} : fin'[u] = fin[u]
    /\ t # "dispatch" => response' = response /\ detector' = detector

\* When only t moves, what the other threads left in their locals is still there.
LEMMA LocalsType ==
    ASSUME TypeOK, NEW t \in Thread, Others(t), LocalOK(t)'
    PROVE  \A u \in Thread : LocalOK(u)'
  <1>1. ASSUME NEW u \in Thread, u # t PROVE LocalOK(u)'
    <2>1. LocalOK(u)
      BY Parts
    <2>2. /\ pc'[u] = pc[u] /\ ptr'[u] = ptr[u]
          /\ u \in Finisher => fin'[u] = fin[u]
          /\ u = "dispatch" => response' = response /\ detector' = detector
      BY <1>1 DEF Others
    <2> QED
      BY <2>1, <2>2, AccessType DEF LocalOK
  <1> QED
    BY <1>1

\* A kernel that dies changes nothing else.
LEMMA CrashType ==
    ASSUME TypeOK, Crash, UNCHANGED cpuVars
    PROVE  TypeOK'
  BY DEF TypeOK, KernelTypeOK, LocalOK, CpuTypeOK, ChannelsTypeOK, Crash, cpuVars,
         locals, memory, channels

-----------------------------------------------------------------------------
(***************************************************************************)
(* finish_process                                                          *)
(***************************************************************************)

\* The call starts at its first label with the first queue.
LEMMA FinishCallType ==
    ASSUME TypeOK, NEW t \in Finisher, NEW pid \in Nat, Finish(t, pid)
    PROVE  /\ PcOK'
           /\ pc'[t] = "find"
           /\ \A u \in Finisher \ {t} : fin'[u] = fin[u]
           /\ fin' \in [Finisher -> Frame]
           /\ fin'[t].index \in QueueIndex /\ fin'[t].waiter = fin[t].waiter
  <1>1. Goto(t, "find") /\ t \in Thread
    BY AccessType DEF Finish
  <1>2. PcOK'
    BY <1>1, GotoFinishType DEF FinishLabel
  <1>3. pc'[t] = "find"
    BY <1>1 DEF Goto, TypeOK, KernelTypeOK
  <1>4. fin \in [Finisher -> Frame]
    BY DEF TypeOK, KernelTypeOK
  <1>5. fin' \in [Finisher -> Frame] /\ fin'[t].index = New /\ fin'[t].waiter = fin[t].waiter
    BY <1>4 DEF Finish, Frame, New
  <1>6. \A u \in Finisher \ {t} : fin'[u] = fin[u]
    BY <1>4 DEF Finish
  <1> QED
    BY <1>2, <1>3, <1>5, <1>6, IndexType

\* The call ends with its locals gone.
LEMMA ReturnType ==
    ASSUME TypeOK, NEW t \in Finisher, Return(t)
    PROVE  /\ PcOK'
           /\ pc'[t] = "listen"
           /\ fin' \in [Finisher -> Frame] /\ fin'[t].waiter = 0
           /\ ptr' \in [Thread -> 0 .. Len(heap)]
  <1>1. Goto(t, "listen") /\ t \in Thread
    BY AccessType DEF Return
  <1>2. PcOK' /\ pc'[t] = "listen"
    BY <1>1, GotoFinishType DEF Goto, TypeOK, KernelTypeOK
  <1>3. NoFrame \in Frame
    BY DEF NoFrame, Frame, Ptr, ProcessState
  <1> QED
    BY <1>2, <1>3, AccessType DEF Return, TypeOK, KernelTypeOK, NoFrame

\* The finish_process call of t keeps its place in queue and process to wake.
FinKept(t) ==
    /\ fin' \in [Finisher -> Frame]
    /\ fin'[t].index = fin[t].index /\ fin'[t].waiter = fin[t].waiter
    /\ \A u \in Finisher \ {t} : fin'[u] = fin[u]

\* Writing one local of the call changes no other.
LEMMA FrameType ==
    ASSUME TypeOK, NEW t \in Finisher,
           \/ UNCHANGED fin
           \/ fin' = [fin EXCEPT ![t].item = 1]
           \/ fin' = [fin EXCEPT ![t].item = @ + 1]
           \/ \E z \in Int : fin' = [fin EXCEPT ![t].quantity = z]
           \/ \E z \in Int : fin' = [fin EXCEPT ![t].quantity = z, ![t].position = 1]
    PROVE  FinKept(t)
  <1>0. fin \in [Finisher -> Frame] /\ fin[t] \in Frame
    BY DEF TypeOK, KernelTypeOK
  <1>1. CASE UNCHANGED fin
    BY <1>0, <1>1 DEF FinKept
  <1>2. CASE fin' = [fin EXCEPT ![t].item = 1]
    BY <1>0, <1>2 DEF FinKept, Frame
  <1>3. CASE fin' = [fin EXCEPT ![t].item = @ + 1]
    BY <1>0, <1>3 DEF FinKept, Frame
  <1>4. CASE \E z \in Int : fin' = [fin EXCEPT ![t].quantity = z]
    <2>1. PICK z \in Int : fin' = [fin EXCEPT ![t].quantity = z]
      BY <1>4
    <2> QED
      BY <1>0, <2>1 DEF FinKept, Frame
  <1>5. CASE \E z \in Int : fin' = [fin EXCEPT ![t].quantity = z, ![t].position = 1]
    <2>1. PICK z \in Int : fin' = [fin EXCEPT ![t].quantity = z, ![t].position = 1]
      BY <1>5
    <2> DEFINE f == [fin EXCEPT ![t].quantity = z]
    <2>2. f \in [Finisher -> Frame] /\ f[t] \in Frame
          /\ f[t].index = fin[t].index /\ f[t].waiter = fin[t].waiter
          /\ \A u \in Finisher \ {t} : f[u] = fin[u]
      BY <1>0 DEF Frame
    <2>3. fin' = [f EXCEPT ![t].position = 1]
      BY <2>1
    <2> HIDE DEF f
    <2> QED
      BY <2>2, <2>3 DEF FinKept, Frame
  <1> QED
    BY <1>1, <1>2, <1>3, <1>4, <1>5

\* Every step of finish_process keeps the types.
LEMMA FinishProcessType ==
    ASSUME TypeOK, NEW t \in Finisher, FinishProcess(t)
    PROVE  TypeOK'
  <1>0. /\ t \in Thread /\ LocalOK(t) /\ "long" # t /\ "short" # t
        /\ PcOK /\ StoreOK /\ ValuesOK /\ CpuTypeOK /\ ChannelsTypeOK
    BY AccessType, Parts
  <1>1. ASSUME Step(FindProcess(t)) PROVE TypeOK'
    <2> DEFINE q == queue[fin[t].index]
               At(i) == q[i] \in freed \/ heap[q[i]].pid = fin[t].pid
    <2>0. /\ pc[t] = "find" /\ fin[t].index \in QueueIndex
          /\ UNCHANGED <<commands, response, sem, queue, memory, available, sleepers,
                         idToAssign, reported, detector, frame, channels, cpuVars>>
      BY <1>0, <1>1 DEF Step, FindProcess, LocalOK, FinishLabel, DetectLabel
    <2>1. CASE Return(t) /\ UNCHANGED crashed
      <3>1. StoreOK' /\ ValuesOK' /\ CpuTypeOK' /\ ChannelsTypeOK'
        BY <1>0, <2>0, <2>1, ReturnType
           DEF StoreOK, idle, ValuesOK, CpuTypeOK, ChannelsTypeOK, Return, memory, channels, cpuVars
      <3>2. PcOK' /\ pc'[t] = "listen"
        BY <2>1, ReturnType
      <3>3. Others(t)
        BY <1>0, <2>0, <2>1 DEF Others, idle, Return, Goto, PcOK, StoreOK, ValuesOK
      <3>4. LocalOK(t)'
        BY <1>0, <3>2 DEF LocalOK, FinishLabel, DetectLabel
      <3> QED
        BY <1>0, <3>1, <3>2, <3>3, <3>4, LocalsType, PartsNext
    <2>2. CASE /\ fin[t].index + 1 \in QueueIndex
               /\ fin' = [fin EXCEPT ![t].index = @ + 1]
               /\ UNCHANGED <<pc, ptr, crashed>>
      <3>1. fin' \in [Finisher -> Frame] /\ fin'[t].index \in QueueIndex
            /\ \A u \in Finisher \ {t} : fin'[u] = fin[u]
            /\ fin'[t].waiter = fin[t].waiter /\ fin'[t].item = fin[t].item
        <4>1. fin \in [Finisher -> Frame] /\ fin[t] \in Frame
          BY <1>0 DEF ValuesOK
        <4> QED
          BY <2>2, <4>1 DEF Frame
      <3>2. PcOK' /\ StoreOK'
        BY <1>0, <2>0, <2>2, <3>1 DEF PcOK, StoreOK, memory
      <3>4. ValuesOK' /\ CpuTypeOK' /\ ChannelsTypeOK'
        BY <1>0, <2>0, <2>2, <3>1 DEF ValuesOK, CpuTypeOK, ChannelsTypeOK, channels, cpuVars
      <3>3. Others(t) /\ LocalOK(t)'
        BY <1>0, <2>0, <2>2, <3>1 DEF Others, LocalOK
      <3> QED
        BY <1>0, <3>2, <3>3, <3>4, LocalsType, PartsNext
    <2>3. CASE crashed' = TRUE /\ UNCHANGED <<pc, ptr, fin>>
      <3>1. Crash /\ UNCHANGED cpuVars
        BY <2>0, <2>3 DEF Crash, locals
      <3> QED
        BY <3>1, CrashType
    <2>4. ASSUME NEW i \in DOMAIN q, ptr' = [ptr EXCEPT ![t] = q[i]], Goto(t, "inspect"),
                 UNCHANGED <<fin, crashed>>
          PROVE  TypeOK'
      <3>1. q[i] \in 1 .. Len(heap)
        BY <1>0, <2>0, <2>4, LenProperties, ElementOfSeq DEF StoreOK
      <3>2. PcOK' /\ pc'[t] = "inspect"
        BY <1>0, <2>4, GotoFinishType DEF FinishLabel, Goto, PcOK
      <3>3. ptr' \in [Thread -> 0 .. Len(heap)]
        BY <1>0, <2>4, <3>1, AccessType DEF StoreOK
      <3>4. StoreOK' /\ ValuesOK' /\ CpuTypeOK' /\ ChannelsTypeOK'
        BY <1>0, <2>0, <2>4, <3>3
           DEF StoreOK, idle, ValuesOK, CpuTypeOK, ChannelsTypeOK, memory, channels, cpuVars
      <3>5. Others(t) /\ LocalOK(t)'
        BY <1>0, <2>0, <2>4, <3>2
           DEF Others, LocalOK, Goto, PcOK, StoreOK, FinishLabel, DetectLabel
      <3> QED
        BY <1>0, <3>2, <3>4, <3>5, LocalsType, PartsNext
    <2> QED
      BY <1>1, <2>1, <2>2, <2>3, <2>4 DEF Step, FindProcess
  <1>2. ASSUME Step(InspectState(t)) PROVE TypeOK'
    <2>0. InspectState(t) /\ UNCHANGED cpuVars
      BY <1>2 DEF Step
    <2>1. heap[ptr[t]] \in PCB /\ heap[ptr[t]].state \in ProcessState
      BY <1>0, <2>0, AccessType DEF InspectState, Live, PCB
    <2>3. PcOK'
      BY <1>0, <2>0, GotoFinishType DEF InspectState, FinishLabel
    <2>4. StoreOK' /\ ValuesOK' /\ CpuTypeOK' /\ ChannelsTypeOK'
      <3>1. StoreOK'
        BY <1>0, <2>0, <2>1, AccessType DEF InspectState, StoreOK, inert, memory, idle, channels
      <3>2. ValuesOK'
        BY <1>0, <2>0, <2>1, AccessType
           DEF InspectState, ValuesOK, inert, memory, idle, channels, Frame
      <3>3. CpuTypeOK' /\ ChannelsTypeOK'
        BY <1>0, <2>0
           DEF InspectState, CpuTypeOK, ChannelsTypeOK, inert, memory, idle, channels, cpuVars
      <3> QED
        BY <3>1, <3>2, <3>3
    <2>5. Others(t) /\ LocalOK(t)'
      BY <1>0, <2>0, <2>1, AccessType
         DEF InspectState, Others, idle, LocalOK, Goto, PcOK, StoreOK, ValuesOK, FinishLabel,
             DetectLabel, inert, Frame
    <2> QED
      BY <1>0, <2>3, <2>4, <2>5, LocalsType, PartsNext
  <1>3. ASSUME Step(MarkExit(t)) PROVE TypeOK'
    <2>0. MarkExit(t) /\ UNCHANGED cpuVars
      BY <1>3 DEF Step
    <2>1. ptr[t] \in 1 .. Len(heap) /\ SetState(ptr[t], "EXIT")
      BY <1>0, <2>0, AccessType DEF MarkExit, Live
    <2>2. heap' \in Seq(PCB) /\ Len(heap') = Len(heap)
      BY <1>0, <2>0, <2>1, SetStateType DEF ProcessState
    <2>3. PcOK'
      BY <1>0, <2>0, GotoFinishType DEF MarkExit, FinishLabel
    <2>4. StoreOK' /\ ValuesOK' /\ CpuTypeOK' /\ ChannelsTypeOK'
      <3>1. StoreOK'
        BY <1>0, <2>0, <2>1, <2>2, AccessType DEF MarkExit, StoreOK, inert, memory, idle, channels
      <3>2. ValuesOK'
        BY <1>0, <2>0, <2>1, <2>2, AccessType
           DEF MarkExit, ValuesOK, inert, memory, idle, channels, Frame
      <3>3. CpuTypeOK' /\ ChannelsTypeOK'
        BY <1>0, <2>0
           DEF MarkExit, CpuTypeOK, ChannelsTypeOK, inert, memory, idle, channels, cpuVars
      <3> QED
        BY <3>1, <3>2, <3>3
    <2>5. Others(t) /\ LocalOK(t)'
      BY <1>0, <2>0, <2>1, <2>2, AccessType
         DEF MarkExit, Others, idle, LocalOK, Goto, PcOK, StoreOK, ValuesOK, FinishLabel,
             DetectLabel, inert, Frame
    <2> QED
      BY <1>0, <2>3, <2>4, <2>5, LocalsType, PartsNext
  <1>4. ASSUME Step(ReleaseResource(t)) PROVE TypeOK'
    <2>0. ReleaseResource(t) /\ UNCHANGED cpuVars
      BY <1>4 DEF Step
    <2>1. fin[t].item \in DOMAIN heap[ptr[t]].resources
            => available[heap[ptr[t]].resources[fin[t].item]] \in Int
      <3>1. heap[ptr[t]].resources \in Seq(Resource)
        BY <1>0, <2>0, AccessType DEF ReleaseResource, Live, PCB
      <3> QED
        BY <1>0, <3>1, LenProperties, ElementOfSeq DEF ValuesOK
    <2>2. FinKept(t)
      BY <1>0, <2>0, <2>1, FrameType DEF ReleaseResource
    <2>3. PcOK'
      BY <1>0, <2>0, GotoFinishType DEF ReleaseResource, FinishLabel, inert, PcOK
    <2>4. StoreOK' /\ ValuesOK' /\ CpuTypeOK' /\ ChannelsTypeOK'
      BY <1>0, <2>0, <2>1, <2>2
         DEF ReleaseResource, FinKept, StoreOK, ValuesOK, CpuTypeOK, ChannelsTypeOK, inert,
             memory, idle, channels, cpuVars
    <2>5. Others(t)
      BY <1>0, <2>0, <2>2 DEF ReleaseResource, FinKept, Others, idle, Goto, PcOK, inert
    <2>6. LocalOK(t)'
      BY <1>0, <2>0, <2>2, AccessType
         DEF ReleaseResource, FinKept, LocalOK, Goto, PcOK, FinishLabel, DetectLabel
    <2> QED
      BY <1>0, <2>3, <2>4, <2>5, <2>6, LocalsType, PartsNext
  <1>5. ASSUME Step(CreditResource(t)) PROVE TypeOK'
    <2>0. CreditResource(t) /\ UNCHANGED cpuVars
      BY <1>5 DEF Step
    <2>1. fin[t].quantity + 1 \in Int
      BY <1>0 DEF ValuesOK, Frame
    <2>2. FinKept(t)
      BY <1>0, <2>0, FrameType DEF CreditResource
    <2>3. PcOK'
      BY <1>0, <2>0, GotoFinishType DEF CreditResource, FinishLabel, inert, PcOK
    <2>4. StoreOK' /\ ValuesOK' /\ CpuTypeOK' /\ ChannelsTypeOK'
      BY <1>0, <2>0, <2>1, <2>2
         DEF CreditResource, FinKept, StoreOK, ValuesOK, CpuTypeOK, ChannelsTypeOK, inert,
             memory, idle, channels, cpuVars
    <2>5. Others(t)
      BY <1>0, <2>0, <2>2 DEF CreditResource, FinKept, Others, idle, Goto, PcOK, inert
    <2>6. LocalOK(t)'
      BY <1>0, <2>0, <2>2, AccessType
         DEF CreditResource, FinKept, LocalOK, Goto, PcOK, FinishLabel, DetectLabel
    <2> QED
      BY <1>0, <2>3, <2>4, <2>5, <2>6, LocalsType, PartsNext
  <1>6. ASSUME Step(UnlinkProcess(t)) PROVE TypeOK'
    <2>0. UnlinkProcess(t) /\ UNCHANGED cpuVars
      BY <1>6 DEF Step
    <2>1. fin[t].index \in QueueIndex
      BY <1>0, <2>0  DEF UnlinkProcess, LocalOK, FinishLabel, DetectLabel
    <2>2. queue' \in [QueueIndex -> Seq(1 .. Len(heap))]
      BY <1>0, <2>0, <2>1, RemoveType DEF UnlinkProcess
    <2>3. PcOK'
      BY <1>0, <2>0, GotoFinishType DEF UnlinkProcess, FinishLabel
    <2>4. StoreOK' /\ ValuesOK' /\ CpuTypeOK' /\ ChannelsTypeOK'
      <3>1. StoreOK'
        BY <1>0, <2>0, <2>1, <2>2, AccessType
           DEF UnlinkProcess, StoreOK, inert, memory, idle, channels
      <3>2. ValuesOK'
        <4>1. fin' = [fin EXCEPT ![t].item = 1] /\ fin \in [Finisher -> Frame]
          BY <1>0, <2>0 DEF UnlinkProcess, ValuesOK
        <4>2. fin' \in [Finisher -> Frame]
          BY <4>1 DEF Frame
        <4> QED
          BY <1>0, <2>0, <2>1, <2>2, <4>2
             DEF UnlinkProcess, ValuesOK, inert, memory, idle, channels
      <3>3. CpuTypeOK' /\ ChannelsTypeOK'
        BY <1>0, <2>0
           DEF UnlinkProcess, CpuTypeOK, ChannelsTypeOK, inert, memory, idle, channels, cpuVars
      <3> QED
        BY <3>1, <3>2, <3>3
    <2>5. Others(t) /\ LocalOK(t)'
      BY <1>0, <2>0, <2>1, <2>2, AccessType
         DEF UnlinkProcess, Others, idle, LocalOK, Goto, PcOK, StoreOK, ValuesOK, FinishLabel,
             DetectLabel, inert, Frame
    <2> QED
      BY <1>0, <2>3, <2>4, <2>5, LocalsType, PartsNext
  <1>7. ASSUME Step(CheckBlocked(t)) PROVE TypeOK'
    <2>0. CheckBlocked(t) /\ UNCHANGED cpuVars
      BY <1>7 DEF Step
    <2>1. pc'[t] = "loop" => fin[t].item \in Resource /\ fin'[t].item = fin[t].item
      BY <1>0, <2>0 DEF CheckBlocked, Goto, PcOK, ValuesOK, Frame
    <2>2. FinKept(t)
      BY <1>0, <2>0, FrameType DEF CheckBlocked, ValuesOK
    <2>3. PcOK'
      BY <1>0, <2>0, GotoFinishType DEF CheckBlocked, FinishLabel, inert, PcOK
    <2>4. StoreOK' /\ ValuesOK' /\ CpuTypeOK' /\ ChannelsTypeOK'
      BY <1>0, <2>0, <2>1, <2>2
         DEF CheckBlocked, FinKept, StoreOK, ValuesOK, CpuTypeOK, ChannelsTypeOK, inert, memory,
             idle, channels, cpuVars
    <2>5. Others(t)
      BY <1>0, <2>0, <2>2 DEF CheckBlocked, FinKept, Others, idle, Goto, PcOK, inert
    <2>6. LocalOK(t)'
      BY <1>0, <2>0, <2>2, <2>1, AccessType
         DEF CheckBlocked, FinKept, LocalOK, Goto, PcOK, FinishLabel, DetectLabel
    <2> QED
      BY <1>0, <2>3, <2>4, <2>5, <2>6, LocalsType, PartsNext
  <1>8. ASSUME Step(ContinueWaking(t)) PROVE TypeOK'
    <2>0. ContinueWaking(t) /\ UNCHANGED cpuVars
      BY <1>8 DEF Step
    <2>2. FinKept(t)
      BY <1>0, <2>0, FrameType DEF ContinueWaking
    <2>3. PcOK'
      BY <1>0, <2>0, GotoFinishType DEF ContinueWaking, FinishLabel, inert, PcOK
    <2>4. StoreOK' /\ ValuesOK' /\ CpuTypeOK' /\ ChannelsTypeOK'
      BY <1>0, <2>0, <2>2
         DEF ContinueWaking, FinKept, StoreOK, ValuesOK, CpuTypeOK, ChannelsTypeOK, inert,
             memory, idle, channels, cpuVars
    <2>5. Others(t)
      BY <1>0, <2>0, <2>2 DEF ContinueWaking, FinKept, Others, idle, Goto, PcOK, inert
    <2>6. LocalOK(t)'
      BY <1>0, <2>0, <2>2, AccessType
         DEF ContinueWaking, FinKept, LocalOK, Goto, PcOK, FinishLabel, DetectLabel
    <2> QED
      BY <1>0, <2>3, <2>4, <2>5, <2>6, LocalsType, PartsNext
  <1>9. ASSUME Step(GetWaiter(t)) PROVE TypeOK'
    <2>0. GetWaiter(t) /\ UNCHANGED cpuVars
      BY <1>9 DEF Step
    <2> DEFINE q == queue[Blocked(fin[t].item)]
               p == IF fin[t].position \in DOMAIN q THEN q[fin[t].position] ELSE 0
    <2>1. CASE Crash
      BY <2>0, <2>1, CrashType
    <2>2. CASE /\ Live(p)
               /\ fin' = [fin EXCEPT ![t].waiter = p]
               /\ Goto(t, "move")
               /\ UNCHANGED <<inert, ptr, sem, queue, memory>>
      <3>1. fin[t].item \in Resource
        BY <1>0, <2>0 DEF GetWaiter, LocalOK
      <3>2. q \in Seq(1 .. Len(heap))
        BY <1>0, <3>1, IndexType DEF StoreOK
      <3>3. p \in 1 .. Len(heap)
        BY <2>2, <3>2, LenProperties, ElementOfSeq DEF Live
      <3>4. /\ fin' \in [Finisher -> Frame]
            /\ fin'[t].index = fin[t].index /\ fin'[t].item = fin[t].item
            /\ fin'[t].waiter = p
            /\ \A u \in Finisher \ {t} : fin'[u] = fin[u]
        <4>1. p \in Nat /\ fin \in [Finisher -> Frame]
          BY <1>0, <3>3, AccessType DEF ValuesOK
        <4> HIDE DEF p
        <4> QED
          BY <2>2, <4>1 DEF Frame, Ptr
      <3>5. PcOK'
        BY <2>2, GotoFinishType DEF FinishLabel
      <3>6. StoreOK' /\ ValuesOK' /\ CpuTypeOK' /\ ChannelsTypeOK'
        <4> HIDE DEF p
        <4>1. \A u \in Finisher : fin'[u].waiter \in 0 .. Len(heap)
          BY <1>0, <3>3, <3>4, AccessType DEF StoreOK
        <4> QED
          BY <1>0, <2>0, <2>2, <3>4, <4>1
             DEF StoreOK, ValuesOK, CpuTypeOK, ChannelsTypeOK, inert, memory, idle, channels,
                 cpuVars
      <3>7. Others(t)
        BY <1>0, <2>2, <3>4 DEF Others, idle, Goto, PcOK, inert
      <3>8. LocalOK(t)'
        BY <1>0, <2>0, <2>2, <3>1, <3>4 DEF GetWaiter, LocalOK, Goto, PcOK, FinishLabel, DetectLabel
      <3> QED
        BY <1>0, <3>5, <3>6, <3>7, <3>8, LocalsType, PartsNext
    <2> QED
      BY <2>0, <2>1, <2>2 DEF GetWaiter
  <1>10. ASSUME Step(MoveWaiter(t)) PROVE TypeOK'
    <2>0. MoveWaiter(t) /\ UNCHANGED cpuVars
      BY <1>10 DEF Step
    <2>1. fin[t].waiter \in 1 .. Len(heap) /\ fin[t].item \in Resource
      BY <1>0, <2>0, AccessType DEF MoveWaiter, LocalOK, Live
    <2>2. heap' \in Seq(PCB) /\ Len(heap') = Len(heap)
      BY <2>0, <2>1, SetStateType DEF MoveWaiter, ProcessState
    <2>3. queue' \in [QueueIndex -> Seq(1 .. Len(heap))]
      BY <2>0, <2>1, PushType, IndexType DEF MoveWaiter
    <2>4. PcOK'
      BY <2>0, GotoFinishType DEF MoveWaiter, FinishLabel
    <2>5. StoreOK' /\ ValuesOK' /\ CpuTypeOK' /\ ChannelsTypeOK'
      BY <1>0, <2>0, <2>2, <2>3
         DEF MoveWaiter, StoreOK, ValuesOK, CpuTypeOK, ChannelsTypeOK, inert, idle, channels,
             cpuVars
    <2>6. Others(t) /\ LocalOK(t)'
      BY <1>0, <2>0, <2>1
         DEF MoveWaiter, Others, idle, LocalOK, Goto, PcOK, FinishLabel, DetectLabel, inert
    <2> QED
      BY <1>0, <2>4, <2>5, <2>6, LocalsType, PartsNext
  <1>11. ASSUME Step(DropWaiter(t)) PROVE TypeOK'
    <2>0. DropWaiter(t) /\ UNCHANGED cpuVars
      BY <1>11 DEF Step
    <2>1. fin[t].item \in Resource
      BY <1>0, <2>0 DEF DropWaiter, LocalOK
    <2>2. queue' \in [QueueIndex -> Seq(1 .. Len(heap))]
      BY <2>0, <2>1, RemoveType, IndexType DEF DropWaiter
    <2>3. PcOK'
      BY <2>0, GotoFinishType DEF DropWaiter, FinishLabel
    <2>4. StoreOK' /\ ValuesOK' /\ CpuTypeOK' /\ ChannelsTypeOK'
      BY <1>0, <2>0, <2>2
         DEF DropWaiter, StoreOK, ValuesOK, CpuTypeOK, ChannelsTypeOK, inert, memory, idle,
             channels, cpuVars
    <2>5. Others(t) /\ LocalOK(t)'
      BY <1>0, <2>0, <2>1
         DEF DropWaiter, Others, idle, LocalOK, Goto, PcOK, FinishLabel, DetectLabel, inert
    <2> QED
      BY <1>0, <2>3, <2>4, <2>5, LocalsType, PartsNext
  <1>12. ASSUME Step(CountWaiter(t)) PROVE TypeOK'
    <2>0. CountWaiter(t) /\ UNCHANGED cpuVars
      BY <1>12 DEF Step
    <2>1. sem' \in [Semaphore -> Nat]
      <3>1. sem["blocked"] - 1 \in Nat /\ sem["ready"] + 1 \in Nat
        BY <1>0, <2>0 DEF CountWaiter, ValuesOK, Semaphore
      <3> QED
        BY <1>0, <2>0, <3>1 DEF CountWaiter, ValuesOK, Semaphore
    <2>2. /\ fin' \in [Finisher -> Frame]
          /\ fin'[t].index = fin[t].index /\ fin'[t].item = fin[t].item
          /\ fin'[t].waiter = 0
          /\ \A u \in Finisher \ {t} : fin'[u] = fin[u]
      <3> DEFINE f == [fin EXCEPT ![t].position = @ + 1]
      <3>1. f \in [Finisher -> Frame] /\ f[t] \in Frame
            /\ f[t].index = fin[t].index /\ f[t].item = fin[t].item
            /\ \A u \in Finisher \ {t} : f[u] = fin[u]
        BY <1>0 DEF ValuesOK, Frame
      <3>2. fin' = [f EXCEPT ![t].waiter = 0]
        BY <2>0 DEF CountWaiter
      <3> HIDE DEF f
      <3> QED
        BY <3>1, <3>2 DEF Frame, Ptr
    <2>3. PcOK'
      BY <2>0, GotoFinishType DEF CountWaiter, FinishLabel
    <2>4. StoreOK' /\ ValuesOK' /\ CpuTypeOK' /\ ChannelsTypeOK'
      <3>1. \A u \in Finisher : fin'[u].waiter \in 0 .. Len(heap)
        BY <1>0, <2>2, AccessType DEF StoreOK
      <3>2. StoreOK'
        BY <1>0, <2>0, <2>2, <3>1 DEF CountWaiter, StoreOK, inert, memory, idle
      <3>3. ValuesOK'
        BY <1>0, <2>0, <2>1, <2>2 DEF CountWaiter, ValuesOK, inert, memory, idle
      <3>4. CpuTypeOK' /\ ChannelsTypeOK'
        BY <1>0, <2>0 DEF CountWaiter, CpuTypeOK, ChannelsTypeOK, inert, channels, cpuVars
      <3> QED
        BY <3>2, <3>3, <3>4
    <2>5. Others(t)
      BY <1>0, <2>0, <2>2 DEF CountWaiter, Others, idle, Goto, PcOK, inert
    <2>6. LocalOK(t)'
      BY <1>0, <2>0, <2>2 DEF CountWaiter, LocalOK, Goto, PcOK, FinishLabel, DetectLabel
    <2> QED
      BY <1>0, <2>3, <2>4, <2>5, <2>6, LocalsType, PartsNext
  <1>13. ASSUME Step(NotifyMemory(t)) PROVE TypeOK'
    <2>0. NotifyMemory(t) /\ UNCHANGED cpuVars
      BY <1>13 DEF Step
    <2>1. PcOK'
      BY <2>0, GotoFinishType DEF NotifyMemory, FinishLabel
    <2>2. StoreOK' /\ ValuesOK' /\ CpuTypeOK' /\ ChannelsTypeOK'
      BY <1>0, <2>0
         DEF NotifyMemory, StoreOK, ValuesOK, CpuTypeOK, ChannelsTypeOK, inert, memory, idle,
             channels, cpuVars
    <2>3. Others(t) /\ LocalOK(t)'
      BY <1>0, <2>0
         DEF NotifyMemory, Others, idle, LocalOK, Goto, PcOK, FinishLabel, DetectLabel, inert
    <2> QED
      BY <1>0, <2>1, <2>2, <2>3, LocalsType, PartsNext
  <1>14. ASSUME Step(Settle(t)) PROVE TypeOK'
    <2>0. Settle(t) /\ UNCHANGED cpuVars
      BY <1>14 DEF Step
    <2>1. sem' \in [Semaphore -> Nat]
      <3>1. /\ sem \in [Semaphore -> Nat]
            /\ \A s \in Semaphore : sem[s] + 1 \in Nat
            /\ \A s \in Semaphore : sem[s] > 0 => sem[s] - 1 \in Nat
        BY <1>0 DEF ValuesOK
      <3> QED
        BY <2>0, <3>1 DEF Settle, Semaphore
    <2>2. ptr[t] \in 1 .. Len(heap)
      BY <1>0, <2>0, AccessType DEF Settle, Live
    <2>3. PcOK' /\ pc'[t] = "listen"
      BY <2>0, ReturnType DEF Settle
    <2>4. StoreOK' /\ ValuesOK' /\ CpuTypeOK' /\ ChannelsTypeOK'
      <3>1. Return(t)
        BY <2>0 DEF Settle
      <3>2. /\ fin' \in [Finisher -> Frame] /\ ptr' \in [Thread -> 0 .. Len(heap)]
            /\ \A u \in Finisher : fin'[u].waiter \in 0 .. Len(heap)
        BY <1>0, <3>1, ReturnType, AccessType DEF Return, StoreOK, ValuesOK
      <3>3. freed' \subseteq 1 .. Len(heap)
        BY <1>0, <2>0, <2>2 DEF Settle, StoreOK
      <3> QED
        BY <1>0, <2>0, <2>1, <3>2, <3>3
           DEF Settle, StoreOK, ValuesOK, CpuTypeOK, ChannelsTypeOK, inert, idle, channels, cpuVars
    <2>5. Others(t) /\ LocalOK(t)'
      BY <1>0, <2>0, <2>3
         DEF Settle, Return, Others, idle, LocalOK, Goto, PcOK, StoreOK, ValuesOK, FinishLabel,
             DetectLabel, inert
    <2> QED
      BY <1>0, <2>3, <2>4, <2>5, LocalsType, PartsNext
  <1>15. ASSUME Step(FinishDangling(t)) PROVE TypeOK'
    BY <1>15, CrashType DEF Step, FinishDangling
  <1> QED
    BY <1>1, <1>2, <1>3, <1>4, <1>5, <1>6, <1>7, <1>8, <1>9, <1>10, <1>11, <1>12, <1>13,
       <1>14, <1>15 DEF FinishProcess

-----------------------------------------------------------------------------
(***************************************************************************)
(* handler_connection                                                      *)
(***************************************************************************)

\* The command a console's thread reads is one of the protocol.
LEMMA ReceivedType ==
    ASSUME TypeOK, NEW c \in Console, NEW op, Receives(c, op)
    PROVE  /\ Received(c) \in Command /\ Received(c).op = op
           /\ pc[c] = "listen"
  <1>1. Script[c] \in Seq(Command) /\ commands[c] \in Nat
    BY ScriptAssumption DEF TypeOK, KernelTypeOK
  <1>2. commands[c] + 1 \in 1 .. Len(Script[c])
    BY <1>1, LenProperties DEF Receives
  <1>3. Script[c][commands[c] + 1] \in Command
    BY <1>1, <1>2, ElementOfSeq
  <1> QED
    BY <1>3 DEF Receives, Received

\* Every step of a console's thread keeps the types.
LEMMA HandlerConnectionType ==
    ASSUME TypeOK, NEW c \in Console, HandlerConnection(c)
    PROVE  TypeOK'
  <1>0. /\ c \in Thread /\ c \in Finisher /\ LocalOK(c)
        /\ c # "dispatch" /\ c # "long" /\ c # "short"
        /\ PcOK /\ StoreOK /\ ValuesOK /\ CpuTypeOK /\ ChannelsTypeOK
    BY AccessType, Parts
  <1>1. ASSUME Step(ReceiveCreateProcess(c)) PROVE TypeOK'
    <2>0. ReceiveCreateProcess(c) /\ UNCHANGED cpuVars
      BY <1>1 DEF Step
    <2> DEFINE pcb == [pid |-> idToAssign, path |-> Received(c).path, counter |-> 0,
                       resources |-> <<>>, state |-> "NEW"]
    <2>1. pcb \in PCB
      <3>1. Received(c).path \in Path
        BY <2>0, ReceivedType DEF ReceiveCreateProcess, Command
      <3>2. <<>> \in Seq(Resource)
        BY EmptySeq
      <3> QED
        BY <1>0, <3>1, <3>2 DEF PCB, ValuesOK, ProcessState
    <2>2. heap' = Append(heap, pcb)
      BY <2>0 DEF ReceiveCreateProcess
    <2>3. /\ heap' \in Seq(PCB) /\ Len(heap') = Len(heap) + 1
          /\ queue \in [QueueIndex -> Seq(1 .. Len(heap'))]
          /\ 1 .. Len(heap) \subseteq 1 .. Len(heap')
          /\ 0 .. Len(heap) \subseteq 0 .. Len(heap')
          /\ Len(heap) + 1 \in 1 .. Len(heap') /\ Len(heap) \in Nat
      BY <2>1, <2>2, AllocateType, AccessType
    <2> HIDE DEF pcb
    <2>4. ptr' \in [Thread -> 0 .. Len(heap')] /\ ptr'[c] # 0
      BY <1>0, <2>0, <2>3 DEF ReceiveCreateProcess, StoreOK
    <2>5. PcOK'
      BY <1>0, <2>0, GotoType DEF ReceiveCreateProcess, ConsoleLabel
    <2>6. StoreOK'
      BY <1>0, <2>0, <2>3, <2>4 DEF ReceiveCreateProcess, StoreOK, idle
    <2>7. ValuesOK' /\ CpuTypeOK' /\ ChannelsTypeOK'
      BY <1>0, <2>0
         DEF ReceiveCreateProcess, Consume, ValuesOK, CpuTypeOK, ChannelsTypeOK, idle, channels,
             cpuVars
    <2>8. Others(c) /\ LocalOK(c)'
      BY <1>0, <2>0, <2>4
         DEF ReceiveCreateProcess, Others, idle, LocalOK, Goto, PcOK, StoreOK, FinishLabel,
             DetectLabel
    <2> QED
      BY <1>0, <2>5, <2>6, <2>7, <2>8, LocalsType, PartsNext
  <1>2. ASSUME Step(IncrementId(c)) PROVE TypeOK'
    <2>0. IncrementId(c) /\ UNCHANGED cpuVars
      BY <1>2 DEF Step
    <2>1. heap[ptr[c]] \in PCB /\ ptr[c] # 0
      BY <1>0, <2>0, AccessType DEF IncrementId, LocalOK
    <2>2. idToAssign' \in Nat
      BY <1>0, <2>0, <2>1 DEF IncrementId, PCB, ValuesOK
    <2>3. PcOK'
      BY <1>0, <2>0, GotoType DEF IncrementId, ConsoleLabel
    <2>4. StoreOK' /\ ValuesOK' /\ CpuTypeOK' /\ ChannelsTypeOK'
      BY <1>0, <2>0, <2>2
         DEF IncrementId, StoreOK, idle, ValuesOK, CpuTypeOK, ChannelsTypeOK, memory, channels,
             cpuVars
    <2>5. Others(c) /\ LocalOK(c)'
      BY <1>0, <2>0, <2>1
         DEF IncrementId, Others, idle, LocalOK, Goto, PcOK, FinishLabel, DetectLabel
    <2> QED
      BY <1>0, <2>3, <2>4, <2>5, LocalsType, PartsNext
  <1>3. ASSUME Step(CreateInMemory(c)) PROVE TypeOK'
    <2>0. CreateInMemory(c) /\ UNCHANGED cpuVars
      BY <1>3 DEF Step
    <2>1. PcOK'
      BY <1>0, <2>0, GotoType DEF CreateInMemory, ConsoleLabel
    <2>2. StoreOK' /\ ValuesOK' /\ CpuTypeOK' /\ ChannelsTypeOK'
      BY <1>0, <2>0
         DEF CreateInMemory, StoreOK, ValuesOK, CpuTypeOK, ChannelsTypeOK, inert, memory, idle,
             channels, cpuVars
    <2>3. Others(c) /\ LocalOK(c)'
      BY <1>0, <2>0
         DEF CreateInMemory, Others, idle, LocalOK, Goto, PcOK, FinishLabel, DetectLabel, inert
    <2> QED
      BY <1>0, <2>1, <2>2, <2>3, LocalsType, PartsNext
  <1>4. ASSUME Step(MoveProcessToNew(c)) PROVE TypeOK'
    <2>0. MoveProcessToNew(c) /\ UNCHANGED cpuVars
      BY <1>4 DEF Step
    <2>1. ptr[c] \in 1 .. Len(heap)
      BY <1>0, <2>0, AccessType DEF MoveProcessToNew, LocalOK
    <2>2. queue' \in [QueueIndex -> Seq(1 .. Len(heap))]
      BY <2>0, <2>1, PushType, IndexType DEF MoveProcessToNew
    <2>3. ptr' \in [Thread -> 0 .. Len(heap)]
      BY <1>0, <2>0, AccessType DEF MoveProcessToNew, StoreOK
    <2>4. PcOK'
      BY <1>0, <2>0, GotoType DEF MoveProcessToNew, ConsoleLabel
    <2>5. StoreOK' /\ ValuesOK' /\ CpuTypeOK' /\ ChannelsTypeOK'
      <3>1. StoreOK'
        BY <1>0, <2>0, <2>2, <2>3 DEF MoveProcessToNew, StoreOK, idle, inert, memory
      <3>2. sem' \in [Semaphore -> Nat]
        BY <1>0, <2>0 DEF MoveProcessToNew, ValuesOK, Semaphore
      <3>3. ValuesOK' /\ CpuTypeOK' /\ ChannelsTypeOK'
        BY <1>0, <2>0, <3>2
           DEF MoveProcessToNew, ValuesOK, CpuTypeOK, ChannelsTypeOK, inert, idle, channels, cpuVars
      <3> QED
        BY <3>1, <3>3
    <2>6. Others(c) /\ LocalOK(c)'
      BY <1>0, <2>0
         DEF MoveProcessToNew, Others, idle, LocalOK, Goto, PcOK, StoreOK, FinishLabel,
             DetectLabel, inert
    <2> QED
      BY <1>0, <2>4, <2>5, <2>6, LocalsType, PartsNext
  <1>5. ASSUME Step(ReceiveFinishProcess(c)) PROVE TypeOK'
    <2>0. ReceiveFinishProcess(c) /\ UNCHANGED cpuVars
      BY <1>5 DEF Step
    <2>1. Received(c).pid \in Nat
      BY <2>0, ReceivedType DEF ReceiveFinishProcess, Command
    <2>2. /\ PcOK' /\ pc'[c] = "find"
          /\ \A u \in Finisher \ {c} : fin'[u] = fin[u]
          /\ fin' \in [Finisher -> Frame]
          /\ fin'[c].index \in QueueIndex /\ fin'[c].waiter = fin[c].waiter
      BY <1>0, <2>0, <2>1, FinishCallType DEF ReceiveFinishProcess
    <2>3. StoreOK' /\ ValuesOK' /\ CpuTypeOK' /\ ChannelsTypeOK'
      <3>1. StoreOK'
        BY <1>0, <2>0, <2>2 DEF ReceiveFinishProcess, StoreOK, idle, memory
      <3>2. ValuesOK' /\ CpuTypeOK' /\ ChannelsTypeOK'
        BY <1>0, <2>0, <2>2
           DEF ReceiveFinishProcess, Consume, ValuesOK, CpuTypeOK, ChannelsTypeOK, idle, channels,
               cpuVars
      <3> QED
        BY <3>1, <3>2
    <2>4. Others(c) /\ LocalOK(c)'
      BY <1>0, <2>0, <2>2 DEF ReceiveFinishProcess, Finish, Others, idle, LocalOK, Goto, PcOK
    <2> QED
      BY <1>0, <2>2, <2>3, <2>4, LocalsType, PartsNext
  <1>6. ASSUME Step(StopPlanning(c)) PROVE TypeOK'
    <2>0. StopPlanning(c) /\ UNCHANGED cpuVars
      BY <1>6 DEF Step
    <2>1. sem' \in [Semaphore -> Nat]
      BY <1>0, <2>0 DEF StopPlanning, ValuesOK, Semaphore
    <2>2. PcOK'
      BY <1>0, <2>0, GotoType DEF StopPlanning, ConsoleLabel
    <2>3. StoreOK' /\ ValuesOK' /\ CpuTypeOK' /\ ChannelsTypeOK'
      BY <1>0, <2>0, <2>1
         DEF StopPlanning, Consume, StoreOK, ValuesOK, CpuTypeOK, ChannelsTypeOK, inert,
             memory, idle, channels, cpuVars
    <2>4. Others(c) /\ LocalOK(c)'
      BY <1>0, <2>0
         DEF StopPlanning, Others, idle, LocalOK, Goto, PcOK, FinishLabel, DetectLabel, inert
    <2> QED
      BY <1>0, <2>2, <2>3, <2>4, LocalsType, PartsNext
  <1>7. ASSUME Step(StopShortTerm(c)) PROVE TypeOK'
    <2>0. StopShortTerm(c) /\ UNCHANGED cpuVars
      BY <1>7 DEF Step
    <2>1. sem' \in [Semaphore -> Nat]
      BY <1>0, <2>0 DEF StopShortTerm, ValuesOK, Semaphore
    <2>2. PcOK'
      BY <1>0, <2>0, GotoType DEF StopShortTerm, ConsoleLabel
    <2>3. StoreOK' /\ ValuesOK' /\ CpuTypeOK' /\ ChannelsTypeOK'
      BY <1>0, <2>0, <2>1
         DEF StopShortTerm, Consume, StoreOK, ValuesOK, CpuTypeOK, ChannelsTypeOK, inert,
             memory, idle, channels, cpuVars
    <2>4. Others(c) /\ LocalOK(c)'
      BY <1>0, <2>0
         DEF StopShortTerm, Others, idle, LocalOK, Goto, PcOK, FinishLabel, DetectLabel, inert
    <2> QED
      BY <1>0, <2>2, <2>3, <2>4, LocalsType, PartsNext
  <1>8. ASSUME Step(StopLongTerm(c)) PROVE TypeOK'
    <2>0. StopLongTerm(c) /\ UNCHANGED cpuVars
      BY <1>8 DEF Step
    <2>1. sem' \in [Semaphore -> Nat]
      BY <1>0, <2>0 DEF StopLongTerm, ValuesOK, Semaphore
    <2>2. PcOK'
      BY <1>0, <2>0, GotoType DEF StopLongTerm, ConsoleLabel
    <2>3. StoreOK' /\ ValuesOK' /\ CpuTypeOK' /\ ChannelsTypeOK'
      BY <1>0, <2>0, <2>1
         DEF StopLongTerm, Consume, StoreOK, ValuesOK, CpuTypeOK, ChannelsTypeOK, inert,
             memory, idle, channels, cpuVars
    <2>4. Others(c) /\ LocalOK(c)'
      BY <1>0, <2>0
         DEF StopLongTerm, Others, idle, LocalOK, Goto, PcOK, FinishLabel, DetectLabel, inert
    <2> QED
      BY <1>0, <2>2, <2>3, <2>4, LocalsType, PartsNext
  <1>9. ASSUME Step(StartPlanning(c)) PROVE TypeOK'
    <2>0. StartPlanning(c) /\ UNCHANGED cpuVars
      BY <1>9 DEF Step
    <2>1. sem' \in [Semaphore -> Nat]
      BY <1>0, <2>0 DEF StartPlanning, ValuesOK, Semaphore
    <2>2. PcOK' /\ StoreOK' /\ ValuesOK' /\ CpuTypeOK' /\ ChannelsTypeOK'
      <3>1. PcOK' /\ StoreOK'
        BY <1>0, <2>0 DEF StartPlanning, PcOK, StoreOK, idle, locals, memory
      <3>2. commands' \in [Console -> Nat]
        BY <1>0, <2>0 DEF StartPlanning, Consume, ValuesOK
      <3>3. UNCHANGED <<fin, response, available, idToAssign, reported, crashed, detector, frame>>
        BY <2>0 DEF StartPlanning, locals, idle
      <3>4. ValuesOK'
        BY <1>0, <2>1, <3>2, <3>3 DEF ValuesOK
      <3>5. CpuTypeOK' /\ ChannelsTypeOK'
        BY <1>0, <2>0 DEF StartPlanning, CpuTypeOK, ChannelsTypeOK, channels, cpuVars
      <3> QED
        BY <3>1, <3>4, <3>5
    <2>3. Others(c) /\ LocalOK(c)'
      BY <1>0, <2>0 DEF StartPlanning, Others, idle, LocalOK, locals
    <2> QED
      BY <1>0, <2>2, <2>3, LocalsType, PartsNext
  <1>10. ASSUME Step(ModifyDegree(c)) PROVE TypeOK'
    <2>0. ModifyDegree(c) /\ UNCHANGED cpuVars
      BY <1>10 DEF Step
    <2>1. Received(c).degree \in Nat
      BY <2>0, ReceivedType DEF ModifyDegree, Command
    <2>2. sem' \in [Semaphore -> Nat]
      BY <1>0, <2>0, <2>1 DEF ModifyDegree, ValuesOK, Semaphore
    <2>3. PcOK'
      <3>1. CASE UNCHANGED pc
        BY <1>0, <3>1 DEF PcOK
      <3>2. CASE Goto("long", "lost")
        BY <3>2, GotoType, AccessType DEF LongLabel
      <3> QED
        BY <2>0, <3>1, <3>2 DEF ModifyDegree
    <2>4. StoreOK' /\ ValuesOK' /\ CpuTypeOK' /\ ChannelsTypeOK'
      BY <1>0, <2>0, <2>2
         DEF ModifyDegree, Consume, StoreOK, ValuesOK, CpuTypeOK, ChannelsTypeOK, memory, idle,
             channels, cpuVars
    <2>5. Others("long") /\ LocalOK("long")'
      BY <1>0, <2>0, AccessType, Parts
         DEF ModifyDegree, Others, idle, LocalOK, Goto, PcOK, StoreOK
    <2> QED
      BY <2>3, <2>4, <2>5, AccessType, LocalsType, PartsNext
  <1> QED
    BY <1>1, <1>2, <1>3, <1>4, <1>5, <1>6, <1>7, <1>8, <1>9, <1>10 DEF HandlerConnection

-----------------------------------------------------------------------------
(***************************************************************************)
(* long_term_planner                                                       *)
(***************************************************************************)

\* Every step of the long term planner keeps the types.
LEMMA LongTermPlannerType ==
    ASSUME TypeOK, LongTermPlanner
    PROVE  TypeOK'
  <1>0. /\ "long" \in Thread /\ "long" \notin Finisher /\ "long" \notin Console
        /\ LocalOK("long")
        /\ PcOK /\ StoreOK /\ ValuesOK /\ CpuTypeOK /\ ChannelsTypeOK
    BY AccessType, Parts
  <1>1. ASSUME Step(LongWaitPlanner) PROVE TypeOK'
    <2>0. LongWaitPlanner /\ UNCHANGED cpuVars
      BY <1>1 DEF Step
    <2>1. sem' \in [Semaphore -> Nat]
      BY <1>0, <2>0 DEF LongWaitPlanner, ValuesOK, Semaphore
    <2>2. PcOK'
      BY <1>0, <2>0, GotoType DEF LongWaitPlanner, LongLabel
    <2>3. StoreOK' /\ ValuesOK' /\ CpuTypeOK' /\ ChannelsTypeOK'
      BY <1>0, <2>0, <2>1
         DEF LongWaitPlanner, StoreOK, ValuesOK, CpuTypeOK, ChannelsTypeOK, inert, memory,
             idle, channels, cpuVars
    <2>4. Others("long") /\ LocalOK("long")'
      BY <1>0, <2>0 DEF LongWaitPlanner, Others, idle, LocalOK, Goto, PcOK, inert
    <2> QED
      BY <1>0, <2>2, <2>3, <2>4, LocalsType, PartsNext
  <1>2. ASSUME Step(LongWaitDegree) PROVE TypeOK'
    <2>0. LongWaitDegree /\ UNCHANGED cpuVars
      BY <1>2 DEF Step
    <2>1. sem' \in [Semaphore -> Nat]
      BY <1>0, <2>0 DEF LongWaitDegree, ValuesOK, Semaphore
    <2>2. PcOK'
      BY <1>0, <2>0, GotoType DEF LongWaitDegree, LongLabel
    <2>3. StoreOK' /\ ValuesOK' /\ CpuTypeOK' /\ ChannelsTypeOK'
      BY <1>0, <2>0, <2>1
         DEF LongWaitDegree, StoreOK, ValuesOK, CpuTypeOK, ChannelsTypeOK, inert, memory,
             idle, channels, cpuVars
    <2>4. Others("long") /\ LocalOK("long")'
      BY <1>0, <2>0 DEF LongWaitDegree, Others, idle, LocalOK, Goto, PcOK, inert
    <2> QED
      BY <1>0, <2>2, <2>3, <2>4, LocalsType, PartsNext
  <1>3. ASSUME Step(LongPopNew) PROVE TypeOK'
    <2>0. LongPopNew /\ UNCHANGED cpuVars
      BY <1>3 DEF Step
    <2>1. CASE Crash
      BY <2>0, <2>1, CrashType
    <2>2. CASE queue[New] # <<>> /\ Live(Head(queue[New]))
      <3>1. Head(queue[New]) \in 1 .. Len(heap)
        BY <1>0, <2>2, TailType, IndexType DEF StoreOK
      <3>2. heap' \in Seq(PCB) /\ Len(heap') = Len(heap)
        BY <2>0, <2>2, <3>1, SetStateType DEF LongPopNew, ProcessState
      <3>3. queue' \in [QueueIndex -> Seq(1 .. Len(heap))]
        BY <2>0, <2>2, PopType, IndexType DEF LongPopNew
      <3>4. ptr' \in [Thread -> 0 .. Len(heap)] /\ ptr'["long"] # 0
        <4>1. ptr' = [ptr EXCEPT !["long"] = Head(queue[New])]
          BY <2>0, <2>2 DEF LongPopNew
        <4> QED
          BY <1>0, <3>1, <4>1, AccessType DEF StoreOK
      <3>5. sem' \in [Semaphore -> Nat]
        BY <1>0, <2>0, <2>2 DEF LongPopNew, ValuesOK, Semaphore
      <3>6. PcOK'
        BY <1>0, <2>0, <2>2, GotoType DEF LongPopNew, LongLabel
      <3>7. StoreOK'
        BY <1>0, <2>0, <2>2, <3>2, <3>3, <3>4 DEF LongPopNew, StoreOK, idle, inert
      <3>8. ValuesOK' /\ CpuTypeOK' /\ ChannelsTypeOK'
        BY <1>0, <2>0, <2>2, <3>5
           DEF LongPopNew, ValuesOK, CpuTypeOK, ChannelsTypeOK, inert, idle, channels, cpuVars
      <3>9. Others("long") /\ LocalOK("long")'
        BY <1>0, <2>0, <2>2, <3>4
           DEF LongPopNew, Others, idle, LocalOK, Goto, PcOK, StoreOK, inert
      <3> QED
        BY <1>0, <3>6, <3>7, <3>8, <3>9, LocalsType, PartsNext
    <2> QED
      BY <2>0, <2>1, <2>2 DEF LongPopNew
  <1>4. ASSUME Step(LongPushReady) PROVE TypeOK'
    <2>0. LongPushReady /\ UNCHANGED cpuVars
      BY <1>4 DEF Step
    <2>1. ptr["long"] \in 1 .. Len(heap)
      BY <1>0, <2>0, AccessType DEF LongPushReady, LocalOK
    <2>2. queue' \in [QueueIndex -> Seq(1 .. Len(heap))]
      BY <2>0, <2>1, PushType, IndexType DEF LongPushReady
    <2>3. ptr' \in [Thread -> 0 .. Len(heap)]
      BY <1>0, <2>0, AccessType DEF LongPushReady, StoreOK
    <2>4. sem' \in [Semaphore -> Nat]
      BY <1>0, <2>0 DEF LongPushReady, ValuesOK, Semaphore
    <2>5. PcOK'
      BY <1>0, <2>0, GotoType DEF LongPushReady, LongLabel
    <2>6. StoreOK'
      BY <1>0, <2>0, <2>2, <2>3 DEF LongPushReady, StoreOK, idle, inert, memory
    <2>7. ValuesOK' /\ CpuTypeOK' /\ ChannelsTypeOK'
      BY <1>0, <2>0, <2>4
         DEF LongPushReady, ValuesOK, CpuTypeOK, ChannelsTypeOK, inert, idle, channels, cpuVars
    <2>8. Others("long") /\ LocalOK("long")'
      BY <1>0, <2>0, <2>1 DEF LongPushReady, Others, idle, LocalOK, Goto, PcOK, StoreOK, inert
    <2> QED
      BY <1>0, <2>5, <2>6, <2>7, <2>8, LocalsType, PartsNext
  <1> QED
    BY <1>1, <1>2, <1>3, <1>4 DEF LongTermPlanner

-----------------------------------------------------------------------------
(***************************************************************************)
(* short_term_planner                                                      *)
(***************************************************************************)

\* Every step of the short term planner keeps the types.
LEMMA ShortTermPlannerType ==
    ASSUME TypeOK, ShortTermPlanner
    PROVE  TypeOK'
  <1>0. /\ "short" \in Thread /\ "short" \notin Finisher /\ "short" \notin Console
        /\ LocalOK("short")
        /\ PcOK /\ StoreOK /\ ValuesOK /\ CpuTypeOK /\ ChannelsTypeOK
    BY AccessType, Parts
  <1>1. ASSUME Step(ShortWaitPlanner) PROVE TypeOK'
    <2>0. ShortWaitPlanner /\ UNCHANGED cpuVars
      BY <1>1 DEF Step
    <2>1. sem' \in [Semaphore -> Nat]
      BY <1>0, <2>0 DEF ShortWaitPlanner, ShortWait, ValuesOK, Semaphore
    <2>2. PcOK'
      BY <1>0, <2>0, GotoType DEF ShortWaitPlanner, ShortWait, ShortLabel
    <2>3. StoreOK' /\ ValuesOK' /\ CpuTypeOK' /\ ChannelsTypeOK'
      BY <1>0, <2>0, <2>1
         DEF ShortWaitPlanner, ShortWait, StoreOK, ValuesOK, CpuTypeOK, ChannelsTypeOK, inert,
             memory, idle, channels, cpuVars
    <2>4. Others("short") /\ LocalOK("short")'
      BY <1>0, <2>0 DEF ShortWaitPlanner, ShortWait, Others, idle, LocalOK, Goto, PcOK, inert
    <2> QED
      BY <1>0, <2>2, <2>3, <2>4, LocalsType, PartsNext
  <1>2. ASSUME Step(ShortWaitReady) PROVE TypeOK'
    <2>0. ShortWaitReady /\ UNCHANGED cpuVars
      BY <1>2 DEF Step
    <2>1. sem' \in [Semaphore -> Nat]
      BY <1>0, <2>0 DEF ShortWaitReady, ShortWait, ValuesOK, Semaphore
    <2>2. PcOK'
      BY <1>0, <2>0, GotoType DEF ShortWaitReady, ShortWait, ShortLabel
    <2>3. StoreOK' /\ ValuesOK' /\ CpuTypeOK' /\ ChannelsTypeOK'
      BY <1>0, <2>0, <2>1
         DEF ShortWaitReady, ShortWait, StoreOK, ValuesOK, CpuTypeOK, ChannelsTypeOK, inert, memory,
             idle, channels, cpuVars
    <2>4. Others("short") /\ LocalOK("short")'
      BY <1>0, <2>0 DEF ShortWaitReady, ShortWait, Others, idle, LocalOK, Goto, PcOK, inert
    <2> QED
      BY <1>0, <2>2, <2>3, <2>4, LocalsType, PartsNext
  <1>3. ASSUME Step(ShortWaitCpu) PROVE TypeOK'
    <2>0. ShortWaitCpu /\ UNCHANGED cpuVars
      BY <1>3 DEF Step
    <2>1. sem' \in [Semaphore -> Nat]
      BY <1>0, <2>0 DEF ShortWaitCpu, ShortWait, ValuesOK, Semaphore
    <2>2. PcOK'
      BY <1>0, <2>0, GotoType DEF ShortWaitCpu, ShortWait, ShortLabel
    <2>3. StoreOK' /\ ValuesOK' /\ CpuTypeOK' /\ ChannelsTypeOK'
      BY <1>0, <2>0, <2>1
         DEF ShortWaitCpu, ShortWait, StoreOK, ValuesOK, CpuTypeOK, ChannelsTypeOK, inert, memory,
             idle, channels, cpuVars
    <2>4. Others("short") /\ LocalOK("short")'
      BY <1>0, <2>0 DEF ShortWaitCpu, ShortWait, Others, idle, LocalOK, Goto, PcOK, inert
    <2> QED
      BY <1>0, <2>2, <2>3, <2>4, LocalsType, PartsNext
  <1>4. ASSUME Step(SortQueue) PROVE TypeOK'
    <2>0. SortQueue /\ UNCHANGED cpuVars
      BY <1>4 DEF Step
    <2> DEFINE q == queue[Ready]
    <2>1. CASE Crash
      BY <2>0, <2>1, CrashType
    <2>2. ASSUME NEW f \in [1 .. Len(q) -> 1 .. Len(q)],
                 queue' = [queue EXCEPT ![Ready] = [i \in 1 .. Len(q) |-> q[f[i]]]],
                 Goto("short", "pop"),
                 UNCHANGED <<inert, ptr, fin, sem, memory>>
          PROVE  TypeOK'
      <3>1. [i \in 1 .. Len(q) |-> q[f[i]]] \in Seq(1 .. Len(heap))
        <4>1. q \in Seq(1 .. Len(heap))
          BY <1>0, IndexType DEF StoreOK
        <4> QED
          BY <4>1, PermutationType
      <3>2. queue' \in [QueueIndex -> Seq(1 .. Len(heap))]
        BY <1>0, <2>2, <3>1 DEF StoreOK
      <3>3. PcOK'
        BY <1>0, <2>2, GotoType DEF ShortLabel
      <3>4. StoreOK' /\ ValuesOK' /\ CpuTypeOK' /\ ChannelsTypeOK'
        BY <1>0, <2>0, <2>2, <3>2
           DEF StoreOK, ValuesOK, CpuTypeOK, ChannelsTypeOK, inert, memory, idle, channels, cpuVars
      <3>5. Others("short") /\ LocalOK("short")'
        BY <1>0, <2>2 DEF Others, idle, LocalOK, Goto, PcOK, inert
      <3> QED
        BY <1>0, <3>3, <3>4, <3>5, LocalsType, PartsNext
    <2> QED
      BY <2>0, <2>1, <2>2 DEF SortQueue
  <1>5. ASSUME Step(ShortPopReady) PROVE TypeOK'
    <2>0. ShortPopReady /\ UNCHANGED cpuVars
      BY <1>5 DEF Step
    <2>1. CASE Crash
      BY <2>0, <2>1, CrashType
    <2>2. CASE queue[Ready] # <<>> /\ Live(Head(queue[Ready]))
      <3>1. Head(queue[Ready]) \in 1 .. Len(heap)
        BY <1>0, <2>2, TailType, IndexType DEF StoreOK
      <3>2. heap' \in Seq(PCB) /\ Len(heap') = Len(heap)
        BY <2>0, <2>2, <3>1, SetStateType DEF ShortPopReady, ProcessState
      <3>3. queue' \in [QueueIndex -> Seq(1 .. Len(heap))]
        BY <2>0, <2>2, PopType, IndexType DEF ShortPopReady
      <3>4. ptr' \in [Thread -> 0 .. Len(heap)] /\ ptr'["short"] # 0
        <4>1. ptr' = [ptr EXCEPT !["short"] = Head(queue[Ready])]
          BY <2>0, <2>2 DEF ShortPopReady
        <4> QED
          BY <1>0, <3>1, <4>1, AccessType DEF StoreOK
      <3>5. sem' \in [Semaphore -> Nat]
        BY <1>0, <2>0, <2>2 DEF ShortPopReady, ValuesOK, Semaphore
      <3>6. PcOK'
        BY <1>0, <2>0, <2>2, GotoType DEF ShortPopReady, ShortLabel
      <3>7. StoreOK'
        BY <1>0, <2>0, <2>2, <3>2, <3>3, <3>4 DEF ShortPopReady, StoreOK, idle, inert
      <3>8. ValuesOK' /\ CpuTypeOK' /\ ChannelsTypeOK'
        BY <1>0, <2>0, <2>2, <3>5
           DEF ShortPopReady, ValuesOK, CpuTypeOK, ChannelsTypeOK, inert, idle, channels, cpuVars
      <3>9. Others("short") /\ LocalOK("short")'
        BY <1>0, <2>0, <2>2, <3>4
           DEF ShortPopReady, Others, idle, LocalOK, Goto, PcOK, StoreOK, inert
      <3> QED
        BY <1>0, <3>6, <3>7, <3>8, <3>9, LocalsType, PartsNext
    <2> QED
      BY <2>0, <2>1, <2>2 DEF ShortPopReady
  <1>6. ASSUME Step(ShortPushExec) PROVE TypeOK'
    <2>0. ShortPushExec /\ UNCHANGED cpuVars
      BY <1>6 DEF Step
    <2>1. ptr["short"] \in 1 .. Len(heap)
      BY <1>0, <2>0, AccessType DEF ShortPushExec, LocalOK
    <2>2. queue' \in [QueueIndex -> Seq(1 .. Len(heap))]
      BY <2>0, <2>1, PushType, IndexType DEF ShortPushExec
    <2>3. ptr' \in [Thread -> 0 .. Len(heap)]
      BY <1>0, <2>0, AccessType DEF ShortPushExec, StoreOK
    <2>4. sem' \in [Semaphore -> Nat]
      BY <1>0, <2>0 DEF ShortPushExec, ValuesOK, Semaphore
    <2>5. PcOK'
      BY <1>0, <2>0, GotoType DEF ShortPushExec, ShortLabel
    <2>6. StoreOK'
      BY <1>0, <2>0, <2>2, <2>3 DEF ShortPushExec, StoreOK, idle, inert, memory
    <2>7. ValuesOK' /\ CpuTypeOK' /\ ChannelsTypeOK'
      BY <1>0, <2>0, <2>4
         DEF ShortPushExec, ValuesOK, CpuTypeOK, ChannelsTypeOK, inert, idle, channels, cpuVars
    <2>8. Others("short") /\ LocalOK("short")'
      BY <1>0, <2>0, <2>1 DEF ShortPushExec, Others, idle, LocalOK, Goto, PcOK, StoreOK, inert
    <2> QED
      BY <1>0, <2>5, <2>6, <2>7, <2>8, LocalsType, PartsNext
  <1>7. ASSUME Step(DispatchProcess) PROVE TypeOK'
    <2>0. DispatchProcess /\ UNCHANGED cpuVars
      BY <1>7 DEF Step
    <2>1. CASE Crash
      BY <2>0, <2>1, CrashType
    <2>2. CASE Live(ptr["short"])
      <3>1. heap[ptr["short"]] \in PCB
        BY <1>0, <2>2, AccessType DEF Live
      <3>2. toCpu' \in Seq(MessageToCpu)
        <4>1. [op |-> "EXECUTE_PROCESS", pcb |-> heap[ptr["short"]]] \in MessageToCpu
          BY <3>1 DEF MessageToCpu
        <4>2. toCpu' = Append(toCpu, [op |-> "EXECUTE_PROCESS", pcb |-> heap[ptr["short"]]])
          BY <2>0, <2>2 DEF DispatchProcess
        <4>3. toCpu \in Seq(MessageToCpu)
          BY <1>0 DEF ChannelsTypeOK
        <4> QED
          BY <4>1, <4>2, <4>3, AppendProperties
      <3>3. ptr' \in [Thread -> 0 .. Len(heap)]
        BY <1>0, <2>0, <2>2, AccessType DEF DispatchProcess, StoreOK
      <3>4. sem' \in [Semaphore -> Nat]
        BY <1>0, <2>0, <2>2 DEF DispatchProcess, ValuesOK, Semaphore
      <3>5. Goto("short", IF Algorithm = "ROUND_ROBIN" THEN "quantum" ELSE "planner")
        BY <2>0, <2>2 DEF DispatchProcess
      <3>6. PcOK'
        BY <1>0, <3>5, GotoType DEF ShortLabel
      <3>7. StoreOK'
        BY <1>0, <2>0, <2>2, <3>3 DEF DispatchProcess, StoreOK, idle, memory
      <3>8. ValuesOK' /\ CpuTypeOK' /\ ChannelsTypeOK'
        BY <1>0, <2>0, <2>2, <3>2, <3>4
           DEF DispatchProcess, ValuesOK, CpuTypeOK, ChannelsTypeOK, idle, cpuVars
      <3>9. Others("short") /\ LocalOK("short")'
        BY <1>0, <2>0, <2>2, <3>5
           DEF DispatchProcess, Others, idle, LocalOK, Goto, PcOK, StoreOK
      <3> QED
        BY <1>0, <3>6, <3>7, <3>8, <3>9, LocalsType, PartsNext
    <2> QED
      BY <2>0, <2>1, <2>2 DEF DispatchProcess
  <1>8. ASSUME Step(InterruptProcess) PROVE TypeOK'
    <2>0. InterruptProcess /\ UNCHANGED cpuVars
      BY <1>8 DEF Step
    <2>1. sem' \in [Semaphore -> Nat] /\ quantumIrq' \in Nat
      BY <1>0, <2>0 DEF InterruptProcess, ValuesOK, Semaphore, ChannelsTypeOK
    <2>2. PcOK'
      BY <1>0, <2>0, GotoType DEF InterruptProcess, ShortLabel
    <2>3. StoreOK' /\ ValuesOK' /\ CpuTypeOK' /\ ChannelsTypeOK'
      BY <1>0, <2>0, <2>1
         DEF InterruptProcess, StoreOK, ValuesOK, CpuTypeOK, ChannelsTypeOK, memory, idle, cpuVars
    <2>4. Others("short") /\ LocalOK("short")'
      BY <1>0, <2>0 DEF InterruptProcess, Others, idle, LocalOK, Goto, PcOK
    <2> QED
      BY <1>0, <2>2, <2>3, <2>4, LocalsType, PartsNext
  <1> QED
    BY <1>1, <1>2, <1>3, <1>4, <1>5, <1>6, <1>7, <1>8 DEF ShortTermPlanner

-----------------------------------------------------------------------------
(***************************************************************************)
(* handle_dispatch_connection                                              *)
(***************************************************************************)

\* The message taken from the socket is one of the protocol.
LEMMA ArrivedType ==
    ASSUME TypeOK, NEW op, ReceivesFromCpu(op)
    PROVE  /\ Arrived \in MessageToKernel /\ Arrived.op = op /\ Arrived.pcb \in PCB
           /\ ChannelsTypeOK'
           /\ UNCHANGED commands
           /\ pc["dispatch"] = "listen"
  <1>1. toKernel \in Seq(MessageToKernel) /\ toKernel # <<>>
    BY DEF TypeOK, ChannelsTypeOK, ReceivesFromCpu
  <1>2. Head(toKernel) \in MessageToKernel /\ Tail(toKernel) \in Seq(MessageToKernel)
    BY <1>1, TailType
  <1>3. Head(toKernel).pcb \in PCB
    BY <1>2 DEF MessageToKernel
  <1> QED
    BY <1>2, <1>3 DEF ReceivesFromCpu, Arrived, TypeOK, ChannelsTypeOK

\* A WAIT or SIGNAL names a number.
LEMMA ArrivedResourceType ==
    ASSUME TypeOK, ReceivesFromCpu("WAIT_REQUEST") \/ ReceivesFromCpu("SIGNAL_REQUEST")
    PROVE  Arrived.resource \in Nat
  BY ArrivedType DEF MessageToKernel

\* The answer to WAIT or SIGNAL: the PCB one instruction on, with other resources.
LEMMA AnsweredType ==
    ASSUME NEW pcb \in PCB, NEW resources \in Seq(Resource)
    PROVE  [pcb EXCEPT !.counter = @ + 1, !.resources = resources] \in PCB
  <1> DEFINE next == [pcb EXCEPT !.counter = @ + 1]
  <1>1. next \in PCB
    BY DEF PCB
  <1>2. [pcb EXCEPT !.counter = @ + 1, !.resources = resources]
          = [next EXCEPT !.resources = resources]
    OBVIOUS
  <1> HIDE DEF next
  <1> QED
    BY <1>1, <1>2 DEF PCB

\* A request that ends the process starts finish_process.
LEMMA DispatchFinishType ==
    ASSUME TypeOK, NEW op, ReceivesFromCpu(op), Finish("dispatch", Arrived.pcb.pid),
           UNCHANGED <<ptr, response, sem, queue, memory, available, sleepers, idle, cpuVars>>
    PROVE  TypeOK'
  <1>0. /\ "dispatch" \in Thread /\ "dispatch" \in Finisher /\ "dispatch" \notin Console
        /\ LocalOK("dispatch")
        /\ PcOK /\ StoreOK /\ ValuesOK /\ CpuTypeOK /\ ChannelsTypeOK
    BY AccessType, Parts
  <1>1. Arrived.pcb.pid \in Nat
    BY ArrivedType DEF PCB
  <1>2. /\ PcOK' /\ pc'["dispatch"] = "find"
        /\ \A u \in Finisher \ {"dispatch"} : fin'[u] = fin[u]
        /\ fin' \in [Finisher -> Frame]
        /\ fin'["dispatch"].index \in QueueIndex
        /\ fin'["dispatch"].waiter = fin["dispatch"].waiter
    BY <1>0, <1>1, FinishCallType
  <1>3. ChannelsTypeOK' /\ UNCHANGED commands
    BY ArrivedType
  <1>4. StoreOK'
    BY <1>0, <1>2 DEF StoreOK, idle, memory
  <1>5. ValuesOK' /\ CpuTypeOK'
    BY <1>0, <1>2, <1>3 DEF ValuesOK, CpuTypeOK, idle, cpuVars
  <1>6. Others("dispatch") /\ LocalOK("dispatch")'
    BY <1>0, <1>2 DEF Finish, Others, LocalOK, Goto, PcOK, idle, FinishLabel, DetectLabel
  <1> QED
    BY <1>0, <1>2, <1>3, <1>4, <1>5, <1>6, LocalsType, PartsNext

\* What a step of the detection loop leaves alone: everything but the locals of
\* the dispatch thread, which it gives up at the end, the log and crashed.
LEMMA DetectionFrame ==
    ASSUME TypeOK, CheckDeadlocks
    PROVE  /\ UNCHANGED <<commands, response, sem, queue, memory, available, sleepers,
                          idToAssign, frame, channels, cpuVars>>
           /\ pc["dispatch"] \in DetectLabel
           /\ \A u \in Thread \ {"dispatch"} : pc'[u] = pc[u]
           /\ \/ pc'["dispatch"] \in DetectLabel /\ UNCHANGED <<ptr, fin>>
              \/ Return("dispatch")
  <1>0. /\ "dispatch" \in Thread
        /\ pc \in [Thread -> ConsoleLabel \cup DispatchLabel \cup ShortLabel \cup LongLabel]
    BY AccessType DEF TypeOK, KernelTypeOK
  <1>1. CASE \/ Step(WalkBlockedQueues) \/ Step(GetRequiredResource) \/ Step(GetEvaluated)
             \/ Step(FindRetained) \/ Step(LogDeadlock) \/ Step(ReadQueueSize)
    <2>1. /\ pc["dispatch"] \in DetectLabel
          /\ UNCHANGED <<commands, response, sem, queue, memory, available, sleepers,
                         idToAssign, frame, channels, cpuVars>>
      BY <1>1
         DEF Step, WalkBlockedQueues, GetRequiredResource, GetEvaluated, FindRetained,
             LogDeadlock, ReadQueueSize, locals, DetectLabel
    <2>2. \/ UNCHANGED <<pc, ptr, fin>>
          \/ UNCHANGED <<ptr, fin>> /\ \E label \in DetectLabel : Goto("dispatch", label)
          \/ Return("dispatch")
      BY <1>1
         DEF Step, WalkBlockedQueues, GetRequiredResource, GetEvaluated, FindRetained,
             LogDeadlock, ReadQueueSize, locals, DetectLabel
    <2> QED
      BY <1>0, <2>1, <2>2 DEF Goto, Return
  <1>2. CASE Step(DetectorDangling)
    <2>1. pc["dispatch"] \in DetectLabel /\ Crash /\ UNCHANGED cpuVars
      BY <1>2 DEF Step, DetectorDangling, DetectLabel
    <2> QED
      BY <2>1 DEF Crash, locals
  <1> QED
    BY <1>1, <1>2 DEF CheckDeadlocks

\* Every step of the detection loop keeps the types.
LEMMA CheckDeadlocksType ==
    ASSUME TypeOK, CheckDeadlocks
    PROVE  TypeOK'
  <1>0. /\ PcOK /\ StoreOK /\ ValuesOK /\ CpuTypeOK /\ ChannelsTypeOK
        /\ "dispatch" \in Thread /\ "dispatch" \in Finisher /\ LocalOK("dispatch")
        /\ "dispatch" \notin Console
    BY AccessType, Parts
  <1>1. NoDetector \in Detector /\ NoDetector.evaluated = 0
    BY DEF NoDetector, Detector, Ptr
  <1>2. /\ detector \in Detector
        /\ detector.evaluated \in 0 .. Len(heap)
    BY <1>0 DEF StoreOK, ValuesOK
  \* A step inside the loop: only the detector, the label and the log change.
  <1>3. ASSUME NEW label \in DetectLabel, pc["dispatch"] \in DetectLabel,
               Goto("dispatch", label),
               detector' \in Detector, detector'.evaluated \in 0 .. Len(heap),
               label \in {"require", "scan"} \/ detector'.list \in Resource,
               reported' \subseteq Nat,
               UNCHANGED <<commands, ptr, fin, response, sem, queue, memory, available, sleepers,
                           idToAssign, crashed, frame, channels, cpuVars>>
        PROVE  TypeOK'
    <2>1. PcOK'
      BY <1>0, <1>3, GotoType DEF DispatchLabel
    <2>2. StoreOK'
      BY <1>0, <1>3 DEF StoreOK, memory
    <2>3. ValuesOK' /\ CpuTypeOK' /\ ChannelsTypeOK'
      BY <1>0, <1>3 DEF ValuesOK, CpuTypeOK, ChannelsTypeOK, channels, cpuVars
    <2>4. Others("dispatch") /\ LocalOK("dispatch")'
      BY <1>0, <1>3 DEF Others, LocalOK, Goto, PcOK, FinishLabel, DetectLabel
    <2> QED
      BY <1>0, <2>1, <2>2, <2>3, <2>4, LocalsType, PartsNext
  <1>4. ASSUME Step(WalkBlockedQueues) PROVE TypeOK'
    <2>1. WalkBlockedQueues /\ UNCHANGED cpuVars
      BY <1>4 DEF Step
    <2>2. detector' = [detector EXCEPT !.walk = @ + 1] /\ pc["dispatch"] \in DetectLabel
      BY <2>1 DEF WalkBlockedQueues, DetectLabel
    <2>3. detector' \in Detector /\ detector'.evaluated = detector.evaluated
          /\ detector'.list = detector.list
      BY <1>2, <2>2 DEF Detector
    <2>4. /\ Goto("dispatch", pc["dispatch"]) /\ reported' \subseteq Nat
          /\ UNCHANGED <<commands, ptr, fin, response, sem, queue, memory, available, sleepers,
                          idToAssign, crashed, frame, channels, cpuVars>>
      BY <1>0, <2>1 DEF WalkBlockedQueues, locals, Goto, PcOK, ValuesOK
    <2>5. pc["dispatch"] = "require" \/ detector'.list \in Resource
      BY <1>0, <2>1, <2>2, <2>3 DEF LocalOK, WalkBlockedQueues
    <2> QED
      BY <1>2, <1>3, <2>2, <2>3, <2>4, <2>5
  <1>5. ASSUME Step(GetRequiredResource) PROVE TypeOK'
    <2>1. GetRequiredResource /\ UNCHANGED cpuVars
      BY <1>5 DEF Step
    <2>2. detector' \in Detector /\ detector'.evaluated = 0
      <3>1. NoDetector.required \in Nat /\ detector.walk \in Nat
        BY <1>2 DEF NoDetector, Detector
      <3> QED
        BY <1>1, <2>1, <3>1 DEF GetRequiredResource, Detector
    <2> QED
      BY <1>0, <1>3, <2>1, <2>2, AccessType DEF GetRequiredResource, DetectLabel, ValuesOK
  <1>6. ASSUME Step(ReadQueueSize) PROVE TypeOK'
    <2>1. ReadQueueSize /\ UNCHANGED cpuVars
      BY <1>6 DEF Step
    <2>2. CASE detector.list \in Resource
      <3>1. Len(queue[Blocked(detector.list)]) \in Nat
        BY <1>0, <2>2, IndexType, LenProperties DEF StoreOK
      <3>2. detector' = [detector EXCEPT !.size = Len(queue[Blocked(detector.list)]),
                                         !.position = 1]
        BY <2>1, <2>2 DEF ReadQueueSize
      <3>3. detector' \in Detector /\ detector'.evaluated = detector.evaluated
            /\ detector'.list = detector.list
        BY <1>2, <3>1, <3>2 DEF Detector
      <3> QED
        BY <1>0, <1>2, <1>3, <2>1, <2>2, <3>3 DEF ReadQueueSize, DetectLabel, ValuesOK
    <2>3. CASE detector.list \notin Resource
      <3>1. detector' = NoDetector /\ Return("dispatch")
        BY <2>1, <2>3 DEF ReadQueueSize
      <3>2. /\ PcOK' /\ pc'["dispatch"] = "listen"
            /\ fin' \in [Finisher -> Frame] /\ fin'["dispatch"].waiter = 0
            /\ ptr' \in [Thread -> 0 .. Len(heap)]
        BY <1>0, <3>1, ReturnType
      <3>3. \A u \in Finisher \ {"dispatch"} : fin'[u] = fin[u]
        BY <1>0, <3>1 DEF Return, ValuesOK
      <3>4. StoreOK'
        <4>1. \A u \in Finisher : fin'[u].waiter \in 0 .. Len(heap)
          <5>1. 0 \in 0 .. Len(heap)
            BY <1>0, AccessType
          <5>2. \A u \in Finisher : fin[u].waiter \in 0 .. Len(heap)
            BY <1>0 DEF StoreOK
          <5>3. \A u \in Finisher : u = "dispatch" \/ fin'[u].waiter = fin[u].waiter
            BY <3>3
          <5> QED
            BY <3>2, <5>1, <5>2, <5>3
        <4> QED
          BY <1>0, <1>1, <2>1, <3>1, <3>2, <4>1, AccessType DEF ReadQueueSize, StoreOK, memory
      <3>5. ValuesOK' /\ CpuTypeOK' /\ ChannelsTypeOK'
        BY <1>0, <1>1, <2>1, <3>1, <3>2
           DEF ReadQueueSize, ValuesOK, CpuTypeOK, ChannelsTypeOK, channels, cpuVars
      <3>6. Others("dispatch")
        BY <1>0, <2>1, <3>1, <3>3 DEF ReadQueueSize, Others, idle, Return, Goto, PcOK, StoreOK
      <3>7. LocalOK("dispatch")'
        BY <1>0, <3>2 DEF LocalOK, FinishLabel, DetectLabel
      <3> QED
        BY <1>0, <3>2, <3>4, <3>5, <3>6, <3>7, LocalsType, PartsNext
    <2> QED
      BY <2>2, <2>3
  <1>7. ASSUME Step(GetEvaluated) PROVE TypeOK'
    <2>1. GetEvaluated /\ UNCHANGED cpuVars
      BY <1>7 DEF Step
    <2> DEFINE q == queue[Blocked(detector.list)]
    <2>4. detector.list \in Resource
      BY <1>0, <2>1 DEF GetEvaluated, LocalOK, DetectLabel
    <2>2. ASSUME NEW p \in 0 .. Len(heap), detector' = [detector EXCEPT !.evaluated = p],
                 Goto("dispatch", "retain")
          PROVE  TypeOK'
      <3>1. detector' \in Detector /\ detector'.evaluated = p /\ detector'.list = detector.list
        BY <1>2, <2>2, AccessType DEF Detector, Ptr
      <3> QED
        BY <1>0, <1>3, <2>1, <2>2, <2>4, <3>1 DEF GetEvaluated, DetectLabel, ValuesOK
    <2>3. CASE detector' = [detector EXCEPT !.list = @ + 1] /\ Goto("dispatch", "scan")
      <3>1. detector' \in Detector /\ detector'.evaluated = detector.evaluated
        BY <1>2, <2>3 DEF Detector
      <3> QED
        BY <1>0, <1>2, <1>3, <2>1, <2>3, <3>1 DEF GetEvaluated, DetectLabel, ValuesOK
    <2>5. \A i \in DOMAIN q : q[i] \in 0 .. Len(heap)
      <3>1. q \in Seq(1 .. Len(heap))
        BY <1>0, <2>4, IndexType DEF StoreOK
      <3> QED
        BY <3>1, AccessType, LenProperties, ElementOfSeq
    <2>6. \/ \E p \in 0 .. Len(heap) : detector' = [detector EXCEPT !.evaluated = p]
                                         /\ Goto("dispatch", "retain")
          \/ detector' = [detector EXCEPT !.list = @ + 1] /\ Goto("dispatch", "scan")
      BY <2>1, <2>5, AccessType DEF GetEvaluated
    <2> QED
      BY <2>2, <2>3, <2>6
  <1>8. ASSUME Step(FindRetained) PROVE TypeOK'
    <2>1. FindRetained /\ UNCHANGED cpuVars
      BY <1>8 DEF Step
    <2>2. detector' \in Detector /\ detector'.evaluated = detector.evaluated
          /\ detector'.list = detector.list
      BY <1>2, <2>1 DEF FindRetained, Detector
    <2>3. detector.list \in Resource
      BY <1>0, <2>1 DEF FindRetained, LocalOK, DetectLabel
    <2>4. \E label \in DetectLabel : Goto("dispatch", label)
      BY <2>1 DEF FindRetained, DetectLabel
    <2> QED
      BY <1>0, <1>2, <1>3, <2>1, <2>2, <2>3, <2>4 DEF FindRetained, DetectLabel, ValuesOK
  <1>9. ASSUME Step(LogDeadlock) PROVE TypeOK'
    <2>1. LogDeadlock /\ UNCHANGED cpuVars /\ Live(Sought)
      BY <1>9 DEF Step, LogDeadlock, Hit
    <2>2. heap[Sought].pid \in Nat
      BY <1>0, <1>2, <2>1, AccessType DEF Live, Sought, PCB
    <2>3. detector' \in Detector /\ detector'.evaluated = detector.evaluated
          /\ detector'.list = detector.list
      BY <1>2, <2>1 DEF LogDeadlock, Detector
    <2>4. /\ detector.list \in Resource /\ pc["dispatch"] \in DetectLabel
          /\ \E label \in DetectLabel : Goto("dispatch", label)
      BY <1>0, <2>1 DEF LogDeadlock, LocalOK, DetectLabel
    <2>5. reported' \subseteq Nat
      BY <1>0, <2>1, <2>2 DEF LogDeadlock, ValuesOK
    <2> QED
      BY <1>0, <1>2, <1>3, <2>1, <2>3, <2>4, <2>5 DEF LogDeadlock
  <1>10. ASSUME Step(DetectorDangling) PROVE TypeOK'
    BY <1>10, CrashType DEF Step, DetectorDangling
  <1> QED
    BY <1>4, <1>5, <1>6, <1>7, <1>8, <1>9, <1>10 DEF CheckDeadlocks

\* Every step of the thread of the dispatch socket keeps the types.
LEMMA HandleDispatchConnectionType ==
    ASSUME TypeOK, HandleDispatchConnection
    PROVE  TypeOK'
  <1>0. /\ "dispatch" \in Thread /\ "dispatch" \in Finisher /\ "dispatch" \notin Console
        /\ LocalOK("dispatch")
        /\ PcOK /\ StoreOK /\ ValuesOK /\ CpuTypeOK /\ ChannelsTypeOK
    BY AccessType, Parts
  <1>1. ASSUME Step(DispatchFinish) PROVE TypeOK'
    BY <1>1, DispatchFinishType DEF Step, DispatchFinish
  <1>2. ASSUME Step(DispatchInterrupt) PROVE TypeOK'
    <2>0. DispatchInterrupt /\ UNCHANGED cpuVars
      BY <1>2 DEF Step
    <2> DEFINE pcb == [Arrived.pcb EXCEPT !.state = "READY"]
    <2>1. pcb \in PCB
      BY <2>0, ArrivedType DEF DispatchInterrupt, PCB, ProcessState
    <2>2. heap' = Append(heap, pcb)
      BY <2>0 DEF DispatchInterrupt
    <2>3. /\ heap' \in Seq(PCB) /\ Len(heap') = Len(heap) + 1
          /\ queue \in [QueueIndex -> Seq(1 .. Len(heap'))]
          /\ 1 .. Len(heap) \subseteq 1 .. Len(heap')
          /\ 0 .. Len(heap) \subseteq 0 .. Len(heap')
          /\ Len(heap) + 1 \in 1 .. Len(heap') /\ Len(heap) \in Nat
      BY <2>1, <2>2, AllocateType, AccessType
    <2> HIDE DEF pcb
    <2>4. ptr' \in [Thread -> 0 .. Len(heap')] /\ ptr'["dispatch"] # 0
      BY <1>0, <2>0, <2>3 DEF DispatchInterrupt, StoreOK
    <2>5. queue' \in [QueueIndex -> Seq(1 .. Len(heap'))]
      <3>1. Rest(queue[Exec]) \in Seq(1 .. Len(heap'))
        BY <2>3, IndexType, TailType DEF Rest
      <3> QED
        BY <2>0, <2>3, <3>1 DEF DispatchInterrupt, DropExecHead, Pop
    <2>6. sem' \in [Semaphore -> Nat]
      BY <1>0, <2>0 DEF DispatchInterrupt, ValuesOK, Semaphore
    <2>7. PcOK'
      BY <1>0, <2>0, GotoType DEF DispatchInterrupt, DispatchLabel
    <2>8. StoreOK'
      BY <1>0, <2>0, <2>3, <2>4, <2>5 DEF DispatchInterrupt, StoreOK, idle
    <2>9. ValuesOK' /\ CpuTypeOK' /\ ChannelsTypeOK'
      <3>1. ChannelsTypeOK' /\ UNCHANGED commands
        BY <2>0, ArrivedType DEF DispatchInterrupt
      <3> QED
        BY <1>0, <2>0, <2>6, <3>1 DEF DispatchInterrupt, ValuesOK, CpuTypeOK, idle, cpuVars
    <2>10. Others("dispatch") /\ LocalOK("dispatch")'
      BY <1>0, <2>0, <2>4
         DEF DispatchInterrupt, Others, idle, LocalOK, Goto, PcOK, StoreOK, FinishLabel, DetectLabel
    <2> QED
      BY <1>0, <2>7, <2>8, <2>9, <2>10, LocalsType, PartsNext
  <1>3. ASSUME Step(RequeueInterrupted) PROVE TypeOK'
    <2>0. RequeueInterrupted /\ UNCHANGED cpuVars
      BY <1>3 DEF Step
    <2>1. ptr["dispatch"] \in 1 .. Len(heap)
      BY <1>0, <2>0, AccessType DEF RequeueInterrupted, LocalOK
    <2>2. queue' \in [QueueIndex -> Seq(1 .. Len(heap))]
      BY <2>0, <2>1, PushType, IndexType DEF RequeueInterrupted
    <2>3. ptr' \in [Thread -> 0 .. Len(heap)]
      BY <1>0, <2>0, AccessType DEF RequeueInterrupted, StoreOK
    <2>4. sem' \in [Semaphore -> Nat]
      BY <1>0, <2>0 DEF RequeueInterrupted, ValuesOK, Semaphore
    <2>5. PcOK'
      BY <1>0, <2>0, GotoType DEF RequeueInterrupted, DispatchLabel
    <2>6. StoreOK'
      BY <1>0, <2>0, <2>2, <2>3 DEF RequeueInterrupted, StoreOK, idle, inert, memory
    <2>7. ValuesOK' /\ CpuTypeOK' /\ ChannelsTypeOK'
      BY <1>0, <2>0, <2>4
         DEF RequeueInterrupted, ValuesOK, CpuTypeOK, ChannelsTypeOK, inert, idle, channels, cpuVars
    <2>8. Others("dispatch") /\ LocalOK("dispatch")'
      BY <1>0, <2>0
         DEF RequeueInterrupted, Others, idle, LocalOK, Goto, PcOK, StoreOK, FinishLabel,
             DetectLabel, inert
    <2> QED
      BY <1>0, <2>5, <2>6, <2>7, <2>8, LocalsType, PartsNext
  <1>4. ASSUME Step(DispatchInvalid) PROVE TypeOK'
    BY <1>4, DispatchFinishType DEF Step, DispatchInvalid
  <1>5. ASSUME Step(DispatchWaitGranted) PROVE TypeOK'
    <2>0. DispatchWaitGranted /\ UNCHANGED cpuVars
      BY <1>5 DEF Step
    <2>1. response' \in Response
      <3>1. Arrived.pcb \in PCB /\ Arrived.resource \in Resource
        BY <2>0, ArrivedType DEF DispatchWaitGranted
      <3>2. Append(Arrived.pcb.resources, Arrived.resource) \in Seq(Resource)
        BY <3>1, AppendProperties DEF PCB
      <3>3. [Arrived.pcb EXCEPT !.counter = @ + 1,
                                !.resources = Append(@, Arrived.resource)] \in PCB
        BY <3>1, <3>2, AnsweredType
      <3> QED
        BY <2>0, <3>1, <3>3 DEF DispatchWaitGranted, Response
    <2>2. PcOK'
      BY <1>0, <2>0, GotoType DEF DispatchWaitGranted, DispatchLabel
    <2>3. StoreOK'
      BY <1>0, <2>0 DEF DispatchWaitGranted, StoreOK, idle, memory
    <2>4. ValuesOK' /\ CpuTypeOK' /\ ChannelsTypeOK'
      <3>1. ChannelsTypeOK' /\ UNCHANGED commands
        BY <2>0, ArrivedType DEF DispatchWaitGranted
      <3> QED
        BY <1>0, <2>0, <2>1, <3>1 DEF DispatchWaitGranted, ValuesOK, CpuTypeOK, idle, cpuVars
    <2>5. Others("dispatch") /\ LocalOK("dispatch")'
      BY <1>0, <2>0, <2>1
         DEF DispatchWaitGranted, Others, idle, LocalOK, Goto, PcOK, FinishLabel, DetectLabel
    <2> QED
      BY <1>0, <2>2, <2>3, <2>4, <2>5, LocalsType, PartsNext
  <1>6. ASSUME Step(DispatchWaitBlocked) PROVE TypeOK'
    <2>0. DispatchWaitBlocked /\ UNCHANGED cpuVars
      BY <1>6 DEF Step
    <2>1. Arrived.resource \in Resource /\ ChannelsTypeOK' /\ UNCHANGED commands
          /\ pc["dispatch"] = "listen" /\ Arrived.resource \in Nat
      BY <2>0, ArrivedType, ArrivedResourceType DEF DispatchWaitBlocked
    <2>2. CASE queue[Exec] # <<>> /\ Live(Head(queue[Exec]))
      <3>1. Head(queue[Exec]) \in 1 .. Len(heap)
        BY <1>0, <2>2, TailType, IndexType DEF StoreOK
      <3>2. queue' \in [QueueIndex -> Seq(1 .. Len(heap))]
        BY <2>0, <2>2, PopType, IndexType DEF DispatchWaitBlocked
      <3>3. ptr' \in [Thread -> 0 .. Len(heap)] /\ ptr'["dispatch"] # 0
        <4>1. ptr' = [ptr EXCEPT !["dispatch"] = Head(queue[Exec])]
          BY <2>0, <2>2 DEF DispatchWaitBlocked
        <4> QED
          BY <1>0, <3>1, <4>1, AccessType DEF StoreOK
      <3>4. sem' \in [Semaphore -> Nat]
        BY <1>0, <2>0, <2>2 DEF DispatchWaitBlocked, ValuesOK, Semaphore
      <3>5. /\ fin' \in [Finisher -> Frame] /\ fin'["dispatch"].item = Arrived.resource
            /\ fin'["dispatch"].waiter = fin["dispatch"].waiter
            /\ \A u \in Finisher \ {"dispatch"} : fin'[u] = fin[u]
        <4>1. fin \in [Finisher -> Frame] /\ fin["dispatch"] \in Frame
          BY <1>0 DEF ValuesOK
        <4>2. fin' = [fin EXCEPT !["dispatch"].item = Arrived.resource]
          BY <2>0, <2>2 DEF DispatchWaitBlocked
        <4> QED
          BY <1>0, <2>1, <4>1, <4>2 DEF Frame
      <3>6. PcOK' /\ pc' = [pc EXCEPT !["dispatch"] = "block"]
        BY <1>0, <2>0, <2>2, GotoType DEF DispatchWaitBlocked, DispatchLabel, Goto
      <3>7. StoreOK'
        BY <1>0, <2>0, <3>2, <3>3, <3>5 DEF DispatchWaitBlocked, StoreOK, idle, memory
      <3>8. ValuesOK' /\ CpuTypeOK'
        BY <1>0, <2>0, <2>1, <2>2, <3>4, <3>5
           DEF DispatchWaitBlocked, ValuesOK, CpuTypeOK, cpuVars
      <3>9. Others("dispatch")
        BY <1>0, <2>0, <2>2, <3>5, <3>6 DEF DispatchWaitBlocked, Others, idle, PcOK, StoreOK
      <3>10. LocalOK("dispatch")'
        BY <1>0, <2>1, <3>3, <3>5, <3>6 DEF LocalOK, PcOK, FinishLabel, DetectLabel
      <3> QED
        BY <1>0, <2>1, <3>6, <3>7, <3>8, <3>9, <3>10, LocalsType, PartsNext
    <2>3. CASE ~(queue[Exec] # <<>> /\ Live(Head(queue[Exec])))
      <3>1. PcOK' /\ StoreOK'
        BY <1>0, <2>0, <2>3 DEF DispatchWaitBlocked, PcOK, StoreOK, idle, memory
      <3>2. ValuesOK' /\ CpuTypeOK'
        BY <1>0, <2>0, <2>1, <2>3 DEF DispatchWaitBlocked, ValuesOK, CpuTypeOK, cpuVars
      <3>3. Others("dispatch") /\ LocalOK("dispatch")'
        BY <1>0, <2>0, <2>3 DEF DispatchWaitBlocked, Others, idle, LocalOK
      <3> QED
        BY <1>0, <2>1, <3>1, <3>2, <3>3, LocalsType, PartsNext
    <2> QED
      BY <2>2, <2>3
  <1>7. ASSUME Step(BlockProcess) PROVE TypeOK'
    <2>0. BlockProcess /\ UNCHANGED cpuVars
      BY <1>7 DEF Step
    <2>1. CASE Crash
      BY <2>0, <2>1, CrashType
    <2>2. CASE Live(ptr["dispatch"])
      <3>1. ptr["dispatch"] \in 1 .. Len(heap) /\ fin["dispatch"].item \in Resource
        BY <1>0, <2>0, AccessType DEF BlockProcess, LocalOK
      <3>2. heap' \in Seq(PCB) /\ Len(heap') = Len(heap)
        BY <2>0, <2>2, <3>1, SetStateType DEF BlockProcess, ProcessState
      <3>3. queue' \in [QueueIndex -> Seq(1 .. Len(heap))]
        BY <2>0, <2>2, <3>1, PushType, IndexType DEF BlockProcess
      <3>4. sem' \in [Semaphore -> Nat]
        BY <1>0, <2>0, <2>2 DEF BlockProcess, ValuesOK, Semaphore
      <3>5. PcOK'
        BY <1>0, <2>0, <2>2, GotoType DEF BlockProcess, DispatchLabel, DetectLabel
      <3>6. StoreOK'
        BY <1>0, <2>0, <2>2, <3>2, <3>3 DEF BlockProcess, StoreOK, idle, inert
      <3>7. ValuesOK' /\ CpuTypeOK' /\ ChannelsTypeOK'
        BY <1>0, <2>0, <2>2, <3>4
           DEF BlockProcess, ValuesOK, CpuTypeOK, ChannelsTypeOK, inert, idle, channels, cpuVars
      <3>8. Others("dispatch") /\ LocalOK("dispatch")'
        BY <1>0, <2>0, <2>2, <3>1
           DEF BlockProcess, Others, idle, LocalOK, Goto, PcOK, FinishLabel, DetectLabel, inert
      <3> QED
        BY <1>0, <3>5, <3>6, <3>7, <3>8, LocalsType, PartsNext
    <2> QED
      BY <2>0, <2>1, <2>2 DEF BlockProcess
  <1>8. ASSUME CheckDeadlocks PROVE TypeOK'
    BY <1>8, CheckDeadlocksType
  <1>9. ASSUME Step(DispatchSignal) PROVE TypeOK'
    <2>0. DispatchSignal /\ UNCHANGED cpuVars
      BY <1>9 DEF Step
    <2>1. response' \in Response
      <3>1. Arrived.pcb \in PCB /\ Arrived.resource \in Resource
        BY <2>0, ArrivedType DEF DispatchSignal
      <3>2. RemoveFirst(Arrived.pcb.resources, Arrived.resource) \in Seq(Resource)
        BY <3>1, RemoveFirstType DEF PCB
      <3>3. [Arrived.pcb EXCEPT !.counter = @ + 1,
                                !.resources = RemoveFirst(@, Arrived.resource)] \in PCB
        BY <3>1, <3>2, AnsweredType
      <3>4. available[Arrived.resource] + 1 \in Int
        BY <1>0, <3>1 DEF ValuesOK
      <3> QED
        BY <2>0, <3>1, <3>3, <3>4 DEF DispatchSignal, Response
    <2>2. PcOK'
      BY <1>0, <2>0, GotoType DEF DispatchSignal, DispatchLabel
    <2>3. StoreOK'
      BY <1>0, <2>0 DEF DispatchSignal, StoreOK, idle, memory
    <2>4. ValuesOK' /\ CpuTypeOK' /\ ChannelsTypeOK'
      <3>1. ChannelsTypeOK' /\ UNCHANGED commands
        BY <2>0, ArrivedType DEF DispatchSignal
      <3> QED
        BY <1>0, <2>0, <2>1, <3>1 DEF DispatchSignal, ValuesOK, CpuTypeOK, idle, cpuVars
    <2>5. Others("dispatch") /\ LocalOK("dispatch")'
      BY <1>0, <2>0, <2>1
         DEF DispatchSignal, Others, idle, LocalOK, Goto, PcOK, FinishLabel, DetectLabel
    <2> QED
      BY <1>0, <2>2, <2>3, <2>4, <2>5, LocalsType, PartsNext
  <1>10. ASSUME Step(DispatchSignalUnheld) PROVE TypeOK'
    BY <1>10, DispatchFinishType DEF Step, DispatchSignalUnheld
  <1>11. ASSUME Step(StoreInstances) PROVE TypeOK'
    <2>0. StoreInstances /\ UNCHANGED cpuVars
      BY <1>11 DEF Step
    <2>1. available' \in [Resource -> Int] /\ response \in Response
      BY <1>0, <2>0 DEF StoreInstances, LocalOK, Response, ValuesOK
    <2>2. PcOK'
      BY <1>0, <2>0, GotoType DEF StoreInstances, DispatchLabel
    <2>3. StoreOK'
      BY <1>0, <2>0 DEF StoreInstances, StoreOK, idle, memory
    <2>4. ValuesOK' /\ CpuTypeOK' /\ ChannelsTypeOK'
      BY <1>0, <2>0, <2>1
         DEF StoreInstances, ValuesOK, CpuTypeOK, ChannelsTypeOK, idle, channels, cpuVars
    <2>5. Others("dispatch") /\ LocalOK("dispatch")'
      BY <1>0, <2>0, <2>1
         DEF StoreInstances, Others, idle, LocalOK, Goto, PcOK, FinishLabel, DetectLabel
    <2> QED
      BY <1>0, <2>2, <2>3, <2>4, <2>5, LocalsType, PartsNext
  <1>12. ASSUME Step(Respond) PROVE TypeOK'
    <2>0. Respond /\ UNCHANGED cpuVars
      BY <1>12 DEF Step
    <2>1. toCpu' \in Seq(MessageToCpu)
      <3>1. response \in Response
        BY <1>0, <2>0 DEF Respond, LocalOK
      <3>2. [op |-> response.op, pcb |-> response.pcb] \in MessageToCpu
        BY <3>1 DEF Response, MessageToCpu
      <3> QED
        BY <1>0, <2>0, <3>2, AppendProperties DEF Respond, ChannelsTypeOK
    <2>2. PcOK'
      BY <1>0, <2>0, GotoType DEF Respond, DispatchLabel
    <2>3. StoreOK'
      BY <1>0, <2>0 DEF Respond, StoreOK, idle, memory
    <2>4. ValuesOK' /\ CpuTypeOK' /\ ChannelsTypeOK'
      BY <1>0, <2>0, <2>1 DEF Respond, ValuesOK, CpuTypeOK, ChannelsTypeOK, idle, cpuVars
    <2>5. Others("dispatch") /\ LocalOK("dispatch")'
      BY <1>0, <2>0 DEF Respond, Others, idle, LocalOK, Goto, PcOK, FinishLabel, DetectLabel
    <2> QED
      BY <1>0, <2>2, <2>3, <2>4, <2>5, LocalsType, PartsNext
  <1>13. ASSUME Step(DispatchSleep) PROVE TypeOK'
    <2>0. DispatchSleep /\ UNCHANGED cpuVars
      BY <1>13 DEF Step
    <2>1. Arrived.pcb \in PCB /\ ChannelsTypeOK' /\ UNCHANGED commands
      BY <2>0, ArrivedType DEF DispatchSleep
    <2>2. heap' = Append(heap, Arrived.pcb)
      BY <2>0 DEF DispatchSleep
    <2>3. /\ heap' \in Seq(PCB) /\ Len(heap') = Len(heap) + 1
          /\ queue \in [QueueIndex -> Seq(1 .. Len(heap'))]
          /\ 1 .. Len(heap) \subseteq 1 .. Len(heap')
          /\ 0 .. Len(heap) \subseteq 0 .. Len(heap')
          /\ Len(heap) + 1 \in 1 .. Len(heap') /\ Len(heap) \in Nat
      BY <2>1, <2>2, AllocateType, AccessType
    <2>4. /\ sleepers' \subseteq Sleeper /\ frame' \in 0 .. Len(heap')
          /\ \A s \in sleepers' : s.key \in 1 .. Len(heap') /\ s.args \in 0 .. Len(heap')
      BY <1>0, <2>0, <2>3 DEF DispatchSleep, StoreOK, Sleeper, Ptr
    <2>5. PcOK'
      BY <1>0, <2>0 DEF DispatchSleep, PcOK, locals
    <2>6. StoreOK'
      BY <1>0, <2>0, <2>3, <2>4 DEF DispatchSleep, StoreOK, idle, locals
    <2>7. sem' \in [Semaphore -> Nat]
      BY <1>0, <2>0 DEF DispatchSleep, ValuesOK, Semaphore
    <2>8. ValuesOK' /\ CpuTypeOK'
      BY <1>0, <2>0, <2>1, <2>7 DEF DispatchSleep, ValuesOK, CpuTypeOK, locals, idle, cpuVars
    <2>9. Others("dispatch") /\ LocalOK("dispatch")'
      BY <1>0, <2>0 DEF DispatchSleep, Others, idle, LocalOK, locals
    <2> QED
      BY <1>0, <2>1, <2>5, <2>6, <2>8, <2>9, LocalsType, PartsNext
  <1>14. ASSUME Step(LoadInstances) PROVE TypeOK'
    <2>0. LoadInstances /\ UNCHANGED cpuVars
      BY <1>14 DEF Step
    <2>1. response' \in Response
      <3>1. response \in Response /\ available \in [Resource -> Int]
        BY <1>0, <2>0 DEF LoadInstances, LocalOK, ValuesOK
      <3>2. available[response.resource] - 1 \in Int
        BY <3>1 DEF Response
      <3> QED
        BY <2>0, <3>1, <3>2 DEF LoadInstances, Response
    <2>2. PcOK'
      BY <1>0, <2>0, GotoType DEF LoadInstances, DispatchLabel
    <2>3. StoreOK'
      BY <1>0, <2>0 DEF LoadInstances, StoreOK, idle, memory
    <2>4. ValuesOK' /\ CpuTypeOK' /\ ChannelsTypeOK'
      BY <1>0, <2>0, <2>1
         DEF LoadInstances, ValuesOK, CpuTypeOK, ChannelsTypeOK, idle, channels, cpuVars
    <2>5. Others("dispatch") /\ LocalOK("dispatch")'
      BY <1>0, <2>0, <2>1
         DEF LoadInstances, Others, idle, LocalOK, Goto, PcOK, FinishLabel, DetectLabel
    <2> QED
      BY <1>0, <2>2, <2>3, <2>4, <2>5, LocalsType, PartsNext
  <1> QED
    BY <1>1, <1>2, <1>3, <1>4, <1>5, <1>6, <1>7, <1>8, <1>9, <1>10, <1>11, <1>12, <1>13, <1>14
       DEF HandleDispatchConnection

-----------------------------------------------------------------------------
(***************************************************************************)
(* thread_sleep_process                                                    *)
(***************************************************************************)

\* A process that wakes up is a process.
LEMMA AwakenedType ==
    ASSUME NEW pcb \in PCB
    PROVE  Awakened(pcb) \in PCB
  <1> DEFINE ready == [pcb EXCEPT !.state = "READY"]
  <1>1. ready \in PCB
    BY DEF PCB, ProcessState
  <1>2. Awakened(pcb) = [ready EXCEPT !.counter = @ + 1]
    BY DEF Awakened
  <1> HIDE DEF ready
  <1>3. ready.counter + 1 \in Nat
    BY <1>1 DEF PCB
  <1> QED
    BY <1>1, <1>2, <1>3 DEF PCB

\* Every step of a sleep thread keeps the types.
LEMMA SleepThreadType ==
    ASSUME TypeOK, SleepThread
    PROVE  TypeOK'
  <1>0. PcOK /\ StoreOK /\ ValuesOK /\ CpuTypeOK /\ ChannelsTypeOK
        /\ "short" \in Thread /\ LocalOK("short") /\ "short" \notin Finisher
        /\ "short" \notin Console
    BY Parts, AccessType
  <1>1. ASSUME NEW s \in sleepers, Step(SleepArguments(s)) PROVE TypeOK'
    <2>0. SleepArguments(s) /\ UNCHANGED cpuVars
      BY <1>1 DEF Step
    <2>1. /\ sleepers' \subseteq Sleeper
          /\ \A u \in sleepers' : u.key \in 1 .. Len(heap) /\ u.args \in 0 .. Len(heap)
      <3>1. PICK args \in {frame, 0} :
                sleepers' = (sleepers \ {s}) \cup {[s EXCEPT !.args = args, !.phase = "read"]}
        BY <2>0 DEF SleepArguments
      <3>2. s \in Sleeper /\ s.key \in 1 .. Len(heap) /\ args \in 0 .. Len(heap)
            /\ args \in Nat
        BY <1>0, <1>1, AccessType DEF StoreOK
      <3>3. LET u == [s EXCEPT !.args = args, !.phase = "read"]
            IN  u \in Sleeper /\ u.key = s.key /\ u.args = args
        BY <3>2 DEF Sleeper, Ptr
      <3> QED
        BY <1>0, <3>1, <3>2, <3>3 DEF StoreOK
    <2>2. PcOK'
      BY <1>0, <2>0 DEF SleepArguments, PcOK, locals
    <2>3. StoreOK'
      BY <1>0, <2>0, <2>1 DEF SleepArguments, StoreOK, idle, locals, memory
    <2>4. ValuesOK' /\ CpuTypeOK' /\ ChannelsTypeOK'
      BY <1>0, <2>0
         DEF SleepArguments, ValuesOK, CpuTypeOK, ChannelsTypeOK, locals, idle, channels, cpuVars
    <2>5. Others("short") /\ LocalOK("short")'
      BY <1>0, <2>0 DEF SleepArguments, Others, idle, LocalOK, locals
    <2> QED
      BY <1>0, <2>2, <2>3, <2>4, <2>5, LocalsType, PartsNext
  <1>2. ASSUME NEW s \in sleepers, Step(SleepEnd(s)) PROVE TypeOK'
    <2>0. SleepEnd(s) /\ UNCHANGED cpuVars
      BY <1>2 DEF Step
    <2>1. CASE Crash
      BY <2>0, <2>1, CrashType
    <2>2. CASE Live(s.args)
      <3>1. s.args \in 1 .. Len(heap)
        BY <1>0, <1>2, <2>2, AccessType DEF StoreOK, Live
      <3>2. heap' \in Seq(PCB) /\ Len(heap') = Len(heap)
        <4>1. heap[s.args] \in PCB
          BY <3>1, AccessType
        <4>2. heap' = [heap EXCEPT ![s.args] = Awakened(heap[s.args])]
          BY <2>0, <2>2 DEF SleepEnd
        <4> QED
          BY <1>0, <3>1, <4>1, <4>2, AwakenedType, ExceptSeq DEF StoreOK
      <3>3. queue' \in [QueueIndex -> Seq(1 .. Len(heap))]
        BY <2>0, <2>2, <3>1, PushType, IndexType DEF SleepEnd
      <3>4. sem' \in [Semaphore -> Nat]
        BY <1>0, <2>0, <2>2 DEF SleepEnd, ValuesOK, Semaphore
      <3>5. PcOK'
        BY <1>0, <2>0, <2>2 DEF SleepEnd, PcOK, locals
      <3>6. StoreOK'
        BY <1>0, <2>0, <2>2, <3>2, <3>3 DEF SleepEnd, StoreOK, idle, locals
      <3>7. ValuesOK' /\ CpuTypeOK' /\ ChannelsTypeOK'
        BY <1>0, <2>0, <2>2, <3>4
           DEF SleepEnd, ValuesOK, CpuTypeOK, ChannelsTypeOK, locals, idle, channels, cpuVars
      <3>8. Others("short") /\ LocalOK("short")'
        BY <1>0, <2>0, <2>2 DEF SleepEnd, Others, idle, LocalOK, locals
      <3> QED
        BY <1>0, <3>5, <3>6, <3>7, <3>8, LocalsType, PartsNext
    <2> QED
      BY <2>0, <2>1, <2>2 DEF SleepEnd
  <1>3. ASSUME NEW s \in sleepers, Step(SleepPop(s)) PROVE TypeOK'
    <2>0. SleepPop(s) /\ UNCHANGED cpuVars
      BY <1>3 DEF Step
    <2>1. CASE Crash
      BY <2>0, <2>1, CrashType
    <2>2. CASE Live(s.args)
      <3>1. /\ sleepers' \subseteq Sleeper
            /\ \A u \in sleepers' : u.key \in 1 .. Len(heap) /\ u.args \in 0 .. Len(heap)
        <4>1. sleepers' = (sleepers \ {s}) \cup {[s EXCEPT !.phase = "asleep"]}
          BY <2>0, <2>2 DEF SleepPop
        <4>2. LET u == [s EXCEPT !.phase = "asleep"]
              IN  u \in Sleeper /\ u.key = s.key /\ u.args = s.args
          BY <1>0, <1>3 DEF Sleeper, StoreOK
        <4> QED
          BY <1>0, <1>3, <4>1, <4>2 DEF StoreOK
      <3>2. queue' \in [QueueIndex -> Seq(1 .. Len(heap))]
        BY <2>0, <2>2, PopType, IndexType DEF SleepPop, DropExecHead
      <3>3. PcOK'
        BY <1>0, <2>0, <2>2 DEF SleepPop, PcOK, locals
      <3>4. StoreOK'
        BY <1>0, <2>0, <2>2, <3>1, <3>2 DEF SleepPop, StoreOK, idle, locals, memory
      <3>5. ValuesOK' /\ CpuTypeOK' /\ ChannelsTypeOK'
        BY <1>0, <2>0, <2>2
           DEF SleepPop, ValuesOK, CpuTypeOK, ChannelsTypeOK, locals, idle, channels, cpuVars
      <3>6. Others("short") /\ LocalOK("short")'
        BY <1>0, <2>0, <2>2 DEF SleepPop, Others, idle, LocalOK, locals
      <3> QED
        BY <1>0, <3>3, <3>4, <3>5, <3>6, LocalsType, PartsNext
    <2> QED
      BY <2>0, <2>1, <2>2 DEF SleepPop
  <1> QED
    BY <1>1, <1>2, <1>3 DEF SleepThread

-----------------------------------------------------------------------------
(***************************************************************************)
(* The CPU                                                                 *)
(***************************************************************************)

\* The instruction fetched is one of the program's, past its end too.
LEMMA FetchType ==
    ASSUME NEW pcb \in PCB
    PROVE  Fetch(pcb) \in Instruction
  <1>1. pcb.path \in Path /\ pcb.counter \in Nat
    BY DEF PCB
  <1>2. Program[pcb.path] \in Seq(Instruction) /\ Program[pcb.path] # <<>>
    BY <1>1, ProgramAssumption
  <1>3. Len(Program[pcb.path]) \in Nat \ {0}
    BY <1>2, EmptySeq
  <1>4. \A i \in 1 .. Len(Program[pcb.path]) : Program[pcb.path][i] \in Instruction
    BY <1>2, ElementOfSeq
  <1> QED
    BY <1>1, <1>3, <1>4 DEF Fetch

\* What an instruction that is not local asks of the kernel is a message.
LEMMA RequestType ==
    ASSUME NEW pcb \in PCB, NEW instruction \in Instruction, instruction.op # "CPU"
    PROVE  Request(instruction, pcb) \in MessageToKernel
  <1>1. CASE instruction.op = "EXIT"
    BY <1>1 DEF Request, MessageToKernel
  <1>2. CASE instruction.op = "SLEEP"
    BY <1>2 DEF Request, MessageToKernel
  <1>3. CASE instruction.op = "WAIT"
    BY <1>3 DEF Request, MessageToKernel, Instruction
  <1>4. CASE instruction.op = "SIGNAL"
    BY <1>4 DEF Request, MessageToKernel, Instruction
  <1> QED
    BY <1>1, <1>2, <1>3, <1>4 DEF Instruction

\* The kernel's part of the types when only the CPU moves.
LEMMA KernelKept ==
    ASSUME TypeOK, UNCHANGED kernelVars
    PROVE  KernelTypeOK'
  BY DEF TypeOK, KernelTypeOK, LocalOK, kernelVars

\* Every step of the CPU keeps the types.
LEMMA CpuThreadsType ==
    ASSUME TypeOK, ExecuteProcess \/ InterruptThread
    PROVE  TypeOK'
  <1>0. CpuTypeOK /\ ChannelsTypeOK
    BY DEF TypeOK
  <1>1. UNCHANGED kernelVars
    BY DEF ExecuteProcess, InterruptThread, CpuStep
  <1>2. KernelTypeOK'
    BY <1>1, KernelKept
  <1>3. CASE ReceiveProcess
    <2>1. Head(toCpu) \in MessageToCpu /\ Tail(toCpu) \in Seq(MessageToCpu)
      BY <1>0, <1>3, TailType DEF ReceiveProcess, ChannelsTypeOK
    <2>2. Head(toCpu).pcb \in PCB
      BY <2>1 DEF MessageToCpu
    <2>3. CpuTypeOK' /\ ChannelsTypeOK'
      BY <1>0, <1>3, <2>1, <2>2 DEF ReceiveProcess, CpuTypeOK, ChannelsTypeOK
    <2> QED
      BY <1>2, <2>3 DEF TypeOK
  <1>4. CASE ExecuteInstructionCycle
    <2>1. process \in PCB /\ Fetch(process) \in Instruction
      BY <1>0, <1>4, FetchType DEF ExecuteInstructionCycle, CpuTypeOK
    <2>2. [process EXCEPT !.counter = @ + 1] \in PCB
      BY <2>1 DEF PCB
    <2>3. toKernel' \in Seq(MessageToKernel)
      BY <1>0, <1>4, <2>1, RequestType, AppendProperties
         DEF ExecuteInstructionCycle, ChannelsTypeOK
    <2>4. CpuTypeOK' /\ ChannelsTypeOK'
      BY <1>0, <1>4, <2>2, <2>3 DEF ExecuteInstructionCycle, CpuTypeOK, ChannelsTypeOK
    <2> QED
      BY <1>2, <2>4 DEF TypeOK
  <1>5. CASE NoInterrupt
    BY <1>0, <1>2, <1>5 DEF NoInterrupt, Leave, CpuTypeOK, ChannelsTypeOK, channels, TypeOK
  <1>6. CASE YieldProcess
    <2>1. [op |-> "INTERRUPT", pcb |-> process] \in MessageToKernel
      BY <1>0, <1>6 DEF YieldProcess, CpuTypeOK, MessageToKernel
    <2>2. toKernel' \in Seq(MessageToKernel)
      BY <1>0, <1>6, <2>1, AppendProperties DEF YieldProcess, ChannelsTypeOK
    <2> QED
      BY <1>0, <1>2, <1>6, <2>2 DEF YieldProcess, Leave, CpuTypeOK, ChannelsTypeOK, TypeOK
  <1>7. CASE RejectInterrupt \/ ClearInterrupt \/ RelockInterrupt
    BY <1>0, <1>2, <1>7
       DEF RejectInterrupt, ClearInterrupt, RelockInterrupt, Leave, CpuTypeOK, ChannelsTypeOK,
           channels, TypeOK
  <1>8. CASE ReceiveInterrupt
    BY <1>0, <1>2, <1>8 DEF ReceiveInterrupt, CpuTypeOK, ChannelsTypeOK, TypeOK
  <1> QED
    BY <1>3, <1>4, <1>5, <1>6, <1>7, <1>8 DEF ExecuteProcess, InterruptThread, CpuStep

-----------------------------------------------------------------------------
(***************************************************************************)
(* Type correctness                                                        *)
(***************************************************************************)

\* The state main() leaves behind is well typed.
LEMMA InitType == Init => TypeOK
  <1> SUFFICES ASSUME Init PROVE TypeOK
    OBVIOUS
  <1>1. /\ <<>> \in Seq(PCB) /\ <<>> \in Seq(MessageToCpu) /\ <<>> \in Seq(MessageToKernel)
        /\ <<>> \in Seq(1 .. Len(heap)) /\ Len(heap) = 0
    BY EmptySeq DEF Init, KernelInit
  <1>2. available \in [Resource -> Int]
    <2>1. Instances \in [1 .. Len(Instances) -> Nat]
      BY InstancesAssumption, LenProperties
    <2> QED
      BY <2>1 DEF Init, KernelInit, Resource
  <1>3. sem \in [Semaphore -> Nat]
    BY DegreeAssumption DEF Init, KernelInit, Semaphore
  <1>4. fin \in [Finisher -> Frame] /\ \A t \in Finisher : fin[t].waiter = 0
    <2>1. NoFrame \in Frame /\ NoFrame.waiter = 0
      BY DEF NoFrame, Frame, Ptr, ProcessState
    <2> QED
      BY <2>1 DEF Init, KernelInit
  <1>5. PcOK
    BY ConsoleAssumption
       DEF Init, KernelInit, PcOK, Thread, Finisher, ConsoleLabel, DispatchLabel, ShortLabel,
           LongLabel
  <1>6. StoreOK
    BY <1>1, <1>4 DEF Init, KernelInit, StoreOK, NoDetector
  <1>7. ValuesOK
    BY <1>2, <1>3, <1>4 DEF Init, KernelInit, ValuesOK, NoDetector, Detector, Ptr
  <1>8. CpuTypeOK /\ ChannelsTypeOK
    BY <1>1 DEF Init, CpuInit, ChannelsInit, CpuTypeOK, ChannelsTypeOK
  <1>9. \A t \in Thread : LocalOK(t)
    BY ConsoleAssumption DEF Init, KernelInit, LocalOK, Thread, Finisher, FinishLabel, DetectLabel
  <1> QED
    BY <1>5, <1>6, <1>7, <1>8, <1>9, Parts

\* Every step of every thread keeps the types.
LEMMA NextType == TypeOK /\ [Next]_allVars => TypeOK'
  <1> SUFFICES ASSUME TypeOK, [Next]_allVars PROVE TypeOK'
    OBVIOUS
  <1>1. ASSUME NEW c \in Console, HandlerConnection(c) PROVE TypeOK'
    BY <1>1, HandlerConnectionType
  <1>2. ASSUME NEW t \in Finisher, FinishProcess(t) PROVE TypeOK'
    BY <1>2, FinishProcessType
  <1>3. CASE LongTermPlanner
    BY <1>3, LongTermPlannerType
  <1>4. CASE ShortTermPlanner
    BY <1>4, ShortTermPlannerType
  <1>5. CASE HandleDispatchConnection
    BY <1>5, HandleDispatchConnectionType
  <1>6. CASE SleepThread
    BY <1>6, SleepThreadType
  <1>7. CASE ExecuteProcess \/ InterruptThread
    BY <1>7, CpuThreadsType
  <1>8. CASE UNCHANGED allVars
    BY <1>8
       DEF TypeOK, KernelTypeOK, LocalOK, CpuTypeOK, ChannelsTypeOK, allVars, vars, kernelVars,
           cpuVars, channels
  <1> QED
    BY <1>1, <1>2, <1>3, <1>4, <1>5, <1>6, <1>7, <1>8 DEF Next

\* Whatever the programs, the consoles' scripts, the algorithm and the degree,
\* every queue holds addresses of PCBs, every message is one of the protocol, no
\* semaphore is negative, and each thread finds in its locals what it left there
\* (src/kernel, src/cpu).
THEOREM TypeCorrect == Spec => []TypeOK
  BY InitType, NextType, PTL DEF Spec
=============================================================================
