----------------------------- MODULE PlacementProofs -----------------------------
(***************************************************************************)
(* Where every process of System is, for every program, algorithm, degree  *)
(* and number of consoles: in one place, on the queue the semaphores count *)
(* it on, at the head of queue_exec when the CPU asks for it. From that:   *)
(* no freed PCB is used, and every circular wait is reported. All of it    *)
(* for programs that do not sleep, and for those that do as long as the    *)
(* sleep threads keep up (KeepUp), which the code leaves to the scheduler. *)
(***************************************************************************)
EXTENDS ExclusionProofs, FiniteSetTheorems

\* One console at most creates processes: create_pcb reads and increments
\* id_to_assign without a mutex, and two of them could give one pid to two
\* processes (handle_connection.c:350 and 368).
Creates(c) == \E i \in DOMAIN Script[c] : Script[c][i].op = "CREATE_PROCESS"
OneCreator == \A c, d \in Console : Creates(c) /\ Creates(d) => c = d

\* What the promises of this module need of the consoles: no kill, distinct pids.
Orderly == NoKill /\ OneCreator

\* No program sleeps.
NoSleep == \A path \in Path : \A i \in DOMAIN Program[path] : Program[path][i].op # "SLEEP"

-----------------------------------------------------------------------------
(***************************************************************************)
(* Queues of PCBs                                                          *)
(***************************************************************************)

\* The elements of a queue are what its positions hold.
LEMMA QueueElements ==
    ASSUME NEW S, NEW q \in Seq(S)
    PROVE  /\ DOMAIN q = 1 .. Len(q) /\ Len(q) \in Nat
           /\ ToSet(q) = {q[i] : i \in 1 .. Len(q)}
           /\ ToSet(q) \subseteq S
           /\ \A i \in 1 .. Len(q) : q[i] \in S /\ q[i] \in ToSet(q)
           /\ ToSet(q) = {} <=> q = <<>>
           /\ Len(q) = 0 <=> q = <<>>
           /\ q # <<>> => Head(q) = q[1] /\ 1 \in 1 .. Len(q) /\ Len(q) \in 1 .. Len(q)
  <1>1. /\ DOMAIN q = 1 .. Len(q) /\ Len(q) \in Nat
        /\ \A i \in 1 .. Len(q) : q[i] \in S
    BY LenProperties, ElementOfSeq
  <1>2. ToSet(q) = {q[i] : i \in 1 .. Len(q)}
    BY <1>1 DEF ToSet
  <1>3. Len(q) = 0 <=> q = <<>>
    BY EmptySeq
  <1>4. q # <<>> => Head(q) = q[1] /\ 1 \in 1 .. Len(q) /\ Len(q) \in 1 .. Len(q)
    BY <1>1, <1>3
  <1> QED
    BY <1>1, <1>2, <1>3, <1>4

\* The same of a queue of PCBs of the heap.
LEMMA Queued ==
    ASSUME NEW q \in Seq(1 .. Len(heap))
    PROVE  /\ DOMAIN q = 1 .. Len(q)
           /\ ToSet(q) = {q[i] : i \in 1 .. Len(q)} /\ ToSet(q) \subseteq 1 .. Len(heap)
           /\ Len(q) \in Nat /\ (q # <<>> => Head(q) = q[1])
  BY QueueElements

\* A process that joins a queue is its last.
LEMMA AppendElements ==
    ASSUME NEW S, NEW q \in Seq(S), NEW p \in S
    PROVE  /\ Append(q, p) \in Seq(S) /\ Len(Append(q, p)) = Len(q) + 1
           /\ ToSet(Append(q, p)) = ToSet(q) \cup {p}
           /\ Append(q, p)[Len(q) + 1] = p
           /\ Append(q, p) # <<>> /\ (q # <<>> => Head(Append(q, p)) = Head(q))
  <1> DEFINE r == Append(q, p)
  <1>1. /\ r \in Seq(S) /\ Len(r) = Len(q) + 1 /\ Len(q) \in Nat
        /\ \A i \in 1 .. Len(q) : r[i] = q[i]
        /\ r[Len(q) + 1] = p
    BY AppendProperties, LenProperties
  <1>2. ToSet(r) = {r[i] : i \in 1 .. Len(q) + 1} /\ ToSet(q) = {q[i] : i \in 1 .. Len(q)}
    <2>1. ToSet(r) = {r[i] : i \in 1 .. Len(r)}
      BY <1>1, QueueElements
    <2> QED
      BY <1>1, <2>1, QueueElements
  <1>3. 1 .. Len(q) + 1 = (1 .. Len(q)) \cup {Len(q) + 1}
    BY <1>1
  <1>4. q # <<>> => Head(q) = q[1] /\ 1 \in 1 .. Len(q)
    BY QueueElements
  <1> HIDE DEF r
  <1>5. r # <<>> /\ Head(r) = r[1]
    <2>1. Len(r) # 0
      BY <1>1
    <2> QED
      BY <1>1, <2>1, QueueElements
  <1> QED
    BY <1>1, <1>2, <1>3, <1>4, <1>5 DEF r

\* A process that is new to a queue may join it.
LEMMA PushOnce ==
    ASSUME NEW h, NEW S, NEW q \in Seq(S), NEW p \in S,
           EachOnce(h, q), \A e \in ToSet(q) : h[e].pid # h[p].pid
    PROVE  /\ EachOnce(h, Append(q, p))
           /\ ToSet(Append(q, p)) = ToSet(q) \cup {p}
           /\ Len(Append(q, p)) = Len(q) + 1
           /\ Append(q, p)[Len(q) + 1] = p
  <1> DEFINE r == Append(q, p)
  <1>1. /\ r \in Seq(S) /\ Len(r) = Len(q) + 1 /\ Len(q) \in Nat
        /\ \A i \in 1 .. Len(q) : r[i] = q[i]
        /\ r[Len(q) + 1] = p
    BY AppendProperties, LenProperties
  <1>2. DOMAIN q = 1 .. Len(q) /\ DOMAIN r = 1 .. Len(q) + 1
    BY <1>1, LenProperties
  <1>3. 1 .. Len(q) + 1 = (1 .. Len(q)) \cup {Len(q) + 1}
    BY <1>1
  <1>4. ToSet(q) = {q[i] : i \in 1 .. Len(q)}
    BY <1>2 DEF ToSet
  <1>5. ToSet(r) = ToSet(q) \cup {p}
    BY AppendElements
  <1> HIDE DEF r
  <1>6. EachOnce(h, r)
    <2> SUFFICES ASSUME NEW j \in DOMAIN r, NEW k \in DOMAIN r, h[r[j]].pid = h[r[k]].pid
        PROVE j = k
      BY DEF EachOnce
    <2>1. CASE j \in 1 .. Len(q) /\ k \in 1 .. Len(q)
      BY <1>1, <1>2, <2>1 DEF EachOnce
    <2>2. CASE j = Len(q) + 1 /\ k \in 1 .. Len(q)
      BY <1>1, <1>4, <2>2
    <2>3. CASE k = Len(q) + 1 /\ j \in 1 .. Len(q)
      BY <1>1, <1>4, <2>3
    <2> QED
      BY <1>2, <1>3, <2>1, <2>2, <2>3
  <1> QED
    BY <1>1, <1>5, <1>6 DEF r

\* A process popped off a queue is off it.
LEMMA PopOnce ==
    ASSUME NEW h, NEW S, NEW q \in Seq(S), q # <<>>, EachOnce(h, q)
    PROVE  /\ EachOnce(h, Rest(q))
           /\ Rest(q) \in Seq(S) /\ Len(Rest(q)) = Len(q) - 1
           /\ \A i \in 1 .. Len(q) - 1 : Rest(q)[i] = q[i + 1]
           /\ ToSet(Rest(q)) = ToSet(q) \ {Head(q)}
           /\ \A e \in ToSet(Rest(q)) : e \in ToSet(q) /\ h[e].pid # h[Head(q)].pid
  <1>1. /\ Rest(q) = Tail(q) /\ Rest(q) \in Seq(S) /\ Len(Rest(q)) = Len(q) - 1
        /\ \A i \in 1 .. Len(q) - 1 : Rest(q)[i] = q[i + 1]
    BY HeadTailProperties DEF Rest
  <1>2. /\ DOMAIN q = 1 .. Len(q) /\ Len(q) \in Nat \ {0} /\ Head(q) = q[1]
        /\ ToSet(q) = {q[i] : i \in 1 .. Len(q)}
    BY QueueElements
  <1>3. /\ DOMAIN Rest(q) = 1 .. Len(q) - 1
        /\ ToSet(Rest(q)) = {Rest(q)[i] : i \in 1 .. Len(q) - 1}
    <2>1. /\ DOMAIN Rest(q) = 1 .. Len(Rest(q))
          /\ ToSet(Rest(q)) = {Rest(q)[i] : i \in 1 .. Len(Rest(q))}
      BY <1>1, QueueElements
    <2> QED
      BY <1>1, <2>1
  <1>4. EachOnce(h, Rest(q))
    <2> SUFFICES ASSUME NEW j \in 1 .. Len(q) - 1, NEW k \in 1 .. Len(q) - 1,
                        h[Rest(q)[j]].pid = h[Rest(q)[k]].pid
        PROVE j = k
      BY <1>3 DEF EachOnce
    <2>1. h[q[j + 1]].pid = h[q[k + 1]].pid /\ j + 1 \in DOMAIN q /\ k + 1 \in DOMAIN q
      BY <1>1, <1>2
    <2>2. j + 1 = k + 1
      BY <2>1 DEF EachOnce
    <2> QED
      BY <1>2, <2>2
  <1>5. \A e \in ToSet(Rest(q)) : e \in ToSet(q) /\ h[e].pid # h[Head(q)].pid
    <2> SUFFICES ASSUME NEW i \in 1 .. Len(q) - 1
        PROVE q[i + 1] \in ToSet(q) /\ h[q[i + 1]].pid # h[q[1]].pid
      BY <1>1, <1>2, <1>3
    <2>1. i + 1 \in DOMAIN q /\ 1 \in DOMAIN q /\ i + 1 # 1
      BY <1>2
    <2> QED
      BY <1>2, <2>1 DEF EachOnce
  <1>6. \A e \in ToSet(q) \ {Head(q)} : e \in ToSet(Rest(q))
    <2> SUFFICES ASSUME NEW i \in 1 .. Len(q), q[i] # q[1]
        PROVE q[i] \in ToSet(Rest(q))
      BY <1>2
    <2>1. i - 1 \in 1 .. Len(q) - 1 /\ Rest(q)[i - 1] = q[(i - 1) + 1] /\ (i - 1) + 1 = i
      BY <1>1, <1>2
    <2> QED
      BY <1>3, <2>1
  <1> QED
    BY <1>1, <1>4, <1>5, <1>6

\* A position of a sequence that is removed moves the later elements up.
LEMMA RemoveAtElements ==
    ASSUME NEW S, NEW s \in Seq(S), NEW i \in 1 .. Len(s), NEW j \in 1 .. Len(s) - 1
    PROVE  RemoveAt(s, i)[j] = IF j < i THEN s[j] ELSE s[j + 1]
  <1> DEFINE a == SubSeq(s, 1, i - 1)
             b == SubSeq(s, i + 1, Len(s))
  <1>0. Len(s) \in Nat /\ \A k \in 1 .. Len(s) : s[k] \in S
    BY LenProperties, ElementOfSeq
  <1>1. /\ a \in Seq(S) /\ Len(a) = i - 1
        /\ \A k \in 1 .. (i - 1) - 1 + 1 : a[k] = s[1 + k - 1]
    BY <1>0, SubSeqProperties
  <1>2. /\ b \in Seq(S) /\ Len(b) = Len(s) - i
        /\ \A k \in 1 .. Len(s) - (i + 1) + 1 : b[k] = s[(i + 1) + k - 1]
    BY <1>0, SubSeqProperties
  <1>3. RemoveAt(s, i) = a \o b
    BY DEF RemoveAt
  <1> HIDE DEF a, b
  <1>4. RemoveAt(s, i)[j] = IF j <= i - 1 THEN a[j] ELSE b[j - (i - 1)]
    <2>1. \A k \in 1 .. Len(a) + Len(b) :
              (a \o b)[k] = IF k <= Len(a) THEN a[k] ELSE b[k - Len(a)]
      BY <1>1, <1>2, ConcatProperties
    <2>2. j \in 1 .. Len(a) + Len(b)
      BY <1>0, <1>1, <1>2
    <2> QED
      BY <1>1, <1>3, <2>1, <2>2
  <1>5. CASE j < i
    <2>1. j \in 1 .. (i - 1) - 1 + 1 /\ 1 + j - 1 = j /\ j <= i - 1
      BY <1>0, <1>5
    <2> QED
      BY <1>1, <1>4, <1>5, <2>1
  <1>6. CASE ~(j < i)
    <2>1. /\ j - (i - 1) \in 1 .. Len(s) - (i + 1) + 1 /\ ~(j <= i - 1)
          /\ (i + 1) + (j - (i - 1)) - 1 = j + 1
      BY <1>0, <1>6
    <2> QED
      BY <1>2, <1>4, <1>6, <2>1
  <1> QED
    BY <1>5, <1>6

\* A process that list_remove_element finds is off the queue.
LEMMA RemoveOnce ==
    ASSUME NEW h, NEW S, NEW q \in Seq(S), NEW p \in ToSet(q), EachOnce(h, q)
    PROVE  /\ EachOnce(h, RemoveFirst(q, p))
           /\ ToSet(RemoveFirst(q, p)) = ToSet(q) \ {p}
           /\ Len(RemoveFirst(q, p)) = Len(q) - 1
           /\ \A e \in ToSet(RemoveFirst(q, p)) : h[e].pid # h[p].pid
  <1> DEFINE I == {i \in 1 .. Len(q) : q[i] = p}
             n == Min(I)
             r == RemoveAt(q, n)
  <1>0. /\ DOMAIN q = 1 .. Len(q) /\ Len(q) \in Nat
        /\ ToSet(q) = {q[i] : i \in 1 .. Len(q)}
    BY QueueElements
  <1>1. I # {} /\ I \subseteq Nat /\ \E i \in 1 .. Len(q) : q[i] = p
    BY <1>0
  <1>2. n \in 1 .. Len(q) /\ q[n] = p
    BY <1>1, LeastElement
  <1>3. RemoveFirst(q, p) = r
    <2>1. SelectInSeq(q, LAMBDA v : v = p) = n
      BY <1>1 DEF SelectInSeq
    <2> QED
      BY <1>1, <2>1 DEF RemoveFirst
  <1> HIDE DEF n
  <1>4. /\ r \in Seq(S) /\ Len(r) = Len(q) - 1
        /\ \A j \in 1 .. Len(q) - 1 : r[j] = IF j < n THEN q[j] ELSE q[j + 1]
    BY <1>2, RemoveAtType, RemoveAtElements
  <1>5. DOMAIN r = 1 .. Len(q) - 1 /\ ToSet(r) = {r[j] : j \in 1 .. Len(q) - 1}
    <2>1. DOMAIN r = 1 .. Len(r) /\ ToSet(r) = {r[j] : j \in 1 .. Len(r)}
      BY <1>4, QueueElements
    <2> QED
      BY <1>4, <2>1
  <1> HIDE DEF r
  <1> DEFINE at(j) == IF j < n THEN j ELSE j + 1
  <1>6. \A j \in 1 .. Len(q) - 1 : at(j) \in 1 .. Len(q) /\ at(j) # n /\ r[j] = q[at(j)]
    BY <1>0, <1>2, <1>4
  <1>7. \A j, k \in 1 .. Len(q) - 1 : at(j) = at(k) => j = k
    BY <1>0, <1>2
  <1>8. \A i \in 1 .. Len(q) : i # n => \E j \in 1 .. Len(q) - 1 : at(j) = i
    <2> SUFFICES ASSUME NEW i \in 1 .. Len(q), i # n
        PROVE \E j \in 1 .. Len(q) - 1 : at(j) = i
      OBVIOUS
    <2>1. CASE i < n
      <3>1. i \in 1 .. Len(q) - 1 /\ at(i) = i
        BY <1>0, <1>2, <2>1
      <3> QED
        BY <3>1
    <2>2. CASE ~(i < n)
      <3>1. i - 1 \in 1 .. Len(q) - 1 /\ at(i - 1) = i
        BY <1>0, <1>2, <2>2
      <3> QED
        BY <3>1
    <2> QED
      BY <2>1, <2>2
  <1> HIDE DEF at
  <1>9. EachOnce(h, r)
    BY <1>0, <1>5, <1>6, <1>7 DEF EachOnce
  <1>10. \A e \in ToSet(r) : h[e].pid # h[p].pid /\ e \in ToSet(q)
    BY <1>0, <1>2, <1>5, <1>6 DEF EachOnce
  <1>11. \A e \in ToSet(q) : e # p => e \in ToSet(r)
    BY <1>0, <1>2, <1>5, <1>6, <1>8
  <1> QED
    BY <1>3, <1>4, <1>9, <1>10, <1>11

-----------------------------------------------------------------------------
(***************************************************************************)
(* The inductive invariant                                                 *)
(***************************************************************************)

\* finish_process of the dispatch thread before the process is off queue_exec.
Found == {"inspect", "mark", "release", "credit", "unlink"}
Finding == Found \cup {"find"}
Answering == {"load", "store", "respond"}

\* The process that was dispatched last is on queue_exec and somewhere between
\* the short term planner, the CPU and the thread that takes it off again.
OnCpu ==
    \/ pc["short"] = "send" \/ toCpu # <<>> \/ CpuBusy \/ toKernel # <<>>
    \/ pc["dispatch"] \in Answering \cup Finding

\* Everything under way is about the process of that pid.
Runs(pid) ==
    /\ pc["short"] = "send" => heap[ptr["short"]].pid = pid
    /\ \A m \in ToSet(toCpu) : m.pcb.pid = pid
    /\ CpuBusy => process.pid = pid
    /\ \A m \in ToSet(toKernel) : m.pcb.pid = pid
    /\ pc["dispatch"] \in Answering => response.pcb.pid = pid
    /\ pc["dispatch"] = "find" => fin["dispatch"].pid = pid

LastExec == queue[Exec][Len(queue[Exec])]

\* queue_exec: a process whose sleep thread has yet to start, and the one that
\* was dispatched last.
ExecOK ==
    /\ Len(queue[Exec]) = One(Starting # {}) + One(OnCpu)
    /\ OnCpu => Runs(heap[LastExec].pid)
    /\ pc["short"] = "send" => ptr["short"] = LastExec
    /\ pc["dispatch"] \in Found => ptr["dispatch"] = LastExec

\* A process executes from the moment it leaves queue_ready.
StateOK ==
    /\ \A p \in ToSet(queue[Exec]) :
           heap[p].state = "EXECUTION" \/ pc["dispatch"] \in {"release", "credit", "unlink"}
    /\ pc["short"] = "push" => heap[ptr["short"]].state = "EXECUTION"

\* Pids are given out in increasing order.
PidsOK ==
    /\ \A c \in Console : pc[c] \in {"assigned", "create", "admit"} => Creates(c)
    /\ \A c \in Console : pc[c] = "assigned" => heap[ptr[c]].pid = idToAssign
    /\ \A p \in 1 .. Len(heap) :
           \/ heap[p].pid < idToAssign
           \/ heap[p].pid = idToAssign /\ \E c \in Console : pc[c] = "assigned"

\* A sleep thread that has not started is about the head of queue_exec, and the
\* dispatch thread waits for it.
SleepersOK ==
    /\ \A s \in sleepers : s.args = s.key
    /\ \A s, u \in Starting : s = u
    /\ Starting # {} => pc["dispatch"] = "listen" /\ queue[Exec] # <<>>
    /\ \A s \in Starting : heap[Head(queue[Exec])].pid = heap[s.args].pid

\* The locals of finish_process and of a WAIT that blocks.
FinishOK ==
    LET f == fin["dispatch"]
        blocked == queue[Blocked(f.item)]
    IN  /\ pc["dispatch"] = "find" => f.index \in {New, Ready, Exec}
        /\ pc["dispatch"] \in Found => f.index = Exec
        /\ pc["dispatch"] \in FinishLabel \ {"find", "inspect"} => f.previous = "EXECUTION"
        /\ pc["dispatch"] \in FinishLabel \ {"find"} => ptr["dispatch"] # 0
        /\ pc["dispatch"] \in {"loop", "get", "move", "drop", "count"} => f.position > 0
        /\ pc["dispatch"] = "get" => f.position \in DOMAIN blocked
        /\ pc["dispatch"] \in {"move", "drop"} => f.waiter \in ToSet(blocked)
        /\ pc["dispatch"] = "drop" => heap[f.waiter].pid \notin PidsOf(freed)

\* What check_deadlocks has read so far is still so: the process just blocked is on
\* the queue of the resource it requires, and the queue being walked has not changed.
DetectOK ==
    LET d == detector
        item == fin["dispatch"].item
        scanned == queue[Blocked(d.list)]
        at == pc["dispatch"]
    IN  /\ at \notin DetectLabel => d = NoDetector
        /\ at \in DetectLabel =>
               item \in Resource /\ ptr["dispatch"] \in ToSet(queue[Blocked(item)])
        /\ at = "require" => d.walk \in 1 .. item
        /\ at \in DetectLabel \ {"require"} => d.required = item
        /\ at \in DetectLabel \ {"require", "scan"} => d.size = Len(scanned) /\ d.position > 0
        /\ at \in {"retain", "logChecked", "logEvaluated"} =>
               d.position \in DOMAIN scanned /\ d.evaluated = scanned[d.position]
        /\ at = "logChecked" => d.walk \in 1 .. item
        /\ at = "logEvaluated" => d.walk \in 1 .. d.list

\* sem_process_new and sem_process_ready count their queues.
CountOK ==
    /\ sem["new"] = Len(queue[New])
    /\ sem["ready"] + One(pc["short"] \in {"cpu", "sort", "pop"})
           + One(pc["dispatch"] \in {"drop", "count"}) = Len(queue[Ready])

Inv ==
    /\ TypeOK /\ ConsolesIdle /\ CpuTokens <= 1
    /\ OnePlace /\ ExecOK /\ StateOK /\ PidsOK /\ SleepersOK /\ FinishOK /\ DetectOK /\ CountOK
    /\ ~crashed

-----------------------------------------------------------------------------
(***************************************************************************)
(* What the invariant says at one moment                                   *)
(***************************************************************************)

\* The token is in one place, and is one message there.
LEMMA Token ==
    ASSUME TypeOK, CpuTokens <= 1
    PROVE  /\ toCpu # <<>> => Len(toCpu) = 1
           /\ toKernel # <<>> => Len(toKernel) = 1
           /\ pc["short"] \in ShortLabels =>
                  toCpu = <<>> /\ toKernel = <<>> /\ ~CpuBusy /\ pc["dispatch"] \notin DispatchLabels
           /\ CpuBusy => toCpu = <<>> /\ toKernel = <<>> /\ pc["dispatch"] \notin DispatchLabels
           /\ pc["dispatch"] \in DispatchLabels => toCpu = <<>> /\ toKernel = <<>>
           /\ toCpu # <<>> => toKernel = <<>>
  <1>1. /\ Len(toCpu) \in Nat /\ (Len(toCpu) = 0 <=> toCpu = <<>>)
        /\ Len(toKernel) \in Nat /\ (Len(toKernel) = 0 <=> toKernel = <<>>)
        /\ sem["cpu"] \in Nat
    BY PlacesType, QueueElements
  <1>2. CpuTokens = sem["cpu"] + One(pc["short"] \in ShortLabels) + Len(toCpu) + One(CpuBusy)
                        + Len(toKernel) + One(pc["dispatch"] \in DispatchLabels)
    BY DEF CpuTokens, ShortHoldsCpu, DispatchHoldsCpu, ShortLabels, DispatchLabels
  <1> DEFINE short == One(pc["short"] \in ShortLabels)
             dispatch == One(pc["dispatch"] \in DispatchLabels)
             busy == One(CpuBusy)
             free == sem["cpu"]
             out == Len(toCpu)
             in == Len(toKernel)
  <1>3. free + short + out + busy + in + dispatch <= 1
    BY <1>2
  <1>4. /\ free \in Nat /\ short \in Nat /\ out \in Nat
        /\ busy \in Nat /\ in \in Nat /\ dispatch \in Nat
    BY <1>1 DEF One
  <1>5. /\ pc["short"] \in ShortLabels => short = 1
        /\ pc["dispatch"] \in DispatchLabels <=> dispatch = 1
        /\ CpuBusy <=> busy = 1
        /\ toCpu = <<>> <=> out = 0
        /\ toKernel = <<>> <=> in = 0
    BY <1>1 DEF One
  <1> HIDE DEF short, dispatch, busy, free, out, in
  <1>6. /\ out # 0 => out = 1 /\ in = 0
        /\ in # 0 => in = 1
        /\ short = 1 => out = 0 /\ in = 0 /\ busy # 1 /\ dispatch # 1
        /\ busy = 1 => out = 0 /\ in = 0 /\ dispatch # 1
        /\ dispatch = 1 => out = 0 /\ in = 0
    BY <1>3, <1>4
  <1> QED
    BY <1>5, <1>6 DEF out, in

\* The queues are five and one per resource.
LEMMA Indices ==
    /\ New \in QueueIndex /\ Ready \in QueueIndex /\ Exec \in QueueIndex
    /\ New # Ready /\ New # Exec /\ Ready # Exec
    /\ \A r \in Resource : Blocked(r) \in QueueIndex /\ Blocked(r) \notin {New, Ready, Exec}
    /\ \A r, s \in Resource : Blocked(r) = Blocked(s) => r = s
  BY IndexType, InstancesAssumption, LenProperties DEF New, Ready, Exec, Blocked, Resource

\* Only the dispatch thread can be waking processes up.
LEMMA DroppingIs ==
    TypeOK /\ ConsolesIdle =>
        \A i : Dropping(i) = IF pc["dispatch"] = "drop" /\ Blocked(fin["dispatch"].item) = i
                             THEN {fin["dispatch"].waiter} ELSE {}
  BY AccessType DEF Dropping, ConsolesIdle, FinishLabel, Finisher

\* Such a process is on a blocked queue.
LEMMA DroppedFrom ==
    ASSUME TypeOK, ConsolesIdle, FinishOK
    PROVE  /\ \A i : Dropping(i) \subseteq 1 .. Len(heap)
           /\ \A i \in {New, Ready, Exec} : Dropping(i) = {} /\ QueuePids(i) = PidsOf(ToSet(queue[i]))
           /\ pc["dispatch"] # "drop" =>
                  \A i : Dropping(i) = {} /\ QueuePids(i) = PidsOf(ToSet(queue[i]))
  <1>1. pc["dispatch"] = "drop" =>
            /\ fin["dispatch"].item \in Resource
            /\ fin["dispatch"].waiter \in ToSet(queue[Blocked(fin["dispatch"].item)])
    BY AccessType DEF TypeOK, KernelTypeOK, LocalOK, FinishOK, FinishLabel
  <1>2. \A r \in Resource : ToSet(queue[Blocked(r)]) \subseteq 1 .. Len(heap)
    BY QueueElements, Indices DEF TypeOK, KernelTypeOK
  <1>3. \A i : Dropping(i) = {} => QueuePids(i) = PidsOf(ToSet(queue[i]))
    BY DEF QueuePids, PidsOf
  <1> QED
    BY <1>1, <1>2, <1>3, Indices, DroppingIs

\* The process a thread carries is a process.
LEMMA CarriesOne ==
    ASSUME TypeOK, ConsolesIdle, FinishOK, NEW t \in Thread, pc[t] \in Carrying
    PROVE  ptr[t] \in 1 .. Len(heap) /\ ThreadPids(t) = {heap[ptr[t]].pid}
  <1>1. ptr[t] # 0
    <2>1. CASE t \in Console
      BY <2>1, AccessType
         DEF TypeOK, KernelTypeOK, LocalOK, ConsolesIdle, Carrying, ConsoleLabel, FinishLabel
    <2>2. CASE t = "long" \/ t = "short"
      BY <2>2 DEF TypeOK, KernelTypeOK, LocalOK, Carrying, LongLabel, ShortLabel
    <2>3. CASE t = "dispatch"
      BY <2>3 DEF TypeOK, KernelTypeOK, LocalOK, Carrying, FinishOK, DispatchLabel, FinishLabel
    <2> QED
      BY <2>1, <2>2, <2>3 DEF Thread, Finisher
  <1> QED
    BY <1>1, AccessType DEF ThreadPids

\* A process on a queue has not been freed, nor any copy of it.
LEMMA QueueLive ==
    ASSUME Inv, NEW i \in QueueIndex, NEW p \in ToSet(queue[i])
    PROVE  /\ p \in 1 .. Len(heap) /\ Live(p)
           /\ heap[p].pid \notin PidsOf(freed)
  <1>1. p \in 1 .. Len(heap) /\ freed \subseteq 1 .. Len(heap)
    BY QueueElements DEF Inv, TypeOK, KernelTypeOK
  <1>2. heap[p].pid \notin PidsOf(freed)
    <2>1. CASE heap[p].pid \in QueuePids(i)
      <3>1. PidsAt(<<"queue", i>>) \cap PidsAt(<<"freed", "freed">>) = {}
        BY DEF Inv, OnePlace, Apart, Place
      <3> QED
        BY <2>1, <3>1 DEF PidsAt
    <2>2. CASE heap[p].pid \notin QueuePids(i)
      <3>1. heap[p].pid \in PidsOf(Dropping(i))
        BY <2>2 DEF QueuePids, PidsOf
      <3>2. heap[p].pid = heap[fin["dispatch"].waiter].pid /\ pc["dispatch"] = "drop"
        BY <3>1, DroppingIs DEF PidsOf, Inv
      <3> QED
        BY <3>2 DEF Inv, FinishOK
    <2> QED
      BY <2>1, <2>2
  <1> QED
    BY <1>1, <1>2 DEF Live, PidsOf

-----------------------------------------------------------------------------
(***************************************************************************)
(* What every step leaves as it is                                         *)
(***************************************************************************)

\* A PCB keeps its address, its pid and what it retains.
HeapKept ==
    /\ Len(heap) <= Len(heap')
    /\ \A p \in 1 .. Len(heap) :
           heap'[p].pid = heap[p].pid /\ heap'[p].resources = heap[p].resources

\* Writing the state of one PCB.
LEMMA WriteKept ==
    ASSUME TypeOK, NEW p \in 1 .. Len(heap), NEW state, SetState(p, state)
    PROVE  /\ HeapKept /\ Len(heap') = Len(heap) /\ heap'[p].state = state
           /\ \A q \in 1 .. Len(heap) : q # p => heap'[q] = heap[q]
  <1>1. /\ heap \in Seq(PCB) /\ heap[p] \in PCB /\ Len(heap) \in Nat
        /\ \A q \in 1 .. Len(heap) : heap[q] \in PCB
    BY AccessType DEF TypeOK, KernelTypeOK
  <1>2. heap' = [heap EXCEPT ![p] = [heap[p] EXCEPT !.state = state]]
    BY DEF SetState
  <1>3. Len(heap') = Len(heap) /\ \A q \in 1 .. Len(heap) : q # p => heap'[q] = heap[q]
    BY <1>1, <1>2
  <1>4. heap'[p] = [heap[p] EXCEPT !.state = state]
    BY <1>1, <1>2
  <1>5. heap'[p].pid = heap[p].pid /\ heap'[p].resources = heap[p].resources /\ heap'[p].state = state
    BY <1>1, <1>4 DEF PCB
  <1> QED
    BY <1>1, <1>3, <1>5 DEF HeapKept

\* Allocating one.
LEMMA AllocateKept ==
    ASSUME TypeOK, NEW pcb \in PCB, heap' = Append(heap, pcb)
    PROVE  /\ HeapKept /\ Len(heap') = Len(heap) + 1 /\ heap'[Len(heap) + 1] = pcb
           /\ \A q \in 1 .. Len(heap) : heap'[q] = heap[q]
  <1>1. heap \in Seq(PCB) /\ Len(heap) \in Nat
    BY AccessType DEF TypeOK, KernelTypeOK
  <1>2. /\ Len(heap') = Len(heap) + 1 /\ heap'[Len(heap) + 1] = pcb
        /\ \A q \in 1 .. Len(heap) : heap'[q] = heap[q]
    BY <1>1, AppendProperties
  <1> QED
    BY <1>1, <1>2 DEF HeapKept

\* A queue that is not written holds each of its processes once.
LEMMA OnceKept ==
    ASSUME TypeOK, HeapKept, NEW q \in Seq(1 .. Len(heap)), EachOnce(heap, q)
    PROVE  EachOnce(heap', q)
  <1>1. \A j \in DOMAIN q : q[j] \in 1 .. Len(heap)
    BY QueueElements
  <1>2. \A j \in DOMAIN q : heap'[q[j]].pid = heap[q[j]].pid
    BY <1>1 DEF HeapKept
  <1> QED
    BY <1>2 DEF EachOnce

\* The pids of PCBs that were there are the same.
LEMMA PidsKept ==
    ASSUME HeapKept, NEW P, NEW Q, P \subseteq Q, Q \subseteq 1 .. Len(heap)
    PROVE  {heap'[p].pid : p \in P} \subseteq PidsOf(Q)
  BY DEF PidsOf, HeapKept

\* A place is a queue, a thread, the sleep threads or the freed memory.
LEMMA Places ==
    /\ \A i \in QueueIndex : <<"queue", i>> \in Place
    /\ \A t \in Thread : <<"thread", t>> \in Place
    /\ <<"asleep", "asleep">> \in Place /\ <<"freed", "freed">> \in Place
    /\ \A a \in Place :
           \/ \E i \in QueueIndex : a = <<"queue", i>>
           \/ \E t \in Thread : a = <<"thread", t>>
           \/ a = <<"asleep", "asleep">>
           \/ a = <<"freed", "freed">>
    /\ \A i : PidsAt(<<"queue", i>>) = QueuePids(i)
    /\ \A t : PidsAt(<<"thread", t>>) = ThreadPids(t)
    /\ PidsAt(<<"asleep", "asleep">>) = SleepPids
    /\ PidsAt(<<"freed", "freed">>) = PidsOf(freed)
  BY DEF Place, PidsAt

\* The processes of a queue, of a thread, asleep or freed are no more than they
\* were when nothing is written there.
LEMMA PlacesKept ==
    ASSUME TypeOK, ConsolesIdle, FinishOK, SleepersOK, HeapKept
    PROVE  /\ \A i \in QueueIndex :
                  ToSet(queue'[i]) \subseteq ToSet(queue[i]) /\ Dropping(i) \subseteq Dropping(i)'
                      => QueuePids(i)' \subseteq QueuePids(i)
           /\ \A t \in Thread :
                  (pc'[t] \in Carrying => pc[t] \in Carrying /\ ptr'[t] = ptr[t])
                      => ThreadPids(t)' \subseteq ThreadPids(t)
           /\ Asleep' \subseteq Asleep => SleepPids' \subseteq SleepPids
           /\ freed' \subseteq freed => PidsOf(freed)' \subseteq PidsOf(freed)
  <1>1. ASSUME NEW i \in QueueIndex,
               ToSet(queue'[i]) \subseteq ToSet(queue[i]), Dropping(i) \subseteq Dropping(i)'
        PROVE  QueuePids(i)' \subseteq QueuePids(i)
    <2>1. ToSet(queue[i]) \subseteq 1 .. Len(heap) /\ Dropping(i) \subseteq 1 .. Len(heap)
      BY QueueElements, DroppedFrom DEF TypeOK, KernelTypeOK
    <2>2. {heap'[p].pid : p \in ToSet(queue'[i])} \subseteq PidsOf(ToSet(queue[i]))
      BY <1>1, <2>1, PidsKept
    <2>3. {heap'[p].pid : p \in Dropping(i)} = PidsOf(Dropping(i))
      BY <2>1 DEF HeapKept, PidsOf
    <2>4. QueuePids(i)' = {heap'[p].pid : p \in ToSet(queue'[i])} \ {heap'[p].pid : p \in Dropping(i)'}
      BY DEF QueuePids, PidsOf
    <2> QED
      BY <1>1, <2>2, <2>3, <2>4 DEF QueuePids
  <1>2. ASSUME NEW t \in Thread, pc'[t] \in Carrying => pc[t] \in Carrying /\ ptr'[t] = ptr[t]
        PROVE  ThreadPids(t)' \subseteq ThreadPids(t)
    BY <1>2, CarriesOne DEF ThreadPids, HeapKept
  <1>3. ASSUME Asleep' \subseteq Asleep PROVE SleepPids' \subseteq SleepPids
    <2>1. /\ {s.args : s \in Asleep} \subseteq 1 .. Len(heap)
          /\ {s.args : s \in Asleep'} \subseteq {s.args : s \in Asleep}
      BY <1>3 DEF TypeOK, KernelTypeOK, SleepersOK, Asleep
    <2>2. {heap'[p].pid : p \in {s.args : s \in Asleep'}} \subseteq PidsOf({s.args : s \in Asleep})
      BY <2>1, PidsKept
    <2> QED
      BY <2>2 DEF SleepPids, PidsOf
  <1>4. ASSUME freed' \subseteq freed PROVE PidsOf(freed)' \subseteq PidsOf(freed)
    <2>1. {heap'[p].pid : p \in freed'} \subseteq PidsOf(freed)
      BY <1>4, PidsKept DEF TypeOK, KernelTypeOK
    <2> QED
      BY <2>1 DEF PidsOf
  <1> QED
    BY <1>1, <1>2, <1>3, <1>4

\* When every place keeps its processes they stay apart.
LEMMA ApartKept ==
    ASSUME Apart, \A c \in Place : PidsAt(c)' \subseteq PidsAt(c)
    PROVE  Apart'
  <1>1. \A a, b \in Place : a # b => PidsAt(a)' \cap PidsAt(b)' = {}
    BY DEF Apart
  <1> QED
    BY <1>1 DEF Apart, Place

\* One process may go from one place to another.
LEMMA Transfer ==
    ASSUME Apart, NEW a \in Place, NEW b \in Place, a # b, NEW x \in PidsAt(a),
           \A c \in Place : c # b => PidsAt(c)' \subseteq PidsAt(c),
           x \notin PidsAt(a)',
           PidsAt(b)' \subseteq PidsAt(b) \cup {x}
    PROVE  Apart'
  <1>1. \A c \in Place : c # b => x \notin PidsAt(c)'
    BY DEF Apart
  <1>2. \A c, d \in Place : c # d => PidsAt(c)' \cap PidsAt(d)' = {}
    BY <1>1 DEF Apart
  <1> QED
    BY <1>2 DEF Apart, Place

\* The steps that allocate a PCB.
Allocates == (\E c \in Console : ReceiveCreateProcess(c)) \/ DispatchInterrupt \/ DispatchSleep

\* No step writes a pid or a list of retained resources of a PCB that exists.
LEMMA HeapFixed ==
    ASSUME TypeOK, [Next]_allVars
    PROVE  HeapKept /\ (Allocates \/ Len(heap') = Len(heap))
  <1> DEFINE Fixed == HeapKept /\ (Allocates \/ Len(heap') = Len(heap))
  <1>0. /\ heap \in Seq(PCB) /\ Len(heap) \in Nat
        /\ queue \in [QueueIndex -> Seq(1 .. Len(heap))]
        /\ \A t \in Thread : ptr[t] # 0 => ptr[t] \in 1 .. Len(heap)
        /\ idToAssign \in Nat
    BY AccessType DEF TypeOK, KernelTypeOK
  <1>1. ASSUME UNCHANGED heap PROVE Fixed
    BY <1>0, <1>1 DEF HeapKept
  <1>2. \A i \in QueueIndex : queue[i] # <<>> => Head(queue[i]) \in 1 .. Len(heap)
    BY <1>0, TailType
  <1>3. ASSUME NEW c \in Console, HandlerConnection(c) PROVE Fixed
    <2>1. CASE ReceiveCreateProcess(c)
      <3> DEFINE pcb == [pid |-> idToAssign, path |-> Received(c).path, counter |-> 0,
                         resources |-> <<>>, state |-> "NEW"]
      <3>1. pcb \in PCB
        <4>1. Received(c).path \in Path
          BY <2>1, ReceivedType DEF ReceiveCreateProcess, Command
        <4> QED
          BY <1>0, <4>1, EmptySeq DEF PCB, ProcessState
      <3>2. heap' = Append(heap, pcb)
        BY <2>1 DEF ReceiveCreateProcess
      <3> HIDE DEF pcb
      <3> QED
        BY <2>1, <3>1, <3>2, AllocateKept DEF Allocates
    <2>2. CASE ~ReceiveCreateProcess(c)
      BY <1>1, <1>3, <2>2
         DEF HandlerConnection, Step, IncrementId, CreateInMemory, MoveProcessToNew,
             ReceiveFinishProcess, StopPlanning, StopShortTerm, StopLongTerm, StartPlanning,
             ModifyDegree, inert, memory
    <2> QED
      BY <2>1, <2>2
  <1>4. ASSUME NEW t \in Finisher, FinishProcess(t) PROVE Fixed
    <2>1. CASE MarkExit(t) \/ MoveWaiter(t)
      BY <2>1, AccessType, WriteKept DEF MarkExit, MoveWaiter, Live
    <2>2. CASE ~MarkExit(t) /\ ~MoveWaiter(t)
      BY <1>1, <1>4, <2>2
         DEF FinishProcess, Step, FindProcess, InspectState, ReleaseResource, CreditResource,
             UnlinkProcess, CheckBlocked, ContinueWaking, GetWaiter, DropWaiter, CountWaiter,
             NotifyMemory, Settle, FinishDangling, Crash, inert, memory
    <2> QED
      BY <2>1, <2>2
  <1>5. CASE LongTermPlanner
    <2>1. CASE LongPopNew /\ ~Crash
      BY <1>2, <2>1, IndexType, WriteKept DEF LongPopNew
    <2>2. CASE ~LongPopNew \/ Crash
      BY <1>1, <1>5, <2>2
         DEF LongTermPlanner, Step, LongWaitPlanner, LongWaitDegree, LongPushReady, Crash,
             inert, memory
    <2> QED
      BY <2>1, <2>2
  <1>6. CASE ShortTermPlanner
    <2>1. CASE ShortPopReady /\ ~Crash
      BY <1>2, <2>1, IndexType, WriteKept DEF ShortPopReady
    <2>2. CASE ~ShortPopReady \/ Crash
      BY <1>1, <1>6, <2>2
         DEF ShortTermPlanner, Step, ShortWaitPlanner, ShortWaitReady, ShortWaitCpu, ShortWait,
             SortQueue, ShortPushExec, DispatchProcess, InterruptProcess, Crash, inert, memory
    <2> QED
      BY <2>1, <2>2
  <1>7. CASE HandleDispatchConnection
    <2>1. CASE DispatchInterrupt \/ DispatchSleep
      <3>1. Arrived.pcb \in PCB /\ [Arrived.pcb EXCEPT !.state = "READY"] \in PCB
        BY <2>1, ArrivedType DEF DispatchInterrupt, DispatchSleep, PCB, ProcessState
      <3> QED
        BY <2>1, <3>1, AllocateKept DEF DispatchInterrupt, DispatchSleep, Allocates
    <2>2. CASE BlockProcess /\ ~Crash
      BY <2>2, AccessType, WriteKept DEF BlockProcess, Live
    <2>3. CASE ~DispatchInterrupt /\ ~DispatchSleep /\ (~BlockProcess \/ Crash)
      BY <1>1, <1>7, <2>3, DetectionFrame
         DEF HandleDispatchConnection, Step, DispatchFinish, RequeueInterrupted, DispatchInvalid,
             DispatchWaitGranted, DispatchWaitBlocked, LoadInstances, DispatchSignal,
             DispatchSignalUnheld, StoreInstances, Respond, Crash, inert, memory
    <2> QED
      BY <2>1, <2>2, <2>3
  <1>8. CASE SleepThread
    <2> PICK s \in sleepers : Step(SleepArguments(s)) \/ Step(SleepPop(s)) \/ Step(SleepEnd(s))
      BY <1>8 DEF SleepThread
    <2>1. CASE SleepEnd(s) /\ ~Crash
      <3>1. s.args \in 1 .. Len(heap) /\ heap[s.args] \in PCB
        BY <1>0, <2>1, AccessType DEF TypeOK, KernelTypeOK, SleepEnd, Live
      <3>2. heap' = [heap EXCEPT ![s.args] = Awakened(heap[s.args])]
        BY <2>1 DEF SleepEnd
      <3>3. /\ Awakened(heap[s.args]).pid = heap[s.args].pid
            /\ Awakened(heap[s.args]).resources = heap[s.args].resources
        BY <3>1 DEF Awakened, PCB
      <3> QED
        BY <1>0, <3>1, <3>2, <3>3 DEF HeapKept
    <2>2. CASE ~SleepEnd(s) \/ Crash
      BY <1>1, <2>2 DEF Step, SleepArguments, SleepPop, Crash, memory
    <2> QED
      BY <2>1, <2>2
  <1>9. CASE ExecuteProcess \/ InterruptThread \/ UNCHANGED allVars
    BY <1>1, <1>9 DEF ExecuteProcess, InterruptThread, CpuStep, kernelVars, allVars, vars
  <1> QED
    BY <1>3, <1>4, <1>5, <1>6, <1>7, <1>8, <1>9 DEF Next

-----------------------------------------------------------------------------
(***************************************************************************)
(* No NULL or freed PCB is used                                            *)
(***************************************************************************)

\* The process that was dispatched last is at the end of queue_exec, and at its
\* head too unless a sleep thread has yet to take another.
LEMMA LastExecIs ==
    ASSUME TypeOK, ExecOK, OnCpu
    PROVE  /\ queue[Exec] # <<>> /\ LastExec \in ToSet(queue[Exec]) /\ LastExec \in 1 .. Len(heap)
           /\ Runs(heap[LastExec].pid)
           /\ Starting = {} => /\ Len(queue[Exec]) = 1 /\ Head(queue[Exec]) = LastExec
                               /\ ToSet(queue[Exec]) = {LastExec}
  <1>1. queue[Exec] \in Seq(1 .. Len(heap)) /\ Len(queue[Exec]) \in Nat
    BY Indices, LenProperties DEF TypeOK, KernelTypeOK
  <1>2. Len(queue[Exec]) # 0 /\ (Starting = {} => Len(queue[Exec]) = 1)
    BY <1>1 DEF ExecOK, One
  <1>3. queue[Exec] # <<>> /\ LastExec \in ToSet(queue[Exec]) /\ LastExec \in 1 .. Len(heap)
    BY <1>1, <1>2, QueueElements DEF LastExec
  <1>4. Len(queue[Exec]) = 1 =>
            Head(queue[Exec]) = LastExec /\ ToSet(queue[Exec]) = {LastExec}
    <2>1. Len(queue[Exec]) = 1 => {queue[Exec][i] : i \in 1 .. Len(queue[Exec])} = {queue[Exec][1]}
      OBVIOUS
    <2>2. /\ ToSet(queue[Exec]) = {queue[Exec][i] : i \in 1 .. Len(queue[Exec])}
          /\ Head(queue[Exec]) = queue[Exec][1]
      BY <1>1, <1>3, Queued
    <2> QED
      BY <2>1, <2>2 DEF LastExec
  <1> QED
    BY <1>2, <1>3, <1>4 DEF ExecOK

\* When the CPU asks the kernel for something its process is alone on queue_exec.
LEMMA Asking ==
    ASSUME Inv, KeepUp, NEW op, ReceivesFromCpu(op)
    PROVE  /\ pc["dispatch"] = "listen" /\ Starting = {} /\ OnCpu
           /\ Arrived \in ToSet(toKernel) /\ Arrived.pcb \in PCB
           /\ heap[LastExec].pid = Arrived.pcb.pid
           /\ toKernel' = <<>> /\ toCpu' = toCpu
           /\ toCpu = <<>> /\ ~CpuBusy /\ pc["short"] \notin ShortLabels
  <1>1. /\ toKernel \in Seq(MessageToKernel) /\ toKernel # <<>> /\ Len(toKernel) = 1
        /\ toCpu = <<>> /\ ~CpuBusy /\ pc["short"] \notin ShortLabels
    BY Token DEF ReceivesFromCpu, Inv, TypeOK, ChannelsTypeOK
  <1>2. /\ Arrived \in ToSet(toKernel) /\ Len(Tail(toKernel)) = 0
        /\ Tail(toKernel) \in Seq(MessageToKernel)
    BY <1>1, QueueElements, TailType DEF Arrived
  <1>3. Tail(toKernel) = <<>>
    BY <1>2, QueueElements
  <1>4. pc["dispatch"] = "listen" /\ Arrived.pcb \in PCB
    BY ArrivedType DEF Inv
  <1>5. Starting = {} /\ OnCpu
    <2>1. Len(toKernel') < Len(toKernel)
      BY <1>1, <1>2 DEF ReceivesFromCpu
    <2> QED
      BY <1>1, <2>1 DEF KeepUp, OnCpu
  <1>6. heap[LastExec].pid = Arrived.pcb.pid
    BY <1>2, <1>5, LastExecIs DEF Inv, Runs
  <1> QED
    BY <1>1, <1>2, <1>3, <1>4, <1>5, <1>6 DEF ReceivesFromCpu

\* finish_process and the WAIT that blocks find the process alone on queue_exec.
LEMMA Finishing ==
    ASSUME Inv, pc["dispatch"] \in Finding
    PROVE  /\ Starting = {} /\ OnCpu
           /\ pc["dispatch"] \in Found => ptr["dispatch"] = LastExec
           /\ pc["dispatch"] = "find" => heap[LastExec].pid = fin["dispatch"].pid
           /\ toCpu = <<>> /\ toKernel = <<>> /\ ~CpuBusy /\ pc["short"] \notin ShortLabels
  <1>1. pc["dispatch"] \in DispatchLabels /\ pc["dispatch"] # "listen"
    BY DEF Finding, Found, DispatchLabels, FinishLabel
  <1>2. toCpu = <<>> /\ toKernel = <<>> /\ ~CpuBusy /\ pc["short"] \notin ShortLabels
    BY <1>1, Token DEF Inv
  <1>3. Starting = {} /\ OnCpu
    BY <1>1 DEF Inv, SleepersOK, OnCpu
  <1> QED
    BY <1>2, <1>3, LastExecIs DEF Inv, ExecOK, Runs

\* Only the dispatch thread calls finish_process.
LEMMA OnlyDispatch ==
    ASSUME ConsolesIdle, NEW t \in Finisher, FinishProcess(t)
    PROVE  t = "dispatch"
  <1>1. pc[t] \in FinishLabel
    BY FinishLabels
  <1> QED
    BY <1>1 DEF ConsolesIdle, Finisher

\* A process in the hands of a thread has not been freed.
LEMMA CarriedLive ==
    ASSUME Inv, NEW t \in Thread, pc[t] \in Carrying
    PROVE  Live(ptr[t])
  <1>1. ptr[t] \in 1 .. Len(heap) /\ ThreadPids(t) = {heap[ptr[t]].pid}
    BY CarriesOne DEF Inv
  <1>2. PidsAt(<<"thread", t>>) \cap PidsAt(<<"freed", "freed">>) = {}
    BY Places DEF Inv, OnePlace, Apart
  <1>3. ptr[t] \notin freed
    <2>1. ThreadPids(t) \cap PidsOf(freed) = {}
      BY <1>2, Places
    <2> QED
      BY <1>1, <2>1 DEF PidsOf
  <1> QED
    BY <1>1, <1>3 DEF Live

\* finish_process reads the process it has found, and the processes of the
\* queues it searches, before any thread frees them.
LEMMA FinishAlive ==
    ASSUME Inv, FinishProcess("dispatch")
    PROVE  ~crashed'
  <1>0. /\ TypeOK /\ FinishOK /\ ConsolesIdle /\ ~crashed /\ "dispatch" \in Thread
        /\ LocalOK("dispatch") /\ "dispatch" \in Finisher
    BY AccessType DEF Inv, TypeOK, KernelTypeOK
  <1>1. ~Step(FinishDangling("dispatch"))
    <2>1. pc["dispatch"] \in Found => Live(ptr["dispatch"])
      <3> SUFFICES ASSUME pc["dispatch"] \in Found PROVE Live(ptr["dispatch"])
        OBVIOUS
      <3>1. ptr["dispatch"] \in ToSet(queue[Exec])
        BY Finishing, LastExecIs DEF Inv, Finding
      <3> QED
        BY <3>1, QueueLive, Indices
    <2>2. pc["dispatch"] \in {"notify", "settle"} => Live(ptr["dispatch"])
      BY <1>0, CarriedLive DEF Carrying
    <2>3. pc["dispatch"] = "move" => Live(fin["dispatch"].waiter)
      BY <1>0, QueueLive, Indices DEF LocalOK, FinishOK, FinishLabel
    <2> QED
      BY <2>1, <2>2, <2>3 DEF Step, FinishDangling, Found
  <1>2. CASE Step(FindProcess("dispatch"))
    <2>1. /\ FindProcess("dispatch") /\ fin["dispatch"].index \in QueueIndex
      BY <1>0, <1>2 DEF Step, FindProcess, LocalOK, FinishLabel
    <2> DEFINE q == queue[fin["dispatch"].index]
    <2>2. \A i \in DOMAIN q : q[i] \notin freed
      <3>1. \A i \in DOMAIN q : q[i] \in ToSet(q)
        BY DEF ToSet
      <3> QED
        BY <2>1, <3>1, QueueLive DEF Live
    <2> QED
      BY <1>0, <2>1, <2>2 DEF FindProcess
  <1>3. CASE Step(GetWaiter("dispatch"))
    <2>1. /\ GetWaiter("dispatch") /\ fin["dispatch"].item \in Resource
          /\ fin["dispatch"].position \in DOMAIN queue[Blocked(fin["dispatch"].item)]
      BY <1>0, <1>3 DEF Step, GetWaiter, LocalOK, FinishOK
    <2> DEFINE q == queue[Blocked(fin["dispatch"].item)]
               p == q[fin["dispatch"].position]
    <2>2. p \in ToSet(q)
      BY <2>1 DEF ToSet
    <2>3. Live(p)
      BY <2>1, <2>2, QueueLive, Indices
    <2> QED
      BY <1>0, <2>1, <2>3 DEF GetWaiter, inert, idle
  <1>4. CASE ~Step(FindProcess("dispatch")) /\ ~Step(GetWaiter("dispatch"))
    BY <1>0, <1>1, <1>4
       DEF FinishProcess, Step, InspectState, MarkExit, ReleaseResource, CreditResource,
           UnlinkProcess, CheckBlocked, ContinueWaking, MoveWaiter, DropWaiter, CountWaiter,
           NotifyMemory, Settle, inert, idle
  <1> QED
    BY <1>2, <1>3, <1>4

\* The blocked queue that has the process get_required_resource looks for.
Home == IF pc["dispatch"] = "logEvaluated" THEN detector.list ELSE fin["dispatch"].item

\* A process is on one blocked queue, and there once: get_required_resource finds
\* the process it looks for there and no earlier.
LEMMA Searching ==
    ASSUME Inv, pc["dispatch"] \in {"require", "logChecked", "logEvaluated"}
    PROVE  /\ Home \in Resource /\ detector.walk \in 1 .. Home /\ detector.walk \in Resource
           /\ Sought \in ToSet(queue[Blocked(Home)]) /\ Live(Sought)
           /\ IF detector.walk = Home THEN Hit ELSE Missed
           /\ Hit => detector.walk = Home
  <1> DEFINE q(r) == queue[Blocked(r)]
  <1>0. /\ TypeOK /\ ConsolesIdle /\ FinishOK /\ DetectOK /\ OnePlace /\ LocalOK("dispatch")
        /\ pc["dispatch"] \in DetectLabel
        /\ \A r \in Resource : Blocked(r) \in QueueIndex /\ q(r) \in Seq(1 .. Len(heap))
    BY Indices DEF Inv, TypeOK, KernelTypeOK, DetectLabel, Thread, Finisher
  <1>1. /\ fin["dispatch"].item \in Resource
        /\ ptr["dispatch"] \in ToSet(queue[Blocked(fin["dispatch"].item)])
    BY <1>0 DEF DetectOK
  <1>2. Home \in Resource /\ detector.walk \in 1 .. Home
    BY <1>0, <1>1 DEF DetectOK, Home, LocalOK, DetectLabel
  <1>3. Sought \in ToSet(q(Home))
    <2>1. CASE pc["dispatch"] = "logEvaluated"
      <3>1. detector.position \in DOMAIN q(detector.list)
            /\ detector.evaluated = q(detector.list)[detector.position]
        BY <1>0, <2>1 DEF DetectOK
      <3> QED
        BY <2>1, <3>1 DEF Sought, Home, ToSet
    <2>2. CASE pc["dispatch"] # "logEvaluated"
      BY <1>1, <2>2 DEF Sought, Home
    <2> QED
      BY <2>1, <2>2
  <1>4. detector.walk \in Resource
    <2>1. Len(Instances) \in Nat
      BY InstancesAssumption, LenProperties
    <2> QED
      BY <1>2, <2>1 DEF Resource
  <1>5. Live(Sought) /\ \A r \in Resource : \A p \in ToSet(q(r)) : p \notin freed
    BY <1>0, <1>2, <1>3, QueueLive DEF Live
  <1>6. ASSUME NEW r \in Resource, r # Home, NEW p \in ToSet(q(r))
        PROVE  heap[p].pid # heap[Sought].pid
    <2>1. QueuePids(Blocked(r)) = PidsOf(ToSet(q(r)))
          /\ QueuePids(Blocked(Home)) = PidsOf(ToSet(q(Home)))
      BY <1>0, DroppedFrom DEF DetectLabel
    <2>2. Blocked(r) # Blocked(Home)
      BY <1>2, <1>6, Indices
    <2>3. <<"queue", Blocked(r)>> \in Place /\ <<"queue", Blocked(Home)>> \in Place
      BY <1>0, <1>2, Places
    <2>4. QueuePids(Blocked(r)) \cap QueuePids(Blocked(Home)) = {}
      BY <1>0, <2>2, <2>3, Places DEF OnePlace, Apart
    <2> QED
      BY <1>3, <2>1, <2>4 DEF PidsOf
  <1>7. ASSUME detector.walk # Home PROVE Missed /\ ~Hit
    <2>1. \A p \in ToSet(q(detector.walk)) : ~Stops(p)
      BY <1>4, <1>5, <1>6, <1>7 DEF Stops
    <2>2. \A i \in DOMAIN q(detector.walk) : q(detector.walk)[i] \in ToSet(q(detector.walk))
      BY DEF ToSet
    <2> QED
      BY <1>4, <1>5, <2>1, <2>2 DEF Missed, Hit
  <1>8. ASSUME detector.walk = Home PROVE Hit
    <2>1. PICK k \in DOMAIN q(Home) : q(Home)[k] = Sought
      BY <1>3 DEF ToSet
    <2>2. k \in Nat /\ DOMAIN q(Home) = 1 .. Len(q(Home)) /\ Len(q(Home)) \in Nat
          /\ \A i \in DOMAIN q(Home) : q(Home)[i] \in ToSet(q(Home))
      BY <1>0, <1>2, <2>1, Queued DEF ToSet
    <2>3. EachOnce(heap, q(Home))
      BY <1>0, <1>2 DEF OnePlace
    <2>4. ASSUME NEW j \in 1 .. k - 1 PROVE ~Stops(q(Home)[j])
      <3>1. j \in DOMAIN q(Home) /\ j # k
        BY <2>1, <2>2
      <3>2. heap[q(Home)[j]].pid # heap[q(Home)[k]].pid
        BY <2>1, <2>3, <3>1 DEF EachOnce
      <3> QED
        BY <1>2, <1>5, <2>1, <2>2, <3>1, <3>2 DEF Stops
    <2>5. Stops(q(Home)[k]) /\ q(Home)[k] \notin freed
      BY <1>5, <2>1 DEF Stops, Live
    <2> QED
      BY <1>4, <1>5, <1>8, <2>1, <2>4, <2>5 DEF Hit
  <1> QED
    BY <1>2, <1>3, <1>4, <1>5, <1>7, <1>8

\* check_deadlocks reads no process that was freed, no element past the end of a
\* queue and no resource that get_required_resource did not return.
LEMMA DetectAlive ==
    ASSUME Inv, CheckDeadlocks
    PROVE  ~crashed'
  <1>0. /\ TypeOK /\ DetectOK /\ ~crashed /\ pc["dispatch"] \in DetectLabel
        /\ LocalOK("dispatch")
    BY DetectionFrame DEF Inv, TypeOK, KernelTypeOK, Thread, Finisher
  <1>1. ~Step(DetectorDangling)
    <2>1. pc["dispatch"] \in {"require", "logChecked", "logEvaluated"} => Hit \/ Missed
      BY Searching
    <2>2. ASSUME pc["dispatch"] = "retain"
          PROVE  Live(detector.evaluated) /\ detector.required # 0
      <3>1. /\ detector.list \in Resource /\ detector.required = fin["dispatch"].item
            /\ fin["dispatch"].item \in Resource
            /\ detector.position \in DOMAIN queue[Blocked(detector.list)]
            /\ detector.evaluated = queue[Blocked(detector.list)][detector.position]
        BY <1>0, <2>2 DEF DetectOK, LocalOK, DetectLabel
      <3>2. detector.evaluated \in ToSet(queue[Blocked(detector.list)])
        BY <3>1 DEF ToSet
      <3> QED
        BY <3>1, <3>2, QueueLive, Indices DEF Resource
    <2> QED
      BY <2>1, <2>2 DEF Step, DetectorDangling
  <1> QED
    BY <1>0, <1>1
       DEF CheckDeadlocks, Step, WalkBlockedQueues, GetRequiredResource, ReadQueueSize,
           GetEvaluated, FindRetained, LogDeadlock

\* The head of a queue that a semaphore counts is there and alive.
LEMMA HeadLive ==
    ASSUME Inv, NEW i \in QueueIndex, queue[i] # <<>>
    PROVE  Live(Head(queue[i])) /\ Head(queue[i]) \in ToSet(queue[i])
  <1>1. queue[i] \in Seq(1 .. Len(heap))
    BY DEF Inv, TypeOK, KernelTypeOK
  <1>2. Head(queue[i]) \in ToSet(queue[i])
    BY <1>1, QueueElements
  <1> QED
    BY <1>2, QueueLive

\* No thread uses a NULL or freed PCB.
LEMMA Alive ==
    ASSUME Orderly, Inv, KeepUp, [Next]_allVars
    PROVE  ~crashed'
  <1>0. /\ TypeOK /\ FinishOK /\ ConsolesIdle /\ CountOK /\ ~crashed /\ SleepersOK
        /\ {"dispatch", "long", "short"} \subseteq Thread
        /\ sem \in [Semaphore -> Nat]
    BY PlacesType DEF Inv, Orderly
  <1>1. ASSUME NEW c \in Console, HandlerConnection(c) PROVE ~crashed'
    BY <1>0, <1>1
       DEF HandlerConnection, Step, ReceiveCreateProcess, IncrementId, CreateInMemory,
           MoveProcessToNew, ReceiveFinishProcess, StopPlanning, StopShortTerm, StopLongTerm,
           StartPlanning, ModifyDegree, inert, idle
  <1>2. CASE \E t \in Finisher : FinishProcess(t)
    BY <1>0, <1>2, OnlyDispatch, FinishAlive
  <1>3. CASE LongTermPlanner
    <2>1. CASE Step(LongPopNew)
      <3>1. queue[New] # <<>>
        <4>1. Len(queue[New]) > 0
          BY <1>0, <2>1 DEF Step, LongPopNew, CountOK
        <4> QED
          BY <1>0, <4>1, QueueElements, Indices DEF TypeOK, KernelTypeOK
      <3>2. Live(Head(queue[New]))
        BY <3>1, HeadLive, Indices
      <3> QED
        BY <1>0, <2>1, <3>1, <3>2 DEF Step, LongPopNew, inert, idle
    <2>2. CASE ~Step(LongPopNew)
      BY <1>0, <1>3, <2>2
         DEF LongTermPlanner, Step, LongWaitPlanner, LongWaitDegree, LongPushReady, inert, idle
    <2> QED
      BY <2>1, <2>2
  <1>4. CASE ShortTermPlanner
    <2>1. CASE Step(SortQueue)
      <3>1. \A p \in ToSet(queue[Ready]) : Live(p)
        BY QueueLive, Indices
      <3> QED
        BY <1>0, <2>1, <3>1 DEF Step, SortQueue, inert, idle
    <2>2. CASE Step(ShortPopReady)
      <3>1. queue[Ready] # <<>>
        <4>1. Len(queue[Ready]) > 0
          BY <1>0, <2>2 DEF Step, ShortPopReady, CountOK, One, Semaphore
        <4> QED
          BY <1>0, <4>1, QueueElements, Indices DEF TypeOK, KernelTypeOK
      <3>2. Live(Head(queue[Ready]))
        BY <3>1, HeadLive, Indices
      <3> QED
        BY <1>0, <2>2, <3>1, <3>2 DEF Step, ShortPopReady, inert, idle
    <2>3. CASE Step(DispatchProcess)
      <3>1. OnCpu /\ ptr["short"] = LastExec
        BY <2>3 DEF Step, DispatchProcess, OnCpu, Inv, ExecOK
      <3>2. Live(ptr["short"])
        BY <3>1, LastExecIs, QueueLive, Indices DEF Inv
      <3> QED
        BY <1>0, <2>3, <3>2 DEF Step, DispatchProcess, idle
    <2>4. CASE ~Step(SortQueue) /\ ~Step(ShortPopReady) /\ ~Step(DispatchProcess)
      BY <1>0, <1>4, <2>4
         DEF ShortTermPlanner, Step, ShortWaitPlanner, ShortWaitReady, ShortWaitCpu, ShortWait,
             ShortPushExec, InterruptProcess, inert, idle
    <2> QED
      BY <2>1, <2>2, <2>3, <2>4
  <1>5. CASE HandleDispatchConnection
    <2>1. CASE Step(DispatchWaitBlocked)
      <3>1. OnCpu
        BY <1>0, <2>1, Asking DEF Step, DispatchWaitBlocked
      <3>2. queue[Exec] # <<>> /\ Live(Head(queue[Exec]))
        BY <3>1, LastExecIs, HeadLive, Indices DEF Inv
      <3> QED
        BY <1>0, <2>1, <3>2 DEF Step, DispatchWaitBlocked
    <2>2. CASE Step(BlockProcess)
      <3>1. Live(ptr["dispatch"])
        BY <1>0, <2>2, CarriedLive DEF Step, BlockProcess, Carrying
      <3> QED
        BY <1>0, <2>2, <3>1 DEF Step, BlockProcess, inert, idle
    <2>3. CASE ~Step(DispatchWaitBlocked) /\ ~Step(BlockProcess) /\ ~CheckDeadlocks
      BY <1>0, <1>5, <2>3
         DEF HandleDispatchConnection, Step, DispatchFinish, DispatchInterrupt,
             RequeueInterrupted, DispatchInvalid, DispatchWaitGranted, LoadInstances,
             DispatchSignal, DispatchSignalUnheld, StoreInstances, Respond, DispatchSleep,
             inert, idle
    <2> QED
      BY <2>1, <2>2, <2>3, DetectAlive
  <1>6. CASE SleepThread
    <2> PICK s \in sleepers : Step(SleepArguments(s)) \/ Step(SleepPop(s)) \/ Step(SleepEnd(s))
      BY <1>6 DEF SleepThread
    <2>1. s.phase = "asleep" => Live(s.args)
      <3>1. PidsAt(<<"asleep", "asleep">>) \cap PidsAt(<<"freed", "freed">>) = {}
        BY Places DEF Inv, OnePlace, Apart
      <3>2. s.phase = "asleep" => heap[s.args].pid \in SleepPids
        BY DEF SleepPids, PidsOf, Asleep
      <3>3. s.args \in 1 .. Len(heap) /\ Len(heap) \in Nat
        BY <1>0, AccessType DEF TypeOK, KernelTypeOK, SleepersOK
      <3> QED
        BY <3>1, <3>2, <3>3, Places DEF PidsOf, Live
    <2>2. s.phase = "read" => Live(s.args)
      <3> SUFFICES ASSUME s.phase = "read" PROVE Live(s.args)
        OBVIOUS
      <3>1. s \in Starting
        BY DEF Starting
      <3>2. heap[Head(queue[Exec])].pid = heap[s.args].pid /\ queue[Exec] # <<>>
        BY <1>0, <3>1 DEF SleepersOK
      <3>3. heap[Head(queue[Exec])].pid \notin PidsOf(freed)
        BY <3>2, HeadLive, QueueLive, Indices
      <3>4. s.args \in 1 .. Len(heap) /\ Len(heap) \in Nat
        BY <1>0, AccessType DEF TypeOK, KernelTypeOK, SleepersOK
      <3> QED
        BY <3>2, <3>3, <3>4 DEF PidsOf, Live
    <2> QED
      BY <1>0, <2>1, <2>2 DEF Step, SleepArguments, SleepPop, SleepEnd, idle
  <1>7. CASE ExecuteProcess \/ InterruptThread \/ UNCHANGED allVars
    BY <1>0, <1>7 DEF ExecuteProcess, InterruptThread, CpuStep, kernelVars, allVars, vars
  <1> QED
    BY <1>1, <1>2, <1>3, <1>4, <1>5, <1>6, <1>7 DEF Next

-----------------------------------------------------------------------------
(***************************************************************************)
(* What the steps of each thread leave alone                               *)
(***************************************************************************)

\* Only t moves, and it writes no other queue than those of Q.
Acts(t, Q) ==
    /\ \A u \in Thread : u # t => pc'[u] = pc[u] /\ ptr'[u] = ptr[u]
    /\ \A i \in QueueIndex : i \notin Q => queue'[i] = queue[i]

\* A console's thread creates processes and posts semaphores. It may leave the
\* long term planner waiting for ever.
LEMMA ConsoleActs ==
    ASSUME NoKill, TypeOK, ConsolesIdle, NEW c \in Console, HandlerConnection(c)
    PROVE  /\ \A u \in Thread : u # c /\ u # "long" => pc'[u] = pc[u]
           /\ pc'["long"] = pc["long"] \/ (pc["long"] = "degree" /\ pc'["long"] = "lost")
           /\ \A u \in Thread : u # c => ptr'[u] = ptr[u]
           /\ \A i \in QueueIndex : i # New => queue'[i] = queue[i]
           /\ UNCHANGED <<cpuVars, fin, response, detector, freed, available, sleepers, reported,
                          channels>>
           /\ sem'["ready"] = sem["ready"]
           /\ c \in Thread /\ c # "dispatch" /\ c # "long" /\ c # "short"
           /\ pc[c] \notin FinishLabel /\ ~ReceiveFinishProcess(c)
  <1>0. /\ c \in Thread /\ c # "dispatch" /\ c # "long" /\ c # "short"
        /\ pc[c] \notin FinishLabel
        /\ ptr \in [Thread -> 0 .. Len(heap)] /\ queue \in [QueueIndex -> Seq(1 .. Len(heap))]
    BY AccessType, ConsoleAssumption DEF ConsolesIdle, TypeOK, KernelTypeOK
  <1>1. ~ReceiveFinishProcess(c)
    <2>1. ASSUME Receives(c, "FINISH_PROCESS") PROVE FALSE
      <3>1. Script[c] \in Seq(Command) /\ commands[c] \in Nat
        BY ScriptAssumption DEF TypeOK, KernelTypeOK
      <3>2. commands[c] + 1 \in DOMAIN Script[c]
        BY <2>1, <3>1, LenProperties DEF Receives
      <3> QED
        BY <2>1, <3>2 DEF Receives, NoKill
    <2> QED
      BY <2>1 DEF ReceiveFinishProcess
  <1>2. /\ UNCHANGED <<cpuVars, fin, response, detector, freed, available, sleepers, reported,
                       channels>>
        /\ sem'["ready"] = sem["ready"]
    BY <1>1, PlacesType
       DEF HandlerConnection, Step, ReceiveCreateProcess, IncrementId, CreateInMemory,
           MoveProcessToNew, StopPlanning, StopShortTerm, StopLongTerm, StartPlanning,
           ModifyDegree, inert, idle, locals, memory, Semaphore
  <1>3. \/ \A u \in Thread : u # c => pc'[u] = pc[u]
        \/ pc["long"] = "degree" /\ Goto("long", "lost")
    BY <1>0, <1>1, PlacesType
       DEF HandlerConnection, Step, ReceiveCreateProcess, IncrementId, CreateInMemory,
           MoveProcessToNew, StopPlanning, StopShortTerm, StopLongTerm, StartPlanning,
           ModifyDegree, locals, inert, Goto
  <1>4. /\ \A u \in Thread : u # c => ptr'[u] = ptr[u]
        /\ \A i \in QueueIndex : i # New => queue'[i] = queue[i]
    BY <1>0, <1>1
       DEF HandlerConnection, Step, ReceiveCreateProcess, IncrementId, CreateInMemory,
           MoveProcessToNew, StopPlanning, StopShortTerm, StopLongTerm, StartPlanning,
           ModifyDegree, locals, Push
  <1>5. /\ \A u \in Thread : u # c /\ u # "long" => pc'[u] = pc[u]
        /\ pc'["long"] = pc["long"] \/ (pc["long"] = "degree" /\ pc'["long"] = "lost")
    BY <1>0, <1>3, PlacesType DEF Goto
  <1> QED
    BY <1>0, <1>1, <1>2, <1>4, <1>5

\* The long term planner moves processes from queue_new to queue_ready.
LEMMA LongActs ==
    ASSUME TypeOK, ~crashed', LongTermPlanner
    PROVE  /\ Acts("long", {New, Ready})
           /\ UNCHANGED <<cpuVars, commands, fin, response, freed, available, sleepers, idle, channels>>
  <1>1. ~Crash
    BY DEF Crash
  <1>2. UNCHANGED <<cpuVars, commands, fin, response, freed, available, sleepers, idle, channels>>
    BY <1>1
       DEF LongTermPlanner, Step, LongWaitPlanner, LongWaitDegree, LongPopNew, LongPushReady,
           inert, memory
  <1>3. Acts("long", {New, Ready})
    BY <1>1, PlacesType
       DEF LongTermPlanner, Step, LongWaitPlanner, LongWaitDegree, LongPopNew, LongPushReady,
           Acts, Goto, Pop, Push, TypeOK, KernelTypeOK
  <1> QED
    BY <1>2, <1>3

\* The short term planner moves processes from queue_ready to queue_exec.
LEMMA ShortActs ==
    ASSUME TypeOK, ~crashed', ShortTermPlanner
    PROVE  /\ Acts("short", {Ready, Exec})
           /\ UNCHANGED <<cpuVars, commands, fin, response, freed, available, sleepers, idle, toKernel>>
  <1>1. ~Crash
    BY DEF Crash
  <1>2. UNCHANGED <<cpuVars, commands, fin, response, freed, available, sleepers, idle, toKernel>>
    BY <1>1
       DEF ShortTermPlanner, Step, ShortWaitPlanner, ShortWaitReady, ShortWaitCpu, ShortWait,
           SortQueue, ShortPopReady, ShortPushExec, DispatchProcess, InterruptProcess, inert,
           memory, channels
  <1>3. Acts("short", {Ready, Exec})
    BY <1>1, PlacesType
       DEF ShortTermPlanner, Step, ShortWaitPlanner, ShortWaitReady, ShortWaitCpu, ShortWait,
           SortQueue, ShortPopReady, ShortPushExec, DispatchProcess, InterruptProcess,
           Acts, Goto, Pop, Push, TypeOK, KernelTypeOK
  <1> QED
    BY <1>2, <1>3

\* A sleep thread takes its process from queue_exec and returns it to queue_ready.
LEMMA SleepActs ==
    ASSUME TypeOK, ~crashed', SleepThread
    PROVE  /\ UNCHANGED <<cpuVars, commands, locals, freed, available, idle, channels>>
           /\ \A i \in QueueIndex : i \notin {Ready, Exec} => queue'[i] = queue[i]
  <1>1. ~Crash
    BY DEF Crash
  <1>2. UNCHANGED <<cpuVars, commands, locals, freed, available, idle, channels>>
    BY <1>1 DEF SleepThread, Step, SleepArguments, SleepPop, SleepEnd, memory
  <1>3. \A i \in QueueIndex : i \notin {Ready, Exec} => queue'[i] = queue[i]
    BY <1>1 DEF SleepThread, Step, SleepArguments, SleepPop, SleepEnd, DropExecHead, Pop, Push,
                TypeOK, KernelTypeOK
  <1> QED
    BY <1>2, <1>3

\* finish_process takes a process from one queue, and others from a blocked one.
LEMMA FinishActs ==
    ASSUME TypeOK, FinishOK, ~crashed', FinishProcess("dispatch")
    PROVE  /\ \A u \in Thread : u # "dispatch" => pc'[u] = pc[u] /\ ptr'[u] = ptr[u]
           /\ \A u \in Finisher : u # "dispatch" => fin'[u] = fin[u]
           /\ UNCHANGED <<cpuVars, commands, response, sleepers, idle, channels>>
           /\ queue'[New] = queue[New]
           /\ sem'["new"] = sem["new"]
           /\ pc["dispatch"] \in FinishLabel /\ pc'["dispatch"] \in FinishLabel \cup {"listen"}
  <1>0. /\ queue \in [QueueIndex -> Seq(1 .. Len(heap))] /\ ptr \in [Thread -> 0 .. Len(heap)]
        /\ fin \in [Finisher -> Frame] /\ "dispatch" \in Finisher
        /\ LocalOK("dispatch") /\ "dispatch" \in Thread
    BY AccessType DEF TypeOK, KernelTypeOK
  <1>1. ~Crash
    BY DEF Crash
  <1>2. UNCHANGED <<cpuVars, commands, response, sleepers, idle, channels>>
    BY <1>1
       DEF FinishProcess, Step, FindProcess, InspectState, MarkExit, ReleaseResource,
           CreditResource, UnlinkProcess, CheckBlocked, ContinueWaking, GetWaiter, MoveWaiter,
           DropWaiter, CountWaiter, NotifyMemory, Settle, FinishDangling, inert, idle, memory
  <1>3. /\ \A u \in Thread : u # "dispatch" => pc'[u] = pc[u] /\ ptr'[u] = ptr[u]
        /\ \A u \in Finisher : u # "dispatch" => fin'[u] = fin[u]
    BY <1>0, <1>1, PlacesType
       DEF FinishProcess, Step, FindProcess, InspectState, MarkExit, ReleaseResource,
           CreditResource, UnlinkProcess, CheckBlocked, ContinueWaking, GetWaiter, MoveWaiter,
           DropWaiter, CountWaiter, NotifyMemory, Settle, FinishDangling, inert, Goto, Return
  <1>4. queue'[New] = queue[New]
    <2>1. pc["dispatch"] = "unlink" => fin["dispatch"].index = Exec
      BY DEF FinishOK, Found
    <2>2. pc["dispatch"] = "drop" => fin["dispatch"].item \in Resource
      BY <1>0 DEF LocalOK, FinishLabel
    <2> QED
      BY <1>0, <1>1, <2>1, <2>2, Indices
         DEF FinishProcess, Step, FindProcess, InspectState, MarkExit, ReleaseResource,
             CreditResource, UnlinkProcess, CheckBlocked, ContinueWaking, GetWaiter, MoveWaiter,
             DropWaiter, CountWaiter, NotifyMemory, Settle, FinishDangling, Push
  <1>5. sem'["new"] = sem["new"]
    <2>1. pc["dispatch"] = "settle" => fin["dispatch"].previous = "EXECUTION"
      BY DEF FinishOK, FinishLabel
    <2> QED
      BY <1>0, <1>1, <2>1, PlacesType
         DEF FinishProcess, Step, FindProcess, InspectState, MarkExit, ReleaseResource,
             CreditResource, UnlinkProcess, CheckBlocked, ContinueWaking, GetWaiter, MoveWaiter,
             DropWaiter, CountWaiter, NotifyMemory, Settle, FinishDangling, Semaphore
  <1>6. pc["dispatch"] \in FinishLabel /\ pc'["dispatch"] \in FinishLabel \cup {"listen"}
    BY <1>0, <1>1, PlacesType
       DEF FinishProcess, Step, FindProcess, InspectState, MarkExit, ReleaseResource,
           CreditResource, UnlinkProcess, CheckBlocked, ContinueWaking, GetWaiter, MoveWaiter,
           DropWaiter, CountWaiter, NotifyMemory, Settle, FinishDangling, Goto, Return, FinishLabel
  <1> QED
    BY <1>2, <1>3, <1>4, <1>5, <1>6

\* The labels of handle_dispatch_connection outside finish_process.
Serving == {"listen", "requeue", "block", "load", "store", "respond"} \cup DetectLabel

\* The dispatch thread takes processes off queue_exec, and puts them on a blocked
\* queue or back on queue_ready.
LEMMA DispatchActs ==
    ASSUME TypeOK, ~crashed', HandleDispatchConnection
    PROVE  /\ \A u \in Thread : u # "dispatch" => pc'[u] = pc[u] /\ ptr'[u] = ptr[u]
           /\ \A u \in Finisher : u # "dispatch" => fin'[u] = fin[u]
           /\ UNCHANGED <<cpuVars, commands, freed, idToAssign, crashed>>
           /\ queue'[New] = queue[New] /\ sem'["new"] = sem["new"]
           /\ pc["dispatch"] \in Serving
           /\ pc'["dispatch"] \in Serving \cup {"find"}
  <1>0. /\ queue \in [QueueIndex -> Seq(1 .. Len(heap))] /\ ptr \in [Thread -> 0 .. Len(heap)]
        /\ fin \in [Finisher -> Frame] /\ "dispatch" \in Finisher
        /\ LocalOK("dispatch") /\ "dispatch" \in Thread
    BY AccessType DEF TypeOK, KernelTypeOK
  <1>1. ~Crash
    BY DEF Crash
  <1>2. UNCHANGED <<cpuVars, commands, freed, idToAssign, crashed>>
    <2>1. CASE CheckDeadlocks
      <3>1. crashed' = crashed
        BY <1>1, <2>1
           DEF CheckDeadlocks, Step, WalkBlockedQueues, GetRequiredResource, ReadQueueSize,
               GetEvaluated, FindRetained, LogDeadlock, DetectorDangling
      <3> QED
        BY <2>1, <3>1, DetectionFrame DEF memory
    <2>2. CASE ~CheckDeadlocks
      BY <1>1, <2>2
         DEF HandleDispatchConnection, Step, DispatchFinish, DispatchInterrupt,
             RequeueInterrupted, DispatchInvalid, DispatchWaitGranted, LoadInstances,
             DispatchWaitBlocked, BlockProcess, DispatchSignal, DispatchSignalUnheld,
             StoreInstances, Respond, DispatchSleep, ReceivesFromCpu, inert, idle, memory,
             locals
    <2> QED
      BY <2>1, <2>2
  <1>3. /\ \A u \in Thread : u # "dispatch" => pc'[u] = pc[u] /\ ptr'[u] = ptr[u]
        /\ \A u \in Finisher : u # "dispatch" => fin'[u] = fin[u]
    BY <1>0, <1>1, PlacesType, DetectionFrame
       DEF HandleDispatchConnection, Step, DispatchFinish, DispatchInterrupt,
           RequeueInterrupted, DispatchInvalid, DispatchWaitGranted, LoadInstances,
           DispatchWaitBlocked, BlockProcess, DispatchSignal, DispatchSignalUnheld,
           StoreInstances, Respond, DispatchSleep, inert, locals, Goto, Finish, Return
  <1>4. queue'[New] = queue[New] /\ sem'["new"] = sem["new"]
    <2>1. pc["dispatch"] = "block" => fin["dispatch"].item \in Resource
      BY <1>0 DEF LocalOK
    <2> QED
      BY <1>0, <1>1, <2>1, Indices, PlacesType, DetectionFrame
         DEF HandleDispatchConnection, Step, DispatchFinish, DispatchInterrupt,
             RequeueInterrupted, DispatchInvalid, DispatchWaitGranted, LoadInstances,
             DispatchWaitBlocked, BlockProcess, DispatchSignal, DispatchSignalUnheld,
             StoreInstances, Respond, DispatchSleep, Push, Pop, DropExecHead, Semaphore
  <1>5. /\ pc["dispatch"] \in Serving
        /\ pc'["dispatch"] \in Serving \cup {"find"}
    BY <1>0, <1>1, PlacesType, DetectionFrame
       DEF HandleDispatchConnection, Step, DispatchFinish, DispatchInterrupt,
           RequeueInterrupted, DispatchInvalid, DispatchWaitGranted, LoadInstances,
           DispatchWaitBlocked, BlockProcess, DispatchSignal, DispatchSignalUnheld,
           StoreInstances, Respond, DispatchSleep, ReceivesFromCpu, locals, Goto, Finish,
           Return, Serving, DetectLabel
  <1> QED
    BY <1>2, <1>3, <1>4, <1>5

-----------------------------------------------------------------------------
(***************************************************************************)
(* Pids                                                                    *)
(***************************************************************************)

\* Only a console that creates processes gives out a pid, and each pid once.
LEMMA CreatePids ==
    ASSUME Orderly, Inv, TypeOK', HeapKept, NEW c \in Console, HandlerConnection(c)
    PROVE  PidsOK'
  <1>0. /\ TypeOK /\ PidsOK /\ NoKill /\ OneCreator /\ ConsolesIdle
        /\ c \in Thread /\ Console \subseteq Thread
        /\ pc \in [Thread -> ConsoleLabel \cup DispatchLabel \cup ShortLabel \cup LongLabel]
        /\ idToAssign \in Nat /\ Len(heap) \in Nat
        /\ \A p \in 1 .. Len(heap) : heap[p].pid \in Nat
        /\ \A d \in Console : pc[d] = "assigned" => ptr[d] \in 1 .. Len(heap)
        /\ "long" \notin Console /\ "short" \notin Console /\ "dispatch" \notin Console
    BY AccessType, ConsoleAssumption DEF Inv, Orderly, TypeOK, KernelTypeOK, LocalOK, PCB
  <1>1. /\ \A d \in Console : d # c => pc'[d] = pc[d] /\ ptr'[d] = ptr[d]
    BY <1>0, ConsoleActs
  <1>2. CASE Step(ReceiveCreateProcess(c))
    <2>1. /\ ReceiveCreateProcess(c) /\ pc[c] = "listen" /\ pc'[c] = "assigned"
          /\ idToAssign' = idToAssign
      BY <1>0, <1>2 DEF Step, ReceiveCreateProcess, Receives, Goto, idle
    <2>2. Creates(c)
      <3>1. Script[c] \in Seq(Command) /\ commands[c] \in Nat
        BY ScriptAssumption, <1>0 DEF TypeOK, KernelTypeOK
      <3>2. commands[c] + 1 \in DOMAIN Script[c] /\ Script[c][commands[c] + 1].op = "CREATE_PROCESS"
        BY <2>1, <3>1, LenProperties DEF ReceiveCreateProcess, Receives
      <3> QED
        BY <3>2 DEF Creates
    <2>3. \A d \in Console : d # c => pc[d] \notin {"assigned", "create", "admit"}
      BY <1>0, <2>2 DEF PidsOK, OneCreator
    <2>4. \A p \in 1 .. Len(heap) : heap[p].pid < idToAssign
      BY <1>0, <2>1, <2>3 DEF PidsOK
    <2>5. /\ Len(heap') = Len(heap) + 1 /\ heap'[Len(heap) + 1].pid = idToAssign
          /\ ptr'[c] = Len(heap) + 1
      <3> DEFINE pcb == [pid |-> idToAssign, path |-> Received(c).path, counter |-> 0,
                         resources |-> <<>>, state |-> "NEW"]
      <3>1. heap' = Append(heap, pcb) /\ heap \in Seq(PCB)
        BY <1>0, <2>1 DEF ReceiveCreateProcess, TypeOK, KernelTypeOK
      <3>2. pcb.pid = idToAssign
        OBVIOUS
      <3> HIDE DEF pcb
      <3>3. Len(heap') = Len(heap) + 1 /\ heap'[Len(heap) + 1] = pcb
        BY <3>1, AppendProperties
      <3>4. ptr'[c] = Len(heap) + 1
        BY <1>0, <2>1 DEF ReceiveCreateProcess, TypeOK, KernelTypeOK
      <3> QED
        BY <3>2, <3>3, <3>4
    <2>6. \A p \in 1 .. Len(heap') : heap'[p].pid < idToAssign \/ heap'[p].pid = idToAssign
      <3>1. \A p \in 1 .. Len(heap') : p \in 1 .. Len(heap) \/ p = Len(heap) + 1
        BY <1>0, <2>5
      <3> QED
        BY <2>4, <2>5, <3>1 DEF HeapKept
    <2> QED
      BY <1>1, <2>1, <2>2, <2>3, <2>5, <2>6 DEF PidsOK
  <1>3. CASE Step(IncrementId(c))
    <2>1. IncrementId(c) /\ UNCHANGED heap /\ pc[c] = "assigned" /\ pc'[c] = "create"
      BY <1>0, <1>3 DEF Step, IncrementId, Goto, memory
    <2>2. idToAssign' = idToAssign + 1 /\ Creates(c)
      BY <1>0, <2>1 DEF IncrementId, PidsOK
    <2>3. \A d \in Console : d # c => pc[d] \notin {"assigned", "create", "admit"}
      BY <1>0, <2>2 DEF PidsOK, OneCreator
    <2>4. \A p \in 1 .. Len(heap') : heap'[p].pid < idToAssign'
      BY <1>0, <2>1, <2>2 DEF PidsOK
    <2> QED
      BY <1>1, <2>1, <2>2, <2>3, <2>4 DEF PidsOK
  <1>4. CASE ~Step(ReceiveCreateProcess(c)) /\ ~Step(IncrementId(c))
    <2>1. ~ReceiveFinishProcess(c)
      BY <1>0, ConsoleActs
    <2>2. UNCHANGED <<heap, idToAssign>>
      BY <1>4, <2>1
         DEF HandlerConnection, Step, CreateInMemory, MoveProcessToNew, StopPlanning,
             StopShortTerm, StopLongTerm, StartPlanning, ModifyDegree, inert, idle, memory
    <2>3. /\ pc'[c] # "assigned"
          /\ pc'[c] \in {"create", "admit"} => pc[c] \in {"create", "admit"}
      <3>1. pc[c] # "assigned"
        BY <1>4, <2>1
           DEF HandlerConnection, Step, CreateInMemory, MoveProcessToNew, StopPlanning,
               StopShortTerm, StopLongTerm, StartPlanning, ModifyDegree, Receives
      <3> QED
        BY <1>0, <1>4, <2>1, <3>1
           DEF HandlerConnection, Step, CreateInMemory, MoveProcessToNew, StopPlanning,
               StopShortTerm, StopLongTerm, StartPlanning, ModifyDegree, Goto, locals
    <2>4. \A d \in Console : pc[d] = "assigned" <=> pc'[d] = "assigned"
      <3>1. pc[c] # "assigned"
        BY <1>4, <2>1
           DEF HandlerConnection, Step, CreateInMemory, MoveProcessToNew, StopPlanning,
               StopShortTerm, StopLongTerm, StartPlanning, ModifyDegree, Receives
      <3> QED
        BY <1>1, <2>3, <3>1
    <2> QED
      BY <1>0, <1>1, <2>2, <2>3, <2>4 DEF PidsOK
  <1> QED
    BY <1>2, <1>3, <1>4 DEF HandlerConnection

\* The other threads allocate copies of processes that have a pid.
LEMMA PidsStep ==
    ASSUME Orderly, Inv, KeepUp, TypeOK', HeapKept, ~crashed', [Next]_allVars
    PROVE  PidsOK'
  <1>0. /\ TypeOK /\ PidsOK /\ FinishOK /\ Console \subseteq Thread
        /\ \A d \in Console : d \notin {"dispatch", "long", "short"}
        /\ \A d \in Console : pc[d] = "assigned" => ptr[d] \in 1 .. Len(heap)
        /\ Len(heap) \in Nat /\ heap \in Seq(PCB)
    BY AccessType, ConsoleAssumption DEF Inv, Orderly, TypeOK, KernelTypeOK, LocalOK
  <1>1. ASSUME \A d \in Console : pc'[d] = pc[d] /\ ptr'[d] = ptr[d],
               idToAssign' = idToAssign,
               \A p \in 1 .. Len(heap') : p \in 1 .. Len(heap)
                   \/ \E q \in 1 .. Len(heap) : heap'[p].pid = heap[q].pid
        PROVE  PidsOK'
    <2>1. \A p \in 1 .. Len(heap') : \E q \in 1 .. Len(heap) : heap'[p].pid = heap[q].pid
      BY <1>1 DEF HeapKept
    <2>2. \A p \in 1 .. Len(heap') :
              \/ heap'[p].pid < idToAssign
              \/ heap'[p].pid = idToAssign /\ \E c \in Console : pc[c] = "assigned"
      BY <1>0, <2>1 DEF PidsOK
    <2> QED
      BY <1>0, <1>1, <2>2 DEF PidsOK, HeapKept
  <1>2. CASE \E c \in Console : HandlerConnection(c)
    BY <1>2, CreatePids
  <1>3. CASE ~ \E c \in Console : HandlerConnection(c)
    <2>1. \A d \in Console : pc'[d] = pc[d] /\ ptr'[d] = ptr[d]
      BY <1>0, <1>3, OnlyDispatch, FinishActs, LongActs, ShortActs, SleepActs, DispatchActs
         DEF Next, Inv, Acts, locals, ExecuteProcess, InterruptThread, CpuStep, kernelVars,
             allVars, vars
    <2>2. idToAssign' = idToAssign
      BY <1>0, <1>3, OnlyDispatch, FinishActs, LongActs, ShortActs, SleepActs, DispatchActs
         DEF Next, Inv, idle, ExecuteProcess, InterruptThread, CpuStep, kernelVars, allVars, vars
    <2>3. \A p \in 1 .. Len(heap') : p \in 1 .. Len(heap)
              \/ \E q \in 1 .. Len(heap) : heap'[p].pid = heap[q].pid
      <3>1. CASE DispatchInterrupt \/ DispatchSleep
        <4>1. /\ Arrived.pcb \in PCB /\ heap[LastExec].pid = Arrived.pcb.pid
              /\ LastExec \in 1 .. Len(heap)
          BY <1>0, <3>1, Asking, LastExecIs DEF DispatchInterrupt, DispatchSleep, Inv
        <4>2. \E pcb \in PCB : heap' = Append(heap, pcb) /\ pcb.pid = Arrived.pcb.pid
          <5>1. [Arrived.pcb EXCEPT !.state = "READY"] \in PCB
                /\ [Arrived.pcb EXCEPT !.state = "READY"].pid = Arrived.pcb.pid
            BY <4>1 DEF PCB, ProcessState
          <5> QED
            BY <3>1, <4>1, <5>1 DEF DispatchInterrupt, DispatchSleep
        <4>3. /\ Len(heap') = Len(heap) + 1 /\ heap'[Len(heap) + 1].pid = Arrived.pcb.pid
          BY <1>0, <4>2, AllocateKept
        <4>4. \A p \in 1 .. Len(heap') : p \in 1 .. Len(heap) \/ p = Len(heap) + 1
          BY <1>0, <4>3
        <4> QED
          BY <4>1, <4>3, <4>4
      <3>2. CASE ~DispatchInterrupt /\ ~DispatchSleep
        <4>1. ~(\E c \in Console : ReceiveCreateProcess(c))
          BY <1>0, <2>1 DEF ReceiveCreateProcess, Receives, Goto, TypeOK, KernelTypeOK
        <4>2. Len(heap') = Len(heap)
          BY <1>0, <3>2, <4>1, HeapFixed DEF Allocates
        <4> QED
          BY <4>2
      <3> QED
        BY <3>1, <3>2
    <2> QED
      BY <1>1, <2>1, <2>2, <2>3
  <1> QED
    BY <1>2, <1>3

-----------------------------------------------------------------------------
(***************************************************************************)
(* The semaphores that count queues                                        *)
(***************************************************************************)

\* How an operation on a queue changes its length.
LEMMA PushLength ==
    ASSUME TypeOK, NEW i \in QueueIndex, NEW p \in 1 .. Len(heap), Push(i, p)
    PROVE  /\ Len(queue'[i]) = Len(queue[i]) + 1
           /\ \A j \in QueueIndex : j # i => queue'[j] = queue[j]
           /\ queue'[i] = Append(queue[i], p)
  <1>1. queue \in [QueueIndex -> Seq(1 .. Len(heap))]
    BY DEF TypeOK, KernelTypeOK
  <1> QED
    BY <1>1, AppendProperties DEF Push

\* And a pop.
LEMMA PopLength ==
    ASSUME TypeOK, NEW i \in QueueIndex, queue[i] # <<>>, Pop(i)
    PROVE  /\ Len(queue'[i]) = Len(queue[i]) - 1
           /\ \A j \in QueueIndex : j # i => queue'[j] = queue[j]
           /\ queue'[i] = Rest(queue[i])
  <1>1. queue \in [QueueIndex -> Seq(1 .. Len(heap))]
    BY DEF TypeOK, KernelTypeOK
  <1>2. Len(Tail(queue[i])) = Len(queue[i]) - 1
    BY <1>1, TailType
  <1> QED
    BY <1>1, <1>2 DEF Pop, Rest

\* A process joins or leaves queue_ready together with what counts it: the
\* semaphore, the planner that waited on it, or the wake-up that has yet to post it.
LEMMA CountReady ==
    ASSUME TypeOK, CountOK,
           sem'["new"] = sem["new"], Len(queue'[New]) = Len(queue[New]),
           NEW posted \in Int, NEW planned \in Int, NEW waking \in Int,
           sem'["ready"] = sem["ready"] + posted,
           One(pc'["short"] \in {"cpu", "sort", "pop"})
               = One(pc["short"] \in {"cpu", "sort", "pop"}) + planned,
           One(pc'["dispatch"] \in {"drop", "count"})
               = One(pc["dispatch"] \in {"drop", "count"}) + waking,
           Len(queue'[Ready]) = Len(queue[Ready]) + posted + planned + waking
    PROVE  CountOK'
  <1> DEFINE short == One(pc["short"] \in {"cpu", "sort", "pop"})
             dispatch == One(pc["dispatch"] \in {"drop", "count"})
             ready == sem["ready"]
             length == Len(queue[Ready])
             shortNext == One(pc'["short"] \in {"cpu", "sort", "pop"})
             dispatchNext == One(pc'["dispatch"] \in {"drop", "count"})
             readyNext == sem'["ready"]
             lengthNext == Len(queue'[Ready])
  <1>1. short \in Int /\ dispatch \in Int /\ ready \in Int /\ length \in Int
    BY Indices, LenProperties DEF TypeOK, KernelTypeOK, Semaphore, One
  <1>2. /\ ready + short + dispatch = length
        /\ readyNext = ready + posted
        /\ shortNext = short + planned
        /\ dispatchNext = dispatch + waking
        /\ lengthNext = length + posted + planned + waking
    BY DEF CountOK
  <1> HIDE DEF short, dispatch, ready, length, shortNext, dispatchNext, readyNext, lengthNext
  <1>3. readyNext + shortNext + dispatchNext = lengthNext
    BY <1>1, <1>2
  <1> QED
    BY <1>3 DEF CountOK, shortNext, dispatchNext, readyNext, lengthNext, One

\* A step that neither posts, waits for nor moves what the semaphores count.
LEMMA CountSame ==
    ASSUME TypeOK, CountOK,
           sem'["new"] = sem["new"], sem'["ready"] = sem["ready"],
           Len(queue'[New]) = Len(queue[New]), Len(queue'[Ready]) = Len(queue[Ready]),
           pc'["short"] \in {"cpu", "sort", "pop"} <=> pc["short"] \in {"cpu", "sort", "pop"},
           pc'["dispatch"] \in {"drop", "count"} <=> pc["dispatch"] \in {"drop", "count"}
    PROVE  CountOK'
  BY DEF CountOK, One

\* A console admits a process to queue_new and posts sem_process_new at once.
LEMMA ConsoleCount ==
    ASSUME Orderly, Inv, TypeOK', NEW c \in Console, HandlerConnection(c)
    PROVE  CountOK'
  <1>0. /\ TypeOK /\ CountOK /\ NoKill /\ ConsolesIdle /\ LocalOK(c)
        /\ sem \in [Semaphore -> Nat] /\ sem' \in [Semaphore -> Nat]
        /\ {"dispatch", "long", "short"} \subseteq Thread
        /\ "dispatch" # c /\ "short" # c
        /\ Len(queue'[New]) \in Nat /\ Len(queue'[Ready]) \in Nat
    BY AccessType, ConsoleAssumption, Indices, LenProperties DEF Inv, Orderly, TypeOK, KernelTypeOK
  <1>1. /\ pc'["short"] = pc["short"] /\ pc'["dispatch"] = pc["dispatch"]
        /\ queue'[Ready] = queue[Ready] /\ sem'["ready"] = sem["ready"]
        /\ ~ReceiveFinishProcess(c)
    BY <1>0, ConsoleActs, Indices
  <1>2. CASE Step(MoveProcessToNew(c))
    <2>1. ptr[c] \in 1 .. Len(heap) /\ Push(New, ptr[c])
      BY <1>0, <1>2, AccessType DEF Step, MoveProcessToNew, LocalOK
    <2>2. Len(queue'[New]) = Len(queue[New]) + 1 /\ Len(queue[New]) \in Nat
      BY <1>0, <2>1, PushLength, Indices, LenProperties DEF TypeOK, KernelTypeOK
    <2>3. sem'["new"] = sem["new"] + 1
      BY <1>0, <1>2 DEF Step, MoveProcessToNew, Semaphore
    <2>4. sem["new"] \in Nat
      BY <1>0 DEF Semaphore
    <2> QED
      BY <1>0, <1>1, <2>2, <2>3, <2>4 DEF CountOK
  <1>3. CASE ~Step(MoveProcessToNew(c))
    <2>1. sem'["new"] = sem["new"] /\ queue'[New] = queue[New]
      BY <1>0, <1>1, <1>3
         DEF HandlerConnection, Step, ReceiveCreateProcess, IncrementId, CreateInMemory,
             StopPlanning, StopShortTerm, StopLongTerm, StartPlanning, ModifyDegree, Semaphore,
             memory, inert
    <2> QED
      BY <1>0, <1>1, <2>1, CountSame
  <1> QED
    BY <1>2, <1>3

\* The long term planner takes what sem_process_new counts, and posts
\* sem_process_ready when the process is on queue_ready.
LEMMA LongCount ==
    ASSUME Inv, TypeOK', ~crashed', LongTermPlanner
    PROVE  CountOK'
  <1>0. /\ TypeOK /\ CountOK /\ LocalOK("long")
        /\ sem \in [Semaphore -> Nat]
        /\ {"dispatch", "long", "short"} \subseteq Thread
        /\ \A i \in QueueIndex : Len(queue[i]) \in Nat
        /\ ~Crash
    BY PlacesType, LenProperties DEF Inv, TypeOK, KernelTypeOK, Crash
  <1>1. pc'["short"] = pc["short"] /\ pc'["dispatch"] = pc["dispatch"]
    BY <1>0, LongActs DEF Acts
  <1>2. CASE Step(LongPopNew)
    <2>1. queue[New] # <<>> /\ Pop(New) /\ sem' = [sem EXCEPT !["new"] = @ - 1]
      BY <1>0, <1>2 DEF Step, LongPopNew
    <2>2. Len(queue'[New]) = Len(queue[New]) - 1 /\ queue'[Ready] = queue[Ready]
      BY <1>0, <2>1, PopLength, Indices
    <2>3. sem'["new"] = sem["new"] - 1 /\ sem'["ready"] = sem["ready"]
      BY <1>0, <2>1 DEF Semaphore
    <2> QED
      BY <1>0, <1>1, <2>2, <2>3 DEF CountOK, Semaphore
  <1>3. CASE Step(LongPushReady)
    <2>1. /\ ptr["long"] \in 1 .. Len(heap) /\ Push(Ready, ptr["long"])
          /\ sem' = [sem EXCEPT !["ready"] = @ + 1, !["long"] = @ + 1]
      BY <1>0, <1>3, AccessType DEF Step, LongPushReady, LocalOK
    <2>2. Len(queue'[Ready]) = Len(queue[Ready]) + 1 /\ queue'[New] = queue[New]
      BY <1>0, <2>1, PushLength, Indices
    <2>3. sem'["ready"] = sem["ready"] + 1 /\ sem'["new"] = sem["new"] /\ sem["ready"] \in Nat
      BY <1>0, <2>1 DEF Semaphore
    <2>4. /\ Len(queue'[New]) = Len(queue[New])
          /\ Len(queue'[Ready]) = Len(queue[Ready]) + 1 + 0 + 0
          /\ One(pc'["short"] \in {"cpu", "sort", "pop"})
                 = One(pc["short"] \in {"cpu", "sort", "pop"}) + 0
          /\ One(pc'["dispatch"] \in {"drop", "count"})
                 = One(pc["dispatch"] \in {"drop", "count"}) + 0
      BY <1>0, <1>1, <2>2, Indices DEF One
    <2> QED
      BY <1>0, <2>3, <2>4, CountReady
  <1>4. CASE Step(LongWaitPlanner) \/ Step(LongWaitDegree)
    <2>1. sem'["new"] = sem["new"] /\ sem'["ready"] = sem["ready"] /\ queue' = queue
      BY <1>0, <1>4 DEF Step, LongWaitPlanner, LongWaitDegree, Semaphore
    <2> QED
      BY <1>0, <1>1, <2>1, CountSame
  <1> QED
    BY <1>2, <1>3, <1>4 DEF LongTermPlanner

\* The short term planner holds what it waited for until it has popped it.
LEMMA ShortCount ==
    ASSUME Inv, TypeOK', ~crashed', ShortTermPlanner
    PROVE  CountOK'
  <1>0. /\ TypeOK /\ CountOK /\ LocalOK("short")
        /\ sem \in [Semaphore -> Nat]
        /\ pc \in [Thread -> ConsoleLabel \cup DispatchLabel \cup ShortLabel \cup LongLabel]
        /\ {"dispatch", "long", "short"} \subseteq Thread
        /\ \A i \in QueueIndex : Len(queue[i]) \in Nat
        /\ ~Crash
    BY PlacesType, LenProperties DEF Inv, TypeOK, KernelTypeOK, Crash
  <1>1. /\ pc'["dispatch"] = pc["dispatch"] /\ queue'[New] = queue[New]
        /\ One(pc'["dispatch"] \in {"drop", "count"})
               = One(pc["dispatch"] \in {"drop", "count"}) + 0
    BY <1>0, ShortActs, Indices DEF Acts, One
  <1>2. CASE Step(ShortWaitReady)
    <2>1. /\ sem'["ready"] = sem["ready"] + (-1) /\ sem'["new"] = sem["new"] /\ queue' = queue
          /\ pc["short"] = "ready" /\ pc'["short"] = "cpu"
      BY <1>0, <1>2 DEF Step, ShortWaitReady, ShortWait, Goto, Semaphore
    <2>2. /\ One(pc'["short"] \in {"cpu", "sort", "pop"})
                 = One(pc["short"] \in {"cpu", "sort", "pop"}) + 1
          /\ Len(queue'[Ready]) = Len(queue[Ready]) + (-1) + 1 + 0
      BY <1>0, <2>1, Indices DEF One
    <2> QED
      BY <1>0, <1>1, <2>1, <2>2, CountReady
  <1>3. CASE Step(ShortPopReady)
    <2>1. /\ queue[Ready] # <<>> /\ Pop(Ready) /\ UNCHANGED sem
          /\ pc["short"] = "pop" /\ pc'["short"] = "push"
      BY <1>0, <1>3 DEF Step, ShortPopReady, Goto
    <2>2. Len(queue'[Ready]) = Len(queue[Ready]) - 1
      BY <1>0, <2>1, PopLength, Indices
    <2>3. /\ One(pc'["short"] \in {"cpu", "sort", "pop"})
                 = One(pc["short"] \in {"cpu", "sort", "pop"}) + (-1)
          /\ Len(queue'[Ready]) = Len(queue[Ready]) + 0 + (-1) + 0
          /\ sem'["ready"] = sem["ready"] + 0 /\ sem'["new"] = sem["new"]
      BY <1>0, <2>1, <2>2, Indices DEF One, Semaphore
    <2> QED
      BY <1>0, <1>1, <2>3, CountReady
  <1>4. CASE Step(SortQueue)
    <2>1. Len(queue'[Ready]) = Len(queue[Ready])
      <3>1. PICK f \in [1 .. Len(queue[Ready]) -> 1 .. Len(queue[Ready])] :
                queue' = [queue EXCEPT ![Ready] =
                              [i \in 1 .. Len(queue[Ready]) |-> queue[Ready][f[i]]]]
        BY <1>0, <1>4 DEF Step, SortQueue
      <3>2. queue'[Ready] = [i \in 1 .. Len(queue[Ready]) |-> queue[Ready][f[i]]]
        BY <1>0, <3>1, Indices DEF TypeOK, KernelTypeOK
      <3>3. queue[Ready] \in Seq(1 .. Len(heap))
        BY <1>0, Indices DEF TypeOK, KernelTypeOK
      <3> QED
        BY <3>2, <3>3, PermutationType
    <2>2. sem' = sem /\ pc["short"] = "sort" /\ pc'["short"] = "pop"
      BY <1>0, <1>4 DEF Step, SortQueue, Goto
    <2> QED
      BY <1>0, <1>1, <2>1, <2>2, CountSame
  <1>5. CASE ~Step(ShortWaitReady) /\ ~Step(ShortPopReady) /\ ~Step(SortQueue)
    <2>1. sem'["ready"] = sem["ready"] /\ sem'["new"] = sem["new"] /\ queue'[Ready] = queue[Ready]
      <3>1. Step(ShortPushExec) => ptr["short"] \in 1 .. Len(heap)
        BY <1>0, AccessType DEF Step, ShortPushExec, LocalOK
      <3> QED
        BY <1>0, <1>5, <3>1, PushLength, Indices
           DEF ShortTermPlanner, Step, ShortWaitPlanner, ShortWaitCpu, ShortWait,
               ShortPushExec, DispatchProcess, InterruptProcess, Semaphore
    <2>2. pc'["short"] \in {"cpu", "sort", "pop"} <=> pc["short"] \in {"cpu", "sort", "pop"}
      BY <1>0, <1>5
         DEF ShortTermPlanner, Step, ShortWaitPlanner, ShortWaitCpu, ShortWait,
             ShortPushExec, DispatchProcess, InterruptProcess, Goto
    <2> QED
      BY <1>0, <1>1, <2>1, <2>2, CountSame
  <1> QED
    BY <1>2, <1>3, <1>4, <1>5

\* The dispatch thread posts sem_process_ready for a process it requeues.
LEMMA DispatchCount ==
    ASSUME Inv, TypeOK', ~crashed', HandleDispatchConnection
    PROVE  CountOK'
  <1>0. /\ TypeOK /\ CountOK /\ LocalOK("dispatch")
        /\ sem \in [Semaphore -> Nat]
        /\ pc \in [Thread -> ConsoleLabel \cup DispatchLabel \cup ShortLabel \cup LongLabel]
        /\ queue \in [QueueIndex -> Seq(1 .. Len(heap))]
        /\ {"dispatch", "long", "short"} \subseteq Thread
        /\ \A i \in QueueIndex : Len(queue[i]) \in Nat
        /\ ~Crash
    BY PlacesType, LenProperties DEF Inv, TypeOK, KernelTypeOK, Crash
  <1>1. /\ pc'["short"] = pc["short"] /\ queue'[New] = queue[New] /\ sem'["new"] = sem["new"]
        /\ pc["dispatch"] \notin {"drop", "count"} /\ pc'["dispatch"] \notin {"drop", "count"}
    BY <1>0, DispatchActs DEF Serving, DetectLabel
  <1>2. CASE Step(RequeueInterrupted)
    <2>1. /\ ptr["dispatch"] \in 1 .. Len(heap) /\ Push(Ready, ptr["dispatch"])
          /\ sem'["ready"] = sem["ready"] + 1
      BY <1>0, <1>2, AccessType DEF Step, RequeueInterrupted, LocalOK, Semaphore
    <2>2. Len(queue'[Ready]) = Len(queue[Ready]) + 1
      BY <1>0, <2>1, PushLength, Indices
    <2>3. /\ One(pc'["short"] \in {"cpu", "sort", "pop"})
                 = One(pc["short"] \in {"cpu", "sort", "pop"}) + 0
          /\ One(pc'["dispatch"] \in {"drop", "count"})
                 = One(pc["dispatch"] \in {"drop", "count"}) + 0
          /\ Len(queue'[Ready]) = Len(queue[Ready]) + 1 + 0 + 0
      BY <1>0, <1>1, <2>2, Indices DEF One
    <2> QED
      BY <1>0, <1>1, <2>1, <2>3, CountReady
  <1>3. CASE ~Step(RequeueInterrupted)
    <2>1. pc["dispatch"] = "block" => fin["dispatch"].item \in Resource
      BY <1>0 DEF LocalOK
    <2>2. sem'["ready"] = sem["ready"] /\ queue'[Ready] = queue[Ready]
      <3>1. CASE CheckDeadlocks
        BY <1>0, <3>1, DetectionFrame
      <3>2. CASE ~CheckDeadlocks
        BY <1>0, <1>3, <2>1, <3>2, Indices
           DEF HandleDispatchConnection, Step, DispatchFinish, DispatchInterrupt,
               DispatchInvalid, DispatchWaitGranted, LoadInstances, DispatchWaitBlocked,
               BlockProcess, DispatchSignal, DispatchSignalUnheld, StoreInstances,
               Respond, DispatchSleep, Push, Pop, DropExecHead, Semaphore
      <3> QED
        BY <3>1, <3>2
    <2> QED
      BY <1>0, <1>1, <2>2, CountSame
  <1> QED
    BY <1>2, <1>3

\* A process that is woken up is on queue_ready before it is counted there.
LEMMA FinishCount ==
    ASSUME Inv, TypeOK', ~crashed', FinishProcess("dispatch")
    PROVE  CountOK'
  <1>0. /\ TypeOK /\ CountOK /\ LocalOK("dispatch") /\ FinishOK
        /\ sem \in [Semaphore -> Nat]
        /\ pc \in [Thread -> ConsoleLabel \cup DispatchLabel \cup ShortLabel \cup LongLabel]
        /\ queue \in [QueueIndex -> Seq(1 .. Len(heap))]
        /\ "dispatch" \in Thread /\ "dispatch" \in Finisher
        /\ \A i \in QueueIndex : Len(queue[i]) \in Nat
        /\ ~Crash
    BY AccessType, LenProperties DEF Inv, TypeOK, KernelTypeOK, Crash
  <1>1. /\ pc'["short"] = pc["short"] /\ queue'[New] = queue[New] /\ sem'["new"] = sem["new"]
        /\ One(pc'["short"] \in {"cpu", "sort", "pop"})
               = One(pc["short"] \in {"cpu", "sort", "pop"}) + 0
    <2>1. "short" \in Thread
      BY AccessType DEF Inv
    <2> QED
      BY <1>0, <2>1, FinishActs DEF One
  <1>2. CASE Step(MoveWaiter("dispatch"))
    <2>1. /\ fin["dispatch"].waiter \in 1 .. Len(heap) /\ Push(Ready, fin["dispatch"].waiter)
          /\ sem'["ready"] = sem["ready"] + 0
          /\ pc["dispatch"] = "move" /\ pc'["dispatch"] = "drop"
      BY <1>0, <1>2, AccessType DEF Step, MoveWaiter, Live, Goto, Semaphore
    <2>2. Len(queue'[Ready]) = Len(queue[Ready]) + 1
      BY <1>0, <2>1, PushLength, Indices
    <2>3. /\ One(pc'["dispatch"] \in {"drop", "count"})
                 = One(pc["dispatch"] \in {"drop", "count"}) + 1
          /\ Len(queue'[Ready]) = Len(queue[Ready]) + 0 + 0 + 1
      BY <1>0, <2>1, <2>2, Indices DEF One
    <2> DEFINE none == 0
               one == 1
    <2>4. /\ none \in Int /\ one \in Int
          /\ sem'["ready"] = sem["ready"] + none
          /\ One(pc'["short"] \in {"cpu", "sort", "pop"})
                 = One(pc["short"] \in {"cpu", "sort", "pop"}) + none
          /\ One(pc'["dispatch"] \in {"drop", "count"})
                 = One(pc["dispatch"] \in {"drop", "count"}) + one
          /\ Len(queue'[Ready]) = Len(queue[Ready]) + none + none + one
      BY <1>1, <2>1, <2>3
    <2>5. Len(queue'[New]) = Len(queue[New]) /\ sem'["new"] = sem["new"] /\ TypeOK /\ CountOK
      BY <1>0, <1>1
    <2> HIDE DEF none, one
    <2> QED
      BY <2>4, <2>5, CountReady
  <1>3. CASE Step(CountWaiter("dispatch"))
    <2>1. /\ sem'["ready"] = sem["ready"] + 1 /\ queue' = queue
          /\ pc["dispatch"] = "count" /\ pc'["dispatch"] = "loop"
      BY <1>0, <1>3 DEF Step, CountWaiter, Goto, Semaphore
    <2>2. /\ One(pc'["dispatch"] \in {"drop", "count"})
                 = One(pc["dispatch"] \in {"drop", "count"}) + (-1)
          /\ Len(queue'[Ready]) = Len(queue[Ready]) + 1 + 0 + (-1)
      BY <1>0, <2>1, Indices DEF One
    <2> QED
      BY <1>0, <1>1, <2>1, <2>2, CountReady
  <1>4. CASE ~Step(MoveWaiter("dispatch")) /\ ~Step(CountWaiter("dispatch"))
    <2>1. /\ pc["dispatch"] = "unlink" => fin["dispatch"].index = Exec
          /\ pc["dispatch"] = "drop" => fin["dispatch"].item \in Resource
          /\ pc["dispatch"] = "settle" => fin["dispatch"].previous = "EXECUTION"
      BY <1>0 DEF LocalOK, FinishOK, FinishLabel, Found
    <2>2. sem'["ready"] = sem["ready"] /\ queue'[Ready] = queue[Ready]
      BY <1>0, <1>4, <2>1, Indices
         DEF FinishProcess, Step, FindProcess, InspectState, MarkExit, ReleaseResource,
             CreditResource, UnlinkProcess, CheckBlocked, ContinueWaking, GetWaiter,
             DropWaiter, NotifyMemory, Settle, FinishDangling, Semaphore
    <2>3. pc'["dispatch"] \in {"drop", "count"} <=> pc["dispatch"] \in {"drop", "count"}
      BY <1>0, <1>4
         DEF FinishProcess, Step, FindProcess, InspectState, MarkExit, ReleaseResource,
             CreditResource, UnlinkProcess, CheckBlocked, ContinueWaking, GetWaiter,
             DropWaiter, NotifyMemory, Settle, FinishDangling, Goto, Return
    <2> QED
      BY <1>0, <1>1, <2>2, <2>3, CountSame
  <1> QED
    BY <1>2, <1>3, <1>4

\* A process that wakes from its sleep is pushed and counted at once.
LEMMA SleepCount ==
    ASSUME Inv, TypeOK', ~crashed', SleepThread
    PROVE  CountOK'
  <1>0. /\ TypeOK /\ CountOK /\ SleepersOK
        /\ sem \in [Semaphore -> Nat]
        /\ queue \in [QueueIndex -> Seq(1 .. Len(heap))]
        /\ \A i \in QueueIndex : Len(queue[i]) \in Nat
        /\ ~Crash
    BY LenProperties DEF Inv, TypeOK, KernelTypeOK, Crash
  <1>1. UNCHANGED pc /\ queue'[New] = queue[New]
    BY <1>0, SleepActs, Indices DEF locals
  <1> PICK s \in sleepers : Step(SleepArguments(s)) \/ Step(SleepPop(s)) \/ Step(SleepEnd(s))
    BY DEF SleepThread
  <1>2. CASE Step(SleepEnd(s))
    <2>1. /\ s.args \in 1 .. Len(heap) /\ Push(Ready, s.args)
          /\ sem'["ready"] = sem["ready"] + 1 /\ sem'["new"] = sem["new"]
      BY <1>0, <1>2 DEF Step, SleepEnd, TypeOK, KernelTypeOK, SleepersOK, Semaphore
    <2>2. Len(queue'[Ready]) = Len(queue[Ready]) + 1
      BY <1>0, <2>1, PushLength, Indices
    <2>3. /\ One(pc'["short"] \in {"cpu", "sort", "pop"})
                 = One(pc["short"] \in {"cpu", "sort", "pop"}) + 0
          /\ One(pc'["dispatch"] \in {"drop", "count"})
                 = One(pc["dispatch"] \in {"drop", "count"}) + 0
          /\ Len(queue'[Ready]) = Len(queue[Ready]) + 1 + 0 + 0
      BY <1>0, <1>1, <2>2, Indices DEF One
    <2> QED
      BY <1>0, <1>1, <2>1, <2>3, CountReady
  <1>3. CASE ~Step(SleepEnd(s))
    <2>1. sem' = sem /\ queue'[Ready] = queue[Ready]
      BY <1>0, <1>3, Indices DEF Step, SleepArguments, SleepPop, DropExecHead, Pop
    <2> QED
      BY <1>0, <1>1, <2>1, CountSame
  <1> QED
    BY <1>2, <1>3

\* Every step keeps the two semaphores counting their queues.
LEMMA CountStep ==
    ASSUME Orderly, Inv, TypeOK', ~crashed', [Next]_allVars
    PROVE  CountOK'
  <1>1. CASE ExecuteProcess \/ InterruptThread \/ UNCHANGED allVars
    <2>1. UNCHANGED <<sem, queue, pc>>
      BY <1>1 DEF ExecuteProcess, InterruptThread, CpuStep, kernelVars, allVars, vars
    <2> QED
      BY <2>1, CountSame DEF Inv
  <1> QED
    BY <1>1, ConsoleCount, LongCount, ShortCount, DispatchCount, FinishCount, SleepCount,
       OnlyDispatch DEF Next, Inv

-----------------------------------------------------------------------------
(***************************************************************************)
(* Sleep threads that have not started                                     *)
(***************************************************************************)

\* While one has not, nobody pops queue_exec.
LEMMA SleepersKept ==
    ASSUME TypeOK, SleepersOK, HeapKept, sleepers' = sleepers,
           Starting # {} => /\ pc'["dispatch"] = "listen"
                            /\ queue'[Exec] # <<>> /\ Head(queue'[Exec]) = Head(queue[Exec])
    PROVE  SleepersOK'
  <1>1. Starting' = Starting
    BY DEF Starting
  <1>2. Starting # {} => Head(queue[Exec]) \in 1 .. Len(heap)
    BY QueueElements, Indices DEF TypeOK, KernelTypeOK, SleepersOK
  <1>3. \A s \in Starting : heap'[Head(queue'[Exec])].pid = heap'[s.args].pid
    BY <1>2 DEF TypeOK, KernelTypeOK, SleepersOK, HeapKept, Starting
  <1> QED
    BY <1>1, <1>3 DEF SleepersOK

\* SLEEP starts the only one, about the process that asked, at the head of queue_exec.
LEMMA SleepStarts ==
    ASSUME Orderly, Inv, KeepUp, TypeOK', HeapKept, Step(DispatchSleep)
    PROVE  SleepersOK'
  <1>0. /\ TypeOK /\ SleepersOK
        /\ ReceivesFromCpu("SLEEP_REQUEST") /\ heap' = Append(heap, Arrived.pcb)
        /\ sleepers' = sleepers \cup
               {[key |-> Len(heap) + 1, args |-> Len(heap) + 1, phase |-> "start"]}
        /\ UNCHANGED <<pc, queue>>
    BY DEF Inv, Orderly, Step, DispatchSleep, locals
  <1>1. /\ pc["dispatch"] = "listen" /\ Starting = {} /\ OnCpu
        /\ heap[LastExec].pid = Arrived.pcb.pid /\ Arrived.pcb \in PCB
    BY <1>0, Asking
  <1>2. queue[Exec] # <<>> /\ Head(queue[Exec]) = LastExec /\ LastExec \in 1 .. Len(heap)
    BY <1>0, <1>1, LastExecIs DEF Inv
  <1>3. heap'[Len(heap) + 1] = Arrived.pcb /\ heap'[LastExec].pid = heap[LastExec].pid
    BY <1>0, <1>1, <1>2, AllocateKept
  <1> DEFINE new == [key |-> Len(heap) + 1, args |-> Len(heap) + 1, phase |-> "start"]
  <1>4. Starting' = {new}
    BY <1>0, <1>1 DEF Starting
  <1>5. new.args = new.key /\ new.args = Len(heap) + 1
    OBVIOUS
  <1> HIDE DEF new
  <1>6. \A s \in sleepers' : s.args = s.key
    BY <1>0, <1>5 DEF SleepersOK, new
  <1>7. heap'[Head(queue'[Exec])].pid = heap'[new.args].pid
    BY <1>0, <1>1, <1>2, <1>3, <1>5
  <1>8. pc'["dispatch"] = "listen" /\ queue'[Exec] # <<>>
    BY <1>0, <1>1, <1>2
  <1> QED
    BY <1>4, <1>6, <1>7, <1>8 DEF SleepersOK

\* Every step.
LEMMA SleepersStep ==
    ASSUME Orderly, Inv, KeepUp, TypeOK', HeapKept, ~crashed', [Next]_allVars
    PROVE  SleepersOK'
  <1>0. /\ TypeOK /\ SleepersOK /\ FinishOK /\ LocalOK("short")
        /\ queue \in [QueueIndex -> Seq(1 .. Len(heap))]
        /\ {"dispatch", "long", "short"} \subseteq Thread
        /\ \A c \in Console : c # "dispatch"
    BY PlacesType, ConsoleAssumption DEF Inv, Orderly, TypeOK, KernelTypeOK
  <1>1. CASE \E c \in Console : HandlerConnection(c)
    <2>1. sleepers' = sleepers /\ pc'["dispatch"] = pc["dispatch"] /\ queue'[Exec] = queue[Exec]
      BY <1>0, <1>1, ConsoleActs, Indices DEF Inv, Orderly
    <2> QED
      BY <1>0, <2>1, SleepersKept DEF SleepersOK
  <1>2. CASE \E t \in Finisher : FinishProcess(t)
    <2>1. sleepers' = sleepers /\ Starting = {}
      BY <1>0, <1>2, OnlyDispatch, FinishActs DEF SleepersOK, FinishLabel, Inv
    <2> QED
      BY <1>0, <2>1, SleepersKept
  <1>3. CASE LongTermPlanner
    <2>1. sleepers' = sleepers /\ pc'["dispatch"] = pc["dispatch"] /\ queue'[Exec] = queue[Exec]
      BY <1>0, <1>3, LongActs, Indices DEF Acts
    <2> QED
      BY <1>0, <2>1, SleepersKept DEF SleepersOK
  <1>4. CASE ShortTermPlanner
    <2>1. sleepers' = sleepers /\ pc'["dispatch"] = pc["dispatch"]
      BY <1>0, <1>4, ShortActs DEF Acts
    <2>2. queue[Exec] # <<>> => queue'[Exec] # <<>> /\ Head(queue'[Exec]) = Head(queue[Exec])
      <3>1. CASE Step(ShortPushExec)
        <4>1. ptr["short"] \in 1 .. Len(heap) /\ Push(Exec, ptr["short"])
          BY <1>0, <3>1, AccessType DEF Step, ShortPushExec, LocalOK
        <4>2. queue'[Exec] = Append(queue[Exec], ptr["short"])
          BY <1>0, <4>1, PushLength, Indices
        <4>3. queue[Exec] \in Seq(1 .. Len(heap))
          BY <1>0, Indices
        <4> DEFINE S == 1 .. Len(heap)
        <4> HIDE DEF S
        <4>4. ptr["short"] \in S /\ queue[Exec] \in Seq(S)
          BY <4>1, <4>3 DEF S
        <4> QED
          BY <4>2, <4>4, AppendElements
      <3>2. CASE ~Step(ShortPushExec)
        <4>1. ~Crash
          BY DEF Crash
        <4> QED
          BY <1>0, <1>4, <3>2, <4>1, Indices
             DEF ShortTermPlanner, Step, ShortWaitPlanner, ShortWaitReady, ShortWaitCpu,
                 ShortWait, SortQueue, ShortPopReady, DispatchProcess, InterruptProcess, Pop
      <3> QED
        BY <3>1, <3>2
    <2> QED
      BY <1>0, <2>1, <2>2, SleepersKept DEF SleepersOK
  <1>5. CASE HandleDispatchConnection
    <2>1. CASE Step(DispatchSleep)
      BY <2>1, SleepStarts
    <2>2. CASE ~Step(DispatchSleep)
      <3>1. sleepers' = sleepers
        <4>1. ~Crash
          BY DEF Crash
        <4>2. CASE CheckDeadlocks
          BY <1>0, <4>2, DetectionFrame DEF Inv
        <4>3. CASE ~CheckDeadlocks
          BY <1>5, <2>2, <4>1, <4>3
             DEF HandleDispatchConnection, Step, DispatchFinish, DispatchInterrupt,
                 RequeueInterrupted, DispatchInvalid, DispatchWaitGranted, LoadInstances,
                 DispatchWaitBlocked, BlockProcess, DispatchSignal, DispatchSignalUnheld,
                 StoreInstances, Respond, inert
        <4> QED
          BY <4>2, <4>3
      <3>2. Starting = {}
        <4>1. ASSUME NEW op, ReceivesFromCpu(op) PROVE Starting = {}
          BY <1>0, <4>1, Asking
        <4>2. pc["dispatch"] # "listen" => Starting = {}
          BY <1>0 DEF SleepersOK
        <4>3. CASE CheckDeadlocks
          BY <1>0, <4>2, <4>3, DetectionFrame DEF Inv, DetectLabel
        <4>4. CASE ~CheckDeadlocks
          BY <1>5, <4>1, <4>2, <4>4
             DEF HandleDispatchConnection, Step, DispatchFinish, DispatchInterrupt,
                 RequeueInterrupted, DispatchInvalid, DispatchWaitGranted, LoadInstances,
                 DispatchWaitBlocked, BlockProcess, DispatchSignal, DispatchSignalUnheld,
                 StoreInstances, Respond, DispatchSleep
        <4> QED
          BY <4>3, <4>4
      <3> QED
        BY <1>0, <3>1, <3>2, SleepersKept
    <2> QED
      BY <2>1, <2>2
  <1>6. CASE SleepThread
    <2> PICK s \in sleepers : Step(SleepArguments(s)) \/ Step(SleepPop(s)) \/ Step(SleepEnd(s))
      BY <1>6 DEF SleepThread
    <2>1. UNCHANGED pc
      BY <1>0, <1>6, SleepActs DEF locals
    <2>2. CASE Step(SleepPop(s))
      <3> DEFINE asleep == [s EXCEPT !.phase = "asleep"]
      <3>1. sleepers' = (sleepers \ {s}) \cup {asleep} /\ s \in Starting
        <4>1. ~Crash
          BY DEF Crash
        <4> QED
          BY <1>0, <2>2, <4>1 DEF Step, SleepPop, Starting
      <3>2. asleep.phase = "asleep"
        BY <1>0 DEF TypeOK, KernelTypeOK, Sleeper
      <3> HIDE DEF asleep
      <3>3. Starting' = {}
        BY <1>0, <3>1, <3>2 DEF Starting, SleepersOK
      <3> QED
        BY <3>3 DEF SleepersOK, KeepUp
    <2>3. CASE Step(SleepArguments(s))
      <3>1. PICK args \in {frame, 0} :
                sleepers' = (sleepers \ {s}) \cup {[s EXCEPT !.args = args, !.phase = "read"]}
        BY <2>3 DEF Step, SleepArguments
      <3> DEFINE read == [s EXCEPT !.args = args, !.phase = "read"]
      <3>2. /\ read.phase = "read" /\ read.args = args /\ read.key = s.key
            /\ s.args = s.key /\ s.phase = "start"
        BY <1>0, <2>3 DEF TypeOK, KernelTypeOK, Sleeper, SleepersOK, Step, SleepArguments
      <3>3. sleepers' = (sleepers \ {s}) \cup {read}
        BY <3>1
      <3> HIDE DEF read
      <3>4. Starting' = {read} /\ s \in Starting
        BY <1>0, <3>2, <3>3 DEF Starting, SleepersOK
      <3>5. read.args = s.args
        BY <3>2, <3>3 DEF KeepUp
      <3>6. UNCHANGED <<queue, heap>>
        BY <2>3 DEF Step, SleepArguments, memory
      <3> QED
        BY <1>0, <2>1, <3>4, <3>5, <3>6 DEF SleepersOK, KeepUp
    <2>4. CASE Step(SleepEnd(s))
      <3>1. /\ sleepers' = sleepers \ {s} /\ s.phase = "asleep" /\ Push(Ready, s.args)
            /\ s.args \in 1 .. Len(heap)
        <4>1. ~Crash
          BY DEF Crash
        <4> QED
          BY <1>0, <2>4, <4>1 DEF Step, SleepEnd, TypeOK, KernelTypeOK, SleepersOK
      <3>2. Starting' = Starting
        BY <3>1 DEF Starting
      <3>3. queue'[Exec] = queue[Exec]
        BY <1>0, <3>1, PushLength, Indices
      <3>4. \A u \in Starting : heap'[Head(queue[Exec])].pid = heap'[u.args].pid
        <4>1. Starting # {} => Head(queue[Exec]) \in 1 .. Len(heap)
          BY <1>0, QueueElements, Indices DEF SleepersOK
        <4> QED
          BY <1>0, <4>1 DEF TypeOK, KernelTypeOK, SleepersOK, HeapKept, Starting
      <3> QED
        BY <1>0, <2>1, <3>1, <3>2, <3>3, <3>4 DEF SleepersOK
    <2> QED
      BY <2>2, <2>3, <2>4
  <1>7. CASE ExecuteProcess \/ InterruptThread \/ UNCHANGED allVars
    <2>1. UNCHANGED <<sleepers, pc, queue>>
      BY <1>7 DEF ExecuteProcess, InterruptThread, CpuStep, kernelVars, allVars, vars
    <2> QED
      BY <1>0, <2>1, SleepersKept DEF SleepersOK
  <1> QED
    BY <1>1, <1>2, <1>3, <1>4, <1>5, <1>6, <1>7 DEF Next

-----------------------------------------------------------------------------
(***************************************************************************)
(* The locals of the dispatch thread                                       *)
(***************************************************************************)

\* They say the same of queues that have not changed.
LEMMA FinishKept ==
    ASSUME TypeOK, FinishOK, HeapKept,
           pc'["dispatch"] = pc["dispatch"], ptr'["dispatch"] = ptr["dispatch"],
           fin'["dispatch"] = fin["dispatch"], freed' = freed,
           \A r \in Resource : queue'[Blocked(r)] = queue[Blocked(r)]
    PROVE  FinishOK'
  <1> DEFINE f == fin["dispatch"]
  <1>0. LocalOK("dispatch") /\ "dispatch" \in Finisher /\ freed \subseteq 1 .. Len(heap)
    BY AccessType DEF TypeOK, KernelTypeOK
  <1>1. pc["dispatch"] \in {"get", "move", "drop"} => f.item \in Resource
    BY <1>0 DEF LocalOK, FinishLabel
  <1>2. ASSUME pc["dispatch"] = "drop"
        PROVE  heap'[f.waiter].pid \notin {heap'[p].pid : p \in freed}
    <2>1. f.waiter \in ToSet(queue[Blocked(f.item)]) /\ heap[f.waiter].pid \notin PidsOf(freed)
      BY <1>2 DEF FinishOK
    <2>2. f.waiter \in 1 .. Len(heap)
      <3>1. queue[Blocked(f.item)] \in Seq(1 .. Len(heap))
        BY <1>1, <1>2, Indices DEF TypeOK, KernelTypeOK
      <3> QED
        BY <2>1, <3>1, Queued
    <2>3. \A p \in freed : heap[p].pid # heap[f.waiter].pid
      BY <2>1 DEF PidsOf
    <2>4. \A p \in freed : heap'[p].pid # heap'[f.waiter].pid
      BY <1>0, <2>2, <2>3 DEF HeapKept
    <2> QED
      BY <2>4
  <1> QED
    BY <1>1, <1>2 DEF FinishOK, PidsOf

\* The search of finish_process ends at queue_exec, with the process that was
\* dispatched last: no other queue has one of that pid.
LEMMA FindsExec ==
    ASSUME Inv, Step(FindProcess("dispatch")), ~crashed'
    PROVE  \/ /\ fin["dispatch"].index \in {New, Ready}
              /\ fin' = [fin EXCEPT !["dispatch"].index = @ + 1]
              /\ UNCHANGED <<pc, ptr>>
           \/ /\ fin["dispatch"].index = Exec
              /\ ptr' = [ptr EXCEPT !["dispatch"] = LastExec]
              /\ Goto("dispatch", "inspect")
              /\ UNCHANGED fin
  <1> DEFINE f == fin["dispatch"]
             q == queue[f.index]
  <1>0. /\ TypeOK /\ ConsolesIdle /\ FinishOK /\ ~crashed
        /\ pc["dispatch"] = "find" /\ f.index \in {New, Ready, Exec}
    BY DEF Inv, Step, FindProcess, FinishOK
  <1>1. /\ Starting = {} /\ OnCpu /\ heap[LastExec].pid = f.pid
        /\ ToSet(queue[Exec]) = {LastExec} /\ Head(queue[Exec]) = LastExec
        /\ Len(queue[Exec]) = 1
    BY <1>0, Finishing, LastExecIs DEF Inv, Finding
  <1>2. \A i \in DOMAIN q : q[i] \in ToSet(q) /\ q[i] \notin freed
    <2>1. \A i \in DOMAIN q : q[i] \in ToSet(q)
      BY DEF ToSet
    <2> QED
      BY <1>0, <2>1, QueueLive, Indices DEF Live
  <1>3. CASE f.index \in {New, Ready}
    <2>1. f.index \in QueueIndex /\ f.index # Exec /\ f.index + 1 \in QueueIndex
      BY <1>3, Indices DEF New, Ready, Exec
    <2>2. PidsOf(ToSet(q)) \cap PidsOf(ToSet(queue[Exec])) = {}
      <3>1. QueuePids(f.index) \cap QueuePids(Exec) = {}
        BY <2>1, Places, Indices DEF Inv, OnePlace, Apart
      <3> QED
        BY <1>0, <3>1, DroppedFrom
    <2>3. \A i \in DOMAIN q : heap[q[i]].pid # f.pid
      BY <1>1, <1>2, <2>2 DEF PidsOf
    <2> QED
      BY <1>2, <1>3, <2>1, <2>3 DEF Step, FindProcess
  <1>4. CASE f.index = Exec
    <2>1. DOMAIN q = {1} /\ q[1] = LastExec
      <3>1. q \in Seq(1 .. Len(heap)) /\ q # <<>>
        BY <1>0, <1>1, <1>4, Indices, LastExecIs DEF Inv, TypeOK, KernelTypeOK
      <3>2. DOMAIN q = 1 .. 1 /\ Head(q) = q[1]
        BY <1>1, <1>4, <3>1, QueueElements
      <3> QED
        BY <1>1, <1>4, <3>2
    <2> QED
      BY <1>1, <1>2, <1>4, <2>1 DEF Step, FindProcess
  <1> QED
    BY <1>0, <1>3, <1>4

\* finish_process of the dispatch thread.
LEMMA FinishFinish ==
    ASSUME Inv, TypeOK', HeapKept, ~crashed', FinishProcess("dispatch")
    PROVE  FinishOK'
  <1> DEFINE f == fin["dispatch"]
             g == fin'["dispatch"]
             d == "dispatch"
  <1>0. /\ TypeOK /\ FinishOK /\ ConsolesIdle /\ LocalOK(d) /\ ~Crash
        /\ fin \in [Finisher -> Frame] /\ f \in Frame /\ d \in Finisher /\ d \in Thread
        /\ pc \in [Thread -> ConsoleLabel \cup DispatchLabel \cup ShortLabel \cup LongLabel]
        /\ ptr \in [Thread -> 0 .. Len(heap)]
        /\ queue \in [QueueIndex -> Seq(1 .. Len(heap))]
    BY AccessType DEF Inv, TypeOK, KernelTypeOK, Crash
  <1>1. CASE Step(FindProcess(d))
    <2>1. pc[d] = "find" /\ LastExec # 0
      <3>1. pc[d] = "find"
        BY <1>1 DEF Step, FindProcess
      <3>2. OnCpu
        BY <3>1, Finishing DEF Finding
      <3>3. LastExec \in 1 .. Len(heap)
        BY <1>0, <3>2, LastExecIs DEF Inv
      <3> QED
        BY <3>1, <3>3
    <2>2. CASE /\ f.index \in {New, Ready} /\ fin' = [fin EXCEPT ![d].index = @ + 1]
               /\ UNCHANGED <<pc, ptr>>
      <3>1. g.index = f.index + 1
        BY <1>0, <2>2 DEF Frame
      <3> QED
        BY <2>1, <2>2, <3>1 DEF FinishOK, Found, FinishLabel, New, Ready, Exec
    <2>3. CASE /\ f.index = Exec /\ ptr' = [ptr EXCEPT ![d] = LastExec]
               /\ Goto(d, "inspect") /\ UNCHANGED fin
      <3>1. pc'[d] = "inspect" /\ ptr'[d] = LastExec /\ g = f
        BY <1>0, <2>3 DEF Goto
      <3> QED
        BY <2>1, <2>3, <3>1 DEF FinishOK, Found, FinishLabel
    <2> QED
      BY <1>1, <2>2, <2>3, FindsExec
  <1>2. CASE Step(InspectState(d))
    <2>1. /\ pc[d] = "inspect" /\ pc'[d] = "mark" /\ ptr' = ptr
          /\ g.previous = heap[ptr[d]].state /\ g.index = f.index
      BY <1>0, <1>2 DEF Step, InspectState, Goto, Frame
    <2>2. heap[ptr[d]].state = "EXECUTION"
      BY <2>1, Finishing, LastExecIs DEF Inv, StateOK, Found, Finding
    <2>3. ptr[d] # 0 /\ f.index = Exec
      BY <1>0, <2>1 DEF FinishOK, FinishLabel, Found
    <2> QED
      BY <2>1, <2>2, <2>3 DEF FinishOK, Found, FinishLabel
  <1>3. CASE Step(MarkExit(d)) \/ Step(ReleaseResource(d)) \/ Step(CreditResource(d))
    <2>1. /\ pc[d] \in {"mark", "release", "credit"} /\ pc'[d] \in {"release", "credit", "unlink"}
          /\ ptr' = ptr /\ g.index = f.index /\ g.previous = f.previous
      BY <1>0, <1>3 DEF Step, MarkExit, ReleaseResource, CreditResource, Goto, Frame
    <2> QED
      BY <1>0, <2>1 DEF FinishOK, Found, FinishLabel
  <1>4. CASE \/ Step(UnlinkProcess(d)) \/ Step(CheckBlocked(d)) \/ Step(ContinueWaking(d))
             \/ Step(NotifyMemory(d)) \/ Step(CountWaiter(d))
    <2>1. /\ pc[d] \in {"unlink", "wake", "loop", "notify", "count"}
          /\ pc'[d] \in {"wake", "notify", "loop", "get", "settle"}
          /\ ptr' = ptr /\ g.previous = f.previous
          /\ pc'[d] = "loop" => g.position > 0
          /\ pc'[d] = "get" => /\ pc[d] = "loop" /\ g = f /\ queue' = queue
                               /\ f.position <= Len(queue[Blocked(f.item)])
      BY <1>0, <1>4
         DEF Step, UnlinkProcess, CheckBlocked, ContinueWaking, NotifyMemory, CountWaiter, Goto,
             Frame, FinishOK
    <2>2. pc'[d] = "get" => g.position \in DOMAIN queue'[Blocked(g.item)] /\ g.position > 0
      <3> SUFFICES ASSUME pc'[d] = "get"
                   PROVE  f.position \in DOMAIN queue[Blocked(f.item)] /\ f.position > 0
        BY <2>1
      <3>1. f.item \in Resource /\ f.position \in Nat /\ f.position > 0
        BY <1>0, <2>1 DEF LocalOK, FinishOK, Frame, FinishLabel
      <3>2. queue[Blocked(f.item)] \in Seq(1 .. Len(heap))
        BY <1>0, <3>1, Indices
      <3> QED
        BY <2>1, <3>1, <3>2, LenProperties
    <2> QED
      BY <1>0, <2>1, <2>2 DEF FinishOK, Found, FinishLabel
  <1>5. CASE Step(GetWaiter(d))
    <2> DEFINE q == queue[Blocked(f.item)]
    <2>1. f.position \in DOMAIN q /\ f.position > 0 /\ pc[d] = "get"
      BY <1>5 DEF Step, GetWaiter, FinishOK, Inv
    <2>2. /\ pc'[d] = "move" /\ ptr' = ptr /\ queue' = queue
          /\ g.previous = f.previous /\ g.item = f.item /\ g.position = f.position
          /\ g.waiter = q[f.position]
      BY <1>0, <1>5, <2>1 DEF Step, GetWaiter, Goto, Frame
    <2>3. q[f.position] \in ToSet(q)
      BY <2>1 DEF ToSet
    <2> QED
      BY <1>0, <2>1, <2>2, <2>3 DEF FinishOK, Found, FinishLabel
  <1>6. CASE Step(MoveWaiter(d))
    <2> DEFINE q == queue[Blocked(f.item)]
    <2>1. /\ pc[d] = "move" /\ pc'[d] = "drop" /\ ptr' = ptr /\ fin' = fin /\ freed' = freed
          /\ f.waiter \in ToSet(q) /\ f.item \in Resource
      BY <1>0, <1>6 DEF Step, MoveWaiter, Goto, FinishOK, LocalOK, FinishLabel
    <2>2. queue'[Blocked(f.item)] = q
      BY <1>0, <1>6, <2>1, Indices DEF Step, MoveWaiter, Push
    <2>3. f.waiter \in 1 .. Len(heap) /\ heap[f.waiter].pid \notin PidsOf(freed)
      BY <2>1, QueueLive, Indices
    <2>4. heap'[f.waiter].pid \notin {heap'[p].pid : p \in freed'}
      <3>1. \A p \in freed : heap[p].pid # heap[f.waiter].pid /\ p \in 1 .. Len(heap)
        BY <1>0, <2>3 DEF PidsOf, TypeOK, KernelTypeOK
      <3>2. \A p \in freed : heap'[p].pid # heap'[f.waiter].pid
        BY <2>3, <3>1 DEF HeapKept
      <3> QED
        BY <2>1, <3>2
    <2> QED
      BY <1>0, <2>1, <2>2, <2>4 DEF FinishOK, Found, FinishLabel, PidsOf
  <1>7. CASE Step(DropWaiter(d))
    <2>1. pc[d] = "drop" /\ pc'[d] = "count" /\ ptr' = ptr /\ fin' = fin
      BY <1>0, <1>7 DEF Step, DropWaiter, Goto
    <2> QED
      BY <1>0, <2>1 DEF FinishOK, Found, FinishLabel
  <1>8. CASE Step(Settle(d))
    <2>1. pc'[d] = "listen"
      BY <1>0, <1>8 DEF Step, Settle, Return, Goto
    <2> QED
      BY <2>1 DEF FinishOK, Found, FinishLabel
  <1>9. ~Step(FinishDangling(d))
    BY <1>0 DEF Step, FinishDangling
  <1> QED
    BY <1>1, <1>2, <1>3, <1>4, <1>5, <1>6, <1>7, <1>8, <1>9 DEF FinishProcess

\* A call of finish_process starts with the first queue.
LEMMA DispatchFinishes ==
    ASSUME Inv, TypeOK', HeapKept, ~crashed', HandleDispatchConnection
    PROVE  FinishOK'
  <1> DEFINE d == "dispatch"
  <1>0. /\ TypeOK /\ ~Crash /\ d \in Finisher /\ d \in Thread
        /\ fin \in [Finisher -> Frame] /\ fin[d] \in Frame
        /\ pc \in [Thread -> ConsoleLabel \cup DispatchLabel \cup ShortLabel \cup LongLabel]
    BY AccessType DEF Inv, TypeOK, KernelTypeOK, Crash
  <1>1. pc'[d] = "find" => fin'[d].index = New
    BY <1>0, DetectionFrame
       DEF HandleDispatchConnection, Step, DispatchFinish, DispatchInterrupt,
           RequeueInterrupted, DispatchInvalid, DispatchWaitGranted, LoadInstances,
           DispatchWaitBlocked, BlockProcess, DispatchSignal, DispatchSignalUnheld,
           StoreInstances, Respond, DispatchSleep, Finish, Return, Goto, Frame,
           ReceivesFromCpu, locals, DetectLabel
  <1>2. pc'[d] \in Serving \cup {"find"}
    BY <1>0, DispatchActs
  <1> QED
    BY <1>1, <1>2 DEF FinishOK, Found, FinishLabel, Serving, DetectLabel

\* Every step.
LEMMA FinishStep ==
    ASSUME Orderly, Inv, TypeOK', HeapKept, ~crashed', [Next]_allVars
    PROVE  FinishOK'
  <1>0. /\ TypeOK /\ FinishOK /\ ConsolesIdle /\ NoKill /\ "dispatch" \in Thread
        /\ \A c \in Console : c # "dispatch"
        /\ \A r \in Resource : Blocked(r) \in QueueIndex /\ Blocked(r) \notin {New, Ready, Exec}
    BY AccessType, Indices, ConsoleAssumption DEF Inv, Orderly
  <1>1. CASE \/ \E c \in Console : HandlerConnection(c)
             \/ LongTermPlanner \/ ShortTermPlanner \/ SleepThread
    <2>1. /\ pc'["dispatch"] = pc["dispatch"] /\ ptr'["dispatch"] = ptr["dispatch"]
          /\ fin' = fin /\ freed' = freed
          /\ \A i \in QueueIndex : i \notin {New, Ready, Exec} => queue'[i] = queue[i]
      BY <1>0, <1>1, ConsoleActs, LongActs, ShortActs, SleepActs DEF Acts, locals
    <2> QED
      BY <1>0, <2>1, FinishKept
  <1>2. CASE ExecuteProcess \/ InterruptThread \/ UNCHANGED allVars
    <2>1. UNCHANGED <<pc, ptr, fin, freed, queue>>
      BY <1>2 DEF ExecuteProcess, InterruptThread, CpuStep, kernelVars, allVars, vars
    <2> QED
      BY <1>0, <2>1, FinishKept
  <1> QED
    BY <1>0, <1>1, <1>2, FinishFinish, DispatchFinishes, OnlyDispatch DEF Next

-----------------------------------------------------------------------------
(***************************************************************************)
(* What check_deadlocks has read                                           *)
(***************************************************************************)

\* The detector is at rest outside its labels.
LEMMA DetectRests ==
    ASSUME DetectOK, detector' = detector,
           pc["dispatch"] \notin DetectLabel, pc'["dispatch"] \notin DetectLabel
    PROVE  DetectOK'
  BY DEF DetectOK, DetectLabel

\* At its labels, what it has read is still so when no blocked queue changes.
LEMMA DetectKept ==
    ASSUME TypeOK, DetectOK, detector' = detector,
           pc'["dispatch"] = pc["dispatch"], ptr'["dispatch"] = ptr["dispatch"],
           fin'["dispatch"] = fin["dispatch"],
           \A r \in Resource : queue'[Blocked(r)] = queue[Blocked(r)]
    PROVE  DetectOK'
  <1>1. /\ pc["dispatch"] \in DetectLabel => fin["dispatch"].item \in Resource
        /\ pc["dispatch"] \in DetectLabel \ {"require", "scan"} => detector.list \in Resource
    BY DEF TypeOK, KernelTypeOK, LocalOK, DetectOK, Thread, Finisher
  <1> QED
    BY <1>1 DEF DetectOK, DetectLabel

\* A step of check_deadlocks.
LEMMA DetectSteps ==
    ASSUME Inv, ~crashed', CheckDeadlocks
    PROVE  DetectOK'
  <1> DEFINE t == "dispatch"
             d == detector
             item == fin[t].item
  <1>0. /\ TypeOK /\ DetectOK /\ LocalOK(t) /\ t \in Thread /\ ~Crash
        /\ pc \in [Thread -> ConsoleLabel \cup DispatchLabel \cup ShortLabel \cup LongLabel]
        /\ pc[t] \in DetectLabel /\ queue' = queue /\ d \in Detector
    BY DetectionFrame, AccessType DEF Inv, TypeOK, KernelTypeOK, Crash
  <1>1. item \in Resource /\ ptr[t] \in ToSet(queue[Blocked(item)]) /\ item \in Nat /\ item > 0
    BY <1>0 DEF DetectOK, Resource
  <1>2. CASE Step(WalkBlockedQueues)
    <2>1. /\ pc[t] \in {"require", "logChecked", "logEvaluated"} /\ Missed
          /\ d' = [d EXCEPT !.walk = @ + 1] /\ UNCHANGED <<pc, ptr, fin>>
      BY <1>2 DEF Step, WalkBlockedQueues, locals
    <2>2. ~Hit
      BY <2>1 DEF Hit, Missed, ToSet
    <2>3. d.walk \in 1 .. Home /\ d.walk # Home /\ Home \in Nat
      BY <2>1, <2>2, Searching DEF Resource
    <2>4. d.walk + 1 \in 1 .. Home
      BY <2>3
    <2>5. /\ d'.walk = d.walk + 1 /\ d'.required = d.required /\ d'.list = d.list
          /\ d'.size = d.size /\ d'.position = d.position /\ d'.evaluated = d.evaluated
      BY <1>0, <2>1 DEF Detector
    <2> QED
      BY <1>0, <1>1, <2>1, <2>4, <2>5 DEF DetectOK, Home, DetectLabel
  <1>3. CASE Step(GetRequiredResource)
    <2>1. /\ pc[t] = "require" /\ pc'[t] = "scan" /\ UNCHANGED <<ptr, fin>>
          /\ \/ Hit /\ d' = [NoDetector EXCEPT !.required = d.walk]
             \/ d.walk \notin Resource
      BY <1>0, <1>3 DEF Step, GetRequiredResource, Goto
    <2>2. d.walk = item /\ d' = [NoDetector EXCEPT !.required = d.walk]
      BY <2>1, Searching DEF Home
    <2>3. d'.required = item
      BY <2>2 DEF NoDetector
    <2> QED
      BY <1>1, <1>0, <2>1, <2>3 DEF DetectOK, DetectLabel
  <1>4. CASE Step(ReadQueueSize)
    <2>1. CASE d.list \in Resource
      <3>1. /\ pc[t] = "scan" /\ pc'[t] = "evaluate" /\ UNCHANGED <<ptr, fin>>
            /\ d'.required = d.required /\ d'.list = d.list /\ d'.position = 1
            /\ d'.size = Len(queue[Blocked(d.list)])
        BY <1>0, <1>4, <2>1 DEF Step, ReadQueueSize, Goto, Detector
      <3> QED
        BY <1>0, <1>1, <3>1 DEF DetectOK, DetectLabel
    <2>2. CASE d.list \notin Resource
      <3>1. pc'[t] = "listen" /\ d' = NoDetector
        BY <1>0, <1>4, <2>2 DEF Step, ReadQueueSize, Return, Goto
      <3> QED
        BY <3>1 DEF DetectOK, DetectLabel
    <2> QED
      BY <2>1, <2>2
  <1>5. CASE Step(GetEvaluated)
    <2> DEFINE q == queue[Blocked(d.list)]
    <2>1. /\ pc[t] = "evaluate" /\ UNCHANGED <<ptr, fin>> /\ d.list \in Resource
          /\ d.size = Len(q) /\ d.position > 0 /\ d.required = item
      BY <1>0, <1>5 DEF Step, GetEvaluated, DetectOK, LocalOK, DetectLabel
    <2>2. q \in Seq(1 .. Len(heap)) /\ d.position \in Nat
      BY <1>0, <2>1, Indices DEF TypeOK, KernelTypeOK, Detector
    <2>3. CASE d.position <= d.size
      <3>1. d.position \in DOMAIN q
        BY <2>1, <2>2, <2>3, LenProperties
      <3>2. /\ pc'[t] = "retain" /\ d'.required = d.required /\ d'.list = d.list
            /\ d'.size = d.size /\ d'.position = d.position /\ d'.evaluated = q[d.position]
        BY <1>0, <1>5, <2>3, <3>1 DEF Step, GetEvaluated, Goto, Detector
      <3> QED
        BY <1>0, <1>1, <2>1, <3>1, <3>2 DEF DetectOK, DetectLabel
    <2>4. CASE ~(d.position <= d.size)
      <3>1. pc'[t] = "scan" /\ d'.required = d.required
        BY <1>0, <1>5, <2>4 DEF Step, GetEvaluated, Goto, Detector
      <3> QED
        BY <1>0, <1>1, <2>1, <3>1 DEF DetectOK, DetectLabel
    <2> QED
      BY <2>3, <2>4
  <1>6. CASE Step(FindRetained)
    <2>1. /\ pc[t] = "retain" /\ UNCHANGED <<ptr, fin>>
          /\ d'.required = d.required /\ d'.list = d.list /\ d'.size = d.size
          /\ d'.evaluated = d.evaluated
          /\ \/ pc'[t] = "logChecked" /\ d'.walk = 1 /\ d'.position = d.position
             \/ pc'[t] = "evaluate" /\ d'.position = d.position + 1
      BY <1>0, <1>6 DEF Step, FindRetained, Goto, Detector
    <2>2. d.position \in Nat
      BY <1>0 DEF Detector
    <2> QED
      BY <1>0, <1>1, <2>1, <2>2 DEF DetectOK, DetectLabel
  <1>7. CASE Step(LogDeadlock)
    <2>1. /\ UNCHANGED <<ptr, fin>>
          /\ d'.required = d.required /\ d'.list = d.list /\ d'.size = d.size
          /\ d'.evaluated = d.evaluated
          /\ \/ /\ pc[t] = "logChecked" /\ pc'[t] = "logEvaluated"
                /\ d'.walk = 1 /\ d'.position = d.position
             \/ /\ pc[t] = "logEvaluated" /\ pc'[t] = "evaluate"
                /\ d'.position = d.position + 1
      BY <1>0, <1>7 DEF Step, LogDeadlock, Goto, Detector
    <2>2. d.position \in Nat /\ d.list \in Resource /\ d.list \in Nat /\ d.list > 0
      BY <1>0, <2>1 DEF Detector, LocalOK, DetectLabel, Resource
    <2> QED
      BY <1>0, <1>1, <2>1, <2>2 DEF DetectOK, DetectLabel
  <1>8. ~Step(DetectorDangling)
    BY <1>0 DEF Step, DetectorDangling
  <1> QED
    BY <1>2, <1>3, <1>4, <1>5, <1>6, <1>7, <1>8 DEF CheckDeadlocks

\* A WAIT that blocks leaves its process on the queue it names; the other steps of
\* the dispatch thread leave the detector at rest.
LEMMA DispatchDetects ==
    ASSUME Inv, TypeOK', ~crashed', HandleDispatchConnection
    PROVE  DetectOK'
  <1> DEFINE t == "dispatch"
             f == fin[t]
  <1>0. /\ TypeOK /\ DetectOK /\ LocalOK(t) /\ ~Crash /\ t \in Thread
        /\ pc \in [Thread -> ConsoleLabel \cup DispatchLabel \cup ShortLabel \cup LongLabel]
        /\ queue \in [QueueIndex -> Seq(1 .. Len(heap))]
    BY AccessType DEF Inv, TypeOK, KernelTypeOK, Crash
  <1>1. CASE Step(BlockProcess)
    <2>1. /\ pc[t] = "block" /\ pc'[t] = "require" /\ fin' = fin /\ ptr' = ptr
          /\ Push(Blocked(f.item), ptr[t]) /\ f.item \in Resource /\ ptr[t] # 0
          /\ detector' = detector
      BY <1>0, <1>1 DEF Step, BlockProcess, Goto, LocalOK, inert, idle
    <2>2. ptr[t] \in ToSet(queue'[Blocked(f.item)])
      <3> DEFINE q == queue[Blocked(f.item)]
      <3>1. ptr[t] \in 1 .. Len(heap) /\ q \in Seq(1 .. Len(heap)) /\ Blocked(f.item) \in QueueIndex
        BY <1>0, <2>1, AccessType, Indices
      <3>2. queue'[Blocked(f.item)] = Append(q, ptr[t])
        BY <1>0, <2>1, <3>1 DEF Push
      <3> QED
        BY <3>1, <3>2, AppendElements
    <2>3. detector.walk = 1 /\ 1 \in 1 .. f.item
      BY <1>0, <2>1 DEF DetectOK, DetectLabel, NoDetector, Resource
    <2> QED
      BY <2>1, <2>2, <2>3 DEF DetectOK, DetectLabel
  <1>2. CASE ~Step(BlockProcess) /\ ~CheckDeadlocks
    <2>1. detector' = detector
      BY <1>0, <1>2
         DEF HandleDispatchConnection, Step, DispatchFinish, DispatchInterrupt,
             RequeueInterrupted, DispatchInvalid, DispatchWaitGranted, LoadInstances,
             DispatchWaitBlocked, DispatchSignal, DispatchSignalUnheld, StoreInstances,
             Respond, DispatchSleep, inert, idle
    <2>2. pc[t] \notin DetectLabel /\ pc'[t] \notin DetectLabel
      BY <1>0, <1>2
         DEF HandleDispatchConnection, Step, DispatchFinish, DispatchInterrupt,
             RequeueInterrupted, DispatchInvalid, DispatchWaitGranted, LoadInstances,
             DispatchWaitBlocked, DispatchSignal, DispatchSignalUnheld, StoreInstances,
             Respond, DispatchSleep, Finish, Goto, ReceivesFromCpu, locals, DetectLabel
    <2> QED
      BY <1>0, <2>1, <2>2, DetectRests
  <1> QED
    BY <1>1, <1>2, DetectSteps

\* Every step.
LEMMA DetectStep ==
    ASSUME Orderly, Inv, TypeOK', ~crashed', [Next]_allVars
    PROVE  DetectOK'
  <1>0. /\ TypeOK /\ DetectOK /\ FinishOK /\ ConsolesIdle /\ NoKill /\ "dispatch" \in Thread
        /\ \A c \in Console : c # "dispatch"
        /\ \A r \in Resource : Blocked(r) \in QueueIndex /\ Blocked(r) \notin {New, Ready, Exec}
    BY AccessType, Indices, ConsoleAssumption DEF Inv, Orderly
  <1>1. CASE \/ \E c \in Console : HandlerConnection(c)
             \/ LongTermPlanner \/ ShortTermPlanner \/ SleepThread
    <2>1. /\ pc'["dispatch"] = pc["dispatch"] /\ ptr'["dispatch"] = ptr["dispatch"]
          /\ fin' = fin /\ detector' = detector
          /\ \A i \in QueueIndex : i \notin {New, Ready, Exec} => queue'[i] = queue[i]
      BY <1>0, <1>1, ConsoleActs, LongActs, ShortActs, SleepActs DEF Acts, locals, idle
    <2> QED
      BY <1>0, <2>1, DetectKept
  <1>2. CASE ExecuteProcess \/ InterruptThread \/ UNCHANGED allVars
    <2>1. UNCHANGED <<pc, ptr, fin, detector, queue>>
      BY <1>2 DEF ExecuteProcess, InterruptThread, CpuStep, kernelVars, allVars, vars
    <2> QED
      BY <1>0, <2>1, DetectKept
  <1>3. CASE \E t \in Finisher : FinishProcess(t)
    <2>1. /\ pc["dispatch"] \in FinishLabel /\ pc'["dispatch"] \in FinishLabel \cup {"listen"}
          /\ detector' = detector
      BY <1>0, <1>3, OnlyDispatch, FinishActs DEF idle
    <2> QED
      BY <1>0, <2>1, DetectRests DEF FinishLabel, DetectLabel
  <1> QED
    BY <1>1, <1>2, <1>3, DispatchDetects DEF Next

-----------------------------------------------------------------------------
(***************************************************************************)
(* Processes that execute                                                  *)
(***************************************************************************)

\* The processes of queue_exec and the one about to join it keep their state.
LEMMA StateKept ==
    ASSUME TypeOK, StateOK, HeapKept,
           ToSet(queue'[Exec]) \subseteq ToSet(queue[Exec]),
           pc'["short"] = "push" => pc["short"] = "push" /\ ptr'["short"] = ptr["short"],
           \/ pc'["dispatch"] = pc["dispatch"]
           \/ pc'["dispatch"] \in {"release", "credit", "unlink"}
           \/ pc["dispatch"] \notin {"release", "credit", "unlink"},
           \A p \in ToSet(queue[Exec]) :
               heap'[p].state = heap[p].state \/ pc'["dispatch"] = "release",
           pc["short"] = "push" => heap'[ptr["short"]].state = heap[ptr["short"]].state
    PROVE  StateOK'
  BY DEF StateOK

\* A state is only written of a process that does not execute, but for EXIT.
LEMMA ElsewhereKept ==
    ASSUME Inv, NEW p \in 1 .. Len(heap), NEW place \in Place,
           heap[p].pid \in PidsAt(place),
           place # <<"queue", Exec>>, place # <<"thread", "short">>,
           \A q \in 1 .. Len(heap) : q # p => heap'[q] = heap[q]
    PROVE  /\ \A q \in ToSet(queue[Exec]) : heap'[q] = heap[q]
           /\ pc["short"] = "push" => heap'[ptr["short"]] = heap[ptr["short"]]
  <1>1. \A q \in ToSet(queue[Exec]) : q \in 1 .. Len(heap) /\ q # p
    <2>1. ToSet(queue[Exec]) \subseteq 1 .. Len(heap)
      <3>1. queue[Exec] \in Seq(1 .. Len(heap))
        BY Indices DEF Inv, TypeOK, KernelTypeOK
      <3> QED
        BY <3>1, Queued
    <2>2. PidsOf(ToSet(queue[Exec])) \cap PidsAt(place) = {}
      <3>1. <<"queue", Exec>> \in Place /\ PidsAt(<<"queue", Exec>>) = QueuePids(Exec)
        BY Places, Indices
      <3>2. QueuePids(Exec) = PidsOf(ToSet(queue[Exec]))
        BY DroppedFrom DEF Inv
      <3>3. PidsAt(<<"queue", Exec>>) \cap PidsAt(place) = {}
        BY <3>1 DEF Inv, OnePlace, Apart
      <3> QED
        BY <3>1, <3>2, <3>3
    <2> QED
      BY <2>1, <2>2 DEF PidsOf
  <1>2. pc["short"] = "push" => ptr["short"] \in 1 .. Len(heap) /\ ptr["short"] # p
    <2> SUFFICES ASSUME pc["short"] = "push" PROVE ptr["short"] \in 1 .. Len(heap) /\ ptr["short"] # p
      OBVIOUS
    <2>1. "short" \in Thread /\ <<"thread", "short">> \in Place
      BY AccessType, Places DEF Inv
    <2>2. ptr["short"] \in 1 .. Len(heap) /\ ThreadPids("short") = {heap[ptr["short"]].pid}
      BY <2>1, CarriesOne DEF Inv, Carrying
    <2>3. ThreadPids("short") \cap PidsAt(place) = {}
      BY <2>1, Places DEF Inv, OnePlace, Apart
    <2> QED
      BY <2>2, <2>3
  <1> QED
    BY <1>1, <1>2

\* Every step.
LEMMA StateStep ==
    ASSUME Orderly, Inv, KeepUp, TypeOK', HeapKept, ~crashed', [Next]_allVars
    PROVE  StateOK'
  <1>0. /\ TypeOK /\ StateOK /\ ConsolesIdle /\ FinishOK /\ SleepersOK /\ NoKill /\ ~Crash
        /\ {"dispatch", "long", "short"} \subseteq Thread
        /\ \A c \in Console : c # "dispatch" /\ c # "long" /\ c # "short"
        /\ queue \in [QueueIndex -> Seq(1 .. Len(heap))]
        /\ heap \in Seq(PCB) /\ Len(heap) \in Nat
        /\ ToSet(queue[Exec]) \subseteq 1 .. Len(heap)
    <2>1. queue \in [QueueIndex -> Seq(1 .. Len(heap))]
      BY DEF Inv, TypeOK, KernelTypeOK
    <2>2. ToSet(queue[Exec]) \subseteq 1 .. Len(heap)
      BY <2>1, Indices, Queued
    <2> QED
      BY <2>1, <2>2, AccessType, ConsoleAssumption DEF Inv, Orderly, TypeOK, KernelTypeOK, Crash
  <1>a. pc["short"] = "push" => ptr["short"] \in 1 .. Len(heap)
    BY <1>0, CarriesOne DEF Carrying
  <1>b. ASSUME NEW pcb \in PCB, heap' = Append(heap, pcb)
        PROVE  /\ \A q \in ToSet(queue[Exec]) : heap'[q] = heap[q]
               /\ pc["short"] = "push" => heap'[ptr["short"]] = heap[ptr["short"]]
    BY <1>0, <1>a, <1>b, AllocateKept
  <1>1. CASE \E c \in Console : HandlerConnection(c)
    <2> PICK c \in Console : HandlerConnection(c)
      BY <1>1
    <2>1. /\ pc'["short"] = pc["short"] /\ ptr'["short"] = ptr["short"]
          /\ pc'["dispatch"] = pc["dispatch"] /\ queue'[Exec] = queue[Exec]
          /\ ~ReceiveFinishProcess(c)
      BY <1>0, ConsoleActs, Indices
    <2>2. heap' = heap \/ \E pcb \in PCB : heap' = Append(heap, pcb)
      <3>1. CASE Step(ReceiveCreateProcess(c))
        <4>1. Received(c).path \in Path
          BY <1>0, <3>1, ReceivedType DEF Step, ReceiveCreateProcess, Command
        <4>0. idToAssign \in Nat
          BY <1>0 DEF TypeOK, KernelTypeOK
        <4>2. [pid |-> idToAssign, path |-> Received(c).path, counter |-> 0,
               resources |-> <<>>, state |-> "NEW"] \in PCB
          BY <4>0, <4>1, EmptySeq DEF PCB, ProcessState
        <4> QED
          BY <3>1, <4>2 DEF Step, ReceiveCreateProcess
      <3>2. CASE ~Step(ReceiveCreateProcess(c))
        BY <2>1, <3>2
           DEF HandlerConnection, Step, IncrementId, CreateInMemory, MoveProcessToNew,
               StopPlanning, StopShortTerm, StopLongTerm, StartPlanning, ModifyDegree, memory
      <3> QED
        BY <3>1, <3>2
    <2> QED
      BY <1>0, <1>b, <2>1, <2>2, StateKept
  <1>2. CASE \E t \in Finisher : FinishProcess(t)
    <2>0. FinishProcess("dispatch") /\ "dispatch" \in Finisher /\ LocalOK("dispatch")
      BY <1>0, <1>2, OnlyDispatch, AccessType DEF TypeOK, KernelTypeOK
    <2>1. pc'["short"] = pc["short"] /\ ptr'["short"] = ptr["short"]
      BY <1>0, <2>0, FinishActs
    <2>2. CASE Step(MarkExit("dispatch"))
      <3>1. pc["dispatch"] = "mark" /\ pc'["dispatch"] = "release" /\ queue' = queue
        BY <1>0, <2>2 DEF Step, MarkExit, Goto, TypeOK, KernelTypeOK
      <3>2. pc["short"] # "push"
        BY <3>1, Finishing DEF Finding, Found, ShortLabels
      <3> QED
        BY <1>0, <2>1, <3>1, <3>2, StateKept
    <2>3. CASE Step(MoveWaiter("dispatch"))
      <3> DEFINE w == fin["dispatch"].waiter
                 b == Blocked(fin["dispatch"].item)
      <3>1. /\ pc["dispatch"] = "move" /\ pc'["dispatch"] = "drop" /\ SetState(w, "READY")
            /\ queue'[Exec] = queue[Exec] /\ fin["dispatch"].item \in Resource
            /\ w \in ToSet(queue[b])
        BY <1>0, <2>0, <2>3, Indices
           DEF Step, MoveWaiter, Goto, Push, LocalOK, FinishLabel, FinishOK, TypeOK, KernelTypeOK
      <3>2. b \in QueueIndex /\ b # Exec /\ w \in 1 .. Len(heap)
        BY <3>1, QueueLive, Indices
      <3>3. heap[w].pid \in PidsAt(<<"queue", b>>) /\ <<"queue", b>> \in Place
        <4>1. PidsAt(<<"queue", b>>) = QueuePids(b) /\ <<"queue", b>> \in Place
          BY <3>2, Places
        <4>2. QueuePids(b) = PidsOf(ToSet(queue[b]))
          BY <1>0, <3>1, DroppedFrom
        <4> QED
          BY <3>1, <4>1, <4>2 DEF PidsOf
      <3>4. \A q \in 1 .. Len(heap) : q # w => heap'[q] = heap[q]
        BY <1>0, <3>1, <3>2, WriteKept
      <3> HIDE DEF w, b
      <3>5. <<"queue", b>> # <<"queue", Exec>> /\ <<"queue", b>> # <<"thread", "short">>
        BY <3>2
      <3>6. /\ \A q \in ToSet(queue[Exec]) : heap'[q] = heap[q]
            /\ pc["short"] = "push" => heap'[ptr["short"]] = heap[ptr["short"]]
        BY <3>2, <3>3, <3>4, <3>5, ElsewhereKept
      <3> QED
        BY <1>0, <2>1, <3>1, <3>6, StateKept
    <2>4. CASE Step(UnlinkProcess("dispatch"))
      <3>1. /\ pc["dispatch"] = "unlink" /\ heap' = heap
            /\ queue'[Exec] = RemoveFirst(queue[Exec], LastExec)
        BY <1>0, <2>4, Indices, Finishing
           DEF Step, UnlinkProcess, memory, Found, Finding, FinishOK
      <3>2. ToSet(queue[Exec]) = {LastExec} /\ EachOnce(heap, queue[Exec]) /\ pc["short"] # "push"
        BY <3>1, Finishing, LastExecIs, Indices DEF Found, Finding, Inv, OnePlace, ShortLabels
      <3>3. ToSet(queue'[Exec]) = ToSet(queue[Exec]) \ {LastExec}
        <4>1. queue[Exec] \in Seq(1 .. Len(heap)) /\ LastExec \in ToSet(queue[Exec])
          BY <1>0, <3>2, Indices
        <4> HIDE DEF LastExec
        <4> QED
          BY <3>1, <3>2, <4>1, RemoveOnce
      <3>4. ToSet(queue'[Exec]) = {}
        BY <3>2, <3>3
      <3> QED
        BY <2>1, <3>2, <3>4 DEF StateOK
    <2>5. CASE /\ ~Step(MarkExit("dispatch")) /\ ~Step(MoveWaiter("dispatch"))
               /\ ~Step(UnlinkProcess("dispatch"))
      <3>1. /\ heap' = heap
            /\ \/ pc'["dispatch"] = pc["dispatch"]
               \/ pc'["dispatch"] \in {"release", "credit", "unlink"}
               \/ pc["dispatch"] \notin {"release", "credit", "unlink"}
        BY <1>0, <2>0, <2>5
           DEF FinishProcess, Step, FindProcess, InspectState, ReleaseResource, CreditResource,
               CheckBlocked, ContinueWaking, GetWaiter, DropWaiter, CountWaiter, NotifyMemory,
               Settle, FinishDangling, Goto, Return, memory, TypeOK, KernelTypeOK
      <3>2. queue'[Exec] = queue[Exec]
        <4>1. pc["dispatch"] = "drop" => fin["dispatch"].item \in Resource
          BY <2>0 DEF LocalOK, FinishLabel
        <4> QED
          BY <1>0, <2>0, <2>5, <4>1, Indices
             DEF FinishProcess, Step, FindProcess, InspectState, ReleaseResource, CreditResource,
                 CheckBlocked, ContinueWaking, GetWaiter, DropWaiter, CountWaiter, NotifyMemory,
                 Settle, FinishDangling
      <3> QED
        BY <1>0, <2>1, <3>1, <3>2, StateKept
    <2> QED
      BY <2>2, <2>3, <2>4, <2>5
  <1>3. CASE LongTermPlanner
    <2>1. /\ pc'["short"] = pc["short"] /\ ptr'["short"] = ptr["short"]
          /\ pc'["dispatch"] = pc["dispatch"] /\ queue'[Exec] = queue[Exec]
      BY <1>0, <1>3, LongActs, Indices DEF Acts
    <2>2. CASE Step(LongPopNew)
      <3> DEFINE p == Head(queue[New])
      <3>1. SetState(p, "READY") /\ p \in ToSet(queue[New]) /\ p \in 1 .. Len(heap)
        BY <1>0, <2>2, HeadLive, QueueLive, Indices DEF Step, LongPopNew
      <3>2. heap[p].pid \in PidsAt(<<"queue", New>>) /\ <<"queue", New>> \in Place
        BY <1>0, <3>1, DroppedFrom, Places, Indices DEF PidsOf
      <3>3. \A q \in 1 .. Len(heap) : q # p => heap'[q] = heap[q]
        BY <1>0, <3>1, WriteKept
      <3> HIDE DEF p
      <3>4. <<"queue", New>> # <<"queue", Exec>> /\ <<"queue", New>> # <<"thread", "short">>
        BY Indices
      <3>5. /\ \A q \in ToSet(queue[Exec]) : heap'[q] = heap[q]
            /\ pc["short"] = "push" => heap'[ptr["short"]] = heap[ptr["short"]]
        BY <3>1, <3>2, <3>3, <3>4, ElsewhereKept
      <3> QED
        BY <1>0, <2>1, <3>5, StateKept
    <2>3. CASE ~Step(LongPopNew)
      <3>1. heap' = heap
        BY <1>3, <2>3
           DEF LongTermPlanner, Step, LongWaitPlanner, LongWaitDegree, LongPushReady, memory
      <3> QED
        BY <1>0, <2>1, <3>1, StateKept
    <2> QED
      BY <2>2, <2>3
  <1>4. CASE ShortTermPlanner
    <2>1. pc'["dispatch"] = pc["dispatch"]
      BY <1>0, <1>4, ShortActs DEF Acts
    <2>2. CASE Step(ShortPopReady)
      <3> DEFINE p == Head(queue[Ready])
      <3>1. /\ SetState(p, "EXECUTION") /\ p \in ToSet(queue[Ready]) /\ p \in 1 .. Len(heap)
            /\ queue'[Exec] = queue[Exec] /\ ptr'["short"] = p /\ pc'["short"] = "push"
        BY <1>0, <2>2, HeadLive, QueueLive, Indices
           DEF Step, ShortPopReady, Pop, Goto, TypeOK, KernelTypeOK
      <3>2. heap[p].pid \in PidsAt(<<"queue", Ready>>) /\ <<"queue", Ready>> \in Place
        BY <1>0, <3>1, DroppedFrom, Places, Indices DEF PidsOf
      <3>3. /\ \A q \in 1 .. Len(heap) : q # p => heap'[q] = heap[q]
            /\ heap'[p].state = "EXECUTION"
        BY <1>0, <3>1, WriteKept
      <3> HIDE DEF p
      <3>4. <<"queue", Ready>> # <<"queue", Exec>> /\ <<"queue", Ready>> # <<"thread", "short">>
        BY Indices
      <3>5. \A q \in ToSet(queue[Exec]) : heap'[q] = heap[q]
        BY <3>1, <3>2, <3>3, <3>4, ElsewhereKept
      <3> QED
        BY <1>0, <2>1, <3>1, <3>3, <3>5 DEF StateOK
    <2>3. CASE Step(ShortPushExec)
      <3>1. /\ Push(Exec, ptr["short"]) /\ pc["short"] = "push" /\ pc'["short"] = "send"
            /\ heap' = heap
        BY <1>0, <2>3 DEF Step, ShortPushExec, Goto, memory, TypeOK, KernelTypeOK
      <3>2. queue'[Exec] = Append(queue[Exec], ptr["short"])
        BY <1>0, <3>1, Indices DEF Push
      <3>3. ToSet(queue'[Exec]) = ToSet(queue[Exec]) \cup {ptr["short"]}
        <4>1. queue[Exec] \in Seq(1 .. Len(heap)) /\ ptr["short"] \in 1 .. Len(heap)
          BY <1>0, <1>a, <3>1, Indices
        <4> QED
          BY <3>2, <4>1, AppendElements
      <3> QED
        BY <1>0, <2>1, <3>1, <3>3 DEF StateOK
    <2>4. CASE ~Step(ShortPopReady) /\ ~Step(ShortPushExec)
      <3> DEFINE Quiet == heap' = heap /\ queue'[Exec] = queue[Exec] /\ pc'["short"] # "push"
      <3>1. ASSUME Step(SortQueue) PROVE Quiet
        BY <1>0, <3>1, Indices DEF Step, SortQueue, Goto, memory, TypeOK, KernelTypeOK
      <3>2. ASSUME ~Step(SortQueue) PROVE Quiet
        BY <1>0, <1>4, <2>4, <3>2
           DEF ShortTermPlanner, Step, ShortWaitPlanner, ShortWaitReady, ShortWaitCpu, ShortWait,
               DispatchProcess, InterruptProcess, Goto, memory, TypeOK, KernelTypeOK
      <3>3. Quiet
        BY <3>1, <3>2
      <3> QED
        BY <1>0, <2>1, <3>3, StateKept
    <2> QED
      BY <2>2, <2>3, <2>4
  <1>p. Pop(Exec) => ToSet(queue'[Exec]) \subseteq ToSet(queue[Exec])
    <2>1. queue[Exec] \in Seq(1 .. Len(heap)) /\ EachOnce(heap, queue[Exec])
      BY <1>0, Indices DEF Inv, OnePlace
    <2>2. Pop(Exec) => queue'[Exec] = Rest(queue[Exec])
      BY <1>0, Indices DEF Pop
    <2>3. CASE queue[Exec] # <<>>
      BY <2>1, <2>2, <2>3, PopOnce
    <2>4. CASE queue[Exec] = <<>>
      BY <2>2, <2>4 DEF Rest
    <2> QED
      BY <2>3, <2>4
  <1>5. CASE HandleDispatchConnection
    <2>1. /\ pc'["short"] = pc["short"] /\ ptr'["short"] = ptr["short"]
          /\ pc["dispatch"] \notin {"release", "credit", "unlink"}
      BY <1>0, <1>5, DispatchActs DEF Serving, DetectLabel
    <2>2. CASE Step(BlockProcess)
      <3> DEFINE p == ptr["dispatch"]
                 b == Blocked(fin["dispatch"].item)
      <3>1. /\ SetState(p, "BLOCKED") /\ pc["dispatch"] = "block" /\ Push(b, p)
            /\ fin["dispatch"].item \in Resource
        BY <1>0, <2>2 DEF Step, BlockProcess, LocalOK, TypeOK, KernelTypeOK
      <3>2. p \in 1 .. Len(heap) /\ ThreadPids("dispatch") = {heap[p].pid}
        BY <1>0, <3>1, CarriesOne DEF Carrying
      <3>3. heap[p].pid \in PidsAt(<<"thread", "dispatch">>) /\ <<"thread", "dispatch">> \in Place
        BY <1>0, <3>2, Places
      <3>4. \A q \in 1 .. Len(heap) : q # p => heap'[q] = heap[q]
        BY <1>0, <3>1, <3>2, WriteKept
      <3>5. queue'[Exec] = queue[Exec]
        BY <1>0, <3>1, Indices DEF Push
      <3> HIDE DEF p
      <3>6. /\ \A q \in ToSet(queue[Exec]) : heap'[q] = heap[q]
            /\ pc["short"] = "push" => heap'[ptr["short"]] = heap[ptr["short"]]
        BY <3>2, <3>3, <3>4, ElsewhereKept
      <3> QED
        BY <1>0, <2>1, <3>5, <3>6, StateKept
    <2>3. CASE ~Step(BlockProcess)
      <3>1. heap' = heap \/ \E pcb \in PCB : heap' = Append(heap, pcb)
        <4>1. CASE Step(DispatchInterrupt) \/ Step(DispatchSleep)
          <5>1. Arrived.pcb \in PCB /\ [Arrived.pcb EXCEPT !.state = "READY"] \in PCB
            BY <1>0, <4>1, ArrivedType DEF Step, DispatchInterrupt, DispatchSleep, PCB, ProcessState
          <5> QED
            BY <4>1, <5>1 DEF Step, DispatchInterrupt, DispatchSleep
        <4>2. CASE ~Step(DispatchInterrupt) /\ ~Step(DispatchSleep)
          BY <1>0, <1>5, <2>3, <4>2, DetectionFrame
             DEF HandleDispatchConnection, Step, DispatchFinish, RequeueInterrupted,
                 DispatchInvalid, DispatchWaitGranted, LoadInstances, DispatchWaitBlocked,
                 DispatchSignal, DispatchSignalUnheld, StoreInstances, Respond, memory
        <4> QED
          BY <4>1, <4>2
      <3>2. queue'[Exec] = queue[Exec] \/ Pop(Exec)
        BY <1>0, <1>5, <2>3, Indices, DetectionFrame
           DEF HandleDispatchConnection, Step, DispatchFinish, DispatchInterrupt, DispatchSleep,
               RequeueInterrupted, DispatchInvalid, DispatchWaitGranted, LoadInstances,
               DispatchWaitBlocked, DispatchSignal, DispatchSignalUnheld, StoreInstances,
               Respond, Push, DropExecHead
      <3> QED
        BY <1>0, <1>b, <1>p, <2>1, <3>1, <3>2, StateKept
    <2> QED
      BY <2>2, <2>3
  <1>6. CASE SleepThread
    <2> PICK s \in sleepers : Step(SleepArguments(s)) \/ Step(SleepPop(s)) \/ Step(SleepEnd(s))
      BY <1>6 DEF SleepThread
    <2>1. UNCHANGED <<pc, ptr>>
      BY <1>0, <1>6, SleepActs DEF locals
    <2>2. CASE Step(SleepPop(s))
      BY <1>0, <1>p, <2>1, <2>2, StateKept DEF Step, SleepPop, DropExecHead, memory
    <2>4. CASE Step(SleepArguments(s))
      BY <1>0, <2>1, <2>4, StateKept DEF Step, SleepArguments, memory
    <2>3. CASE Step(SleepEnd(s))
      <3> DEFINE p == s.args
      <3>1. /\ heap' = [heap EXCEPT ![p] = Awakened(heap[p])] /\ queue'[Exec] = queue[Exec]
            /\ p \in 1 .. Len(heap) /\ s \in Asleep
        <4>1. p \in 1 .. Len(heap)
          BY <1>0 DEF TypeOK, KernelTypeOK, SleepersOK
        <4>2. heap' = [heap EXCEPT ![p] = Awakened(heap[p])] /\ Push(Ready, p) /\ s \in Asleep
          BY <2>3, ~crashed' DEF Step, SleepEnd, Asleep, Crash
        <4>3. queue'[Exec] = queue[Exec]
          BY <1>0, <4>2, Indices DEF Push
        <4> QED
          BY <4>1, <4>2, <4>3
      <3>2. heap[p].pid \in PidsAt(<<"asleep", "asleep">>) /\ <<"asleep", "asleep">> \in Place
        BY <3>1, Places DEF SleepPids, PidsOf
      <3>3. \A q \in 1 .. Len(heap) : q # p => heap'[q] = heap[q]
        BY <1>0, <3>1
      <3>4. <<"asleep", "asleep">> # <<"queue", Exec>> /\ <<"asleep", "asleep">> # <<"thread", "short">>
        OBVIOUS
      <3> HIDE DEF p
      <3>5. /\ \A q \in ToSet(queue[Exec]) : heap'[q] = heap[q]
            /\ pc["short"] = "push" => heap'[ptr["short"]] = heap[ptr["short"]]
        BY <3>1, <3>2, <3>3, <3>4, ElsewhereKept
      <3> QED
        BY <1>0, <2>1, <3>1, <3>5, StateKept
    <2> QED
      BY <2>2, <2>3, <2>4
  <1>7. CASE ExecuteProcess \/ InterruptThread \/ UNCHANGED allVars
    <2>1. UNCHANGED <<pc, ptr, queue, heap>>
      BY <1>7 DEF ExecuteProcess, InterruptThread, CpuStep, kernelVars, allVars, vars
    <2> QED
      BY <1>0, <2>1, StateKept
  <1> QED
    BY <1>1, <1>2, <1>3, <1>4, <1>5, <1>6, <1>7 DEF Next

-----------------------------------------------------------------------------
(***************************************************************************)
(* queue_exec                                                              *)
(***************************************************************************)

\* No message, and one.
LEMMA OneMessage ==
    /\ ToSet(<<>>) = {}
    /\ \A S : \A m \in S : ToSet(Append(<<>>, m)) = {m} /\ Append(<<>>, m) # <<>>
  <1>1. ToSet(<<>>) = {}
    BY QueueElements, EmptySeq
  <1>2. ASSUME NEW S, NEW m \in S PROVE ToSet(Append(<<>>, m)) = {m} /\ Append(<<>>, m) # <<>>
    <2> DEFINE none == <<>>
    <2>1. none \in Seq(S) /\ ToSet(none) = {}
      BY <1>1, EmptySeq
    <2> HIDE DEF none
    <2>2. ToSet(Append(none, m)) = {m} /\ Append(none, m) # <<>>
      BY <1>2, <2>1, AppendElements
    <2> QED
      BY <2>2 DEF none
  <1> QED
    BY <1>1, <1>2

\* While the process that executes goes from one hand to the next.
LEMMA ExecMoved ==
    ASSUME TypeOK, ExecOK, HeapKept, OnCpu, OnCpu', sleepers' = sleepers,
           queue'[Exec] = queue[Exec],
           \A x : Runs(x) => Runs(x)',
           pc'["short"] = "send" => pc["short"] = "send" /\ ptr'["short"] = ptr["short"],
           pc'["dispatch"] \in Found => ptr'["dispatch"] = LastExec
    PROVE  ExecOK'
  <1>1. Runs(heap[LastExec].pid) /\ LastExec \in 1 .. Len(heap)
    BY LastExecIs
  <1>2. LastExec' = LastExec /\ heap'[LastExec].pid = heap[LastExec].pid
    BY <1>1 DEF LastExec, HeapKept
  <1> PICK x : x = heap[LastExec].pid
    OBVIOUS
  <1>3. heap'[LastExec'].pid = x
    BY <1>2
  <1>4. Runs(x)'
    BY <1>1
  <1>6. Runs(heap[LastExec].pid)'
    BY <1>3, <1>4 DEF Runs
  <1>5. Starting' = Starting
    BY DEF Starting
  <1> QED
    BY <1>2, <1>5, <1>6 DEF ExecOK, One

\* While it is nowhere, or its thread does not move.
LEMMA ExecSame ==
    ASSUME TypeOK, ExecOK, HeapKept, sleepers' = sleepers, queue'[Exec] = queue[Exec],
           UNCHANGED <<cpuPc, process, ended, toCpu, toKernel>>,
           pc'["short"] = "send" <=> pc["short"] = "send",
           pc["short"] = "send" => ptr'["short"] = ptr["short"],
           \/ {pc["dispatch"], pc'["dispatch"]} \cap (Answering \cup Finding) = {}
           \/ /\ pc'["dispatch"] = pc["dispatch"] /\ ptr'["dispatch"] = ptr["dispatch"]
              /\ response' = response /\ fin'["dispatch"] = fin["dispatch"]
    PROVE  ExecOK'
  <1>1. CpuBusy' <=> CpuBusy
    BY DEF CpuBusy
  <1>2. OnCpu' <=> OnCpu
    BY <1>1 DEF OnCpu
  <1>3. CASE OnCpu
    <2>1. pc["short"] = "send" => ptr["short"] \in 1 .. Len(heap)
      BY AccessType DEF TypeOK, KernelTypeOK, LocalOK
    <2>2. ASSUME NEW x, Runs(x) PROVE Runs(x)'
      BY <1>1, <2>1, <2>2 DEF Runs, HeapKept, Finding, Answering
    <2> QED
      BY <1>2, <1>3, <2>2, ExecMoved DEF ExecOK, Finding
  <1>4. CASE ~OnCpu
    BY <1>2, <1>4 DEF ExecOK, OnCpu, One, Starting, Finding
  <1> QED
    BY <1>3, <1>4

\* Once it has left.
LEMMA ExecLeft ==
    ASSUME ~OnCpu', Len(queue'[Exec]) = One(Starting' # {})
    PROVE  ExecOK'
  BY DEF ExecOK, OnCpu, One, Finding

\* The CPU receives it, runs it and sends it back.
LEMMA CpuExec ==
    ASSUME Inv, TypeOK', HeapKept, ExecuteProcess \/ InterruptThread
    PROVE  ExecOK'
  <1>0. /\ TypeOK /\ ExecOK /\ CpuTokens <= 1
        /\ UNCHANGED <<pc, ptr, fin, response, queue, sleepers>>
        /\ toCpu \in Seq(MessageToCpu) /\ toKernel \in Seq(MessageToKernel)
    BY DEF Inv, ExecuteProcess, InterruptThread, CpuStep, kernelVars, TypeOK, ChannelsTypeOK
  <1>a. pc["short"] = "send" => ptr["short"] \in 1 .. Len(heap)
    BY <1>0, AccessType DEF TypeOK, KernelTypeOK, LocalOK
  <1>b. ASSUME OnCpu, OnCpu', UNCHANGED heap,
               \A x : Runs(x) => /\ \A m \in ToSet(toCpu') : m.pcb.pid = x
                                 /\ CpuBusy' => process'.pid = x
                                 /\ \A m \in ToSet(toKernel') : m.pcb.pid = x
        PROVE  ExecOK'
    <2>1. ASSUME NEW x, Runs(x) PROVE Runs(x)'
      BY <1>0, <1>b, <2>1 DEF Runs
    <2> QED
      BY <1>0, <1>b, <2>1, ExecMoved DEF ExecOK, Finding
  <1>c. UNCHANGED heap
    BY DEF ExecuteProcess, InterruptThread, CpuStep, kernelVars
  <1>1. CASE ReceiveProcess
    <2>1. toCpu # <<>> /\ Len(toCpu) = 1 /\ toKernel = <<>> /\ ~CpuBusy
      BY <1>0, <1>1, Token DEF ReceiveProcess
    <2>2. Head(toCpu) \in ToSet(toCpu) /\ Tail(toCpu) = <<>>
      <3>1. Len(Tail(toCpu)) = 0 /\ Tail(toCpu) \in Seq(MessageToCpu)
        BY <1>0, <2>1, HeadTailProperties
      <3> QED
        BY <1>0, <2>1, <3>1, QueueElements
    <2>3. OnCpu /\ OnCpu' /\ toCpu' = <<>> /\ toKernel' = toKernel /\ process' = Head(toCpu).pcb
      BY <1>1, <2>1, <2>2 DEF ReceiveProcess, OnCpu, CpuBusy
    <2> QED
      BY <1>b, <1>c, <2>1, <2>2, <2>3, OneMessage DEF Runs
  <1>2. CASE ExecuteInstructionCycle
    <2> DEFINE instruction == Fetch(process)
    <2>1. CpuBusy /\ toCpu = <<>> /\ toKernel = <<>> /\ process \in PCB
      BY <1>0, <1>2, Token DEF ExecuteInstructionCycle, CpuBusy, TypeOK, CpuTypeOK
    <2>2. instruction \in Instruction
      BY <2>1, FetchType
    <2>3. process'.pid = process.pid /\ toCpu' = toCpu /\ cpuPc' = "check"
      BY <1>2, <2>1 DEF ExecuteInstructionCycle, PCB
    <2>4. CASE instruction.op = "CPU"
      <3>1. toKernel' = toKernel /\ CpuBusy'
        BY <1>2, <2>3, <2>4 DEF ExecuteInstructionCycle, CpuBusy
      <3> QED
        BY <1>b, <1>c, <2>1, <2>3, <3>1, OneMessage DEF Runs, OnCpu
    <2>5. CASE instruction.op # "CPU"
      <3> DEFINE m == Request(instruction, process)
      <3>1. m \in MessageToKernel /\ m.pcb = process
        BY <2>1, <2>2, <2>5, RequestType DEF Request, Instruction
      <3>2. toKernel' = Append(<<>>, m) /\ ~CpuBusy'
        BY <1>2, <2>1, <2>3, <2>5 DEF ExecuteInstructionCycle, CpuBusy
      <3> HIDE DEF m
      <3>3. ToSet(toKernel') = {m} /\ toKernel' # <<>>
        BY <3>1, <3>2, OneMessage
      <3>4. OnCpu /\ OnCpu'
        BY <2>1, <3>3 DEF OnCpu
      <3> QED
        BY <1>b, <1>c, <2>1, <2>3, <3>1, <3>2, <3>3, <3>4, OneMessage DEF Runs
    <2> QED
      BY <2>4, <2>5
  <1>3. CASE YieldProcess
    <2> DEFINE m == [op |-> "INTERRUPT", pcb |-> process]
    <2>1. CpuBusy /\ toCpu = <<>> /\ toKernel = <<>> /\ process \in PCB
      BY <1>0, <1>3, Token DEF YieldProcess, CpuBusy, TypeOK, CpuTypeOK
    <2>2. toKernel' = Append(<<>>, m) /\ ~CpuBusy' /\ toCpu' = toCpu
      BY <1>3, <2>1 DEF YieldProcess, Leave, CpuBusy
    <2>3. m \in MessageToKernel /\ m.pcb = process
      BY <2>1 DEF MessageToKernel
    <2> HIDE DEF m
    <2>4. ToSet(toKernel') = {m} /\ toKernel' # <<>>
      BY <2>2, <2>3, OneMessage
    <2>5. OnCpu /\ OnCpu'
      BY <2>1, <2>4 DEF OnCpu
    <2> QED
      BY <1>b, <1>c, <2>1, <2>2, <2>3, <2>4, <2>5, OneMessage DEF Runs
  <1>4. CASE NoInterrupt \/ RejectInterrupt \/ ClearInterrupt \/ RelockInterrupt \/ ReceiveInterrupt
    <2>1. UNCHANGED <<toCpu, toKernel>>
      BY <1>4
         DEF NoInterrupt, RejectInterrupt, ClearInterrupt, RelockInterrupt, ReceiveInterrupt,
             channels
    <2>2. (CpuBusy' <=> CpuBusy) /\ (CpuBusy => process' = process)
      BY <1>0, <1>4
         DEF NoInterrupt, RejectInterrupt, ClearInterrupt, RelockInterrupt, ReceiveInterrupt,
             Leave, CpuBusy, TypeOK, CpuTypeOK
    <2>3. OnCpu' <=> OnCpu
      BY <1>0, <2>1, <2>2 DEF OnCpu
    <2>4. CASE OnCpu
      BY <1>b, <1>c, <2>1, <2>2, <2>3, <2>4 DEF Runs
    <2>5. CASE ~OnCpu
      BY <1>0, <2>3, <2>5, ExecLeft DEF ExecOK, One, Starting
    <2> QED
      BY <2>4, <2>5
  <1> QED
    BY <1>1, <1>2, <1>3, <1>4 DEF ExecuteProcess, InterruptThread, CpuStep

\* The short term planner puts it on queue_exec and sends it.
LEMMA ShortExec ==
    ASSUME Inv, TypeOK', HeapKept, ~crashed', ShortTermPlanner
    PROVE  ExecOK'
  <1>0. /\ TypeOK /\ ExecOK /\ CpuTokens <= 1 /\ ~Crash /\ LocalOK("short")
        /\ UNCHANGED <<cpuVars, fin, response, sleepers, toKernel>>
        /\ pc'["dispatch"] = pc["dispatch"] /\ ptr'["dispatch"] = ptr["dispatch"]
        /\ pc \in [Thread -> ConsoleLabel \cup DispatchLabel \cup ShortLabel \cup LongLabel]
        /\ ptr \in [Thread -> 0 .. Len(heap)] /\ {"short", "dispatch"} \subseteq Thread
        /\ queue \in [QueueIndex -> Seq(1 .. Len(heap))]
        /\ toCpu \in Seq(MessageToCpu)
    BY ShortActs, AccessType DEF Acts, Inv, TypeOK, KernelTypeOK, ChannelsTypeOK, Crash
  <1>1. CASE Step(ShortPushExec)
    <2> DEFINE p == ptr["short"]
    <2>1. /\ pc["short"] = "push" /\ pc'["short"] = "send" /\ ptr' = ptr /\ heap' = heap
          /\ Push(Exec, p) /\ p \in 1 .. Len(heap) /\ UNCHANGED channels
      BY <1>0, <1>1, AccessType DEF Step, ShortPushExec, Goto, LocalOK, inert, memory
    <2>2. /\ toCpu = <<>> /\ toKernel = <<>> /\ ~CpuBusy
          /\ pc["dispatch"] \notin DispatchLabels
      BY <1>0, <2>1, Token DEF ShortLabels
    <2>3. ~OnCpu
      BY <2>1, <2>2 DEF OnCpu, DispatchLabels, Answering, Finding, Found, FinishLabel
    <2>4. /\ toCpu' = <<>> /\ toKernel' = <<>> /\ ~CpuBusy' /\ OnCpu'
          /\ pc'["dispatch"] \notin Answering \cup Finding
      BY <1>0, <2>1, <2>2, <2>3 DEF OnCpu, CpuBusy, channels, cpuVars
    <2>5. queue'[Exec] = Append(queue[Exec], p) /\ queue[Exec] \in Seq(1 .. Len(heap))
      BY <1>0, <2>1, Indices DEF Push
    <2>6. /\ Len(queue'[Exec]) = Len(queue[Exec]) + 1
          /\ queue'[Exec][Len(queue[Exec]) + 1] = p
      BY <2>1, <2>5, AppendElements
    <2>7. LastExec' = p
      BY <2>6 DEF LastExec
    <2>8. Len(queue[Exec]) = One(Starting # {}) + 0
      BY <2>3 DEF Inv, ExecOK, One
    <2>9. Len(queue'[Exec]) = One(Starting' # {}) + One(OnCpu')
      BY <1>0, <2>4, <2>6, <2>8 DEF One, Starting
    <2> HIDE DEF p
    <2>10. Runs(heap[LastExec].pid)'
      BY <2>1, <2>4, <2>7, OneMessage DEF Runs, Finding, p
    <2> QED
      BY <2>1, <2>4, <2>7, <2>9, <2>10 DEF ExecOK, Finding, p
  <1>2. CASE Step(DispatchProcess)
    <2> DEFINE p == ptr["short"]
               m == [op |-> "EXECUTE_PROCESS", pcb |-> heap[p]]
    <2>1. /\ pc["short"] = "send" /\ pc'["short"] # "send" /\ UNCHANGED <<queue, heap>>
          /\ toCpu' = Append(toCpu, m) /\ p \in 1 .. Len(heap)
      BY <1>0, <1>2, AccessType DEF Step, DispatchProcess, Goto, LocalOK, memory
    <2>2. toCpu = <<>> /\ heap[p] \in PCB
      BY <1>0, <2>1, Token, AccessType DEF ShortLabels
    <2>3. m \in MessageToCpu /\ m.pcb = heap[p]
      BY <2>2 DEF MessageToCpu
    <2> HIDE DEF m
    <2>4. ToSet(toCpu') = {m} /\ toCpu' # <<>> /\ OnCpu /\ OnCpu'
      BY <2>1, <2>2, <2>3, OneMessage DEF OnCpu
    <2>5. CpuBusy' = CpuBusy
      BY <1>0 DEF CpuBusy, cpuVars
    <2>6. ASSUME NEW x, Runs(x) PROVE Runs(x)'
      BY <1>0, <2>1, <2>3, <2>4, <2>5, <2>6 DEF Runs, cpuVars
    <2> QED
      BY <1>0, <2>1, <2>4, <2>6, ExecMoved DEF ExecOK
  <1>3. CASE ~Step(ShortPushExec) /\ ~Step(DispatchProcess)
    <2>1. /\ queue'[Exec] = queue[Exec] /\ toCpu' = toCpu
          /\ pc'["short"] # "send" /\ pc["short"] # "send"
      BY <1>0, <1>3, Indices
         DEF ShortTermPlanner, Step, ShortWaitPlanner, ShortWaitReady, ShortWaitCpu, ShortWait,
             SortQueue, ShortPopReady, InterruptProcess, Goto, Pop, inert, channels
    <2> QED
      BY <1>0, <2>1, ExecSame DEF cpuVars
  <1> QED
    BY <1>1, <1>2, <1>3

\* A sleep thread takes the process before it, if any, off queue_exec.
LEMMA SleepExec ==
    ASSUME Inv, KeepUp, TypeOK', HeapKept, ~crashed', SleepThread
    PROVE  ExecOK'
  <1>0. /\ TypeOK /\ ExecOK /\ SleepersOK /\ ~Crash
        /\ UNCHANGED <<cpuVars, locals, channels>>
        /\ queue \in [QueueIndex -> Seq(1 .. Len(heap))]
    BY SleepActs DEF Inv, TypeOK, KernelTypeOK, Crash
  <1> PICK s \in sleepers : Step(SleepArguments(s)) \/ Step(SleepPop(s)) \/ Step(SleepEnd(s))
    BY DEF SleepThread
  <1>1. CASE Step(SleepPop(s))
    <2>1. /\ s \in Starting /\ Pop(Exec) /\ heap' = heap
          /\ sleepers' = (sleepers \ {s}) \cup {[s EXCEPT !.phase = "asleep"]}
      BY <1>0, <1>1 DEF Step, SleepPop, Starting, DropExecHead, memory
    <2>2. Starting' = {}
      <3>1. [s EXCEPT !.phase = "asleep"].phase = "asleep"
        BY <1>0 DEF TypeOK, KernelTypeOK, Sleeper
      <3> QED
        BY <1>0, <2>1, <3>1 DEF Starting, SleepersOK
    <2>3. OnCpu' <=> OnCpu
      BY <1>0 DEF OnCpu, CpuBusy, locals, channels, cpuVars
    <2> DEFINE q == queue[Exec]
    <2>4. /\ q \in Seq(1 .. Len(heap)) /\ q # <<>> /\ Len(q) = 1 + One(OnCpu)
          /\ EachOnce(heap, q)
      BY <1>0, <2>1, Indices DEF Inv, OnePlace, ExecOK, SleepersOK, One
    <2>5. /\ queue'[Exec] = Rest(q) /\ Len(Rest(q)) = Len(q) - 1
          /\ \A i \in 1 .. Len(q) - 1 : Rest(q)[i] = q[i + 1]
      <3>1. queue'[Exec] = Rest(q)
        BY <1>0, <2>1, Indices DEF Pop
      <3>2. q \in Seq(1 .. Len(heap)) /\ q # <<>> /\ EachOnce(heap, q)
        BY <2>4
      <3> HIDE DEF q
      <3>3. /\ Len(Rest(q)) = Len(q) - 1
            /\ \A i \in 1 .. Len(q) - 1 : Rest(q)[i] = q[i + 1]
        BY <3>2, HeadTailProperties DEF Rest
      <3> QED
        BY <3>1, <3>3
    <2>6. Len(queue'[Exec]) = One(Starting' # {}) + One(OnCpu')
      BY <2>2, <2>3, <2>4, <2>5 DEF One
    <2>7. OnCpu => LastExec' = LastExec
      BY <2>4, <2>5 DEF LastExec, One
    <2>8. OnCpu => Runs(heap[LastExec].pid)'
      BY <1>0, <2>1, <2>7 DEF ExecOK, Runs, CpuBusy, locals, channels, cpuVars
    <2> QED
      BY <1>0, <2>3, <2>6, <2>7, <2>8 DEF ExecOK, OnCpu, Finding, locals
  <1>2. CASE Step(SleepEnd(s))
    <2>1. sleepers' = sleepers \ {s} /\ s.phase = "asleep" /\ queue'[Exec] = queue[Exec]
      BY <1>0, <1>2, Indices DEF Step, SleepEnd, Push
    <2>2. Starting' = Starting
      BY <2>1 DEF Starting
    <2>3. (OnCpu' <=> OnCpu) /\ (CpuBusy' <=> CpuBusy)
      BY <1>0 DEF OnCpu, CpuBusy, locals, channels, cpuVars
    <2>4. pc["short"] = "send" => ptr["short"] \in 1 .. Len(heap)
      BY <1>0, AccessType DEF TypeOK, KernelTypeOK, LocalOK
    <2>5. OnCpu => LastExec' = LastExec /\ heap'[LastExec].pid = heap[LastExec].pid
      BY <1>0, <2>1, LastExecIs DEF HeapKept, LastExec
    <2>6. OnCpu => Runs(heap[LastExec].pid)'
      BY <1>0, <2>3, <2>4, <2>5 DEF ExecOK, Runs, HeapKept, locals, channels, cpuVars
    <2> QED
      BY <1>0, <2>1, <2>2, <2>3, <2>5, <2>6 DEF ExecOK, OnCpu, Finding, locals, One
  <1>3. CASE Step(SleepArguments(s))
    <2>1. /\ s \in Starting /\ UNCHANGED <<queue, heap>>
          /\ \E args : sleepers' = (sleepers \ {s}) \cup {[s EXCEPT !.args = args, !.phase = "read"]}
      BY <1>3 DEF Step, SleepArguments, Starting, memory
    <2>2. Starting' # {} /\ Starting # {}
      <3>1. \A args : [s EXCEPT !.args = args, !.phase = "read"].phase = "read"
        BY <1>0 DEF TypeOK, KernelTypeOK, Sleeper
      <3> QED
        BY <2>1, <3>1 DEF Starting
    <2>3. (OnCpu' <=> OnCpu) /\ (CpuBusy' <=> CpuBusy)
      BY <1>0 DEF OnCpu, CpuBusy, locals, channels, cpuVars
    <2>4. OnCpu => Runs(heap[LastExec].pid)'
      BY <1>0, <2>1, <2>3 DEF ExecOK, Runs, LastExec, locals, channels, cpuVars
    <2> QED
      BY <1>0, <2>1, <2>2, <2>3, <2>4 DEF ExecOK, OnCpu, Finding, LastExec, locals, One
  <1> QED
    BY <1>1, <1>2, <1>3

\* The only process of queue_exec leaves it.
LEMMA ExecPopped ==
    ASSUME Inv, OnCpu, Starting = {}, Pop(Exec)
    PROVE  Len(queue'[Exec]) = 0
  <1>1. Len(queue[Exec]) = 1 /\ queue[Exec] # <<>>
    BY LastExecIs DEF Inv
  <1>2. queue[Exec] \in Seq(1 .. Len(heap)) /\ queue'[Exec] = Rest(queue[Exec])
    BY Indices DEF Inv, TypeOK, KernelTypeOK, Pop
  <1> DEFINE q == queue[Exec]
  <1> HIDE DEF q
  <1>3. q # <<>> /\ q \in Seq(1 .. Len(heap)) /\ EachOnce(heap, q) => Len(Rest(q)) = Len(q) - 1
    BY PopOnce
  <1> QED
    BY <1>1, <1>2, <1>3, Indices DEF q, Inv, OnePlace

\* The dispatch thread answers, or takes it off.
LEMMA DispatchExec ==
    ASSUME Inv, KeepUp, TypeOK', HeapKept, ~crashed', HandleDispatchConnection
    PROVE  ExecOK'
  <1> DEFINE d == "dispatch"
  <1>0. /\ TypeOK /\ ExecOK /\ CpuTokens <= 1 /\ ~Crash /\ LocalOK(d)
        /\ UNCHANGED cpuVars
        /\ pc'["short"] = pc["short"] /\ ptr'["short"] = ptr["short"]
        /\ pc \in [Thread -> ConsoleLabel \cup DispatchLabel \cup ShortLabel \cup LongLabel]
        /\ fin \in [Finisher -> Frame] /\ d \in Finisher
        /\ {"short", d} \subseteq Thread
        /\ queue \in [QueueIndex -> Seq(1 .. Len(heap))]
    BY DispatchActs, AccessType DEF Inv, TypeOK, KernelTypeOK, Crash
  <1>a. CpuBusy' = CpuBusy
    BY <1>0 DEF CpuBusy, cpuVars
  <1>b. pc["short"] = "send" => ptr["short"] \in 1 .. Len(heap)
    BY <1>0, AccessType DEF TypeOK, KernelTypeOK, LocalOK
  <1>1. CASE Step(DispatchFinish) \/ Step(DispatchInvalid) \/ Step(DispatchSignalUnheld)
    <2>1. PICK op : ReceivesFromCpu(op)
      BY <1>1 DEF Step, DispatchFinish, DispatchInvalid, DispatchSignalUnheld
    <2>2. Finish(d, Arrived.pcb.pid) /\ UNCHANGED <<ptr, queue, heap, sleepers>>
      BY <1>1 DEF Step, DispatchFinish, DispatchInvalid, DispatchSignalUnheld, memory
    <2>3. /\ OnCpu /\ Arrived \in ToSet(toKernel) /\ toKernel' = <<>> /\ toCpu' = toCpu
          /\ toCpu = <<>> /\ ~CpuBusy /\ pc["short"] # "send"
      BY <2>1, Asking DEF ShortLabels
    <2>4. pc'[d] = "find" /\ fin'[d].pid = Arrived.pcb.pid
      BY <1>0, <2>2 DEF Finish, Goto, Frame
    <2>5. OnCpu'
      BY <2>4 DEF OnCpu, Finding
    <2>6. ASSUME NEW x, Runs(x) PROVE Runs(x)'
      <3>1. Arrived.pcb.pid = x
        BY <2>3, <2>6 DEF Runs
      <3> QED
        BY <1>0, <1>a, <2>3, <2>4, <3>1, OneMessage DEF Runs, Answering
    <2> QED
      BY <1>0, <2>2, <2>3, <2>4, <2>5, <2>6, ExecMoved DEF Found
  <1>2. CASE Step(DispatchWaitGranted) \/ Step(DispatchSignal)
    <2>1. PICK op : ReceivesFromCpu(op)
      BY <1>2 DEF Step, DispatchWaitGranted, DispatchSignal
    <2>2. /\ OnCpu /\ Arrived \in ToSet(toKernel) /\ toKernel' = <<>> /\ toCpu' = toCpu
          /\ toCpu = <<>> /\ ~CpuBusy /\ pc["short"] # "send" /\ Arrived.pcb \in PCB
      BY <2>1, Asking DEF ShortLabels
    <2>3. /\ pc'[d] \in {"load", "store"} /\ response'.pcb.pid = Arrived.pcb.pid
          /\ UNCHANGED <<ptr, queue, heap, sleepers>>
      <3>1. /\ pc'[d] \in {"load", "store"} /\ UNCHANGED <<ptr, queue, heap, sleepers>>
        BY <1>0, <1>2 DEF Step, DispatchWaitGranted, DispatchSignal, Goto, memory
      <3> DEFINE answer(held) == [Arrived.pcb EXCEPT !.counter = @ + 1, !.resources = held]
      <3>2. \E held : response'.pcb = answer(held)
        <4>1. CASE Step(DispatchWaitGranted)
          <5>1. response'.pcb = answer(Append(Arrived.pcb.resources, Arrived.resource))
            BY <4>1 DEF Step, DispatchWaitGranted
          <5> QED
            BY <5>1
        <4>2. CASE Step(DispatchSignal)
          <5>1. response'.pcb = answer(RemoveFirst(Arrived.pcb.resources, Arrived.resource))
            BY <4>2 DEF Step, DispatchSignal
          <5> QED
            BY <5>1
        <4> QED
          BY <1>2, <4>1, <4>2
      <3>3. \A held : answer(held).pid = Arrived.pcb.pid
        BY <2>2 DEF PCB
      <3> HIDE DEF answer
      <3> QED
        BY <3>1, <3>2, <3>3
    <2>4. OnCpu'
      BY <2>3 DEF OnCpu, Answering
    <2>5. ASSUME NEW x, Runs(x) PROVE Runs(x)'
      <3>1. Arrived.pcb.pid = x
        BY <2>2, <2>5 DEF Runs
      <3> QED
        BY <1>0, <1>a, <2>2, <2>3, <3>1, OneMessage DEF Runs, Answering
    <2> QED
      BY <1>0, <2>2, <2>3, <2>4, <2>5, ExecMoved DEF Found
  <1>3. CASE Step(LoadInstances) \/ Step(StoreInstances)
    <2>1. /\ pc[d] \in {"load", "store"} /\ pc'[d] \in {"store", "respond"}
          /\ UNCHANGED <<ptr, queue, heap, sleepers, toCpu, toKernel>>
          /\ response'.pcb = response.pcb
      BY <1>0, <1>3
         DEF Step, LoadInstances, StoreInstances, Goto, memory, channels, LocalOK, Response
    <2>2. OnCpu /\ OnCpu'
      BY <2>1 DEF OnCpu, Answering
    <2>3. ASSUME NEW x, Runs(x) PROVE Runs(x)'
      BY <1>0, <1>a, <2>1, <2>3 DEF Runs, Answering, cpuVars
    <2> QED
      BY <1>0, <2>1, <2>2, <2>3, ExecMoved DEF Found
  <1>4. CASE Step(Respond)
    <2> DEFINE m == [op |-> response.op, pcb |-> response.pcb]
    <2>1. /\ pc[d] = "respond" /\ pc'[d] = "listen"
          /\ UNCHANGED <<ptr, queue, heap, sleepers, toKernel>>
          /\ toCpu' = Append(toCpu, m) /\ response \in Response
      BY <1>0, <1>4 DEF Step, Respond, Goto, memory, LocalOK
    <2>2. toCpu = <<>> /\ m \in MessageToCpu /\ m.pcb = response.pcb
      BY <1>0, <2>1, Token DEF DispatchLabels, Response, MessageToCpu
    <2> HIDE DEF m
    <2>3. ToSet(toCpu') = {m} /\ toCpu' # <<>> /\ OnCpu /\ OnCpu'
      BY <2>1, <2>2, OneMessage DEF OnCpu, Answering
    <2>4. ASSUME NEW x, Runs(x) PROVE Runs(x)'
      BY <1>0, <1>a, <2>1, <2>2, <2>3, <2>4 DEF Runs, Answering, cpuVars
    <2> QED
      BY <1>0, <2>1, <2>3, <2>4, ExecMoved DEF Found
  <1>5. CASE Step(DispatchInterrupt) \/ Step(DispatchWaitBlocked)
    <2>1. PICK op : ReceivesFromCpu(op)
      BY <1>5 DEF Step, DispatchInterrupt, DispatchWaitBlocked
    <2>2. Pop(Exec) /\ pc'[d] \in {"requeue", "block"} /\ sleepers' = sleepers
      BY <1>0, <1>5 DEF Step, DispatchInterrupt, DispatchWaitBlocked, DropExecHead, Goto
    <2>3. /\ OnCpu /\ Starting = {} /\ toKernel' = <<>> /\ toCpu' = toCpu
          /\ toCpu = <<>> /\ ~CpuBusy /\ pc["short"] # "send"
      BY <2>1, Asking DEF ShortLabels
    <2>4. ~OnCpu'
      BY <1>0, <1>a, <2>2, <2>3 DEF OnCpu, Answering, Finding, Found
    <2>5. Len(queue'[Exec]) = 0 /\ Starting' = {}
      BY <2>2, <2>3, ExecPopped DEF Starting
    <2> QED
      BY <2>4, <2>5, ExecLeft DEF One
  <1>6. CASE Step(DispatchSleep)
    <2> DEFINE new == [key |-> Len(heap) + 1, args |-> Len(heap) + 1, phase |-> "start"]
    <2>1. /\ ReceivesFromCpu("SLEEP_REQUEST") /\ pc' = pc /\ queue' = queue
          /\ sleepers' = sleepers \cup {new}
      BY <1>6 DEF Step, DispatchSleep, locals
    <2>2. /\ OnCpu /\ Starting = {} /\ toKernel' = <<>> /\ toCpu' = toCpu /\ pc[d] = "listen"
          /\ toCpu = <<>> /\ ~CpuBusy /\ pc["short"] # "send"
      BY <2>1, Asking DEF ShortLabels
    <2>3. ~OnCpu'
      BY <1>0, <1>a, <2>1, <2>2 DEF OnCpu, Answering, Finding, Found
    <2>4. Starting' # {}
      <3>1. new \in sleepers' /\ new.phase = "start"
        BY <2>1
      <3> HIDE DEF new
      <3> QED
        BY <3>1 DEF Starting
    <2>5. Len(queue'[Exec]) = 1
      BY <1>0, <2>1, <2>2, LastExecIs
    <2> QED
      BY <2>3, <2>4, <2>5, ExecLeft DEF One
  <1>7. CASE Step(RequeueInterrupted) \/ Step(BlockProcess) \/ CheckDeadlocks
    <2>1. pc[d] = "block" => fin[d].item \in Resource
      BY <1>0 DEF LocalOK
    <2>2. /\ queue'[Exec] = queue[Exec] /\ sleepers' = sleepers
          /\ UNCHANGED <<toCpu, toKernel>>
          /\ pc[d] \in {"requeue", "block"} \cup DetectLabel
          /\ pc'[d] \in {"listen"} \cup DetectLabel
      BY <1>0, <1>7, <2>1, Indices, DetectionFrame
         DEF Step, RequeueInterrupted, BlockProcess, Push, Goto, Return, inert, channels,
             DetectLabel
    <2> QED
      BY <1>0, <2>2, ExecSame DEF cpuVars, Answering, Finding, Found, DetectLabel
  <1> QED
    BY <1>1, <1>2, <1>3, <1>4, <1>5, <1>6, <1>7 DEF HandleDispatchConnection

\* finish_process of the dispatch thread takes it off last.
LEMMA FinishExec ==
    ASSUME Inv, TypeOK', HeapKept, ~crashed', FinishProcess("dispatch")
    PROVE  ExecOK'
  <1> DEFINE d == "dispatch"
  <1>0. /\ TypeOK /\ ExecOK /\ ~Crash /\ LocalOK(d) /\ FinishOK
        /\ UNCHANGED <<cpuVars, response, sleepers, channels>>
        /\ pc'["short"] = pc["short"] /\ ptr'["short"] = ptr["short"]
        /\ pc \in [Thread -> ConsoleLabel \cup DispatchLabel \cup ShortLabel \cup LongLabel]
        /\ ptr \in [Thread -> 0 .. Len(heap)]
        /\ fin \in [Finisher -> Frame] /\ fin[d] \in Frame /\ d \in Finisher
        /\ {"short", d} \subseteq Thread
        /\ queue \in [QueueIndex -> Seq(1 .. Len(heap))]
    BY FinishActs, AccessType DEF Inv, TypeOK, KernelTypeOK, Crash
  <1>a. CpuBusy' = CpuBusy
    BY <1>0 DEF CpuBusy, cpuVars
  <1>1. ASSUME pc[d] \in Finding, pc'[d] \in Finding, queue'[Exec] = queue[Exec],
               pc'[d] = "find" => pc[d] = "find" /\ fin'[d].pid = fin[d].pid,
               pc'[d] \in Found => ptr'[d] = LastExec
        PROVE  ExecOK'
    <2>1. OnCpu /\ OnCpu'
      BY <1>1 DEF OnCpu
    <2>2. pc["short"] # "send" /\ toCpu = <<>> /\ toKernel = <<>> /\ ~CpuBusy
      BY <1>1, Finishing DEF ShortLabels
    <2>3. pc'[d] \notin Answering
      BY <1>1 DEF Answering, Finding, Found
    <2>4. ASSUME NEW x, Runs(x) PROVE Runs(x)'
      BY <1>0, <1>a, <1>1, <2>2, <2>3, <2>4 DEF Runs, cpuVars, channels
    <2> QED
      BY <1>0, <1>1, <2>1, <2>2, <2>4, ExecMoved
  <1>2. CASE Step(FindProcess(d))
    <2>1. pc[d] = "find" /\ queue' = queue
      BY <1>2 DEF Step, FindProcess
    <2>2. CASE fin' = [fin EXCEPT ![d].index = @ + 1] /\ UNCHANGED <<pc, ptr>>
      <3>1. fin'[d].pid = fin[d].pid
        BY <1>0, <2>2 DEF Frame
      <3> QED
        BY <1>1, <2>1, <2>2, <3>1 DEF Finding, Found
    <2>3. CASE ptr' = [ptr EXCEPT ![d] = LastExec] /\ Goto(d, "inspect")
      <3>1. pc'[d] = "inspect" /\ ptr'[d] = LastExec
        BY <1>0, <2>3 DEF Goto
      <3> QED
        BY <1>1, <2>1, <3>1 DEF Finding, Found
    <2> QED
      BY <1>2, <2>2, <2>3, FindsExec
  <1>3. CASE \/ Step(InspectState(d))    \/ Step(MarkExit(d))
             \/ Step(ReleaseResource(d)) \/ Step(CreditResource(d))
    <2>1. pc[d] \in Found /\ pc'[d] \in Found /\ queue' = queue /\ ptr' = ptr
      BY <1>0, <1>3
         DEF Step, InspectState, MarkExit, ReleaseResource, CreditResource, Goto, Found
    <2>2. ptr[d] = LastExec
      BY <1>0, <2>1 DEF ExecOK
    <2> QED
      BY <1>1, <2>1, <2>2 DEF Finding, Found
  <1>4. CASE Step(UnlinkProcess(d))
    <2>1. /\ pc[d] = "unlink" /\ pc'[d] = "wake"
          /\ queue' = [queue EXCEPT ![fin[d].index] = RemoveFirst(@, ptr[d])]
      BY <1>0, <1>4 DEF Step, UnlinkProcess, Goto
    <2>2. /\ OnCpu /\ Starting = {} /\ ptr[d] = LastExec /\ fin[d].index = Exec
          /\ toCpu = <<>> /\ toKernel = <<>> /\ ~CpuBusy /\ pc["short"] # "send"
      BY <1>0, <2>1, Finishing DEF Found, Finding, FinishOK, ShortLabels
    <2>3. ~OnCpu'
      BY <1>0, <1>a, <2>1, <2>2 DEF OnCpu, Answering, Finding, Found, channels
    <2> DEFINE q == queue[Exec]
               p == LastExec
    <2>4. queue'[Exec] = RemoveFirst(q, p)
      BY <1>0, <2>1, <2>2, Indices
    <2>5. /\ q \in Seq(1 .. Len(heap)) /\ p \in ToSet(q) /\ EachOnce(heap, q) /\ Len(q) = 1
      BY <1>0, <2>2, LastExecIs, Indices DEF Inv, OnePlace
    <2> HIDE DEF q, p
    <2>6. Len(queue'[Exec]) = 0
      <3>1. Len(RemoveFirst(q, p)) = Len(q) - 1
        BY <2>5, RemoveOnce
      <3> QED
        BY <2>4, <2>5, <3>1
    <2>7. Starting' = {}
      BY <1>0, <2>2 DEF Starting
    <2> QED
      BY <2>3, <2>6, <2>7, ExecLeft DEF One
  <1>5. CASE ~(pc[d] \in Finding)
    <2>1. pc[d] \notin Finding \cup Answering /\ pc'[d] \notin Finding \cup Answering
      BY <1>0, <1>5, FinishActs
         DEF FinishProcess, Step, FindProcess, InspectState, MarkExit, ReleaseResource,
             CreditResource, UnlinkProcess, CheckBlocked, ContinueWaking, GetWaiter, MoveWaiter,
             DropWaiter, CountWaiter, NotifyMemory, Settle, FinishDangling, Goto, Return,
             Finding, Found, Answering, FinishLabel
    <2>2. queue'[Exec] = queue[Exec]
      <3>1. pc[d] = "drop" => fin[d].item \in Resource
        BY <1>0 DEF LocalOK, FinishLabel
      <3> QED
        BY <1>0, <1>5, <3>1, Indices
           DEF FinishProcess, Step, FindProcess, InspectState, MarkExit, ReleaseResource,
               CreditResource, UnlinkProcess, CheckBlocked, ContinueWaking, GetWaiter, MoveWaiter,
               DropWaiter, CountWaiter, NotifyMemory, Settle, FinishDangling, Finding, Found, Push
    <2> QED
      BY <1>0, <2>1, <2>2, ExecSame DEF cpuVars, channels
  <1>6. CASE pc[d] \in Finding
    <2>1. \/ Step(FindProcess(d))     \/ Step(InspectState(d))   \/ Step(MarkExit(d))
          \/ Step(ReleaseResource(d)) \/ Step(CreditResource(d)) \/ Step(UnlinkProcess(d))
      BY <1>0, <1>6
         DEF FinishProcess, Step, CheckBlocked, ContinueWaking, GetWaiter, MoveWaiter,
             DropWaiter, CountWaiter, NotifyMemory, Settle, FinishDangling, Finding, Found
    <2> QED
      BY <1>2, <1>3, <1>4, <2>1
  <1> QED
    BY <1>5, <1>6

\* Every step.
LEMMA ExecStep ==
    ASSUME Orderly, Inv, KeepUp, TypeOK', HeapKept, ~crashed', [Next]_allVars
    PROVE  ExecOK'
  <1>0. /\ TypeOK /\ ExecOK /\ ConsolesIdle /\ NoKill
        /\ {"dispatch", "short", "long"} \subseteq Thread
        /\ \A c \in Console : c # "dispatch" /\ c # "short"
    BY AccessType, ConsoleAssumption DEF Inv, Orderly
  <1>1. CASE (\E c \in Console : HandlerConnection(c)) \/ LongTermPlanner
    <2>1. /\ UNCHANGED <<cpuVars, fin, response, sleepers, channels>>
          /\ \A t \in {"short", "dispatch"} : pc'[t] = pc[t] /\ ptr'[t] = ptr[t]
          /\ queue'[Exec] = queue[Exec]
      BY <1>0, <1>1, ConsoleActs, LongActs, Indices DEF Acts
    <2> QED
      BY <1>0, <2>1, ExecSame DEF cpuVars, channels
  <1>2. CASE UNCHANGED allVars
    BY <1>0, <1>2, ExecSame DEF allVars, vars, kernelVars, cpuVars, channels
  <1> QED
    BY <1>0, <1>1, <1>2, CpuExec, ShortExec, SleepExec, DispatchExec, FinishExec, OnlyDispatch
       DEF Next

-----------------------------------------------------------------------------
(***************************************************************************)
(* One place                                                               *)
(***************************************************************************)

\* The process that is being woken up is the same.
LEMMA DroppingKept ==
    ASSUME TypeOK, TypeOK', ConsolesIdle, ConsolesIdle',
           \/ pc'["dispatch"] = pc["dispatch"] /\ fin'["dispatch"] = fin["dispatch"]
           \/ pc["dispatch"] # "drop" /\ pc'["dispatch"] # "drop"
    PROVE  \A i : Dropping(i)' = Dropping(i)
  <1>1. TypeOK' /\ ConsolesIdle' =>
            (\A i : Dropping(i) = IF pc["dispatch"] = "drop" /\ Blocked(fin["dispatch"].item) = i
                                  THEN {fin["dispatch"].waiter} ELSE {})'
    BY DroppingIs, PTL
  <1>2. \A i : Dropping(i)' = IF pc'["dispatch"] = "drop" /\ Blocked(fin'["dispatch"].item) = i
                              THEN {fin'["dispatch"].waiter} ELSE {}
    BY <1>1 DEF Blocked
  <1> QED
    BY <1>2, DroppingIs

\* Every place but b has no more processes than it had.
LEMMA OthersKept ==
    ASSUME Inv, HeapKept, \A i : Dropping(i) \subseteq Dropping(i)', NEW b,
           \A i \in QueueIndex : <<"queue", i>> # b => ToSet(queue'[i]) \subseteq ToSet(queue[i]),
           \A t \in Thread : <<"thread", t>> # b =>
               (pc'[t] \in Carrying => pc[t] \in Carrying /\ ptr'[t] = ptr[t]),
           <<"asleep", "asleep">> # b => Asleep' \subseteq Asleep,
           <<"freed", "freed">> # b => freed' \subseteq freed
    PROVE  \A c \in Place : c # b => PidsAt(c)' \subseteq PidsAt(c)
  <1> SUFFICES ASSUME NEW c \in Place, c # b PROVE PidsAt(c)' \subseteq PidsAt(c)
    OBVIOUS
  <1>0. TypeOK /\ ConsolesIdle /\ FinishOK /\ SleepersOK
    BY DEF Inv
  <1>1. ASSUME NEW i \in QueueIndex, c = <<"queue", i>> PROVE PidsAt(c)' \subseteq PidsAt(c)
    <2>1. QueuePids(i)' \subseteq QueuePids(i)
      BY <1>0, <1>1, PlacesKept
    <2> QED
      BY <1>1, <2>1 DEF PidsAt
  <1>2. ASSUME NEW t \in Thread, c = <<"thread", t>> PROVE PidsAt(c)' \subseteq PidsAt(c)
    <2>1. ThreadPids(t)' \subseteq ThreadPids(t)
      BY <1>0, <1>2, PlacesKept
    <2> QED
      BY <1>2, <2>1 DEF PidsAt
  <1>3. CASE c = <<"asleep", "asleep">>
    <2>1. SleepPids' \subseteq SleepPids
      BY <1>0, <1>3, PlacesKept
    <2> QED
      BY <1>3, <2>1 DEF PidsAt
  <1>4. CASE c = <<"freed", "freed">>
    <2>1. PidsOf(freed)' \subseteq PidsOf(freed)
      BY <1>0, <1>4, PlacesKept
    <2> QED
      BY <1>4, <2>1 DEF PidsAt
  <1> QED
    BY <1>1, <1>2, <1>3, <1>4, Places

\* A process that is elsewhere is not on a queue.
LEMMA NotOn ==
    ASSUME Inv, NEW i \in QueueIndex, i \in {New, Ready, Exec} \/ pc["dispatch"] # "drop",
           NEW a \in Place, a # <<"queue", i>>, NEW x \in PidsAt(a)
    PROVE  \A e \in ToSet(queue[i]) : heap[e].pid # x
  <1>1. <<"queue", i>> \in Place /\ PidsAt(<<"queue", i>>) = QueuePids(i)
    BY Places
  <1>2. QueuePids(i) = PidsOf(ToSet(queue[i]))
    BY DroppedFrom DEF Inv
  <1>3. PidsAt(<<"queue", i>>) \cap PidsAt(a) = {}
    BY <1>1 DEF Inv, OnePlace, Apart
  <1> QED
    BY <1>1, <1>2, <1>3 DEF PidsOf

\* A process of a queue is there.
LEMMA IsOn ==
    ASSUME Inv, NEW i \in QueueIndex, i \in {New, Ready, Exec} \/ pc["dispatch"] # "drop",
           NEW p \in ToSet(queue[i])
    PROVE  <<"queue", i>> \in Place /\ heap[p].pid \in PidsAt(<<"queue", i>>)
  <1>1. <<"queue", i>> \in Place /\ PidsAt(<<"queue", i>>) = QueuePids(i)
    BY Places
  <1>2. QueuePids(i) = PidsOf(ToSet(queue[i]))
    BY DroppedFrom DEF Inv
  <1> QED
    BY <1>1, <1>2 DEF PidsOf

\* Nor is one that a thread carries elsewhere than with it.
LEMMA IsWith ==
    ASSUME Inv, NEW t \in Thread, pc[t] \in Carrying
    PROVE  /\ ptr[t] \in 1 .. Len(heap) /\ <<"thread", t>> \in Place
           /\ heap[ptr[t]].pid \in PidsAt(<<"thread", t>>)
  BY CarriesOne, Places DEF Inv

\* Writing one queue leaves each process once on all of them.
LEMMA OnceWritten ==
    ASSUME Inv, HeapKept, NEW i \in QueueIndex, NEW r \in Seq(1 .. Len(heap)),
           EachOnce(heap, r), queue' = [queue EXCEPT ![i] = r]
    PROVE  /\ queue'[i] = r
           /\ \A j \in QueueIndex : j # i => queue'[j] = queue[j]
           /\ \A j \in QueueIndex : EachOnce(heap', queue'[j])
  <1>1. /\ queue \in [QueueIndex -> Seq(1 .. Len(heap))] /\ TypeOK
        /\ \A j \in QueueIndex : EachOnce(heap, queue[j])
    BY DEF Inv, TypeOK, KernelTypeOK, OnePlace
  <1>2. queue'[i] = r /\ \A j \in QueueIndex : j # i => queue'[j] = queue[j]
    BY <1>1
  <1>3. ASSUME NEW j \in QueueIndex PROVE EachOnce(heap', queue'[j])
    <2>1. queue'[j] \in Seq(1 .. Len(heap)) /\ EachOnce(heap, queue'[j])
      BY <1>1, <1>2
    <2> QED
      BY <1>1, <2>1, OnceKept
  <1> QED
    BY <1>2, <1>3

\* A process that is pushed is the only one new to its queue.
LEMMA PushPlace ==
    ASSUME Inv, HeapKept, NEW i \in QueueIndex, Dropping(i)' = Dropping(i),
           NEW p \in 1 .. Len(heap), Push(i, p),
           \A e \in ToSet(queue[i]) : heap[e].pid # heap[p].pid
    PROVE  /\ PidsAt(<<"queue", i>>)' \subseteq PidsAt(<<"queue", i>>) \cup {heap[p].pid}
           /\ \A j \in QueueIndex : j # i => queue'[j] = queue[j]
           /\ \A j \in QueueIndex : EachOnce(heap', queue'[j])
  <1> DEFINE q == queue[i]
             r == Append(q, p)
  <1>1. q \in Seq(1 .. Len(heap)) /\ EachOnce(heap, q) /\ ToSet(q) \subseteq 1 .. Len(heap)
    BY QueueElements DEF Inv, TypeOK, KernelTypeOK, OnePlace
  <1>2. EachOnce(heap, r) /\ ToSet(r) = ToSet(q) \cup {p} /\ r \in Seq(1 .. Len(heap))
    <2> DEFINE S == 1 .. Len(heap)
    <2>1. q \in Seq(S) /\ p \in S
      BY <1>1
    <2> HIDE DEF S
    <2>2. r \in Seq(S)
      BY <2>1, AppendElements
    <2>3. EachOnce(heap, r) /\ ToSet(r) = ToSet(q) \cup {p}
      BY <1>1, <2>1, PushOnce
    <2> QED
      BY <2>2, <2>3 DEF S
  <1>3. queue' = [queue EXCEPT ![i] = r]
    BY DEF Push
  <1> HIDE DEF r
  <1>4. /\ queue'[i] = r
        /\ \A j \in QueueIndex : j # i => queue'[j] = queue[j]
        /\ \A j \in QueueIndex : EachOnce(heap', queue'[j])
    BY <1>2, <1>3, OnceWritten
  <1>5. QueuePids(i)' \subseteq QueuePids(i) \cup {heap[p].pid}
    <2>1. QueuePids(i)' = {heap'[e].pid : e \in ToSet(r)} \ {heap'[e].pid : e \in Dropping(i)}
      BY <1>4 DEF QueuePids, PidsOf
    <2>2. \A e \in ToSet(r) : heap'[e].pid = heap[e].pid
      BY <1>1, <1>2 DEF HeapKept
    <2>3. \A e \in Dropping(i) : heap'[e].pid = heap[e].pid
      BY DroppedFrom DEF HeapKept, Inv
    <2> QED
      BY <1>2, <2>1, <2>2, <2>3 DEF QueuePids, PidsOf
  <1>6. PidsAt(<<"queue", i>>)' = QueuePids(i)' /\ PidsAt(<<"queue", i>>) = QueuePids(i)
    BY DEF PidsAt
  <1> QED
    BY <1>4, <1>5, <1>6

\* A process that is taken off a queue is not there.
LEMMA TakePlace ==
    ASSUME Inv, HeapKept, NEW i \in QueueIndex, NEW p \in ToSet(queue[i]),
           NEW r \in Seq(1 .. Len(heap)), queue' = [queue EXCEPT ![i] = r],
           EachOnce(heap, r), ToSet(r) \subseteq ToSet(queue[i]),
           \A e \in ToSet(r) : heap[e].pid # heap[p].pid
    PROVE  /\ heap[p].pid \notin PidsAt(<<"queue", i>>)'
           /\ \A j \in QueueIndex : ToSet(queue'[j]) \subseteq ToSet(queue[j])
           /\ \A j \in QueueIndex : EachOnce(heap', queue'[j])
  <1>1. /\ queue'[i] = r
        /\ \A j \in QueueIndex : j # i => queue'[j] = queue[j]
        /\ \A j \in QueueIndex : EachOnce(heap', queue'[j])
    BY OnceWritten
  <1>2. QueuePids(i)' \subseteq {heap'[e].pid : e \in ToSet(r)}
    BY <1>1 DEF QueuePids, PidsOf
  <1>3. \A e \in ToSet(r) : heap'[e].pid = heap[e].pid
    <2>1. \A e \in ToSet(r) : e \in 1 .. Len(heap)
      BY QueueElements
    <2> QED
      BY <2>1 DEF HeapKept
  <1>4. heap[p].pid \notin QueuePids(i)'
    BY <1>2, <1>3
  <1>5. PidsAt(<<"queue", i>>)' = QueuePids(i)'
    BY DEF PidsAt
  <1> QED
    BY <1>1, <1>4, <1>5

\* The head of a queue is taken off it.
LEMMA PopPlace ==
    ASSUME Inv, HeapKept, NEW i \in QueueIndex, queue[i] # <<>>, Pop(i)
    PROVE  /\ Head(queue[i]) \in ToSet(queue[i])
           /\ heap[Head(queue[i])].pid \notin PidsAt(<<"queue", i>>)'
           /\ \A j \in QueueIndex : ToSet(queue'[j]) \subseteq ToSet(queue[j])
           /\ \A j \in QueueIndex : EachOnce(heap', queue'[j])
  <1> DEFINE q == queue[i]
             p == Head(q)
             r == Rest(q)
  <1>1. q \in Seq(1 .. Len(heap)) /\ EachOnce(heap, q) /\ q # <<>> /\ p \in ToSet(q)
    <2>1. q \in Seq(1 .. Len(heap)) /\ EachOnce(heap, q) /\ q # <<>>
      BY DEF Inv, TypeOK, KernelTypeOK, OnePlace
    <2>2. p \in ToSet(q)
      BY HeadLive
    <2> QED
      BY <2>1, <2>2
  <1>2. queue' = [queue EXCEPT ![i] = r]
    BY DEF Pop
  <1> DEFINE S == 1 .. Len(heap)
  <1> HIDE DEF q, S
  <1>a. q \in Seq(S) /\ q # <<>> /\ EachOnce(heap, q)
    BY <1>1 DEF S
  <1>b. /\ EachOnce(heap, r) /\ r \in Seq(S)
        /\ \A e \in ToSet(r) : e \in ToSet(q) /\ heap[e].pid # heap[p].pid
    BY <1>a, PopOnce
  <1> HIDE DEF p, r
  <1>3. /\ EachOnce(heap, r) /\ r \in Seq(1 .. Len(heap)) /\ ToSet(r) \subseteq ToSet(q)
        /\ \A e \in ToSet(r) : heap[e].pid # heap[p].pid
    BY <1>b DEF S
  <1> QED
    BY <1>1, <1>2, <1>3, TakePlace DEF q, p

\* Nothing is written where a process is.
LEMMA Stays ==
    ASSUME Inv, HeapKept, \A i : Dropping(i) \subseteq Dropping(i)',
           \A i \in QueueIndex : ToSet(queue'[i]) \subseteq ToSet(queue[i]),
           \A i \in QueueIndex : EachOnce(heap', queue'[i]),
           \A t \in Thread : pc'[t] \in Carrying => pc[t] \in Carrying /\ ptr'[t] = ptr[t],
           Asleep' \subseteq Asleep, freed' \subseteq freed
    PROVE  OnePlace'
  <1> DEFINE b == <<"nowhere", "nowhere">>
  <1>1. b \notin Place
    BY DEF Place
  <1> HIDE DEF b
  <1>2. \A c \in Place : PidsAt(c)' \subseteq PidsAt(c)
    BY <1>1, OthersKept
  <1>3. Apart'
    BY <1>2, ApartKept DEF Inv, OnePlace
  <1>4. \A s, u \in Asleep' : heap'[s.args].pid = heap'[u.args].pid => s = u
    BY DEF Inv, OnePlace, HeapKept, TypeOK, KernelTypeOK, SleepersOK, Asleep
  <1> QED
    BY <1>3, <1>4 DEF OnePlace

\* One process goes from a to b.
LEMMA Moves ==
    ASSUME Inv, HeapKept, \A i : Dropping(i) \subseteq Dropping(i)',
           NEW a \in Place, NEW b \in Place, a # b,
           NEW x \in PidsAt(a), x \notin PidsAt(a)',
           PidsAt(b)' \subseteq PidsAt(b) \cup {x},
           \A i \in QueueIndex : <<"queue", i>> # b => ToSet(queue'[i]) \subseteq ToSet(queue[i]),
           \A i \in QueueIndex : EachOnce(heap', queue'[i]),
           \A t \in Thread : <<"thread", t>> # b =>
               (pc'[t] \in Carrying => pc[t] \in Carrying /\ ptr'[t] = ptr[t]),
           <<"asleep", "asleep">> # b => Asleep' \subseteq Asleep,
           <<"freed", "freed">> # b => freed' \subseteq freed,
           \A s, u \in Asleep' : heap'[s.args].pid = heap'[u.args].pid => s = u
    PROVE  OnePlace'
  <1>1. \A c \in Place : c # b => PidsAt(c)' \subseteq PidsAt(c)
    BY OthersKept
  <1>2. Apart'
    BY <1>1, Transfer DEF Inv, OnePlace
  <1> QED
    BY <1>2 DEF OnePlace

\* Processes that sleep are still different ones.
LEMMA AsleepKept ==
    ASSUME Inv, HeapKept, Asleep' \subseteq Asleep
    PROVE  \A s, u \in Asleep' : heap'[s.args].pid = heap'[u.args].pid => s = u
  BY DEF Inv, OnePlace, HeapKept, TypeOK, KernelTypeOK, SleepersOK, Asleep

\* Queues that are not written hold each process once.
LEMMA QueuesKept ==
    ASSUME Inv, HeapKept, queue' = queue
    PROVE  \A i \in QueueIndex : EachOnce(heap', queue'[i])
  BY OnceKept DEF Inv, OnePlace, TypeOK, KernelTypeOK

\* A thread that carries nothing is no place.
LEMMA EmptyHand ==
    ASSUME NEW t, pc'[t] \notin Carrying
    PROVE  PidsAt(<<"thread", t>>)' = {}
  BY DEF PidsAt, ThreadPids

\* A new process is nowhere else.
LEMMA Appears ==
    ASSUME Inv, HeapKept, \A i : Dropping(i)' = Dropping(i), NEW t \in Thread,
           NEW x, \A p \in 1 .. Len(heap) : heap[p].pid # x,
           ptr'[t] \in 1 .. Len(heap'), heap'[ptr'[t]].pid = x,
           queue' = queue, sleepers' = sleepers, freed' = freed,
           \A u \in Thread : u # t => pc'[u] = pc[u] /\ ptr'[u] = ptr[u],
           pc[t] \notin Carrying
    PROVE  OnePlace'
  <1> DEFINE b == <<"thread", t>>
  <1>0. b \in Place /\ Asleep' = Asleep
    BY Places DEF Asleep
  <1>1. \A c \in Place : c # b => PidsAt(c)' \subseteq PidsAt(c)
    BY <1>0, OthersKept
  <1>2. PidsAt(b)' \subseteq {x}
    BY DEF PidsAt, ThreadPids
  <1>3. \A c \in Place : x \notin PidsAt(c)
    <2> SUFFICES ASSUME NEW c \in Place PROVE PidsAt(c) \subseteq PidsOf(1 .. Len(heap))
      BY DEF PidsOf
    <2>1. \A i \in QueueIndex : QueuePids(i) \subseteq PidsOf(1 .. Len(heap))
      <3> SUFFICES ASSUME NEW i \in QueueIndex PROVE ToSet(queue[i]) \subseteq 1 .. Len(heap)
        BY DEF QueuePids, PidsOf
      <3>1. queue[i] \in Seq(1 .. Len(heap))
        BY DEF Inv, TypeOK, KernelTypeOK
      <3> QED
        BY <3>1, Queued
    <2>2. \A u \in Thread : ThreadPids(u) \subseteq PidsOf(1 .. Len(heap))
      BY CarriesOne DEF Inv, ThreadPids, PidsOf
    <2>3. SleepPids \subseteq PidsOf(1 .. Len(heap)) /\ PidsOf(freed) \subseteq PidsOf(1 .. Len(heap))
      BY DEF Inv, TypeOK, KernelTypeOK, SleepersOK, SleepPids, Asleep, PidsOf
    <2> QED
      BY <2>1, <2>2, <2>3, Places
  <1>4. Apart'
    <2>1. \A c, d \in Place : c # d => PidsAt(c)' \cap PidsAt(d)' = {}
      BY <1>1, <1>2, <1>3 DEF Inv, OnePlace, Apart
    <2> QED
      BY <2>1 DEF Apart, Place
  <1>5. \A i \in QueueIndex : EachOnce(heap', queue'[i])
    BY QueuesKept
  <1> QED
    BY <1>0, <1>4, <1>5, AsleepKept DEF OnePlace

\* A console creates processes.
LEMMA ConsolePlace ==
    ASSUME Orderly, Inv, TypeOK', ConsolesIdle', HeapKept, ~crashed',
           NEW c \in Console, HandlerConnection(c)
    PROVE  OnePlace'
  <1>0. /\ TypeOK /\ ConsolesIdle /\ PidsOK /\ NoKill /\ OneCreator /\ ~Crash
        /\ c \in Thread /\ "long" \in Thread /\ "dispatch" \in Thread /\ c # "long" /\ c # "dispatch"
        /\ pc \in [Thread -> ConsoleLabel \cup DispatchLabel \cup ShortLabel \cup LongLabel]
        /\ ptr \in [Thread -> 0 .. Len(heap)]
        /\ \A u \in Thread : u # c /\ u # "long" => pc'[u] = pc[u]
        /\ pc'["long"] = pc["long"] \/ (pc["long"] = "degree" /\ pc'["long"] = "lost")
        /\ \A u \in Thread : u # c => ptr'[u] = ptr[u]
        /\ UNCHANGED <<fin, freed, sleepers>>
        /\ ~ReceiveFinishProcess(c)
    BY ConsoleActs, AccessType DEF Inv, Orderly, TypeOK, KernelTypeOK, Crash
  <1>1. \A i : Dropping(i)' = Dropping(i)
    BY <1>0, DroppingKept
  <1>2. /\ \A u \in Thread : u # c => (pc'[u] \in Carrying => pc[u] \in Carrying /\ ptr'[u] = ptr[u])
        /\ Asleep' = Asleep
    BY <1>0 DEF Carrying, Asleep
  <1>3. CASE Step(ReceiveCreateProcess(c))
    <2>1. /\ Receives(c, "CREATE_PROCESS") /\ Goto(c, "assigned") /\ queue' = queue
          /\ ptr' = [ptr EXCEPT ![c] = Len(heap) + 1]
          /\ heap' = Append(heap, [pid |-> idToAssign, path |-> Received(c).path, counter |-> 0,
                                   resources |-> <<>>, state |-> "NEW"])
      BY <1>3 DEF Step, ReceiveCreateProcess
    <2>2. \A p \in 1 .. Len(heap) : heap[p].pid # idToAssign
      <3>1. ASSUME NEW p \in 1 .. Len(heap), heap[p].pid = idToAssign PROVE FALSE
        <4>1. PICK d \in Console : pc[d] = "assigned"
          <5>1. idToAssign \in Nat /\ ~(idToAssign < idToAssign)
            BY <1>0 DEF TypeOK, KernelTypeOK
          <5> QED
            BY <1>0, <3>1, <5>1 DEF PidsOK
        <4>2. Creates(c)
          <5>1. Script[c] \in Seq(Command) /\ commands[c] \in Nat
            BY <1>0, ScriptAssumption DEF TypeOK, KernelTypeOK
          <5>2. commands[c] + 1 \in DOMAIN Script[c]
            BY <2>1, <5>1, LenProperties DEF Receives
          <5> QED
            BY <2>1, <5>2 DEF Receives, Creates
        <4>3. c = d
          BY <1>0, <4>1, <4>2 DEF PidsOK, OneCreator
        <4> QED
          BY <2>1, <4>1, <4>3 DEF Receives
      <3> QED
        BY <3>1
    <2>3. ptr'[c] = Len(heap) + 1 /\ Len(heap') = Len(heap) + 1 /\ Len(heap) \in Nat
      BY <1>0, <2>1, AppendProperties, LenProperties DEF TypeOK, KernelTypeOK
    <2>4. heap'[Len(heap) + 1].pid = idToAssign
      BY <1>0, <2>1, AppendProperties DEF TypeOK, KernelTypeOK
    <2>5. pc[c] \notin Carrying /\ pc[c] = "listen"
      BY <2>1 DEF Receives, Carrying
    <2>6. ptr'[c] \in 1 .. Len(heap') /\ heap'[ptr'[c]].pid = idToAssign
      BY <2>3, <2>4
    <2>7. \A u \in Thread : u # c => pc'[u] = pc[u] /\ ptr'[u] = ptr[u]
      BY <1>0, <2>1 DEF Goto
    <2> QED
      BY <1>0, <1>1, <2>1, <2>2, <2>5, <2>6, <2>7, Appears
  <1>4. CASE Step(MoveProcessToNew(c))
    <2> DEFINE p == ptr[c]
               a == <<"thread", c>>
               b == <<"queue", New>>
    <2>1. /\ pc[c] = "admit" /\ pc'[c] = "listen" /\ Push(New, p)
      BY <1>0, <1>4 DEF Step, MoveProcessToNew, Goto
    <2>2. p \in 1 .. Len(heap) /\ a \in Place /\ heap[p].pid \in PidsAt(a)
      BY <1>0, <2>1, IsWith DEF Carrying
    <2>3. b \in Place /\ a # b
      BY Indices, Places
    <2>4. \A e \in ToSet(queue[New]) : heap[e].pid # heap[p].pid
      BY <2>2, NotOn, Indices
    <2>5. /\ PidsAt(b)' \subseteq PidsAt(b) \cup {heap[p].pid}
          /\ \A j \in QueueIndex : j # New => queue'[j] = queue[j]
          /\ \A j \in QueueIndex : EachOnce(heap', queue'[j])
      BY <1>1, <2>1, <2>2, <2>4, PushPlace, Indices
    <2>6. PidsAt(a)' = {} /\ pc'[c] \notin Carrying
      BY <2>1, EmptyHand DEF Carrying
    <2> HIDE DEF p
    <2>7. \A j \in QueueIndex : <<"queue", j>> # b => ToSet(queue'[j]) \subseteq ToSet(queue[j])
      BY <2>5
    <2>8. \A u \in Thread : pc'[u] \in Carrying => pc[u] \in Carrying /\ ptr'[u] = ptr[u]
      BY <1>2, <2>6
    <2>9. Asleep' \subseteq Asleep /\ freed' \subseteq freed
      BY <1>0, <1>2
    <2>10. \A s, u \in Asleep' : heap'[s.args].pid = heap'[u.args].pid => s = u
      BY <2>9, AsleepKept
    <2> HIDE DEF a, b
    <2> QED
      BY <1>1, <2>2, <2>3, <2>5, <2>6, <2>7, <2>8, <2>9, <2>10, Moves
  <1>5. CASE ~Step(ReceiveCreateProcess(c)) /\ ~Step(MoveProcessToNew(c))
    <2>1. queue' = queue /\ (pc'[c] \in Carrying => pc[c] \in Carrying /\ ptr'[c] = ptr[c])
      BY <1>0, <1>5
         DEF HandlerConnection, Step, IncrementId, CreateInMemory, StopPlanning, StopShortTerm,
             StopLongTerm, StartPlanning, ModifyDegree, Goto, Carrying, locals
    <2> QED
      BY <1>0, <1>1, <1>2, <2>1, Stays, QueuesKept
  <1> QED
    BY <1>3, <1>4, <1>5

\* The long term planner admits processes.
LEMMA LongPlace ==
    ASSUME Inv, TypeOK', ConsolesIdle', HeapKept, ~crashed', LongTermPlanner
    PROVE  OnePlace'
  <1> DEFINE t == "long"
             hand == <<"thread", t>>
  <1>0. /\ TypeOK /\ ConsolesIdle /\ ~Crash /\ t \in Thread /\ "dispatch" \in Thread
        /\ pc \in [Thread -> ConsoleLabel \cup DispatchLabel \cup ShortLabel \cup LongLabel]
        /\ ptr \in [Thread -> 0 .. Len(heap)]
        /\ UNCHANGED <<fin, freed, sleepers>>
        /\ \A u \in Thread : u # t => pc'[u] = pc[u] /\ ptr'[u] = ptr[u]
    BY LongActs, AccessType DEF Acts, Inv, TypeOK, KernelTypeOK, Crash
  <1>1. \A i : Dropping(i)' = Dropping(i)
    BY <1>0, DroppingKept
  <1>2. /\ \A u \in Thread : u # t => (pc'[u] \in Carrying => pc[u] \in Carrying /\ ptr'[u] = ptr[u])
        /\ Asleep' \subseteq Asleep /\ freed' \subseteq freed
        /\ hand \in Place
    BY <1>0, Places DEF Asleep
  <1>3. \A s, u \in Asleep' : heap'[s.args].pid = heap'[u.args].pid => s = u
    BY <1>2, AsleepKept
  <1>4. CASE Step(LongPopNew)
    <2> DEFINE p == Head(queue[New])
               a == <<"queue", New>>
    <2>1. /\ queue[New] # <<>> /\ Pop(New) /\ pc'[t] = "push" /\ ptr'[t] = p /\ pc[t] = "new"
      BY <1>0, <1>4 DEF Step, LongPopNew, Goto
    <2>2. /\ p \in ToSet(queue[New]) /\ heap[p].pid \notin PidsAt(a)'
          /\ \A j \in QueueIndex : ToSet(queue'[j]) \subseteq ToSet(queue[j])
          /\ \A j \in QueueIndex : EachOnce(heap', queue'[j])
      BY <2>1, PopPlace, Indices
    <2>3. a \in Place /\ heap[p].pid \in PidsAt(a) /\ p \in 1 .. Len(heap) /\ a # hand
      BY <2>2, IsOn, QueueLive, Indices
    <2>4. PidsAt(hand)' \subseteq PidsAt(hand) \cup {heap[p].pid}
      BY <2>1, <2>3 DEF PidsAt, ThreadPids, HeapKept
    <2>5. \A u \in Thread : <<"thread", u>> # hand =>
              (pc'[u] \in Carrying => pc[u] \in Carrying /\ ptr'[u] = ptr[u])
      BY <1>2
    <2> HIDE DEF p, a, hand
    <2> QED
      BY <1>1, <1>2, <1>3, <2>2, <2>3, <2>4, <2>5, Moves
  <1>5. CASE Step(LongPushReady)
    <2> DEFINE p == ptr[t]
               b == <<"queue", Ready>>
    <2>1. pc[t] = "push" /\ pc'[t] = "planner" /\ Push(Ready, p)
      BY <1>0, <1>5 DEF Step, LongPushReady, Goto
    <2>2. p \in 1 .. Len(heap) /\ heap[p].pid \in PidsAt(hand) /\ b \in Place /\ hand # b
      BY <1>0, <2>1, IsWith, Places, Indices DEF Carrying
    <2>3. \A e \in ToSet(queue[Ready]) : heap[e].pid # heap[p].pid
      BY <1>2, <2>2, NotOn, Indices
    <2>4. /\ PidsAt(b)' \subseteq PidsAt(b) \cup {heap[p].pid}
          /\ \A j \in QueueIndex : j # Ready => queue'[j] = queue[j]
          /\ \A j \in QueueIndex : EachOnce(heap', queue'[j])
      BY <1>1, <2>1, <2>2, <2>3, PushPlace, Indices
    <2>5. PidsAt(hand)' = {} /\ pc'[t] \notin Carrying
      BY <2>1, EmptyHand DEF Carrying
    <2>6. \A j \in QueueIndex : <<"queue", j>> # b => ToSet(queue'[j]) \subseteq ToSet(queue[j])
      BY <2>4
    <2>7. \A u \in Thread : pc'[u] \in Carrying => pc[u] \in Carrying /\ ptr'[u] = ptr[u]
      BY <1>2, <2>5
    <2> HIDE DEF p, b, hand
    <2> QED
      BY <1>1, <1>2, <1>3, <2>2, <2>4, <2>5, <2>6, <2>7, Moves
  <1>6. CASE ~Step(LongPopNew) /\ ~Step(LongPushReady)
    <2>1. queue' = queue /\ pc'[t] \notin Carrying
      BY <1>0, <1>6 DEF LongTermPlanner, Step, LongWaitPlanner, LongWaitDegree, Goto, Carrying
    <2> QED
      BY <1>1, <1>2, <2>1, Stays, QueuesKept
  <1> QED
    BY <1>4, <1>5, <1>6

\* The short term planner takes them to queue_exec.
LEMMA ShortPlace ==
    ASSUME Inv, TypeOK', ConsolesIdle', HeapKept, ~crashed', ShortTermPlanner
    PROVE  OnePlace'
  <1> DEFINE t == "short"
             hand == <<"thread", t>>
  <1>0. /\ TypeOK /\ ConsolesIdle /\ ~Crash /\ t \in Thread /\ "dispatch" \in Thread
        /\ pc \in [Thread -> ConsoleLabel \cup DispatchLabel \cup ShortLabel \cup LongLabel]
        /\ ptr \in [Thread -> 0 .. Len(heap)]
        /\ UNCHANGED <<fin, freed, sleepers>>
        /\ \A u \in Thread : u # t => pc'[u] = pc[u] /\ ptr'[u] = ptr[u]
    BY ShortActs, AccessType DEF Acts, Inv, TypeOK, KernelTypeOK, Crash
  <1>1. \A i : Dropping(i)' = Dropping(i)
    BY <1>0, DroppingKept
  <1>2. /\ \A u \in Thread : u # t => (pc'[u] \in Carrying => pc[u] \in Carrying /\ ptr'[u] = ptr[u])
        /\ Asleep' \subseteq Asleep /\ freed' \subseteq freed
        /\ hand \in Place
    BY <1>0, Places DEF Asleep
  <1>3. \A s, u \in Asleep' : heap'[s.args].pid = heap'[u.args].pid => s = u
    BY <1>2, AsleepKept
  <1>4. CASE Step(ShortPopReady)
    <2> DEFINE p == Head(queue[Ready])
               a == <<"queue", Ready>>
    <2>1. /\ queue[Ready] # <<>> /\ Pop(Ready) /\ pc'[t] = "push" /\ ptr'[t] = p
      BY <1>0, <1>4 DEF Step, ShortPopReady, Goto
    <2>2. /\ p \in ToSet(queue[Ready]) /\ heap[p].pid \notin PidsAt(a)'
          /\ \A j \in QueueIndex : ToSet(queue'[j]) \subseteq ToSet(queue[j])
          /\ \A j \in QueueIndex : EachOnce(heap', queue'[j])
      BY <2>1, PopPlace, Indices
    <2>3. a \in Place /\ heap[p].pid \in PidsAt(a) /\ p \in 1 .. Len(heap) /\ a # hand
      BY <2>2, IsOn, QueueLive, Indices
    <2>4. PidsAt(hand)' \subseteq PidsAt(hand) \cup {heap[p].pid}
      BY <2>1, <2>3 DEF PidsAt, ThreadPids, HeapKept
    <2>5. \A u \in Thread : <<"thread", u>> # hand =>
              (pc'[u] \in Carrying => pc[u] \in Carrying /\ ptr'[u] = ptr[u])
      BY <1>2
    <2> HIDE DEF p, a, hand
    <2> QED
      BY <1>1, <1>2, <1>3, <2>2, <2>3, <2>4, <2>5, Moves
  <1>5. CASE Step(ShortPushExec)
    <2> DEFINE p == ptr[t]
               b == <<"queue", Exec>>
    <2>1. pc[t] = "push" /\ pc'[t] = "send" /\ Push(Exec, p)
      BY <1>0, <1>5 DEF Step, ShortPushExec, Goto
    <2>2. p \in 1 .. Len(heap) /\ heap[p].pid \in PidsAt(hand) /\ b \in Place /\ hand # b
      BY <1>0, <2>1, IsWith, Places, Indices DEF Carrying
    <2>3. \A e \in ToSet(queue[Exec]) : heap[e].pid # heap[p].pid
      BY <1>2, <2>2, NotOn, Indices
    <2>4. /\ PidsAt(b)' \subseteq PidsAt(b) \cup {heap[p].pid}
          /\ \A j \in QueueIndex : j # Exec => queue'[j] = queue[j]
          /\ \A j \in QueueIndex : EachOnce(heap', queue'[j])
      BY <1>1, <2>1, <2>2, <2>3, PushPlace, Indices
    <2>5. PidsAt(hand)' = {} /\ pc'[t] \notin Carrying
      BY <2>1, EmptyHand DEF Carrying
    <2>6. \A j \in QueueIndex : <<"queue", j>> # b => ToSet(queue'[j]) \subseteq ToSet(queue[j])
      BY <2>4
    <2>7. \A u \in Thread : pc'[u] \in Carrying => pc[u] \in Carrying /\ ptr'[u] = ptr[u]
      BY <1>2, <2>5
    <2> HIDE DEF p, b, hand
    <2> QED
      BY <1>1, <1>2, <1>3, <2>2, <2>4, <2>5, <2>6, <2>7, Moves
  <1>6. CASE Step(SortQueue)
    <2> DEFINE q == queue[Ready]
    <2>1. q \in Seq(1 .. Len(heap)) /\ EachOnce(heap, q)
      BY Indices DEF Inv, OnePlace, TypeOK, KernelTypeOK
    <2>2. PICK f \in [1 .. Len(q) -> 1 .. Len(q)] :
              /\ \A i, j \in 1 .. Len(q) : f[i] = f[j] => i = j
              /\ queue' = [queue EXCEPT ![Ready] = [i \in 1 .. Len(q) |-> q[f[i]]]]
      BY <1>0, <1>6 DEF Step, SortQueue
    <2> DEFINE r == [i \in 1 .. Len(q) |-> q[f[i]]]
    <2>4. queue' = [queue EXCEPT ![Ready] = r] /\ \A i \in 1 .. Len(q) : r[i] = q[f[i]]
      BY <2>2
    <2> HIDE DEF q
    <2>a. r \in Seq(1 .. Len(heap)) /\ Len(r) = Len(q)
      BY <2>1, PermutationType
    <2>b. \A i \in 1 .. Len(q) : f[i] \in 1 .. Len(q) /\ r[i] = q[f[i]]
      BY <2>2
    <2>c. \A i, j \in 1 .. Len(q) : f[i] = f[j] => i = j
      BY <2>2
    <2> HIDE DEF r
    <2>3. EachOnce(heap, r) /\ ToSet(r) \subseteq ToSet(q)
      <3>1. DOMAIN q = 1 .. Len(q) /\ ToSet(q) = {q[i] : i \in 1 .. Len(q)}
        BY <2>1, Queued
      <3>2. DOMAIN r = 1 .. Len(q) /\ ToSet(r) = {r[i] : i \in 1 .. Len(q)}
        BY <2>a, Queued
      <3>3. EachOnce(heap, r)
        <4> SUFFICES ASSUME NEW i \in 1 .. Len(q), NEW j \in 1 .. Len(q),
                            heap[r[i]].pid = heap[r[j]].pid
            PROVE i = j
          BY <3>2 DEF EachOnce
        <4> DEFINE k == f[i]
                   l == f[j]
        <4>a. r[i] = q[k] /\ r[j] = q[l] /\ k \in 1 .. Len(q) /\ l \in 1 .. Len(q)
          BY <2>b
        <4> HIDE DEF k, l
        <4>b. heap[q[k]].pid = heap[q[l]].pid /\ k \in DOMAIN q /\ l \in DOMAIN q
          BY <3>1, <4>a
        <4>c. k = l
          BY <2>1, <4>b DEF EachOnce
        <4>1. f[i] = f[j]
          BY <4>c DEF k, l
        <4> QED
          BY <2>c, <4>1
      <3> QED
        BY <2>b, <3>1, <3>2, <3>3
    <2>5. /\ queue'[Ready] = r
          /\ \A j \in QueueIndex : j # Ready => queue'[j] = queue[j]
          /\ \A j \in QueueIndex : EachOnce(heap', queue'[j])
      BY <2>a, <2>3, <2>4, OnceWritten, Indices
    <2>6. \A j \in QueueIndex : ToSet(queue'[j]) \subseteq ToSet(queue[j])
      BY <2>3, <2>5 DEF q
    <2>7. pc'[t] \notin Carrying
      BY <1>0, <1>6 DEF Step, SortQueue, Goto, Carrying
    <2> QED
      BY <1>1, <1>2, <2>5, <2>6, <2>7, Stays
  <1>7. CASE ~Step(ShortPopReady) /\ ~Step(ShortPushExec) /\ ~Step(SortQueue)
    <2>1. queue' = queue /\ pc'[t] \notin Carrying
      BY <1>0, <1>7
         DEF ShortTermPlanner, Step, ShortWaitPlanner, ShortWaitReady, ShortWaitCpu, ShortWait,
             DispatchProcess, InterruptProcess, Goto, Carrying
    <2> QED
      BY <1>1, <1>2, <2>1, Stays, QueuesKept
  <1> QED
    BY <1>4, <1>5, <1>6, <1>7

\* A sleep thread takes its process from queue_exec and brings it to queue_ready.
LEMMA SleepPlace ==
    ASSUME Orderly, Inv, KeepUp, TypeOK', ConsolesIdle', HeapKept, ~crashed', SleepThread
    PROVE  OnePlace'
  <1> DEFINE bed == <<"asleep", "asleep">>
  <1>0. /\ TypeOK /\ ConsolesIdle /\ FinishOK /\ SleepersOK /\ ~Crash
        /\ "dispatch" \in Thread
        /\ \A t \in Thread : pc'[t] = pc[t] /\ ptr'[t] = ptr[t]
        /\ freed' = freed /\ fin' = fin
        /\ sleepers \subseteq Sleeper /\ \A s \in sleepers : s.args \in 1 .. Len(heap)
    BY SleepActs, AccessType DEF Inv, Orderly, locals, Crash, TypeOK, KernelTypeOK, SleepersOK
  <1>1. \A i : Dropping(i)' = Dropping(i)
    BY <1>0, DroppingKept
  <1>2. /\ \A t \in Thread : pc'[t] \in Carrying => pc[t] \in Carrying /\ ptr'[t] = ptr[t]
        /\ freed' \subseteq freed
        /\ bed \in Place /\ PidsAt(bed) = SleepPids
    BY <1>0, Places
  <1> PICK s \in sleepers : Step(SleepArguments(s)) \/ Step(SleepPop(s)) \/ Step(SleepEnd(s))
    BY DEF SleepThread
  <1> DEFINE p == s.args
  <1>3. p \in 1 .. Len(heap) /\ heap'[p].pid = heap[p].pid
    BY <1>0 DEF HeapKept
  <1>4. CASE Step(SleepPop(s))
    <2> DEFINE new == [s EXCEPT !.phase = "asleep"]
               a == <<"queue", Exec>>
               x == heap[Head(queue[Exec])].pid
    <2>1. s \in Starting /\ sleepers' = (sleepers \ {s}) \cup {new} /\ Pop(Exec)
      BY <1>0, <1>4 DEF Step, SleepPop, DropExecHead, Starting
    <2>a. new.args = p
      BY <1>0 DEF Sleeper
    <2>2. /\ queue[Exec] # <<>> /\ heap[p].pid = x
      BY <1>0, <2>1 DEF SleepersOK
    <2>3. /\ Head(queue[Exec]) \in ToSet(queue[Exec]) /\ x \notin PidsAt(a)'
          /\ \A j \in QueueIndex : ToSet(queue'[j]) \subseteq ToSet(queue[j])
          /\ \A j \in QueueIndex : EachOnce(heap', queue'[j])
      BY <2>1, <2>2, PopPlace, Indices
    <2>4. a \in Place /\ x \in PidsAt(a) /\ a # bed
      BY <2>3, IsOn, Indices
    <2>5. Asleep' \subseteq Asleep \cup {new} /\ new.args = p
      BY <2>1, <2>a DEF Asleep
    <2>6. PidsAt(bed)' \subseteq PidsAt(bed) \cup {x}
      <3>1. PidsAt(bed)' = {heap'[e].pid : e \in {u.args : u \in Asleep'}}
        BY DEF PidsAt, SleepPids, PidsOf
      <3>2. SleepPids = {heap[e].pid : e \in {u.args : u \in Asleep}}
        BY DEF SleepPids, PidsOf
      <3>3. \A u \in Asleep : heap'[u.args].pid = heap[u.args].pid
        BY <1>0 DEF HeapKept, Asleep
      <3>4. heap'[p].pid = x
        BY <1>3, <2>2
      <3>5. \A u \in Asleep' : heap'[u.args].pid \in SleepPids \cup {x}
        BY <2>5, <3>2, <3>3, <3>4
      <3> QED
        BY <1>2, <3>1, <3>5
    <2>7. \A u \in Asleep : heap[u.args].pid # heap[p].pid
      <3>1. PidsAt(a) \cap PidsAt(bed) = {}
        BY <1>2, <2>4 DEF Inv, OnePlace, Apart
      <3>2. \A u \in Asleep : heap[u.args].pid \in SleepPids
        BY DEF SleepPids, PidsOf
      <3> QED
        BY <1>2, <2>2, <2>4, <3>1, <3>2
    <2>8. \A u, v \in Asleep' : heap'[u.args].pid = heap'[v.args].pid => u = v
      <3>1. \A u \in Asleep : heap'[u.args].pid = heap[u.args].pid
        BY <1>0 DEF HeapKept, Asleep
      <3>2. \A u, v \in Asleep : heap[u.args].pid = heap[v.args].pid => u = v
        BY DEF Inv, OnePlace
      <3> HIDE DEF new, p
      <3> QED
        BY <1>3, <2>5, <2>7, <3>1, <3>2
    <2> HIDE DEF x, a, bed, new, p
    <2>9. \A t \in Thread : <<"thread", t>> # bed =>
              (pc'[t] \in Carrying => pc[t] \in Carrying /\ ptr'[t] = ptr[t])
      BY <1>2
    <2>10. bed = <<"asleep", "asleep">>
      BY DEF bed
    <2> QED
      BY <1>1, <1>2, <2>3, <2>4, <2>6, <2>8, <2>9, <2>10, Moves
  <1>5. CASE Step(SleepEnd(s))
    <2> DEFINE x == heap[p].pid
               b == <<"queue", Ready>>
    <2>1. s \in Asleep /\ sleepers' = sleepers \ {s} /\ Push(Ready, p)
      BY <1>0, <1>5 DEF Step, SleepEnd, Asleep
    <2>2. x \in PidsAt(bed) /\ b \in Place /\ b # bed
      BY <1>2, <2>1, Places, Indices DEF SleepPids, PidsOf
    <2>3. Asleep' = Asleep \ {s}
      BY <2>1 DEF Asleep
    <2>4. x \notin PidsAt(bed)'
      <3>1. PidsAt(bed)' = {heap'[e].pid : e \in {u.args : u \in Asleep'}}
        BY DEF PidsAt, SleepPids, PidsOf
      <3>2. \A u \in Asleep : heap'[u.args].pid = heap[u.args].pid
        BY <1>0 DEF HeapKept, Asleep
      <3>3. \A u, v \in Asleep : heap[u.args].pid = heap[v.args].pid => u = v
        BY DEF Inv, OnePlace
      <3> QED
        BY <2>1, <2>3, <3>1, <3>2, <3>3
    <2>5. \A e \in ToSet(queue[Ready]) : heap[e].pid # heap[p].pid
      BY <1>2, <2>2, NotOn, Indices
    <2> HIDE DEF p
    <2>6. /\ PidsAt(b)' \subseteq PidsAt(b) \cup {heap[p].pid}
          /\ \A j \in QueueIndex : j # Ready => queue'[j] = queue[j]
          /\ \A j \in QueueIndex : EachOnce(heap', queue'[j])
      BY <1>1, <1>3, <2>1, <2>5, PushPlace, Indices
    <2>7. \A j \in QueueIndex : <<"queue", j>> # b => ToSet(queue'[j]) \subseteq ToSet(queue[j])
      BY <2>6
    <2>8. Asleep' \subseteq Asleep
      BY <2>3
    <2>9. \A u, v \in Asleep' : heap'[u.args].pid = heap'[v.args].pid => u = v
      BY <2>8, AsleepKept
    <2> HIDE DEF b, bed
    <2> QED
      BY <1>1, <1>2, <2>2, <2>4, <2>6, <2>7, <2>8, <2>9, Moves
  <1>6. CASE Step(SleepArguments(s))
    <2>1. PICK args \in {frame, 0} :
              /\ sleepers' = (sleepers \ {s}) \cup {[s EXCEPT !.args = args, !.phase = "read"]}
              /\ queue' = queue
      BY <1>6 DEF Step, SleepArguments
    <2>2. Asleep' \subseteq Asleep
      <3>1. [s EXCEPT !.args = args, !.phase = "read"].phase # "asleep"
        BY <1>0 DEF Sleeper
      <3> QED
        BY <2>1, <3>1 DEF Asleep
    <2> QED
      BY <1>1, <1>2, <2>1, <2>2, Stays, QueuesKept
  <1> QED
    BY <1>4, <1>5, <1>6

\* The dispatch thread takes the process that executes off queue_exec, and
\* requeues or blocks it.
LEMMA DispatchPlace ==
    ASSUME Orderly, Inv, KeepUp, TypeOK', ConsolesIdle', HeapKept, ~crashed',
           HandleDispatchConnection
    PROVE  OnePlace'
  <1> DEFINE t == "dispatch"
             hand == <<"thread", t>>
  <1>0. /\ TypeOK /\ ConsolesIdle /\ FinishOK /\ ~Crash
        /\ t \in Thread /\ LocalOK(t)
        /\ pc \in [Thread -> ConsoleLabel \cup DispatchLabel \cup ShortLabel \cup LongLabel]
        /\ ptr \in [Thread -> 0 .. Len(heap)]
        /\ freed' = freed
        /\ \A u \in Thread : u # t => pc'[u] = pc[u] /\ ptr'[u] = ptr[u]
        /\ pc[t] # "drop" /\ pc'[t] # "drop"
    BY DispatchActs, AccessType
       DEF Inv, Orderly, TypeOK, KernelTypeOK, Crash, Serving, DetectLabel, memory
  <1>1. \A i : Dropping(i)' = Dropping(i)
    BY <1>0, DroppingKept
  <1>2. /\ \A u \in Thread : u # t => (pc'[u] \in Carrying => pc[u] \in Carrying /\ ptr'[u] = ptr[u])
        /\ freed' \subseteq freed
        /\ hand \in Place
    BY <1>0, Places
  <1>3. Asleep' \subseteq Asleep
    BY <1>0, DetectionFrame
       DEF HandleDispatchConnection, Step, DispatchFinish, DispatchInterrupt,
           RequeueInterrupted, DispatchInvalid, DispatchWaitGranted, LoadInstances,
           DispatchWaitBlocked, BlockProcess, DispatchSignal, DispatchSignalUnheld,
           StoreInstances, Respond, DispatchSleep, inert, Asleep
  <1>4. \A s, u \in Asleep' : heap'[s.args].pid = heap'[u.args].pid => s = u
    BY <1>3, AsleepKept
  <1>5. ASSUME Pop(Exec), OnCpu, Starting = {}, ptr'[t] \in 1 .. Len(heap'),
               heap'[ptr'[t]].pid = heap[LastExec].pid
        PROVE  OnePlace'
    <2> DEFINE p == Head(queue[Exec])
               a == <<"queue", Exec>>
    <2>1. queue[Exec] # <<>> /\ p = LastExec
      BY <1>5, LastExecIs DEF Inv
    <2>2. /\ p \in ToSet(queue[Exec]) /\ heap[p].pid \notin PidsAt(a)'
          /\ \A j \in QueueIndex : ToSet(queue'[j]) \subseteq ToSet(queue[j])
          /\ \A j \in QueueIndex : EachOnce(heap', queue'[j])
      BY <1>5, <2>1, PopPlace, Indices
    <2>3. a \in Place /\ heap[p].pid \in PidsAt(a) /\ a # hand
      BY <2>2, IsOn, Indices
    <2>4. PidsAt(hand)' \subseteq PidsAt(hand) \cup {heap[p].pid}
      BY <1>5, <2>1 DEF PidsAt, ThreadPids
    <2>5. \A u \in Thread : <<"thread", u>> # hand =>
              (pc'[u] \in Carrying => pc[u] \in Carrying /\ ptr'[u] = ptr[u])
      BY <1>2
    <2> HIDE DEF p, a, hand
    <2> QED
      BY <1>1, <1>2, <1>3, <1>4, <2>2, <2>3, <2>4, <2>5, Moves
  <1>6. ASSUME NEW i \in QueueIndex, Push(i, ptr[t]), pc[t] \in Carrying, pc'[t] \notin Carrying
        PROVE  OnePlace'
    <2> DEFINE p == ptr[t]
               b == <<"queue", i>>
    <2>1. p \in 1 .. Len(heap) /\ heap[p].pid \in PidsAt(hand) /\ b \in Place /\ hand # b
      BY <1>0, <1>6, IsWith, Places
    <2>2. \A e \in ToSet(queue[i]) : heap[e].pid # heap[p].pid
      BY <1>0, <1>2, <1>6, <2>1, NotOn
    <2>3. /\ PidsAt(b)' \subseteq PidsAt(b) \cup {heap[p].pid}
          /\ \A j \in QueueIndex : j # i => queue'[j] = queue[j]
          /\ \A j \in QueueIndex : EachOnce(heap', queue'[j])
      BY <1>1, <1>6, <2>1, <2>2, PushPlace
    <2>4. PidsAt(hand)' = {}
      BY <1>6, EmptyHand
    <2>5. \A j \in QueueIndex : <<"queue", j>> # b => ToSet(queue'[j]) \subseteq ToSet(queue[j])
      BY <2>3
    <2>6. \A u \in Thread : pc'[u] \in Carrying => pc[u] \in Carrying /\ ptr'[u] = ptr[u]
      BY <1>2, <1>6
    <2> HIDE DEF p, b, hand
    <2> QED
      BY <1>1, <1>2, <1>3, <1>4, <2>1, <2>3, <2>4, <2>5, <2>6, Moves
  <1>7. CASE Step(DispatchInterrupt)
    <2> DEFINE pcb == [Arrived.pcb EXCEPT !.state = "READY"]
    <2>1. /\ DispatchInterrupt /\ ReceivesFromCpu("INTERRUPT") /\ Pop(Exec)
          /\ heap' = Append(heap, pcb) /\ ptr'[t] = Len(heap) + 1
      BY <1>0, <1>7 DEF Step, DispatchInterrupt, DropExecHead
    <2>2. Starting = {} /\ OnCpu /\ Arrived.pcb \in PCB /\ heap[LastExec].pid = Arrived.pcb.pid
      BY <1>0, <2>1, Asking
    <2>3. pcb \in PCB /\ pcb.pid = Arrived.pcb.pid
      BY <2>2 DEF PCB, ProcessState
    <2> HIDE DEF pcb
    <2>4. Len(heap') = Len(heap) + 1 /\ heap'[Len(heap) + 1] = pcb /\ Len(heap) \in Nat
      BY <1>0, <2>1, <2>3, AllocateKept, AccessType
    <2> QED
      BY <1>5, <2>1, <2>2, <2>3, <2>4
  <1>8. CASE Step(RequeueInterrupted)
    <2>1. pc[t] = "requeue" /\ pc'[t] = "listen" /\ Push(Ready, ptr[t])
      BY <1>0, <1>8 DEF Step, RequeueInterrupted, Goto
    <2> QED
      BY <1>6, <2>1, Indices DEF Carrying
  <1>9. CASE Step(DispatchWaitBlocked)
    <2>1. /\ ReceivesFromCpu("WAIT_REQUEST") /\ heap' = heap
          /\ Pop(Exec) /\ ptr'[t] = Head(queue[Exec])
      BY <1>0, <1>9 DEF Step, DispatchWaitBlocked, memory
    <2>2. Starting = {} /\ OnCpu
      BY <1>0, <2>1, Asking
    <2>3. Head(queue[Exec]) = LastExec /\ LastExec \in 1 .. Len(heap)
      BY <2>2, LastExecIs DEF Inv
    <2> QED
      BY <1>5, <2>1, <2>2, <2>3
  <1>10. CASE Step(BlockProcess)
    <2>1. /\ pc[t] = "block" /\ pc'[t] = "require"
          /\ Push(Blocked(fin[t].item), ptr[t]) /\ fin[t].item \in Resource
      BY <1>0, <1>10 DEF Step, BlockProcess, Goto, LocalOK
    <2> QED
      BY <1>6, <2>1, Indices DEF Carrying
  <1>11. CASE /\ ~Step(DispatchInterrupt)   /\ ~Step(RequeueInterrupted)
              /\ ~Step(DispatchWaitBlocked) /\ ~Step(BlockProcess)
    <2>1. queue' = queue /\ (pc'[t] = pc[t] \/ pc'[t] \notin Carrying)
      BY <1>0, <1>11, DetectionFrame
         DEF HandleDispatchConnection, Step, DispatchFinish, DispatchInvalid,
             DispatchWaitGranted, LoadInstances, DispatchSignal, DispatchSignalUnheld,
             StoreInstances, Respond, DispatchSleep, Goto, Finish, Return, Carrying, locals,
             DetectLabel
    <2>2. pc[t] \notin Carrying
      BY <1>0, <1>11, DetectionFrame
         DEF HandleDispatchConnection, Step, DispatchFinish, DispatchInvalid,
             DispatchWaitGranted, LoadInstances, DispatchSignal, DispatchSignalUnheld,
             StoreInstances, Respond, DispatchSleep, ReceivesFromCpu, Carrying, DetectLabel
    <2>3. \A u \in Thread : pc'[u] \in Carrying => pc[u] \in Carrying /\ ptr'[u] = ptr[u]
      BY <1>2, <2>1, <2>2
    <2>4. \A i \in QueueIndex : ToSet(queue'[i]) \subseteq ToSet(queue[i])
      BY <2>1
    <2> QED
      BY <1>1, <1>2, <1>3, <2>1, <2>3, <2>4, Stays, QueuesKept
  <1> QED
    BY <1>7, <1>8, <1>9, <1>10, <1>11

\* finish_process takes a process off queue_exec and frees it; meanwhile it moves
\* those that waited for its resources to queue_ready.
LEMMA FinishPlace ==
    ASSUME Orderly, Inv, TypeOK', ConsolesIdle', HeapKept, ~crashed', FinishProcess("dispatch")
    PROVE  OnePlace'
  <1> DEFINE t == "dispatch"
             hand == <<"thread", t>>
             grave == <<"freed", "freed">>
             w == fin[t].waiter
             B == Blocked(fin[t].item)
  <1>0. /\ TypeOK /\ ConsolesIdle /\ FinishOK /\ SleepersOK /\ ~Crash
        /\ t \in Thread /\ t \in Finisher /\ LocalOK(t)
        /\ pc \in [Thread -> ConsoleLabel \cup DispatchLabel \cup ShortLabel \cup LongLabel]
        /\ ptr \in [Thread -> 0 .. Len(heap)] /\ fin \in [Finisher -> Frame]
        /\ freed \subseteq 1 .. Len(heap)
        /\ \A u \in Thread : u # t => pc'[u] = pc[u] /\ ptr'[u] = ptr[u]
        /\ sleepers' = sleepers
    BY FinishActs, AccessType DEF Inv, Orderly, TypeOK, KernelTypeOK, Crash
  <1>1. pc[t] # "drop" /\ pc'[t] # "drop" => \A i : Dropping(i)' = Dropping(i)
    BY <1>0, DroppingKept
  <1>2. /\ \A u \in Thread : u # t => (pc'[u] \in Carrying => pc[u] \in Carrying /\ ptr'[u] = ptr[u])
        /\ Asleep' \subseteq Asleep
        /\ hand \in Place /\ grave \in Place /\ hand # grave
    BY <1>0, Places DEF Asleep
  <1>3. \A s, u \in Asleep' : heap'[s.args].pid = heap'[u.args].pid => s = u
    BY <1>2, AsleepKept
  <1>4. CASE Step(UnlinkProcess(t))
    <2> DEFINE p == LastExec
               a == <<"queue", Exec>>
               r == RemoveFirst(queue[Exec], p)
    <2>1. /\ pc[t] = "unlink" /\ pc'[t] = "wake" /\ ptr' = ptr
          /\ queue' = [queue EXCEPT ![fin[t].index] = RemoveFirst(@, ptr[t])]
      BY <1>0, <1>4 DEF Step, UnlinkProcess, Goto
    <2>2. Starting = {} /\ OnCpu /\ ptr[t] = p /\ fin[t].index = Exec
      BY <1>0, <2>1, Finishing DEF Finding, Found, FinishOK
    <2>3. /\ queue[Exec] \in Seq(1 .. Len(heap)) /\ p \in ToSet(queue[Exec])
          /\ p \in 1 .. Len(heap) /\ EachOnce(heap, queue[Exec])
      BY <2>2, LastExecIs, Indices DEF Inv, OnePlace, TypeOK, KernelTypeOK
    <2> HIDE DEF p
    <2>4. /\ r \in Seq(1 .. Len(heap)) /\ EachOnce(heap, r) /\ ToSet(r) \subseteq ToSet(queue[Exec])
          /\ \A e \in ToSet(r) : heap[e].pid # heap[p].pid
      <3>1. r \in Seq(1 .. Len(heap))
        BY <2>3, RemoveFirstType
      <3>2. /\ EachOnce(heap, r) /\ ToSet(r) = ToSet(queue[Exec]) \ {p}
            /\ \A e \in ToSet(r) : heap[e].pid # heap[p].pid
        BY <2>3, RemoveOnce
      <3> QED
        BY <3>1, <3>2
    <2>5. queue' = [queue EXCEPT ![Exec] = r]
      BY <2>1, <2>2
    <2> HIDE DEF r
    <2>6. /\ heap[p].pid \notin PidsAt(a)'
          /\ \A j \in QueueIndex : ToSet(queue'[j]) \subseteq ToSet(queue[j])
          /\ \A j \in QueueIndex : EachOnce(heap', queue'[j])
      BY <2>3, <2>4, <2>5, TakePlace, Indices
    <2>7. a \in Place /\ heap[p].pid \in PidsAt(a) /\ a # hand
      BY <2>3, IsOn, Indices
    <2>8. PidsAt(hand)' \subseteq PidsAt(hand) \cup {heap[p].pid}
      BY <2>1, <2>2, <2>3 DEF PidsAt, ThreadPids, HeapKept
    <2>9. /\ \A u \in Thread : <<"thread", u>> # hand =>
                 (pc'[u] \in Carrying => pc[u] \in Carrying /\ ptr'[u] = ptr[u])
          /\ freed' \subseteq freed
      BY <1>2, <1>4 DEF Step, UnlinkProcess, memory
    <2>10. \A i : Dropping(i) \subseteq Dropping(i)'
      BY <1>1, <2>1
    <2> HIDE DEF a, hand, grave, w, B
    <2> QED
      BY <1>2, <1>3, <2>6, <2>7, <2>8, <2>9, <2>10, Moves
  <1>5. CASE Step(Settle(t))
    <2> DEFINE p == ptr[t]
    <2>1. /\ pc[t] = "settle" /\ pc'[t] = "listen" /\ queue' = queue /\ heap' = heap
          /\ freed' = freed \cup {p}
      BY <1>0, <1>5 DEF Step, Settle, Return, Goto
    <2>2. p \in 1 .. Len(heap) /\ heap[p].pid \in PidsAt(hand)
      BY <1>0, <2>1, IsWith DEF Carrying
    <2>3. pc'[t] \notin Carrying /\ PidsAt(hand)' = {}
      BY <2>1, EmptyHand DEF Carrying
    <2>4. PidsAt(grave)' \subseteq PidsAt(grave) \cup {heap[p].pid}
      <3>1. PidsAt(grave)' = {heap'[e].pid : e \in freed'} /\ PidsAt(grave) = {heap[e].pid : e \in freed}
        BY DEF PidsAt, PidsOf
      <3> QED
        BY <2>1, <3>1
    <2>5. \A u \in Thread : pc'[u] \in Carrying => pc[u] \in Carrying /\ ptr'[u] = ptr[u]
      BY <1>2, <2>3
    <2>6. /\ \A i \in QueueIndex : ToSet(queue'[i]) \subseteq ToSet(queue[i])
          /\ \A i \in QueueIndex : EachOnce(heap', queue'[i])
      BY <2>1, QueuesKept
    <2>7. \A i : Dropping(i) \subseteq Dropping(i)'
      BY <1>1, <2>1
    <2>8. grave = <<"freed", "freed">>
      OBVIOUS
    <2> HIDE DEF p, hand, grave, w, B
    <2> QED
      BY <1>2, <1>3, <2>2, <2>3, <2>4, <2>5, <2>6, <2>7, <2>8, Moves
  <1>6. CASE Step(MoveWaiter(t))
    <2> PICK C : C = B
      OBVIOUS
    <2> DEFINE a == <<"queue", C>>
               b == <<"queue", Ready>>
    <2>1. /\ pc[t] = "move" /\ pc'[t] = "drop" /\ Push(Ready, w) /\ fin' = fin /\ ptr' = ptr
          /\ freed' = freed
      BY <1>0, <1>6 DEF Step, MoveWaiter, Goto
    <2>2. /\ C \in QueueIndex /\ C \notin {New, Ready, Exec}
          /\ queue[C] \in Seq(1 .. Len(heap)) /\ w \in ToSet(queue[C]) /\ w \in 1 .. Len(heap)
      <3>1. fin[t].item \in Resource /\ w \in ToSet(queue[B])
        BY <1>0, <2>1 DEF LocalOK, FinishOK, FinishLabel
      <3>2. B \in QueueIndex /\ B \notin {New, Ready, Exec}
        BY <3>1, Indices
      <3>3. queue[B] \in Seq(1 .. Len(heap))
        BY <1>0, <3>2 DEF TypeOK, KernelTypeOK
      <3> QED
        BY <3>1, <3>2, <3>3, QueueElements
    <2>3. a \in Place /\ b \in Place /\ a # b /\ heap[w].pid \in PidsAt(a)
      BY <2>1, <2>2, IsOn, Places, Indices
    <2>4. /\ \A i : Dropping(i) = {}
          /\ Dropping(C)' = {w}
          /\ Dropping(Ready)' = Dropping(Ready)
      <3>1. TypeOK' /\ ConsolesIdle' =>
                (\A i : Dropping(i) = IF pc["dispatch"] = "drop" /\ Blocked(fin["dispatch"].item) = i
                                      THEN {fin["dispatch"].waiter} ELSE {})'
        BY DroppingIs, PTL
      <3>2. \A i : Dropping(i)' = IF pc'["dispatch"] = "drop" /\ Blocked(fin'["dispatch"].item) = i
                                  THEN {fin'["dispatch"].waiter} ELSE {}
        BY <3>1 DEF Blocked
      <3>3. \A i : Dropping(i) = {}
        BY <1>0, <2>1, DroppingIs
      <3>4. C = Blocked(fin["dispatch"].item)
        OBVIOUS
      <3> QED
        BY <2>1, <2>2, <3>2, <3>3, <3>4
    <2>5. \A e \in ToSet(queue[Ready]) : heap[e].pid # heap[w].pid
      BY <2>1, <2>3, NotOn, Indices
    <2> HIDE DEF w, B
    <2>6. /\ PidsAt(b)' \subseteq PidsAt(b) \cup {heap[w].pid}
          /\ \A j \in QueueIndex : j # Ready => queue'[j] = queue[j]
          /\ \A j \in QueueIndex : EachOnce(heap', queue'[j])
      BY <2>1, <2>2, <2>4, <2>5, PushPlace, Indices
    <2>7. heap[w].pid \notin PidsAt(a)'
      <3>1. PidsAt(a)' \cap {heap'[e].pid : e \in Dropping(C)'} = {}
        BY DEF PidsAt, QueuePids, PidsOf
      <3> QED
        BY <2>2, <2>4, <3>1 DEF HeapKept
    <2>8. \A j \in QueueIndex : <<"queue", j>> # b => ToSet(queue'[j]) \subseteq ToSet(queue[j])
      BY <2>6
    <2>9. \A u \in Thread : pc'[u] \in Carrying => pc[u] \in Carrying /\ ptr'[u] = ptr[u]
      BY <1>2, <2>1 DEF Carrying
    <2>10. /\ \A i : Dropping(i) \subseteq Dropping(i)'
           /\ freed' \subseteq freed
      BY <2>1, <2>4
    <2> HIDE DEF a, b, hand, grave
    <2> QED
      BY <1>2, <1>3, <2>3, <2>6, <2>7, <2>8, <2>9, <2>10, Moves
  <1>7. CASE Step(DropWaiter(t))
    <2> DEFINE q == queue[B]
               r == RemoveFirst(q, w)
    <2>1. /\ pc[t] = "drop" /\ pc'[t] = "count" /\ fin' = fin /\ ptr' = ptr
          /\ queue' = [queue EXCEPT ![B] = r] /\ heap' = heap /\ freed' = freed
      BY <1>0, <1>7 DEF Step, DropWaiter, Goto, memory
    <2>2. /\ B \in QueueIndex /\ q \in Seq(1 .. Len(heap)) /\ w \in ToSet(q)
          /\ EachOnce(heap, q)
      <3>1. fin[t].item \in Resource /\ w \in ToSet(queue[B])
        BY <1>0, <2>1 DEF LocalOK, FinishOK, FinishLabel
      <3>2. B \in QueueIndex
        BY <3>1, Indices
      <3>3. queue[B] \in Seq(1 .. Len(heap)) /\ EachOnce(heap, queue[B])
        BY <3>2 DEF Inv, OnePlace, TypeOK, KernelTypeOK
      <3> QED
        BY <3>1, <3>2, <3>3
    <2>3. \A i : Dropping(i) = IF B = i THEN {w} ELSE {}
      BY <1>0, <2>1, DroppingIs
    <2> HIDE DEF q, w, B
    <2>4. /\ EachOnce(heap, r) /\ ToSet(r) = ToSet(q) \ {w} /\ r \in Seq(1 .. Len(heap))
          /\ \A e \in ToSet(r) : heap[e].pid # heap[w].pid
      <3>1. r \in Seq(1 .. Len(heap))
        BY <2>2, RemoveFirstType
      <3>2. /\ EachOnce(heap, r) /\ ToSet(r) = ToSet(q) \ {w}
            /\ \A e \in ToSet(r) : heap[e].pid # heap[w].pid
        BY <2>2, RemoveOnce
      <3> QED
        BY <3>1, <3>2
    <2> HIDE DEF r
    <2>5. /\ queue'[B] = r
          /\ \A j \in QueueIndex : j # B => queue'[j] = queue[j]
          /\ \A j \in QueueIndex : EachOnce(heap', queue'[j])
      BY <2>1, <2>2, <2>4, OnceWritten
    <2>6. \A i \in QueueIndex : QueuePids(i)' \subseteq QueuePids(i)
      <3> SUFFICES ASSUME NEW i \in QueueIndex PROVE QueuePids(i)' \subseteq QueuePids(i)
        OBVIOUS
      <3>1. QueuePids(i)' \subseteq {heap[e].pid : e \in ToSet(queue'[i])}
        BY <2>1 DEF QueuePids, PidsOf
      <3>2. QueuePids(i) = {heap[e].pid : e \in ToSet(queue[i])} \ {heap[e].pid : e \in Dropping(i)}
        BY DEF QueuePids, PidsOf
      <3>3. CASE i # B
        BY <2>3, <2>5, <3>1, <3>2, <3>3
      <3>4. CASE i = B
        <4>1. QueuePids(i) = {heap[e].pid : e \in ToSet(q)} \ {heap[w].pid}
          BY <2>3, <3>2, <3>4 DEF q
        <4>2. QueuePids(i)' \subseteq {heap[e].pid : e \in ToSet(r)}
          BY <2>5, <3>1, <3>4
        <4> QED
          BY <2>4, <4>1, <4>2
      <3> QED
        BY <3>3, <3>4
    <2>7. \A u \in Thread : ThreadPids(u)' \subseteq ThreadPids(u)
      <3>1. \A u \in Thread : pc'[u] \in Carrying => pc[u] \in Carrying /\ ptr'[u] = ptr[u]
        BY <1>2, <2>1 DEF Carrying
      <3> QED
        BY <1>0, <3>1, PlacesKept
    <2>8. SleepPids' \subseteq SleepPids /\ PidsOf(freed)' \subseteq PidsOf(freed)
      <3>1. freed' \subseteq freed /\ Asleep' \subseteq Asleep
        BY <1>2, <2>1
      <3> QED
        BY <1>0, <3>1, PlacesKept
    <2>9. \A c \in Place : PidsAt(c)' \subseteq PidsAt(c)
      <3> SUFFICES ASSUME NEW c \in Place PROVE PidsAt(c)' \subseteq PidsAt(c)
        OBVIOUS
      <3>1. CASE \E i \in QueueIndex : c = <<"queue", i>>
        BY <2>6, <3>1 DEF PidsAt
      <3>2. CASE \E u \in Thread : c = <<"thread", u>>
        BY <2>7, <3>2 DEF PidsAt
      <3>3. CASE c = <<"asleep", "asleep">> \/ c = <<"freed", "freed">>
        BY <2>8, <3>3 DEF PidsAt
      <3> QED
        BY <3>1, <3>2, <3>3, Places
    <2>10. Apart'
      BY <2>9, ApartKept DEF Inv, OnePlace
    <2> QED
      BY <1>3, <2>5, <2>10 DEF OnePlace
  <1>8. CASE /\ ~Step(UnlinkProcess(t)) /\ ~Step(Settle(t))
             /\ ~Step(MoveWaiter(t))    /\ ~Step(DropWaiter(t))
    <2>a. queue' = queue /\ freed' = freed
      BY <1>0, <1>8
         DEF FinishProcess, Step, FindProcess, InspectState, MarkExit, ReleaseResource,
             CreditResource, CheckBlocked, ContinueWaking, GetWaiter,
             CountWaiter, NotifyMemory, FinishDangling, memory
    <2>b. pc[t] # "drop" /\ pc'[t] # "drop"
      BY <1>0, <1>8
         DEF FinishProcess, Step, FindProcess, InspectState, MarkExit, ReleaseResource,
             CreditResource, CheckBlocked, ContinueWaking, GetWaiter,
             CountWaiter, NotifyMemory, FinishDangling, Goto, Return
    <2>c. pc'[t] \in Carrying => pc[t] \in Carrying
      <3>0. CASE FindProcess(t)
        BY <1>0, <3>0 DEF FindProcess, Goto, Return, Carrying
      <3>1. CASE InspectState(t) \/ MarkExit(t) \/ ReleaseResource(t) \/ CreditResource(t)
        BY <1>0, <3>1
           DEF InspectState, MarkExit, ReleaseResource, CreditResource, Goto, Carrying
      <3>2. CASE CheckBlocked(t) \/ ContinueWaking(t) \/ GetWaiter(t) \/ CountWaiter(t)
                     \/ NotifyMemory(t) \/ FinishDangling(t)
        BY <1>0, <3>2
           DEF CheckBlocked, ContinueWaking, GetWaiter, CountWaiter, NotifyMemory, FinishDangling,
               Goto, Return, Carrying
      <3> QED
        BY <1>8, <3>0, <3>1, <3>2 DEF FinishProcess, Step
    <2>1. /\ queue' = queue /\ freed' = freed /\ pc[t] # "drop" /\ pc'[t] # "drop"
          /\ pc'[t] \in Carrying => pc[t] \in Carrying
      BY <2>a, <2>b, <2>c
    <2>2. pc'[t] \in Carrying => ptr'[t] = ptr[t]
      <3>0. CASE FindProcess(t)
        BY <1>0, <3>0 DEF FindProcess, Goto, Return, Carrying
      <3>1. CASE ~FindProcess(t)
        BY <1>8, <3>1
           DEF FinishProcess, Step, InspectState, MarkExit, ReleaseResource, CreditResource,
               CheckBlocked, ContinueWaking, GetWaiter, CountWaiter, NotifyMemory,
               FinishDangling, Crash, locals
      <3> QED
        BY <3>0, <3>1
    <2>3. \A u \in Thread : pc'[u] \in Carrying => pc[u] \in Carrying /\ ptr'[u] = ptr[u]
      BY <1>2, <2>1, <2>2
    <2>4. /\ \A i \in QueueIndex : ToSet(queue'[i]) \subseteq ToSet(queue[i])
          /\ \A i : Dropping(i) \subseteq Dropping(i)' /\ freed' \subseteq freed
      BY <1>1, <2>1
    <2> QED
      BY <1>2, <2>1, <2>3, <2>4, Stays, QueuesKept
  <1> QED
    BY <1>4, <1>5, <1>6, <1>7, <1>8

\* Every step.
LEMMA PlaceStep ==
    ASSUME Orderly, Inv, KeepUp, TypeOK', ConsolesIdle', HeapKept, ~crashed', [Next]_allVars
    PROVE  OnePlace'
  <1>0. ConsolesIdle
    BY DEF Inv
  <1>1. CASE ExecuteProcess \/ InterruptThread \/ UNCHANGED allVars
    <2>1. UNCHANGED kernelVars
      BY <1>1 DEF ExecuteProcess, InterruptThread, CpuStep, allVars, vars
    <2>2. UNCHANGED <<queue, pc, ptr, sleepers, freed, fin>>
      BY <2>1 DEF kernelVars
    <2>3. \A i : Dropping(i) \subseteq Dropping(i)'
      BY <1>0, <2>2, DroppingKept DEF Inv
    <2>4. Asleep' \subseteq Asleep
      BY <2>2 DEF Asleep
    <2> QED
      BY <2>2, <2>3, <2>4, Stays, QueuesKept
  <1> QED
    BY <1>0, <1>1, ConsolePlace, LongPlace, ShortPlace, SleepPlace, DispatchPlace, FinishPlace,
       OnlyDispatch DEF Next

-----------------------------------------------------------------------------
(***************************************************************************)
(* The invariant holds                                                     *)
(***************************************************************************)

\* At the start there is no process.
LEMMA InvInit == Init => Inv
  <1> SUFFICES ASSUME Init PROVE Inv
    OBVIOUS
  <1>1. TypeOK /\ ConsolesIdle /\ CpuTokens <= 1
    BY InitType, FirstToken
  <1>2. /\ \A i \in QueueIndex : queue[i] = <<>> /\ Len(queue[i]) = 0 /\ ToSet(queue[i]) = {}
        /\ heap = <<>> /\ Len(heap) = 0 /\ freed = {} /\ sleepers = {}
        /\ toCpu = <<>> /\ toKernel = <<>> /\ ~CpuBusy
        /\ sem["new"] = 0 /\ sem["ready"] = 0 /\ ~crashed
    <2>1. \A i \in QueueIndex : queue[i] = <<>>
      BY DEF Init, KernelInit
    <2>2. Len(<<>>) = 0 /\ ToSet(<<>>) = {}
      BY DEF ToSet
    <2> QED
      BY <2>1, <2>2 DEF Init, KernelInit, CpuInit, ChannelsInit, CpuBusy, Semaphore
  <1>3. /\ \A t \in Thread : pc[t] \in {"listen", "planner"}
        /\ pc["dispatch"] = "listen" /\ pc["short"] = "planner"
        /\ \A c \in Console : pc[c] = "listen"
    BY ConsoleAssumption DEF Init, KernelInit, Thread, Finisher
  <1>4. OnePlace
    <2>1. \A a \in Place : PidsAt(a) = {}
      <3>1. \A i \in QueueIndex : QueuePids(i) = {}
        BY <1>2 DEF QueuePids, PidsOf
      <3>2. \A t \in Thread : ThreadPids(t) = {}
        BY <1>3 DEF ThreadPids, Carrying
      <3>3. SleepPids = {} /\ PidsOf(freed) = {}
        BY <1>2 DEF SleepPids, PidsOf, Asleep
      <3> QED
        BY <3>1, <3>2, <3>3, Places
    <2>2. \A i \in QueueIndex : EachOnce(heap, queue[i])
      <3>1. \A i \in QueueIndex : DOMAIN queue[i] = {}
        BY <1>2
      <3> QED
        BY <3>1 DEF EachOnce
    <2> QED
      BY <1>2, <2>1, <2>2 DEF OnePlace, Apart, Asleep
  <1>5. ExecOK /\ StateOK
    BY <1>2, <1>3, Indices
       DEF ExecOK, StateOK, OnCpu, Starting, Finding, Found, Answering, One
  <1>6. PidsOK /\ SleepersOK
    BY <1>2, <1>3 DEF PidsOK, SleepersOK, Starting
  <1>7. FinishOK /\ CountOK
    BY <1>2, <1>3, Indices DEF FinishOK, CountOK, Finding, Found, FinishLabel, One
  <1>8. DetectOK
    BY <1>3 DEF Init, KernelInit, DetectOK, DetectLabel
  <1> QED
    BY <1>1, <1>2, <1>4, <1>5, <1>6, <1>7, <1>8 DEF Inv

\* No step of any thread breaks it while the sleep threads keep up.
LEMMA InvNext ==
    ASSUME Orderly, Inv, KeepUp, [Next]_allVars
    PROVE  Inv'
  <1>1. TypeOK' /\ HeapKept /\ ~crashed'
    BY NextType, HeapFixed, Alive DEF Inv
  <1>2. ConsolesIdle' /\ CpuTokens' <= CpuTokens
    BY <1>1, NoSecondToken DEF Inv, Orderly
  <1>3. CpuTokens' <= 1
    <2>1. CpuTokens \in Int /\ CpuTokens <= 1
      BY TokensSplit DEF Inv
    <2>2. CpuTokens' \in Int
      <3>1. TypeOK' => (/\ CpuTokens = KernelTokens + One(CpuBusy)
                        /\ KernelTokens \in Int
                        /\ One(CpuBusy) \in Int)'
        BY TokensSplit, PTL
      <3> QED
        BY <1>1, <3>1
    <2> HIDE DEF CpuTokens
    <2> QED
      BY <1>2, <2>1, <2>2
  <1>4. OnePlace'
    BY <1>1, <1>2, PlaceStep
  <1>5. ExecOK' /\ StateOK'
    BY <1>1, ExecStep, StateStep
  <1>6. PidsOK' /\ SleepersOK'
    BY <1>1, PidsStep, SleepersStep
  <1>7. FinishOK' /\ CountOK' /\ DetectOK'
    BY <1>1, FinishStep, CountStep, DetectStep
  <1> QED
    BY <1>1, <1>2, <1>3, <1>4, <1>5, <1>6, <1>7 DEF Inv

\* A step that changes nothing leaves the sleep threads where they are.
LEMMA StutterKeepsUp ==
    ASSUME Inv, [Next /\ KeepUp]_allVars
    PROVE  KeepUp /\ [Next]_allVars
  <1>1. CASE UNCHANGED allVars
    <2>1. UNCHANGED <<sleepers, toKernel>>
      BY <1>1 DEF allVars, vars, kernelVars, channels
    <2> QED
      BY <1>1, <2>1 DEF KeepUp, Inv, SleepersOK, TypeOK, ChannelsTypeOK
  <1> QED
    BY <1>1

\* The invariant of an orderly system whose sleep threads keep up.
LEMMA Invariant ==
    ASSUME Orderly
    PROVE  TimelySpec => []Inv
  <1>1. Inv /\ [Next /\ KeepUp]_allVars => Inv'
    BY InvNext, StutterKeepsUp
  <1> QED
    BY <1>1, InvInit, PTL DEF TimelySpec

\* A system whose programs do not sleep has no sleep thread, nor a message of the
\* CPU that asks for one.
Sleepless ==
    /\ sleepers = {}
    /\ \A m \in ToSet(toKernel) : m.op # "SLEEP_REQUEST"

\* Nor does it get one: then there is nobody to keep up.
LEMMA SleeplessStep ==
    ASSUME NoSleep, TypeOK, Sleepless, [Next]_allVars
    PROVE  Sleepless' /\ KeepUp
  <1> SUFFICES Sleepless'
    BY DEF Sleepless, KeepUp, Starting
  <1>0. toKernel \in Seq(MessageToKernel)
    BY DEF TypeOK, ChannelsTypeOK
  <1>1. ASSUME UNCHANGED <<sleepers, toKernel>> PROVE Sleepless'
    BY <1>1 DEF Sleepless
  <1>2. ASSUME NEW c \in Console, HandlerConnection(c) PROVE Sleepless'
    BY <1>1, <1>2
       DEF HandlerConnection, Step, ReceiveCreateProcess, IncrementId, CreateInMemory,
           MoveProcessToNew, ReceiveFinishProcess, StopPlanning, StopShortTerm, StopLongTerm,
           StartPlanning, ModifyDegree, inert, channels
  <1>3. ASSUME NEW t \in Finisher, FinishProcess(t) PROVE Sleepless'
    BY <1>1, <1>3
       DEF FinishProcess, Step, FindProcess, InspectState, MarkExit, ReleaseResource,
           CreditResource, UnlinkProcess, CheckBlocked, ContinueWaking, GetWaiter, MoveWaiter,
           DropWaiter, CountWaiter, NotifyMemory, Settle, FinishDangling, Crash, inert, locals,
           channels
  <1>4. CASE LongTermPlanner
    BY <1>1, <1>4
       DEF LongTermPlanner, Step, LongWaitPlanner, LongWaitDegree, LongPopNew, LongPushReady,
           Crash, inert, channels
  <1>5. CASE ShortTermPlanner
    BY <1>1, <1>5
       DEF ShortTermPlanner, Step, ShortWaitPlanner, ShortWaitReady, ShortWaitCpu, ShortWait,
           SortQueue, ShortPopReady, ShortPushExec, DispatchProcess, InterruptProcess,
           Crash, inert, channels
  <1>6. CASE HandleDispatchConnection
    <2>1. ~Step(DispatchSleep)
      <3>1. toKernel # <<>> => Head(toKernel) \in ToSet(toKernel)
        BY <1>0, QueueElements
      <3> QED
        BY <3>1 DEF Step, DispatchSleep, ReceivesFromCpu, Sleepless
    <2>2. sleepers' = sleepers
      BY <1>6, <2>1, DetectionFrame
         DEF HandleDispatchConnection, Step, DispatchFinish, DispatchInterrupt,
             RequeueInterrupted, DispatchInvalid, DispatchWaitGranted, LoadInstances,
             DispatchWaitBlocked, BlockProcess, DispatchSignal, DispatchSignalUnheld,
             StoreInstances, Respond, Crash, inert
    <2>3. toKernel' = toKernel \/ (toKernel # <<>> /\ toKernel' = Tail(toKernel))
      BY <1>6, <2>1, DetectionFrame
         DEF HandleDispatchConnection, Step, DispatchFinish, DispatchInterrupt,
             RequeueInterrupted, DispatchInvalid, DispatchWaitGranted, LoadInstances,
             DispatchWaitBlocked, BlockProcess, DispatchSignal, DispatchSignalUnheld,
             StoreInstances, Respond, ReceivesFromCpu, Crash, inert, channels
    <2>4. toKernel # <<>> => ToSet(Tail(toKernel)) \subseteq ToSet(toKernel)
      <3> SUFFICES ASSUME toKernel # <<>> PROVE ToSet(Tail(toKernel)) \subseteq ToSet(toKernel)
        OBVIOUS
      <3>1. /\ Tail(toKernel) \in Seq(MessageToKernel)
            /\ Len(Tail(toKernel)) = Len(toKernel) - 1
            /\ \A k \in 1 .. Len(toKernel) - 1 : Tail(toKernel)[k] = toKernel[k + 1]
        BY <1>0, HeadTailProperties
      <3>2. /\ ToSet(Tail(toKernel)) = {Tail(toKernel)[k] : k \in 1 .. Len(toKernel) - 1}
            /\ ToSet(toKernel) = {toKernel[k] : k \in 1 .. Len(toKernel)}
            /\ Len(toKernel) \in Nat
        <4> DEFINE S == MessageToKernel
        <4> HIDE DEF S
        <4>1. toKernel \in Seq(S) /\ Tail(toKernel) \in Seq(S)
          BY <1>0, <3>1 DEF S
        <4>2. /\ ToSet(Tail(toKernel)) = {Tail(toKernel)[k] : k \in 1 .. Len(Tail(toKernel))}
              /\ ToSet(toKernel) = {toKernel[k] : k \in 1 .. Len(toKernel)}
              /\ Len(toKernel) \in Nat
          BY <4>1, QueueElements
        <4> QED
          BY <3>1, <4>2
      <3> QED
        BY <3>1, <3>2
    <2>5. ToSet(toKernel') \subseteq ToSet(toKernel)
      BY <2>3, <2>4
    <2> QED
      BY <2>2, <2>5 DEF Sleepless
  <1>7. CASE SleepThread
    BY <1>7 DEF SleepThread, Sleepless
  <1>8. CASE ExecuteProcess
    <2>1. sleepers' = sleepers
      BY <1>8 DEF ExecuteProcess, CpuStep, kernelVars
    <2>2. \/ toKernel' = toKernel
          \/ \E m \in MessageToKernel : m.op # "SLEEP_REQUEST" /\ toKernel' = Append(toKernel, m)
      <3>1. CASE ExecuteInstructionCycle
        <4> DEFINE instruction == Fetch(process)
                   request == Request(instruction, process)
        <4>1. process \in PCB
          BY <3>1 DEF ExecuteInstructionCycle, TypeOK, CpuTypeOK
        <4>2. instruction \in Instruction /\ instruction.op # "SLEEP"
          <5>1. process.path \in Path /\ process.counter \in Nat
            BY <4>1 DEF PCB
          <5>2. Program[process.path] \in Seq(Instruction) /\ Program[process.path] # <<>>
            BY <5>1, ProgramAssumption
          <5>3. /\ Len(Program[process.path]) \in Nat \ {0}
                /\ DOMAIN Program[process.path] = 1 .. Len(Program[process.path])
            BY <5>2, EmptySeq, LenProperties
          <5>4. \E k \in DOMAIN Program[process.path] : Fetch(process) = Program[process.path][k]
            <6> DEFINE size == Len(Program[process.path])
            <6>1. DOMAIN Program[process.path] = 1 .. size /\ size \in Nat \ {0}
              BY <5>3
            <6> HIDE DEF size
            <6>2. (IF process.counter < size THEN process.counter + 1 ELSE size) \in 1 .. size
              BY <5>1, <6>1
            <6> QED
              BY <6>1, <6>2 DEF Fetch, size
          <5> QED
            BY <4>1, <5>1, <5>4, FetchType DEF NoSleep
        <4>3. \/ toKernel' = toKernel
              \/ instruction.op # "CPU" /\ toKernel' = Append(toKernel, request)
          BY <3>1 DEF ExecuteInstructionCycle
        <4> HIDE DEF instruction
        <4>4. instruction.op # "CPU" => request \in MessageToKernel
          BY <4>1, <4>2, RequestType
        <4>5. instruction.op # "CPU" => request.op # "SLEEP_REQUEST"
          BY <4>2 DEF Request, Instruction
        <4> QED
          BY <4>3, <4>4, <4>5
      <3>2. CASE YieldProcess
        <4>1. process \in PCB
          BY <3>2 DEF YieldProcess, TypeOK, CpuTypeOK
        <4>2. [op |-> "INTERRUPT", pcb |-> process] \in MessageToKernel
          BY <4>1 DEF MessageToKernel
        <4> QED
          BY <3>2, <4>2 DEF YieldProcess
      <3>3. CASE ~ExecuteInstructionCycle /\ ~YieldProcess
        BY <1>8, <3>3
           DEF ExecuteProcess, CpuStep, ReceiveProcess, NoInterrupt, RejectInterrupt,
               ClearInterrupt, RelockInterrupt, channels
      <3> QED
        BY <3>1, <3>2, <3>3
    <2>3. \A m \in MessageToKernel : ToSet(Append(toKernel, m)) = ToSet(toKernel) \cup {m}
      BY <1>0, AppendElements
    <2>4. \A m \in ToSet(toKernel') : m \in ToSet(toKernel) \/ m.op # "SLEEP_REQUEST"
      BY <2>2, <2>3
    <2> QED
      BY <2>1, <2>4 DEF Sleepless
  <1>9. CASE InterruptThread \/ UNCHANGED allVars
    BY <1>1, <1>9
       DEF InterruptThread, CpuStep, ReceiveInterrupt, kernelVars, allVars, vars, channels
  <1> QED
    BY <1>2, <1>3, <1>4, <1>5, <1>6, <1>7, <1>8, <1>9 DEF Next

\* There is none at the start.
LEMMA SleeplessInit == Init => Sleepless
  BY DEF Init, KernelInit, ChannelsInit, Sleepless, ToSet

\* The invariant of an orderly system whose programs do not sleep.
LEMMA SleeplessInvariant ==
    ASSUME Orderly, NoSleep
    PROVE  Spec => [](Inv /\ Sleepless)
  <1>1. Inv /\ Sleepless /\ [Next]_allVars => Inv' /\ Sleepless'
    BY InvNext, SleeplessStep DEF Inv
  <1>2. Init => Inv /\ Sleepless
    BY InvInit, SleeplessInit
  <1> QED
    BY <1>1, <1>2, PTL DEF Spec

-----------------------------------------------------------------------------
(***************************************************************************)
(* What it gives: for programs that sleep, while their sleep threads keep  *)
(* up; for programs that do not, in every interleaving                     *)
(***************************************************************************)

\* In an orderly system no thread ever uses a NULL or freed PCB, however the
\* planners, the dispatch thread, its deadlock detector and the CPU interleave: no
\* queue is popped empty, and no PCB is freed while another thread can reach it
\* (queues.c:96-148, planners.c:34-133, deadlocks.c:27-76). If its programs sleep,
\* this needs their threads to keep up, which no line of the code makes them do.
THEOREM NeverCrashes ==
    ASSUME Orderly
    PROVE  /\ TimelySpec => []NoCrash
           /\ NoSleep => (Spec => []NoCrash)
  <1>1. Inv => NoCrash
    BY DEF Inv, NoCrash
  <1>2. TimelySpec => []NoCrash
    BY <1>1, Invariant, PTL
  <1>3. ASSUME NoSleep PROVE Spec => []NoCrash
    BY <1>1, <1>3, SleeplessInvariant, PTL
  <1> QED
    BY <1>2, <1>3

\* In an orderly system every process is in one place at a time, and once there,
\* although the kernel appends copies of PCBs to its queues and drops the ones
\* it had (handle_connection.c:127-145, queues.c:286-330). A process that sleeps
\* is, as long as its thread pops queue_exec (219-221) before the dispatch thread
\* takes a message about the next one; for programs that do not sleep nothing is
\* assumed.
THEOREM ProcessesStayApart ==
    ASSUME Orderly
    PROVE  /\ TimelySpec => []OnePlace
           /\ NoSleep => (Spec => []OnePlace)
  <1>1. Inv => OnePlace
    BY DEF Inv
  <1>2. TimelySpec => []OnePlace
    BY <1>1, Invariant, PTL
  <1>3. ASSUME NoSleep PROVE Spec => []OnePlace
    BY <1>1, <1>3, SleeplessInvariant, PTL
  <1> QED
    BY <1>2, <1>3

\* In an orderly system sem_process_ready and queue_ready differ by the process
\* that the dispatch thread has woken and not counted, and by the one the short
\* term planner has been promised (queues.c:320-329, planners.c:72-78).
THEOREM ReadyCounted ==
    ASSUME Orderly
    PROVE  /\ TimelySpec => []ReadyTokens
           /\ NoSleep => (Spec => []ReadyTokens)
  <1>1. Inv => ReadyTokens
    <2> SUFFICES ASSUME Inv PROVE ReadyTokens
      OBVIOUS
    <2>1. Waking = IF pc["dispatch"] \in {"drop", "count"} THEN {"dispatch"} ELSE {}
      BY AccessType DEF Waking, Inv, ConsolesIdle, FinishLabel, Finisher
    <2>2. Cardinality(Waking) = One(pc["dispatch"] \in {"drop", "count"})
      BY <2>1, FS_EmptySet, FS_Singleton DEF One
    <2> QED
      BY <2>2 DEF Inv, CountOK, ReadyTokens
  <1>2. TimelySpec => []ReadyTokens
    BY <1>1, Invariant, PTL
  <1>3. ASSUME NoSleep PROVE Spec => []ReadyTokens
    BY <1>1, <1>3, SleeplessInvariant, PTL
  <1> QED
    BY <1>2, <1>3

\* In an orderly system the process that heads queue_exec when the dispatch thread takes
\* a message is the one the message is about, if the sleep threads keep up or there are
\* none: popping it unseen takes the right one (queues.c:297, handle_connection.c:136),
\* although a process that went to sleep stood before it (handle_connection.c:202 and
\* 219-221).
THEOREM SenderHeadsExec ==
    ASSUME Orderly
    PROVE  /\ TimelySpec => []ExecHeadIsSender
           /\ NoSleep => (Spec => []ExecHeadIsSender)
  <1>1. Inv => ExecHeadIsSender
    <2> SUFFICES ASSUME Inv, toKernel # <<>>, Starting = {}
        PROVE  queue[Exec] # <<>> /\ heap[Head(queue[Exec])].pid = Head(toKernel).pcb.pid
      BY DEF ExecHeadIsSender
    <2>1. OnCpu
      BY DEF OnCpu
    <2>2. Head(toKernel) \in ToSet(toKernel)
      BY QueueElements DEF Inv, TypeOK, ChannelsTypeOK
    <2> QED
      BY <2>1, <2>2, LastExecIs DEF Inv, Runs
  <1>2. TimelySpec => []ExecHeadIsSender
    BY <1>1, Invariant, PTL
  <1>3. ASSUME NoSleep PROVE Spec => []ExecHeadIsSender
    BY <1>1, <1>3, SleeplessInvariant, PTL
  <1> QED
    BY <1>2, <1>3

\* In an orderly system a process that finish_process has freed is on no queue,
\* in no message, asleep nowhere and not on the CPU (queues.c:142-147), if its
\* sleep threads keep up or there are none.
THEOREM FinishedForGood ==
    ASSUME Orderly
    PROVE  /\ TimelySpec => []FinishedIsGone
           /\ NoSleep => (Spec => []FinishedIsGone)
  <1>1. Inv => FinishedIsGone
    <2> SUFFICES ASSUME Inv, NEW p \in freed
        PROVE  /\ \A i \in QueueIndex : \A q \in ToSet(queue[i]) :
                      q # p /\ heap[q].pid # heap[p].pid
               /\ \A s \in sleepers : s.args # p /\ heap[s.args].pid # heap[p].pid
               /\ \A m \in ToSet(toCpu) \cup ToSet(toKernel) : m.pcb.pid # heap[p].pid
               /\ CpuBusy => process.pid # heap[p].pid
      BY DEF FinishedIsGone
    <2>1. heap[p].pid \in PidsOf(freed)
      BY DEF PidsOf
    <2>2. \A i \in QueueIndex : \A q \in ToSet(queue[i]) : heap[q].pid # heap[p].pid
      BY <2>1, QueueLive
    <2>3. ASSUME NEW s \in sleepers PROVE heap[s.args].pid # heap[p].pid
      <3>1. s \in Starting \/ s \in Asleep
        BY DEF Inv, TypeOK, KernelTypeOK, Sleeper, Starting, Asleep
      <3>2. CASE s \in Starting
        <4>1. queue[Exec] # <<>> /\ heap[Head(queue[Exec])].pid = heap[s.args].pid
          BY <3>2 DEF Inv, SleepersOK
        <4>2. Head(queue[Exec]) \in ToSet(queue[Exec])
          BY <4>1, HeadLive, Indices
        <4> QED
          BY <2>2, <4>1, <4>2, Indices
      <3>3. CASE s \in Asleep
        <4>1. SleepPids \cap PidsOf(freed) = {}
          BY Places DEF Inv, OnePlace, Apart
        <4>2. heap[s.args].pid \in SleepPids
          BY <3>3 DEF SleepPids, PidsOf
        <4> QED
          BY <2>1, <4>1, <4>2
      <3> QED
        BY <3>1, <3>2, <3>3
    <2>4. /\ \A m \in ToSet(toCpu) \cup ToSet(toKernel) : m.pcb.pid # heap[p].pid
          /\ CpuBusy => process.pid # heap[p].pid
      <3>1. OnCpu => Runs(heap[LastExec].pid) /\ heap[LastExec].pid # heap[p].pid
        BY <2>2, LastExecIs, Indices DEF Inv
      <3>2. (\E m \in ToSet(toCpu) \cup ToSet(toKernel) : TRUE) \/ CpuBusy => OnCpu
        BY DEF OnCpu, ToSet
      <3> QED
        BY <3>1, <3>2 DEF Runs
    <2> QED
      BY <2>2, <2>3, <2>4
  <1>2. TimelySpec => []FinishedIsGone
    BY <1>1, Invariant, PTL
  <1>3. ASSUME NoSleep PROVE Spec => []FinishedIsGone
    BY <1>1, <1>3, SleeplessInvariant, PTL
  <1> QED
    BY <1>2, <1>3

-----------------------------------------------------------------------------
(***************************************************************************)
(* Deadlocks                                                               *)
(***************************************************************************)

\* Each process of the set waits for a resource that one of the set retains.
Circular(cycle) ==
    \A p \in cycle : \E q \in cycle : \E r \in Resource :
        p \in BlockedOn(r) /\ r \in ToSet(heap[q].resources)

\* The detector looks at the process that blocked last. A circular wait without
\* that process was there when one of its own blocked.
CycleOK ==
    \A cycle \in SUBSET UNION {BlockedOn(r) : r \in Resource} :
        (/\ cycle # {} /\ Circular(cycle)
         /\ pc["dispatch"] \in DetectLabel => ptr["dispatch"] \notin cycle)
            => \E p \in cycle : heap[p].pid \in reported

\* The process on position i of a blocked queue has been evaluated.
Evaluated(r, i) ==
    \/ r < detector.list
    \/ r = detector.list /\ pc["dispatch"] # "scan" /\ i < detector.position

\* The log names the process just blocked when one evaluated so far retains what
\* it requires.
CoveredOK ==
    pc["dispatch"] \in DetectLabel \ {"require"} =>
        /\ detector.list > 0
        /\ \A r \in Resource : \A i \in DOMAIN queue[Blocked(r)] :
               Evaluated(r, i) /\ fin["dispatch"].item \in ToSet(heap[queue[Blocked(r)][i]].resources)
                   => heap[ptr["dispatch"]].pid \in reported
        /\ pc["dispatch"] = "logEvaluated" => heap[ptr["dispatch"]].pid \in reported

\* A blocked process is a process.
LEMMA BlockedType ==
    ASSUME TypeOK
    PROVE  UNION {BlockedOn(r) : r \in Resource} \subseteq 1 .. Len(heap)
  <1>1. ASSUME NEW r \in Resource
        PROVE  BlockedOn(r) \subseteq 1 .. Len(heap)
    <2>1. queue[Blocked(r)] \in Seq(1 .. Len(heap))
      BY Indices DEF TypeOK, KernelTypeOK
    <2> QED
      BY <2>1, QueueElements DEF BlockedOn
  <1> QED
    BY <1>1

\* Unless a process blocks or the detector runs there are no other circular
\* waits than before.
LEMMA CycleKept ==
    ASSUME TypeOK, HeapKept, CycleOK, reported \subseteq reported',
           pc["dispatch"] \in DetectLabel =>
               pc'["dispatch"] \in DetectLabel /\ ptr'["dispatch"] = ptr["dispatch"],
           \A r \in Resource : \A p \in BlockedOn(r)' :
               p \in BlockedOn(r) \/ (pc'["dispatch"] \in DetectLabel /\ p = ptr'["dispatch"])
    PROVE  CycleOK'
  <1> SUFFICES ASSUME NEW cycle, cycle \subseteq UNION {BlockedOn(r)' : r \in Resource},
                      cycle # {}, Circular(cycle)',
                      pc'["dispatch"] \in DetectLabel => ptr'["dispatch"] \notin cycle
               PROVE  \E p \in cycle : heap'[p].pid \in reported'
    BY DEF CycleOK, Resource
  <1>1. \A p \in cycle : \A r \in Resource : p \in BlockedOn(r)' => p \in BlockedOn(r)
    OBVIOUS
  <1>2. cycle \subseteq UNION {BlockedOn(r) : r \in Resource}
    BY <1>1
  <1>3. \A p \in cycle : p \in 1 .. Len(heap)
    BY <1>2, BlockedType
  <1>4. Circular(cycle)
    <2>1. \A p \in cycle : \E q \in cycle : \E r \in Resource :
              p \in BlockedOn(r)' /\ r \in ToSet(heap'[q].resources)
      BY DEF Circular, Resource
    <2> QED
      BY <1>1, <1>3, <2>1 DEF Circular, HeapKept
  <1>5. PICK p \in cycle : heap[p].pid \in reported
    BY <1>2, <1>4 DEF CycleOK
  <1> QED
    BY <1>3, <1>5 DEF HeapKept

\* Evaluating goes on only when the log names the process just blocked, should the
\* one evaluated retain what it requires.
LEMMA DetectCovers ==
    ASSUME Inv, CoveredOK, ~crashed', CheckDeadlocks
    PROVE  CoveredOK'
  <1> DEFINE t == "dispatch"
             d == detector
             item == fin[t].item
             checked == ptr[t]
             At(r, i) == queue[Blocked(r)][i]
             Retains(r, i) == item \in ToSet(heap[At(r, i)].resources)
             Named(set) == heap[checked].pid \in set
  <1>0. /\ TypeOK /\ DetectOK /\ LocalOK(t) /\ t \in Thread /\ ~Crash
        /\ pc \in [Thread -> ConsoleLabel \cup DispatchLabel \cup ShortLabel \cup LongLabel]
        /\ pc[t] \in DetectLabel /\ queue' = queue /\ heap' = heap /\ d \in Detector
    BY DetectionFrame, AccessType DEF Inv, TypeOK, KernelTypeOK, Crash, memory
  <1>1. \A r \in Resource : r \in Nat /\ r > 0
    BY DEF Resource
  <1>2. CASE Step(WalkBlockedQueues)
    <2>1. /\ pc' = pc /\ ptr' = ptr /\ fin' = fin /\ reported' = reported
          /\ d' = [d EXCEPT !.walk = @ + 1]
      BY <1>2 DEF Step, WalkBlockedQueues, locals
    <2>2. d'.list = d.list /\ d'.position = d.position
      BY <1>0, <2>1 DEF Detector
    <2> QED
      BY <1>0, <2>1, <2>2 DEF CoveredOK, Evaluated, Blocked, Resource
  <1>3. CASE Step(GetRequiredResource)
    <2>1. pc'[t] = "scan" /\ d'.list = 1
      BY <1>0, <1>3 DEF Step, GetRequiredResource, Goto, NoDetector
    <2> QED
      BY <1>1, <2>1 DEF CoveredOK, Evaluated, Resource
  <1>4. CASE Step(ReadQueueSize)
    <2>1. CASE d.list \in Resource
      <3>1. /\ pc[t] = "scan" /\ pc'[t] = "evaluate" /\ UNCHANGED <<ptr, fin, reported>>
            /\ d'.list = d.list /\ d'.position = 1
        BY <1>0, <1>4, <2>1 DEF Step, ReadQueueSize, Goto, Detector
      <3>2. \A r \in Resource : \A i \in DOMAIN queue[Blocked(r)] : ~(i < 1)
        BY <1>0, LenProperties, Indices DEF TypeOK, KernelTypeOK
      <3>3. \A r \in Resource : \A i \in DOMAIN queue[Blocked(r)] :
                Evaluated(r, i)' => Evaluated(r, i)
        BY <3>1, <3>2 DEF Evaluated
      <3> QED
        BY <1>0, <3>1, <3>3 DEF CoveredOK, DetectLabel, Blocked, Resource
    <2>2. CASE d.list \notin Resource
      <3>1. pc'[t] = "listen"
        BY <1>0, <1>4, <2>2 DEF Step, ReadQueueSize, Return, Goto
      <3> QED
        BY <3>1 DEF CoveredOK, DetectLabel
    <2> QED
      BY <2>1, <2>2
  <1>5. CASE Step(GetEvaluated)
    <2> DEFINE q == queue[Blocked(d.list)]
    <2>1. /\ pc[t] = "evaluate" /\ UNCHANGED <<ptr, fin, reported>> /\ d.list \in Resource
          /\ d.size = Len(q)
      BY <1>0, <1>5 DEF Step, GetEvaluated, DetectOK, LocalOK, DetectLabel
    <2>2. CASE d.position <= d.size
      <3>1. pc'[t] = "retain" /\ d'.list = d.list /\ d'.position = d.position
        BY <1>0, <1>5, <2>2 DEF Step, GetEvaluated, Goto, Detector
      <3> QED
        BY <1>0, <2>1, <3>1 DEF CoveredOK, Evaluated, DetectLabel, Blocked, Resource
    <2>3. CASE ~(d.position <= d.size)
      <3>1. pc'[t] = "scan" /\ d'.list = d.list + 1
        BY <1>0, <1>5, <2>3 DEF Step, GetEvaluated, Goto, Detector
      <3>2. q \in Seq(1 .. Len(heap)) /\ d.position \in Nat /\ d.list \in Nat
        BY <1>0, <2>1, Indices DEF TypeOK, KernelTypeOK, Detector
      <3>3. DOMAIN q = 1 .. Len(q) /\ Len(q) \in Nat
        BY <3>2, LenProperties
      <3>4. \A i \in DOMAIN q : i < d.position
        BY <2>1, <2>3, <3>2, <3>3
      <3>5. \A r \in Resource : \A i \in DOMAIN queue[Blocked(r)] :
                Evaluated(r, i)' => Evaluated(r, i)
        BY <1>1, <2>1, <3>1, <3>2, <3>4 DEF Evaluated
      <3>6. d'.list > 0
        BY <3>1, <3>2
      <3> QED
        BY <1>0, <2>1, <3>1, <3>5, <3>6 DEF CoveredOK, DetectLabel, Blocked, Resource
    <2> QED
      BY <2>2, <2>3
  <1>6. ASSUME d.list \in Resource, d'.list = d.list, d'.position = d.position + 1,
               pc[t] \in {"retain", "logEvaluated"}, pc'[t] = "evaluate",
               UNCHANGED <<ptr, fin>>, reported \subseteq reported',
               Retains(d.list, d.position) => Named(reported)
        PROVE  CoveredOK'
    <2>1. d.position \in Nat
      BY <1>0 DEF Detector
    <2>2. /\ d.list > 0
          /\ \A r \in Resource : \A i \in DOMAIN queue[Blocked(r)] :
                 Evaluated(r, i) /\ Retains(r, i) => Named(reported)
      BY <1>6 DEF CoveredOK, DetectLabel
    <2>3. ASSUME NEW r \in Resource, NEW i \in DOMAIN queue[Blocked(r)],
                 Evaluated(r, i)', Retains(r, i)
          PROVE  Named(reported')
      <3>1. i \in Nat
        BY <1>0, Indices, LenProperties DEF TypeOK, KernelTypeOK
      <3>2. Evaluated(r, i) \/ (r = d.list /\ i = d.position)
        BY <1>6, <2>1, <2>3, <3>1 DEF Evaluated
      <3> QED
        BY <1>6, <2>2, <2>3, <3>2
    <2> QED
      BY <1>0, <1>6, <2>2, <2>3 DEF CoveredOK, Blocked, Resource
  <1>7. CASE Step(FindRetained)
    <2>1. /\ pc[t] = "retain" /\ UNCHANGED <<ptr, fin, reported>>
          /\ d.list \in Resource /\ d'.list = d.list
          /\ d.evaluated = At(d.list, d.position) /\ d.required = item
      BY <1>0, <1>7 DEF Step, FindRetained, DetectOK, LocalOK, DetectLabel, Detector
    <2>2. CASE d.required \in ToSet(heap[d.evaluated].resources)
      <3>1. pc'[t] = "logChecked" /\ d'.position = d.position
        BY <1>0, <1>7, <2>2 DEF Step, FindRetained, Goto, Detector
      <3> QED
        BY <1>0, <2>1, <3>1 DEF CoveredOK, Evaluated, DetectLabel, Blocked, Resource
    <2>3. CASE d.required \notin ToSet(heap[d.evaluated].resources)
      <3>1. pc'[t] = "evaluate" /\ d'.position = d.position + 1
        BY <1>0, <1>7, <2>3 DEF Step, FindRetained, Goto, Detector
      <3>2. ~Retains(d.list, d.position)
        BY <2>1, <2>3
      <3> QED
        BY <1>6, <2>1, <3>1, <3>2
    <2> QED
      BY <2>2, <2>3
  <1>8. CASE Step(LogDeadlock)
    <2>1. /\ UNCHANGED <<ptr, fin>> /\ reported' = reported \cup {heap[Sought].pid}
          /\ d'.list = d.list /\ pc[t] \in {"logChecked", "logEvaluated"}
      BY <1>0, <1>8 DEF Step, LogDeadlock, Detector
    <2>2. CASE pc[t] = "logChecked"
      <3>1. pc'[t] = "logEvaluated" /\ d'.position = d.position
        BY <1>0, <1>8, <2>2 DEF Step, LogDeadlock, Goto, Detector
      <3>2. Sought = checked
        BY <2>2 DEF Sought
      <3> QED
        BY <1>0, <2>1, <2>2, <3>1, <3>2 DEF CoveredOK, Evaluated, DetectLabel, Blocked, Resource
    <2>3. CASE pc[t] = "logEvaluated"
      <3>1. pc'[t] = "evaluate" /\ d'.position = d.position + 1
        BY <1>0, <1>8, <2>3 DEF Step, LogDeadlock, Goto, Detector
      <3>2. d.list \in Resource /\ Named(reported)
        BY <1>0, <2>3 DEF LocalOK, CoveredOK, DetectLabel
      <3> QED
        BY <1>6, <2>1, <2>3, <3>1, <3>2
    <2> QED
      BY <2>1, <2>2, <2>3
  <1>9. ~Step(DetectorDangling)
    BY <1>0 DEF Step, DetectorDangling
  <1> QED
    BY <1>2, <1>3, <1>4, <1>5, <1>7, <1>8, <1>9 DEF CheckDeadlocks

\* When it is through with every queue, a member of each circular wait of the
\* process it checks is named: that process itself.
LEMMA DetectCycle ==
    ASSUME Inv, CycleOK, CoveredOK, ~crashed', CheckDeadlocks
    PROVE  CycleOK'
  <1> DEFINE checked == ptr["dispatch"]
             item == fin["dispatch"].item
  <1>0. /\ TypeOK /\ FinishOK /\ ConsolesIdle /\ DetectOK /\ ~Crash
        /\ pc["dispatch"] \in DetectLabel /\ item \in Resource /\ checked \in BlockedOn(item)
        /\ queue' = queue /\ heap' = heap
    BY DetectionFrame DEF Inv, Crash, DetectOK, BlockedOn, memory
  <1>1. reported \subseteq reported'
    BY <1>0
       DEF CheckDeadlocks, Step, WalkBlockedQueues, GetRequiredResource, ReadQueueSize,
           GetEvaluated, FindRetained, LogDeadlock, DetectorDangling
  <1>2. \A r \in Resource : BlockedOn(r)' = BlockedOn(r)
    BY <1>0 DEF BlockedOn, Blocked
  <1>3. HeapKept
    BY <1>0, AccessType DEF HeapKept, TypeOK, KernelTypeOK
  <1>4. CASE pc'["dispatch"] \in DetectLabel
    <2>1. ptr' = ptr
      <3>1. ~Return("dispatch")
        BY <1>0, <1>4, PlacesType DEF Return, Goto, DetectLabel
      <3> QED
        BY <1>0, <3>1, DetectionFrame
    <2> QED
      BY <1>0, <1>1, <1>2, <1>3, <1>4, <2>1, CycleKept
  <1>5. CASE pc'["dispatch"] \notin DetectLabel
    <2>1. Step(ReadQueueSize) /\ detector.list \notin Resource
      BY <1>0, <1>5, PlacesType
         DEF CheckDeadlocks, Step, WalkBlockedQueues, GetRequiredResource, ReadQueueSize,
             GetEvaluated, FindRetained, LogDeadlock, DetectorDangling, Goto, DetectLabel, locals
    <2>2. pc["dispatch"] = "scan" /\ detector.list \in Nat /\ detector.list > 0
      BY <1>0, <2>1
         DEF Step, ReadQueueSize, TypeOK, KernelTypeOK, Detector, CoveredOK, DetectLabel
    <2>3. \A r \in Resource : r < detector.list
      <3>1. Len(Instances) \in Nat
        BY InstancesAssumption, LenProperties
      <3> QED
        BY <2>1, <2>2, <3>1 DEF Resource
    <2>4. \A r \in Resource : \A q \in BlockedOn(r) :
              item \in ToSet(heap[q].resources) => heap[checked].pid \in reported
      <3>1. \A r \in Resource : \A i \in DOMAIN queue[Blocked(r)] :
                item \in ToSet(heap[queue[Blocked(r)][i]].resources)
                    => heap[checked].pid \in reported
        BY <2>2, <2>3 DEF CoveredOK, Evaluated, DetectLabel
      <3> QED
        BY <3>1 DEF BlockedOn, ToSet
    <2>5. \A r \in Resource : checked \in BlockedOn(r) => r = item
      <3>1. \A r \in Resource : QueuePids(Blocked(r)) = PidsOf(ToSet(queue[Blocked(r)]))
        BY <1>0, DroppedFrom DEF DetectLabel
      <3>2. ASSUME NEW r \in Resource, checked \in BlockedOn(r), r # item PROVE FALSE
        <4>1. Blocked(r) # Blocked(item)
          BY <1>0, <3>2, Indices
        <4>2. <<"queue", Blocked(r)>> \in Place /\ <<"queue", Blocked(item)>> \in Place
          BY <1>0, Places, Indices
        <4>3. QueuePids(Blocked(r)) \cap QueuePids(Blocked(item)) = {}
          BY <4>1, <4>2, Places DEF Inv, OnePlace, Apart
        <4>4. \A s \in {r, item} : heap[checked].pid \in QueuePids(Blocked(s))
          BY <1>0, <3>1, <3>2 DEF PidsOf, BlockedOn
        <4> QED
          BY <4>3, <4>4
      <3> QED
        BY <3>2
    <2> SUFFICES ASSUME NEW cycle, cycle \subseteq UNION {BlockedOn(r) : r \in Resource},
                        cycle # {}, Circular(cycle)
                 PROVE  \E p \in cycle : heap[p].pid \in reported'
      BY <1>0 DEF CycleOK, Circular, BlockedOn, Blocked
    <2>6. CASE checked \notin cycle
      <3>1. \E p \in cycle : heap[p].pid \in reported
        BY <2>6 DEF CycleOK
      <3> QED
        BY <1>1, <3>1
    <2>7. CASE checked \in cycle
      <3>1. PICK q \in cycle : \E r \in Resource :
                checked \in BlockedOn(r) /\ r \in ToSet(heap[q].resources)
        BY <2>7 DEF Circular
      <3>2. item \in ToSet(heap[q].resources)
        BY <2>5, <3>1
      <3> QED
        BY <1>1, <2>4, <2>7, <3>2
    <2> QED
      BY <2>6, <2>7
  <1> QED
    BY <1>4, <1>5

\* The other threads leave what the detector has covered as it is.
LEMMA CoveredKept ==
    ASSUME TypeOK, HeapKept, CoveredOK, reported' = reported, detector' = detector,
           pc'["dispatch"] = pc["dispatch"], ptr'["dispatch"] = ptr["dispatch"],
           fin'["dispatch"] = fin["dispatch"],
           \A r \in Resource : queue'[Blocked(r)] = queue[Blocked(r)]
    PROVE  CoveredOK'
  <1> SUFFICES ASSUME pc["dispatch"] \in DetectLabel \ {"require"} PROVE CoveredOK'
    BY DEF CoveredOK
  <1>1. ptr["dispatch"] \in 1 .. Len(heap)
    BY AccessType DEF TypeOK, KernelTypeOK, LocalOK
  <1>2. \A r \in Resource : \A i \in DOMAIN queue[Blocked(r)] :
            queue[Blocked(r)][i] \in 1 .. Len(heap)
    <2>1. \A r \in Resource : queue[Blocked(r)] \in Seq(1 .. Len(heap))
      BY Indices DEF TypeOK, KernelTypeOK
    <2> QED
      BY <2>1, QueueElements
  <1>3. /\ heap'[ptr["dispatch"]].pid = heap[ptr["dispatch"]].pid
        /\ \A r \in Resource : \A i \in DOMAIN queue[Blocked(r)] :
               heap'[queue[Blocked(r)][i]].resources = heap[queue[Blocked(r)][i]].resources
    BY <1>1, <1>2 DEF HeapKept
  <1>4. \A r, i : Evaluated(r, i)' = Evaluated(r, i)
    BY DEF Evaluated
  <1>5. \A r \in Resource : \A i \in DOMAIN queue'[Blocked(r)] :
            /\ i \in DOMAIN queue[Blocked(r)]
            /\ heap'[queue'[Blocked(r)][i]].resources = heap[queue[Blocked(r)][i]].resources
    BY <1>3
  <1> QED
    BY <1>3, <1>4, <1>5 DEF CoveredOK, Blocked, Resource

\* Every step.
LEMMA CycleStep ==
    ASSUME Orderly, Inv, CycleOK, CoveredOK, HeapKept, ~crashed', [Next]_allVars
    PROVE  CycleOK' /\ CoveredOK'
  <1> DEFINE d == "dispatch"
  <1>0. /\ TypeOK /\ FinishOK /\ ConsolesIdle /\ NoKill /\ ~Crash
        /\ {d, "short", "long"} \subseteq Thread /\ d \in Finisher /\ d # "short" /\ d # "long"
        /\ LocalOK(d) /\ queue \in [QueueIndex -> Seq(1 .. Len(heap))]
        /\ \A i \in QueueIndex : queue[i] \in Seq(1 .. Len(heap))
    BY AccessType DEF Inv, Orderly, Crash, TypeOK, KernelTypeOK
  <1>a. ASSUME pc'[d] \notin DetectLabel \ {"require"} PROVE CoveredOK'
    BY <1>a DEF CoveredOK
  <1>1. ASSUME pc'[d] = pc[d], ptr'[d] = ptr[d], fin'[d] = fin[d],
               reported' = reported, detector' = detector,
               \A i \in QueueIndex : i \notin {New, Ready, Exec} => queue'[i] = queue[i]
        PROVE  CycleOK' /\ CoveredOK'
    <2>1. \A r \in Resource : BlockedOn(r)' = BlockedOn(r)
      BY <1>1, Indices DEF BlockedOn, Blocked
    <2> QED
      BY <1>0, <1>1, <2>1, CycleKept, CoveredKept, Indices
  <1>2. CASE \E c \in Console : HandlerConnection(c)
    BY <1>0, <1>1, <1>2, ConsoleActs
  <1>3. CASE LongTermPlanner \/ ShortTermPlanner
    BY <1>0, <1>1, <1>3, LongActs, ShortActs DEF Acts, idle
  <1>4. CASE SleepThread
    BY <1>0, <1>1, <1>4, SleepActs DEF locals, idle
  <1>5. CASE ExecuteProcess \/ InterruptThread \/ UNCHANGED allVars
    BY <1>1, <1>5 DEF ExecuteProcess, InterruptThread, CpuStep, kernelVars, allVars, vars
  <1>6. CASE HandleDispatchConnection
    <2>1. CASE CheckDeadlocks
      BY <2>1, DetectCycle, DetectCovers
    <2>2. CASE Step(BlockProcess)
      <3>1. /\ Push(Blocked(fin[d].item), ptr[d]) /\ pc[d] = "block" /\ pc'[d] = "require"
            /\ ptr' = ptr /\ reported' = reported /\ fin[d].item \in Resource
        BY <1>0, <2>2, PlacesType DEF Step, BlockProcess, Goto, inert, idle, LocalOK
      <3>a. ptr[d] \in 1 .. Len(heap)
        BY <1>0, <3>1, CarriesOne DEF Carrying
      <3>2. \A i \in QueueIndex : ToSet(queue'[i]) \subseteq ToSet(queue[i]) \cup {ptr[d]}
        <4>1. \A i \in QueueIndex : queue'[i] = queue[i] \/ queue'[i] = Append(queue[i], ptr[d])
          BY <1>0, <3>1, Indices DEF Push
        <4>2. \A i \in QueueIndex : ToSet(Append(queue[i], ptr[d])) = ToSet(queue[i]) \cup {ptr[d]}
          BY <1>0, <3>a, AppendElements
        <4> QED
          BY <4>1, <4>2
      <3>3. \A r \in Resource : \A p \in BlockedOn(r)' : p \in BlockedOn(r) \/ p = ptr[d]
        BY <3>2, Indices DEF BlockedOn, Blocked
      <3> QED
        BY <1>0, <1>a, <3>1, <3>3, CycleKept DEF DetectLabel
    <2>3. CASE ~CheckDeadlocks /\ ~Step(BlockProcess)
      <3>0. pc[d] \notin DetectLabel /\ pc'[d] \notin DetectLabel
        BY <1>0, <1>6, <2>3, PlacesType
           DEF HandleDispatchConnection, Step, DispatchFinish, DispatchInterrupt,
               RequeueInterrupted, DispatchInvalid, DispatchWaitGranted, LoadInstances,
               DispatchWaitBlocked, DispatchSignal, DispatchSignalUnheld, StoreInstances,
               Respond, DispatchSleep, ReceivesFromCpu, Finish, Goto, locals, DetectLabel
      <3>1. /\ reported' = reported
            /\ \A i \in QueueIndex : i \notin {New, Ready, Exec} => queue'[i] = queue[i]
        BY <1>0, <1>6, <2>3
           DEF HandleDispatchConnection, Step, DispatchFinish, DispatchInterrupt,
               RequeueInterrupted, DispatchInvalid, DispatchWaitGranted, LoadInstances,
               DispatchWaitBlocked, DispatchSignal, DispatchSignalUnheld, StoreInstances,
               Respond, DispatchSleep, ReceivesFromCpu, Push, Pop, DropExecHead, inert, idle,
               locals
      <3>2. \A r \in Resource : BlockedOn(r)' = BlockedOn(r)
        BY <3>1, Indices DEF BlockedOn, Blocked
      <3> QED
        BY <1>0, <1>a, <3>0, <3>1, <3>2, CycleKept
    <2> QED
      BY <2>1, <2>2, <2>3
  <1>7. CASE FinishProcess(d)
    <2>1. /\ pc[d] \notin DetectLabel /\ pc'[d] \notin DetectLabel
          /\ reported' = reported
      BY <1>0, <1>7, FinishActs DEF FinishLabel, DetectLabel, idle
    <2>2. \A i \in QueueIndex : i \notin {New, Ready, Exec} => ToSet(queue'[i]) \subseteq ToSet(queue[i])
      <3>1. CASE Step(DropWaiter(d))
        <4> DEFINE B == Blocked(fin[d].item)
                   w == fin[d].waiter
        <4>1. B \in QueueIndex /\ w \in ToSet(queue[B])
          <5>1. fin[d].item \in Resource /\ w \in ToSet(queue[B])
            BY <1>0, <3>1 DEF Step, DropWaiter, LocalOK, FinishOK, FinishLabel
          <5> QED
            BY <5>1, Indices
        <4>2. queue' = [queue EXCEPT ![B] = RemoveFirst(queue[B], w)]
          BY <3>1 DEF Step, DropWaiter
        <4> HIDE DEF B, w
        <4>3. ToSet(RemoveFirst(queue[B], w)) = ToSet(queue[B]) \ {w}
          <5>1. queue[B] \in Seq(1 .. Len(heap)) /\ EachOnce(heap, queue[B])
            BY <1>0, <4>1 DEF Inv, OnePlace
          <5> QED
            BY <4>1, <5>1, RemoveOnce
        <4> QED
          BY <1>0, <4>1, <4>2, <4>3
      <3>2. CASE ~Step(DropWaiter(d))
        <4>1. pc[d] = "unlink" => fin[d].index = Exec
          BY <1>0 DEF FinishOK, Found
        <4>2. \A i \in QueueIndex : i \notin {New, Ready, Exec} => queue'[i] = queue[i]
          BY <1>0, <1>7, <3>2, <4>1
             DEF FinishProcess, Step, FindProcess, InspectState, MarkExit, ReleaseResource,
                 CreditResource, UnlinkProcess, CheckBlocked, ContinueWaking, GetWaiter,
                 MoveWaiter, CountWaiter, NotifyMemory, Settle, FinishDangling, Push
        <4> QED
          BY <4>2
      <3> QED
        BY <3>1, <3>2
    <2>3. \A r \in Resource : \A p \in BlockedOn(r)' : p \in BlockedOn(r)
      BY <2>2, Indices DEF BlockedOn, Blocked
    <2> QED
      BY <1>0, <1>a, <2>1, <2>3, CycleKept
  <1> QED
    BY <1>0, <1>2, <1>3, <1>4, <1>5, <1>6, <1>7, OnlyDispatch DEF Next

\* In an orderly system every circular wait among blocked processes, of any
\* length and whoever else blocks or is woken meanwhile, has a member the log
\* names once the detector has run (deadlocks.c:27-50); if its sleep threads keep
\* up, or there are none.
THEOREM DeadlocksReported ==
    ASSUME Orderly
    PROVE  /\ TimelySpec => []CycleReported
           /\ NoSleep => (Spec => []CycleReported)
  <1>1. Init => CycleOK /\ CoveredOK
    <2> SUFFICES ASSUME Init PROVE CycleOK /\ CoveredOK
      OBVIOUS
    <2>1. UNION {BlockedOn(r) : r \in Resource} = {}
      BY Indices DEF Init, KernelInit, BlockedOn, ToSet
    <2>2. pc["dispatch"] = "listen"
      BY DEF Init, KernelInit, Thread, Finisher
    <2> QED
      BY <2>1, <2>2 DEF CycleOK, CoveredOK, DetectLabel
  <1>2. Inv /\ KeepUp /\ CycleOK /\ CoveredOK /\ [Next]_allVars => CycleOK' /\ CoveredOK'
    BY HeapFixed, Alive, CycleStep DEF Inv
  <1>3. CycleOK => CycleReported
    BY DEF CycleOK, CycleReported, Circular
  <1>4. TimelySpec => []CycleReported
    <2>1. Inv /\ [Next /\ KeepUp]_allVars => KeepUp /\ [Next]_allVars
      BY StutterKeepsUp
    <2> QED
      BY <1>1, <1>2, <1>3, <2>1, Invariant, PTL DEF TimelySpec
  <1>5. ASSUME NoSleep PROVE Spec => []CycleReported
    <2>1. Inv /\ Sleepless /\ [Next]_allVars => KeepUp
      BY <1>5, SleeplessStep DEF Inv
    <2> QED
      BY <1>1, <1>2, <1>3, <1>5, <2>1, SleeplessInvariant, PTL DEF Spec
  <1> QED
    BY <1>4, <1>5
=============================================================================
