----------------------------- MODULE NetworkProofs -----------------------------
(***************************************************************************)
(* Theorems about Network, for any sessions and any number of              *)
(* instructions: which handler serves a connection, of what a program      *)
(* dies, and that one process is away from the kernel at a time.           *)
(***************************************************************************)
EXTENDS Network, SequenceTheorems, TLAPS

Typed ==
    /\ state \in [Program -> {"off", "up", "dead"}]
    /\ connected \in [Program -> Nat]
    /\ descriptor \in [Link -> {"none", "open", "refused"}]
    /\ wire \in [Channel -> Seq(Header)]
    /\ handler \in [Link -> Loops \cup
            {"none", "greeting", "returned", "execute_process", "handle_finish_process"}]
    /\ session \in Session
    /\ typed \in Nat

-----------------------------------------------------------------------------
(***************************************************************************)
(* Links and channels                                                      *)
(***************************************************************************)

LEMMA Ends ==
    /\ \A l \in Link : Asks(l) \in Channel /\ Answers(l) \in Channel
    /\ \A l \in Link : Client[l] \in Program /\ Server[l] \in Program
    /\ \A l \in Link : From(Asks(l)) = Client[l] /\ To(Asks(l)) = Server[l]
    /\ \A l \in Link : From(Answers(l)) = Server[l] /\ To(Answers(l)) = Client[l]
    /\ \A l \in Link : Asks(l)[1] = l /\ Answers(l)[1] = l
  <1>1. \A l \in Link : Client[l] \in Program /\ Server[l] \in Program
    BY DEF Link, Client, Server, Program
  <1>2. \A l \in Link : Asks(l) \in Channel /\ Answers(l) \in Channel
    BY DEF Asks, Answers, Channel
  <1> QED
    BY <1>1, <1>2 DEF Asks, Answers, From, To

LEMMA Apart ==
    /\ \A l, m \in Link : Asks(l) # Answers(m)
    /\ \A l, m \in Link : Asks(l) = Asks(m) => l = m
  BY DEF Asks, Answers

\* The headers of one sequence.
LEMMA Grown ==
    ASSUME NEW S, NEW s \in Seq(S), NEW x \in S
    PROVE  /\ Append(s, x) \in Seq(S)
           /\ Append(s, x) # <<>>
           /\ s # <<>> => Head(Append(s, x)) = Head(s)
  BY AppendProperties, HeadTailAppend

\* How many connections each main makes.
LEMMA Lengths ==
    /\ Len(Connections["filesystem"]) = 0
    /\ \A p \in {"memory", "cpu", "console"} : Len(Connections[p]) = 1
    /\ Len(Connections["kernel"]) = 3
    /\ \A p \in Program : Len(Connections[p]) \in Nat
  <1>1. /\ Connections["filesystem"] = <<>>
        /\ Connections["memory"] = <<"swap">>
        /\ Connections["cpu"] = <<"fetch">>
        /\ Connections["kernel"] = <<"create", "dispatch", "interrupt">>
        /\ Connections["console"] = <<"command">>
    BY DEF Connections
  <1>2. /\ Len(<<"swap">>) = 1 /\ Len(<<"fetch">>) = 1 /\ Len(<<"command">>) = 1
        /\ Len(<<"create", "dispatch", "interrupt">>) = 3
        /\ Len(<<>>) = 0
    OBVIOUS
  <1>3. /\ Len(Connections["memory"]) = 1 /\ Len(Connections["cpu"]) = 1
        /\ Len(Connections["console"]) = 1 /\ Len(Connections["kernel"]) = 3
        /\ Len(Connections["filesystem"]) = 0
    BY <1>1, <1>2
  <1> QED
    BY <1>3 DEF Program

\* What Connections names are links, and each is one program's.
LEMMA Connecting ==
    ASSUME NEW p \in Program, NEW i \in 1 .. Len(Connections[p])
    PROVE  /\ Connections[p][i] \in Link
           /\ \A q \in Program : \A j \in 1 .. Len(Connections[q]) :
                 Connections[q][j] = Connections[p][i] => q = p /\ j = i
  <1>1. \A q \in Program : \A j \in 1 .. Len(Connections[q]) :
            \/ q \in {"memory", "cpu", "console"} /\ j = 1
            \/ q = "kernel" /\ (j = 1 \/ j = 2 \/ j = 3)
    <2> TAKE q \in Program
    <2> TAKE j \in 1 .. Len(Connections[q])
    <2>1. Len(Connections[q]) \in {0, 1, 3} /\ j \in Nat /\ 1 <= j /\ j <= Len(Connections[q])
      BY Lengths DEF Program
    <2>2. CASE q = "filesystem"
      BY <2>1, <2>2, Lengths
    <2>3. CASE q \in {"memory", "cpu", "console"}
      <3>1. Len(Connections[q]) = 1
        BY <2>3, Lengths
      <3> QED
        BY <2>1, <2>3, <3>1
    <2>4. CASE q = "kernel"
      BY <2>1, <2>4, Lengths
    <2> QED
      BY <2>2, <2>3, <2>4 DEF Program
  <1>2. /\ Connections["memory"][1] = "swap"
        /\ Connections["cpu"][1] = "fetch"
        /\ Connections["kernel"][1] = "create"
        /\ Connections["kernel"][2] = "dispatch"
        /\ Connections["kernel"][3] = "interrupt"
        /\ Connections["console"][1] = "command"
    BY DEF Connections
  <1> QED
    BY <1>1, <1>2 DEF Link

-----------------------------------------------------------------------------
(***************************************************************************)
(* Sending                                                                 *)
(***************************************************************************)

\* Someone at the other end of an open connection of p has gone.
PeerGone(p) ==
    \E l \in Link : /\ descriptor[l] = "open"
                    /\ \/ Client[l] = p /\ Dead(Server[l])
                       \/ Server[l] = p /\ Dead(Client[l])

\* No one dies, or one whose peer has gone, or the console.
Deaths ==
    /\ descriptor' = descriptor
    /\ connected' = connected
    /\ \/ state' = state
       \/ \E p \in Program : /\ state' = [state EXCEPT ![p] = "dead"]
                             /\ p = "console" \/ PeerGone(p)

LEMMA SendDeaths ==
    ASSUME NEW c \in Channel, NEW header, NEW w, Send(c, header, w),
           descriptor' = descriptor, connected' = connected
    PROVE  Deaths
  <1>1. PICK l \in Link : c = Asks(l) \/ c = Answers(l)
    BY DEF Channel, Asks, Answers
  <1>2. CASE state' = state
    BY <1>2 DEF Deaths
  <1>3. CASE /\ descriptor[c[1]] = "open"
             /\ Dead(To(c))
             /\ state' = [state EXCEPT ![From(c)] = "dead"]
    <2>1. PeerGone(From(c)) /\ From(c) \in Program
      BY <1>1, <1>3, Ends DEF PeerGone
    <2> QED
      BY <1>3, <2>1 DEF Deaths
  <1> QED
    BY <1>2, <1>3 DEF Send

\* A send puts one header on its channel, or none.
LEMMA SendWire ==
    ASSUME NEW c \in Channel, NEW header \in Header, NEW w \in [Channel -> Seq(Header)],
           Send(c, header, w)
    PROVE  /\ wire' \in [Channel -> Seq(Header)]
           /\ wire'[c] \in {w[c], Append(w[c], header)}
           /\ \A d \in Channel : d # c => wire'[d] = w[d]
  <1>1. w[c] \in Seq(Header) /\ Append(w[c], header) \in Seq(Header)
    BY Grown
  <1>2. CASE wire' = w
    BY <1>2
  <1>3. CASE wire' = [w EXCEPT ![c] = Append(@, header)]
    BY <1>1, <1>3
  <1> QED
    BY <1>2, <1>3 DEF Send

LEMMA SendState ==
    ASSUME Typed, NEW c \in Channel, NEW header, NEW w, Send(c, header, w)
    PROVE  state' \in [Program -> {"off", "up", "dead"}]
  <1>1. state \in [Program -> {"off", "up", "dead"}]
    BY DEF Typed
  <1> QED
    BY <1>1 DEF Send

LEMMA TakenWire ==
    ASSUME Typed, NEW c \in Channel, wire[c] # <<>>
    PROVE  /\ Taken(c) \in [Channel -> Seq(Header)]
           /\ Taken(c)[c] = Tail(wire[c])
           /\ \A d \in Channel : d # c => Taken(c)[d] = wire[d]
  <1>1. wire \in [Channel -> Seq(Header)] /\ wire[c] \in Seq(Header)
    BY DEF Typed
  <1>2. Tail(wire[c]) \in Seq(Header)
    BY <1>1, HeadTailProperties
  <1> QED
    BY <1>1, <1>2 DEF Taken

-----------------------------------------------------------------------------
(***************************************************************************)
(* DiesOfAPeer                                                             *)
(***************************************************************************)

\* What a main has not come to is not connected.
Untried ==
    \A p \in Program : \A i \in 1 .. Len(Connections[p]) :
        i > connected[p] => descriptor[Connections[p][i]] = "none"

Ended == Typed /\ Untried /\ DiesOfAPeer

\* An open connection stays open, the dead stay dead, and whoever dies has lost
\* a peer: then everyone who is dead has.
LEMMA DeathsKeep ==
    ASSUME Typed, Untried, DiesOfAPeer, Deaths
    PROVE  Untried' /\ DiesOfAPeer'
  <1>1. state \in [Program -> {"off", "up", "dead"}]
    BY DEF Typed
  <1>2. \A q \in Program : Dead(q) => Dead(q)'
    BY <1>1 DEF Deaths, Dead
  <1>3. \A q \in Program \ {"console"} : PeerGone(q) => PeerGone(q)'
    BY <1>2, Ends DEF PeerGone, Deaths
  <1>4. \A q \in Program \ {"console"} : Dead(q)' => Dead(q) \/ PeerGone(q)
    BY <1>1 DEF Deaths, Dead
  <1>5. \A q \in Program \ {"console"} : Dead(q)' => PeerGone(q)'
    BY <1>3, <1>4 DEF DiesOfAPeer, PeerGone
  <1>6. DiesOfAPeer'
    BY <1>5 DEF DiesOfAPeer, PeerGone
  <1> QED
    BY <1>6 DEF Untried, Deaths

LEMMA ConnectKeeps ==
    ASSUME Ended, NEW p \in Program, Connect(p)
    PROVE  Untried' /\ DiesOfAPeer'
  <1> DEFINE n == connected[p] + 1
             l == Connections[p][n]
  <1>1. n \in 1 .. Len(Connections[p]) /\ connected[p] \in Nat
    <2>1. connected[p] \in Nat /\ connected[p] < Len(Connections[p])
      BY DEF Ended, Typed, Connect
    <2>2. Len(Connections[p]) \in Nat
      BY Lengths
    <2> QED
      BY <2>1, <2>2
  <1>2. l \in Link /\ \A q \in Program : \A j \in 1 .. Len(Connections[q]) :
            Connections[q][j] = l => q = p /\ j = n
    BY <1>1, Connecting
  <1>3. descriptor[l] = "none"
    BY <1>1 DEF Ended, Untried
  <1>4. /\ \A m \in Link : m # l => descriptor'[m] = descriptor[m]
        /\ connected' = [connected EXCEPT ![p] = n]
    BY DEF Connect, Ended, Typed
  <1>5. \A q \in Program \ {"console"} : Dead(q)' <=> Dead(q)
    BY DEF Connect, Dead, Ended, Typed
  <1>6. \A q \in Program : Dead(q) => Dead(q)'
    BY DEF Connect, Dead, Ended, Typed
  <1>7. DiesOfAPeer'
    <2> SUFFICES ASSUME NEW q \in Program \ {"console"}, Dead(q)'
                 PROVE  PeerGone(q)'
      BY DEF DiesOfAPeer, PeerGone
    <2>1. PICK m \in Link : /\ descriptor[m] = "open"
                            /\ \/ Client[m] = q /\ Dead(Server[m])
                               \/ Server[m] = q /\ Dead(Client[m])
      BY <1>5 DEF Ended, DiesOfAPeer
    <2>2. descriptor'[m] = "open"
      BY <1>3, <1>4, <2>1
    <2> QED
      BY <1>6, <2>1, <2>2, Ends DEF PeerGone
  <1>8. Untried'
    <2> SUFFICES ASSUME NEW q \in Program, NEW i \in 1 .. Len(Connections[q]),
                        i > connected'[q]
                 PROVE  descriptor'[Connections[q][i]] = "none"
      BY DEF Untried
    <2>1. connected \in [Program -> Nat] /\ connected'[q] \in Nat /\ connected'[q] >= connected[q]
      BY <1>1, <1>4 DEF Ended, Typed
    <2>2. Connections[q][i] # l
      BY <1>1, <1>2, <1>4, <2>1
    <2>3. i > connected[q]
      <3>1. Len(Connections[q]) \in Nat
        BY Lengths
      <3>2. i \in Nat /\ connected[q] \in Nat
        BY <2>1, <3>1
      <3> QED
        BY <2>1, <3>2
    <2>4. descriptor[Connections[q][i]] = "none"
      BY <2>3 DEF Ended, Untried
    <2> QED
      BY <1>4, <2>2, <2>4, Connecting
  <1> QED
    BY <1>7, <1>8

-----------------------------------------------------------------------------
(***************************************************************************)
(* What a step does to one link                                            *)
(***************************************************************************)

\* The memory sends the filesystem nothing else.
SentOn(l) == IF l = "swap" THEN {"CREATE_PROCESS"} ELSE Header

Same(l) == wire'[Asks(l)] = wire[Asks(l)]

Grows(l) ==
    \/ Same(l)
    \/ \E header \in SentOn(l) : wire'[Asks(l)] = Append(wire[Asks(l)], header)

Early == {"none", "greeting"}

Quiet(l) == handler'[l] = handler[l] /\ Grows(l)

Works(l) ==
    /\ handler[l] \notin Early
    /\ handler'[l] \notin Early
    /\ handler'[l] = handler[l] \/ handler'[l] \in Serving[l] \/ Dead(Client[l])
    /\ l = "swap" => Same(l)

Accepts(l) ==
    /\ descriptor[l] = "open"
    /\ handler[l] = "none"
    /\ handler'[l] = IF l = "command" THEN "handler_connection" ELSE "greeting"
    /\ Same(l)

Greets(l) ==
    /\ handler[l] = "greeting"
    /\ handler'[l] \notin Early
    /\ \/ Dead(Client[l]) /\ Same(l)
       \/ /\ wire[Asks(l)] # <<>>
          /\ handler'[l] = Greeted(l, Head(wire[Asks(l)]))
          /\ wire'[Asks(l)] = Tail(wire[Asks(l)])

LinkStep(l) == Quiet(l) \/ Works(l) \/ Accepts(l) \/ Greets(l)

\* The greeting a handler expects.
Expected(l) == IF l = "fetch" THEN "CPU" ELSE "KERNEL"

LinkOK(l) ==
    /\ handler[l] # "none" => descriptor[l] = "open"
    /\ l = "command" => handler[l] # "greeting"
    /\ l = "swap" => wire[Asks(l)] \in Seq({"CREATE_PROCESS"})
    /\ (l \notin {"command", "swap"} /\ handler[l] \in Early /\ descriptor[l] = "open") =>
           wire[Asks(l)] # <<>> /\ Head(wire[Asks(l)]) = Expected(l)
    /\ ~Dead(Client[l]) => handler[l] \in Serving[l] \cup Early

LEMMA GreetedRange ==
    ASSUME NEW l \in Link \ {"command"}, NEW header
    PROVE  Greeted(l, header) \in Loops \cup {"returned"}
  BY DEF Greeted, Handlers, Server, Link, Loops

LEMMA GreetedExpected ==
    /\ \A l \in Link \ {"command", "swap"} : Greeted(l, Expected(l)) \in Serving[l]
    /\ Greeted("swap", "CREATE_PROCESS") = "returned"
    /\ "returned" \in Serving["swap"]
    /\ "handler_connection" \in Serving["command"]
  BY DEF Greeted, Expected, Handlers, Server, Serving, Link

LEMMA LinkKeeps ==
    ASSUME Typed, NEW l \in Link, LinkOK(l), Deaths, LinkStep(l)
    PROVE  LinkOK(l)'
  <1>1. wire[Asks(l)] \in Seq(Header) /\ Client[l] \in Program
    BY Ends DEF Typed
  <1>2. Dead(Client[l]) => Dead(Client[l])'
    BY <1>1 DEF Deaths, Dead, Typed
  <1>3. descriptor' = descriptor
    BY DEF Deaths
  <1>4. CASE Quiet(l)
    <2>1. CASE Same(l)
      BY <1>2, <1>3, <1>4, <2>1 DEF Quiet, Same, LinkOK, Asks
    <2>2. ASSUME NEW header \in SentOn(l), wire'[Asks(l)] = Append(wire[Asks(l)], header)
          PROVE  LinkOK(l)'
      <3>1. header \in Header
        BY DEF SentOn, Header
      <3>2. wire[Asks(l)] # <<>> =>
                wire'[Asks(l)] # <<>> /\ Head(wire'[Asks(l)]) = Head(wire[Asks(l)])
        BY <1>1, <2>2, <3>1, Grown
      <3>3. l = "swap" => wire'[Asks(l)] \in Seq({"CREATE_PROCESS"})
        BY <2>2, Grown DEF LinkOK, SentOn
      <3> QED
        BY <1>2, <1>3, <1>4, <3>2, <3>3 DEF Quiet, LinkOK
    <2> QED
      BY <1>4, <2>1, <2>2 DEF Quiet, Grows
  <1>5. CASE Works(l)
    <2>1. l = "swap" => wire'[Asks(l)] \in Seq({"CREATE_PROCESS"})
      BY <1>5 DEF Works, Same, LinkOK
    <2>2. descriptor[l] = "open"
      BY <1>5 DEF Works, LinkOK, Early
    <2>3. ~Dead(Client[l]) => handler'[l] \in Serving[l]
      BY <1>5 DEF Works, LinkOK
    <2> QED
      BY <1>2, <1>3, <1>5, <2>1, <2>2, <2>3 DEF Works, LinkOK, Early
  <1>6. CASE Accepts(l)
    BY <1>2, <1>3, <1>6, GreetedExpected DEF Accepts, Same, LinkOK, Early
  <1>7. CASE Greets(l)
    <2>1. descriptor[l] = "open" /\ l # "command"
      BY <1>7 DEF Greets, LinkOK
    <2>2. CASE Dead(Client[l]) /\ Same(l)
      BY <1>2, <1>3, <1>7, <2>1, <2>2 DEF Greets, Same, LinkOK, Early
    <2>3. CASE /\ wire[Asks(l)] # <<>>
               /\ handler'[l] = Greeted(l, Head(wire[Asks(l)]))
               /\ wire'[Asks(l)] = Tail(wire[Asks(l)])
      <3>1. CASE l = "swap"
        <4>1. /\ Head(wire[Asks(l)]) = "CREATE_PROCESS"
              /\ wire'[Asks(l)] \in Seq({"CREATE_PROCESS"})
          BY <2>3, <3>1, HeadTailProperties DEF LinkOK
        <4> QED
          BY <1>2, <1>3, <1>7, <2>1, <2>3, <3>1, <4>1, GreetedExpected DEF Greets, LinkOK, Early
      <3>2. CASE l # "swap"
        <4>1. Head(wire[Asks(l)]) = Expected(l)
          BY <1>7, <2>1, <3>2 DEF Greets, LinkOK, Early
        <4> QED
          BY <1>2, <1>3, <1>7, <2>1, <2>3, <3>2, <4>1, GreetedExpected DEF Greets, LinkOK, Early
      <3> QED
        BY <3>1, <3>2
    <2> QED
      BY <1>7, <2>2, <2>3 DEF Greets
  <1> QED
    BY <1>4, <1>5, <1>6, <1>7 DEF LinkStep

-----------------------------------------------------------------------------
(***************************************************************************)
(* What each action does                                                   *)
(***************************************************************************)

Links == \A l \in Link : LinkOK(l)

\* A step that is none of Start's and Connect's.
Step == Typed' /\ Deaths /\ \A l \in Link : LinkStep(l)

HandlerType ==
    Loops \cup {"none", "greeting", "returned", "execute_process", "handle_finish_process"}

\* A step that sends header on c, with w the wire it has read from; d is the link
\* whose thread takes the step, if it is one.
LEMMA SendStep ==
    ASSUME Typed, NEW c \in Channel, NEW header \in Header,
           NEW w \in [Channel -> Seq(Header)],
           Send(c, header, w),
           c = Asks("swap") => header = "CREATE_PROCESS",
           connected' = connected, descriptor' = descriptor,
           handler' \in [Link -> HandlerType],
           session' = session, typed' \in Nat,
           \A l \in Link : \/ handler'[l] = handler[l] /\ w[Asks(l)] = wire[Asks(l)]
                           \/ Works(l) /\ l # "swap"
    PROVE  Step
  <1>1. Deaths
    BY SendDeaths
  <1>2. state' \in [Program -> {"off", "up", "dead"}]
    BY SendState
  <1>3. /\ wire' \in [Channel -> Seq(Header)]
        /\ wire'[c] \in {w[c], Append(w[c], header)}
        /\ \A d \in Channel : d # c => wire'[d] = w[d]
    BY SendWire
  <1>4. Typed'
    BY <1>2, <1>3 DEF Typed, HandlerType
  <1>5. ASSUME NEW l \in Link
        PROVE  LinkStep(l)
    <2>1. CASE Works(l)
      BY <2>1 DEF LinkStep
    <2>2. CASE handler'[l] = handler[l] /\ w[Asks(l)] = wire[Asks(l)]
      <3>1. Asks(l) \in Channel /\ (Asks(l) = Asks("swap") => l = "swap")
        BY Ends, Apart DEF Link
      <3>2. Asks(l) = c => header \in SentOn(l)
        BY <3>1, Apart DEF SentOn, Link
      <3>3. Grows(l)
        BY <1>3, <2>2, <3>1, <3>2 DEF Grows, Same
      <3> QED
        BY <2>2, <3>3 DEF LinkStep, Quiet
    <2> QED
      BY <2>1, <2>2
  <1> QED
    BY <1>1, <1>4, <1>5 DEF Step

\* A step that sends nothing.
LEMMA SilentStep ==
    ASSUME Typed, Deaths,
           wire' \in [Channel -> Seq(Header)],
           handler' \in [Link -> HandlerType],
           session' \in Session, typed' \in Nat,
           \A l \in Link : LinkStep(l)
    PROVE  Step
  <1>1. state' \in [Program -> {"off", "up", "dead"}]
    BY DEF Typed, Deaths
  <1>2. connected' \in [Program -> Nat] /\ descriptor' \in [Link -> {"none", "open", "refused"}]
    BY DEF Typed, Deaths
  <1> QED
    BY <1>1, <1>2 DEF Step, Typed, HandlerType

\* What a thread takes from its own link it takes from no other.
LEMMA TakenAsks ==
    ASSUME Typed, NEW l \in Link, wire[Asks(l)] # <<>>
    PROVE  /\ Taken(Asks(l)) \in [Channel -> Seq(Header)]
           /\ Taken(Asks(l))[Asks(l)] = Tail(wire[Asks(l)])
           /\ \A m \in Link : m # l => Taken(Asks(l))[Asks(m)] = wire[Asks(m)]
  BY TakenWire, Ends, Apart

LEMMA TakenAnswers ==
    ASSUME Typed, NEW l \in Link, wire[Answers(l)] # <<>>
    PROVE  /\ Taken(Answers(l)) \in [Channel -> Seq(Header)]
           /\ \A m \in Link : Taken(Answers(l))[Asks(m)] = wire[Asks(m)]
  BY TakenWire, Ends, Apart

\* A thread past its greeting that does not leave, or whose client has gone.
LEMMA Working ==
    ASSUME Typed, NEW l \in Link, l # "swap",
           handler[l] \in HandlerType \ Early,
           handler' = handler
    PROVE  Works(l)
  BY DEF Works, Same

LEMMA Names ==
    /\ \A l \in {"swap", "fetch", "create", "dispatch", "interrupt", "command"} : l \in Link
    /\ {"CREATE_PROCESS", "START_PLANNING", "EXECUTE_PROCESS", "INSTRUCTIONS", "INSTRUCTION",
        "FINISH_PROCESS"} \subseteq Header
    /\ {"handler_connection", "handle_kernel_connection", "handle_cpu_connection",
        "execute_process", "handle_finish_process"} \subseteq HandlerType \ Early
    /\ Early \cap Loops = {}
  BY DEF Link, Header, HandlerType, Loops, Early

LEMMA CreateProcessStep ==
    ASSUME Typed, CreateProcess
    PROVE  Step
  <1>1. Taken(Asks("command")) \in [Channel -> Seq(Header)] /\
        \A m \in Link : m # "command" => Taken(Asks("command"))[Asks(m)] = wire[Asks(m)]
    BY TakenAsks, Names DEF CreateProcess, Receives
  <1>2. Works("command")
    BY Working, Names DEF CreateProcess, Receives
  <1>3. Send(Asks("create"), "CREATE_PROCESS", Taken(Asks("command")))
    BY DEF CreateProcess
  <1>4. Asks("create") \in Channel /\ "CREATE_PROCESS" \in Header
    BY Ends, Names
  <1>5. /\ connected' = connected /\ descriptor' = descriptor /\ session' = session
        /\ handler' = handler /\ typed' = typed
    BY DEF CreateProcess
  <1>6. handler' \in [Link -> HandlerType] /\ typed' \in Nat
    BY <1>5 DEF Typed, HandlerType
  <1> QED
    BY <1>1, <1>2, <1>3, <1>4, <1>5, <1>6, SendStep

LEMMA StartPlanningStep ==
    ASSUME Typed, StartPlanning
    PROVE  Step
  <1>1. wire' \in [Channel -> Seq(Header)] /\
        \A m \in Link : m # "command" => wire'[Asks(m)] = wire[Asks(m)]
    BY TakenAsks, Names DEF StartPlanning, Receives
  <1>2. Works("command")
    BY Working, Names DEF StartPlanning, Receives, connections
  <1>3. Deaths
    BY DEF StartPlanning, Deaths, connections
  <1>4. /\ handler' \in [Link -> HandlerType]
        /\ session' \in Session /\ typed' \in Nat
    BY DEF StartPlanning, Typed, HandlerType
  <1>5. \A l \in Link : LinkStep(l)
    BY <1>1, <1>2 DEF LinkStep, Quiet, Grows, Same, StartPlanning
  <1> QED
    BY <1>1, <1>3, <1>4, <1>5, SilentStep

LEMMA PlanStep ==
    ASSUME Typed, Plan
    PROVE  Step
  <1>1. Asks("dispatch") \in Channel /\ "EXECUTE_PROCESS" \in Header /\
        Asks("dispatch") # Asks("swap")
    BY Ends, Apart, Names
  <1>2. Send(Asks("dispatch"), "EXECUTE_PROCESS", wire)
    BY DEF Plan
  <1>3. /\ connected' = connected /\ descriptor' = descriptor /\ session' = session
        /\ handler' = handler /\ typed' = typed
    BY DEF Plan
  <1>4. handler' \in [Link -> HandlerType] /\ typed' \in Nat /\ wire \in [Channel -> Seq(Header)]
    BY <1>3 DEF Typed, HandlerType
  <1> QED
    BY <1>1, <1>2, <1>3, <1>4, SendStep

LEMMA FinishProcessStep ==
    ASSUME Typed, FinishProcess
    PROVE  Step
  <1>1. /\ Taken(Answers("dispatch")) \in [Channel -> Seq(Header)]
        /\ \A m \in Link : Taken(Answers("dispatch"))[Asks(m)] = wire[Asks(m)]
    BY TakenAnswers, Names DEF FinishProcess
  <1>2. Asks("create") \in Channel /\ "FINISH_PROCESS" \in Header /\
        Asks("create") # Asks("swap")
    BY Ends, Apart, Names
  <1>3. Send(Asks("create"), "FINISH_PROCESS", Taken(Answers("dispatch")))
    BY DEF FinishProcess
  <1>4. /\ connected' = connected /\ descriptor' = descriptor /\ session' = session
        /\ handler' = handler /\ typed' = typed
    BY DEF FinishProcess
  <1>5. handler' \in [Link -> HandlerType] /\ typed' \in Nat
    BY <1>4 DEF Typed, HandlerType
  <1> QED
    BY <1>1, <1>2, <1>3, <1>4, <1>5, SendStep

LEMMA HandleCreateProcessStep ==
    ASSUME Typed, HandleCreateProcess
    PROVE  Step
  <1>1. Taken(Asks("create")) \in [Channel -> Seq(Header)] /\
        \A m \in Link : m # "create" => Taken(Asks("create"))[Asks(m)] = wire[Asks(m)]
    BY TakenAsks, Names DEF HandleCreateProcess, Receives
  <1>2. Works("create")
    BY Working, Names DEF HandleCreateProcess, Receives
  <1>3. Send(Asks("swap"), "CREATE_PROCESS", Taken(Asks("create")))
    BY DEF HandleCreateProcess
  <1>4. Asks("swap") \in Channel /\ "CREATE_PROCESS" \in Header
    BY Ends, Names
  <1>5. /\ connected' = connected /\ descriptor' = descriptor /\ session' = session
        /\ handler' = handler /\ typed' = typed
    BY DEF HandleCreateProcess, process
  <1>6. handler' \in [Link -> HandlerType] /\ typed' \in Nat
    BY <1>5 DEF Typed, HandlerType
  <1> QED
    BY <1>1, <1>2, <1>3, <1>4, <1>5, <1>6, SendStep

LEMMA HandleFinishProcessStep ==
    ASSUME Typed, HandleFinishProcess
    PROVE  Step
  <1>1. wire' \in [Channel -> Seq(Header)] /\
        \A m \in Link : m # "create" => wire'[Asks(m)] = wire[Asks(m)]
    BY TakenAsks, Names DEF HandleFinishProcess, Receives
  <1>2. /\ handler' \in [Link -> HandlerType]
        /\ handler'["create"] = "handle_finish_process"
        /\ \A m \in Link : m # "create" => handler'[m] = handler[m]
    BY Names DEF HandleFinishProcess, Typed, HandlerType
  <1>3. Works("create")
    BY <1>2, Names DEF HandleFinishProcess, Receives, Works, Serving
  <1>4. Deaths
    BY DEF HandleFinishProcess, Deaths, connections
  <1>5. session' \in Session /\ typed' \in Nat
    BY DEF HandleFinishProcess, Typed, process
  <1>6. \A l \in Link : LinkStep(l)
    BY <1>1, <1>2, <1>3 DEF LinkStep, Quiet, Grows, Same
  <1> QED
    BY <1>1, <1>2, <1>4, <1>5, <1>6, SilentStep

LEMMA HandleInstructionStep ==
    ASSUME Typed, HandleInstruction
    PROVE  Step
  <1>1. Taken(Asks("fetch")) \in [Channel -> Seq(Header)] /\
        \A m \in Link : m # "fetch" => Taken(Asks("fetch"))[Asks(m)] = wire[Asks(m)]
    BY TakenAsks, Names DEF HandleInstruction, Receives
  <1>2. Works("fetch")
    BY Working, Names DEF HandleInstruction, Receives
  <1>3. Send(Answers("fetch"), "INSTRUCTION", Taken(Asks("fetch")))
    BY DEF HandleInstruction
  <1>4. Answers("fetch") \in Channel /\ "INSTRUCTION" \in Header /\ Answers("fetch") # Asks("swap")
    BY Ends, Apart, Names
  <1>5. /\ connected' = connected /\ descriptor' = descriptor /\ session' = session
        /\ handler' = handler /\ typed' = typed
    BY DEF HandleInstruction, process
  <1>6. handler' \in [Link -> HandlerType] /\ typed' \in Nat
    BY <1>5 DEF Typed, HandlerType
  <1> QED
    BY <1>1, <1>2, <1>3, <1>4, <1>5, <1>6, SendStep

LEMMA ReceiveProcessStep ==
    ASSUME Typed, ReceiveProcess
    PROVE  Step
  <1>1. Taken(Asks("dispatch")) \in [Channel -> Seq(Header)] /\
        \A m \in Link : m # "dispatch" => Taken(Asks("dispatch"))[Asks(m)] = wire[Asks(m)]
    BY TakenAsks, Names DEF ReceiveProcess, Receives
  <1>2. /\ handler' \in [Link -> HandlerType]
        /\ handler'["dispatch"] = "execute_process"
        /\ \A m \in Link : m # "dispatch" => handler'[m] = handler[m]
    BY Names DEF ReceiveProcess, Typed, HandlerType
  <1>3. Works("dispatch")
    BY <1>2, Names DEF ReceiveProcess, Receives, Works, Serving
  <1>4. Send(Asks("fetch"), "INSTRUCTIONS", Taken(Asks("dispatch")))
    BY DEF ReceiveProcess
  <1>5. Asks("fetch") \in Channel /\ "INSTRUCTIONS" \in Header /\ Asks("fetch") # Asks("swap")
    BY Ends, Apart, Names
  <1>6. /\ connected' = connected /\ descriptor' = descriptor /\ session' = session
        /\ typed' = typed
    BY DEF ReceiveProcess
  <1>7. typed' \in Nat
    BY <1>6 DEF Typed
  <1> QED
    BY <1>1, <1>2, <1>3, <1>4, <1>5, <1>6, <1>7, SendStep

LEMMA ExecuteInstructionStep ==
    ASSUME Typed, ExecuteInstruction
    PROVE  Step
  <1>1. /\ Taken(Answers("fetch")) \in [Channel -> Seq(Header)]
        /\ \A m \in Link : Taken(Answers("fetch"))[Asks(m)] = wire[Asks(m)]
    BY TakenAnswers, Names DEF ExecuteInstruction
  <1>2. /\ connected' = connected /\ descriptor' = descriptor /\ session' = session
        /\ typed' = typed
    BY DEF ExecuteInstruction
  <1>3. typed' \in Nat
    BY <1>2 DEF Typed
  <1>4. CASE /\ Send(Asks("fetch"), "INSTRUCTIONS", Taken(Answers("fetch")))
             /\ handler' = handler
    <2>1. Asks("fetch") \in Channel /\ "INSTRUCTIONS" \in Header /\ Asks("fetch") # Asks("swap")
      BY Ends, Apart, Names
    <2>2. handler' \in [Link -> HandlerType]
      BY <1>4 DEF Typed, HandlerType
    <2> QED
      BY <1>1, <1>2, <1>3, <1>4, <2>1, <2>2, SendStep
  <1>5. CASE /\ Send(Answers("dispatch"), "FINISH_PROCESS", Taken(Answers("fetch")))
             /\ handler' = [handler EXCEPT !["dispatch"] = "handle_kernel_connection"]
    <2>1. /\ Answers("dispatch") \in Channel /\ "FINISH_PROCESS" \in Header
          /\ Answers("dispatch") # Asks("swap")
      BY Ends, Apart, Names
    <2>2. /\ handler' \in [Link -> HandlerType]
          /\ handler'["dispatch"] = "handle_kernel_connection"
          /\ \A m \in Link : m # "dispatch" => handler'[m] = handler[m]
      BY <1>5, Names DEF Typed, HandlerType
    <2>3. Works("dispatch")
      BY <2>2, Names DEF ExecuteInstruction, Works, Serving
    <2> QED
      BY <1>1, <1>2, <1>3, <1>5, <2>1, <2>2, <2>3, SendStep
  <1> QED
    BY <1>4, <1>5 DEF ExecuteInstruction

LEMMA TypeStep ==
    ASSUME Typed, Type
    PROVE  Step
  <1>1. /\ connected' = connected /\ descriptor' = descriptor /\ session' = session
        /\ handler' = handler
    BY DEF Type
  <1>2. /\ handler' \in [Link -> HandlerType]
        /\ typed' \in Nat
        /\ wire \in [Channel -> Seq(Header)]
    BY <1>1 DEF Type, Typed, HandlerType
  <1>3. CASE Send(Asks("command"), session.lines[typed + 1].command, wire)
    <2>1. Asks("command") \in Channel /\ Asks("command") # Asks("swap")
      BY Ends, Apart, Names
    <2>2. session.lines[typed + 1].command \in Header
      <3>1. session.lines \in Seq(Line) /\ typed \in Nat /\ typed < Len(session.lines)
        BY DEF Type, Typed, Session
      <3>2. session.lines[typed + 1] \in Line
        BY <3>1, ElementOfSeq
      <3> QED
        BY <3>2 DEF Line, Header
    <2> QED
      BY <1>1, <1>2, <1>3, <2>1, <2>2, SendStep
  <1>4. CASE UNCHANGED <<wire, state>>
    <2>1. Deaths
      BY <1>1, <1>4 DEF Deaths
    <2>2. \A l \in Link : LinkStep(l)
      BY <1>1, <1>4 DEF LinkStep, Quiet, Grows, Same
    <2>3. session' \in Session
      BY <1>1 DEF Typed
    <2> QED
      BY <1>2, <1>4, <2>1, <2>2, <2>3, SilentStep
  <1> QED
    BY <1>3, <1>4 DEF Type

\* A step that leaves the wire and the handlers alone.
LEMMA IdleStep ==
    ASSUME Typed, Deaths, wire' = wire, handler' = handler,
           session' \in Session, typed' = typed
    PROVE  Step
  <1>1. \A l \in Link : LinkStep(l)
    BY DEF LinkStep, Quiet, Grows, Same
  <1>2. wire' \in [Channel -> Seq(Header)] /\ handler' \in [Link -> HandlerType] /\ typed' \in Nat
    BY DEF Typed, HandlerType
  <1> QED
    BY <1>1, <1>2, SilentStep

LEMMA ListenStep ==
    ASSUME Typed, NEW l \in Link, Listen(l)
    PROVE  Step
  <1>1. Deaths /\ wire' = wire /\ handler' = handler /\ session' = session /\ typed' = typed
    BY DEF Listen, Deaths, process
  <1> QED
    BY <1>1, IdleStep DEF Typed

LEMMA BeginStep ==
    ASSUME Typed, Begin
    PROVE  Step
  <1>1. Deaths /\ wire' = wire /\ handler' = handler /\ typed' = typed
    BY DEF Begin, Deaths, connections
  <1>2. session' \in Session
    BY SessionsAssumption DEF Begin
  <1> QED
    BY <1>1, <1>2, IdleStep

LEMMA ExitStep ==
    ASSUME Typed, Exit
    PROVE  Step
  <1>1. Deaths /\ wire' = wire /\ handler' = handler /\ session' = session /\ typed' = typed
    BY DEF Exit, Deaths, Dies, process, Program
  <1> QED
    BY <1>1, IdleStep DEF Typed

LEMMA EndOfPayloadStep ==
    ASSUME Typed, NEW l \in Link, EndOfPayload(l)
    PROVE  Step
  <1>1. PeerGone(Server[l]) /\ Server[l] \in Program
    BY Ends DEF EndOfPayload, AtEnd, PeerGone
  <1>2. Deaths /\ wire' = wire /\ handler' = handler /\ session' = session /\ typed' = typed
    BY <1>1 DEF EndOfPayload, Deaths, Dies, process
  <1> QED
    BY <1>2, IdleStep DEF Typed

LEMMA EndOfInstructionsStep ==
    ASSUME Typed, EndOfInstructions
    PROVE  Step
  <1>1. Client["fetch"] = "cpu" /\ "cpu" \in Program
    BY DEF Client, Program
  <1>2. PeerGone("cpu")
    BY <1>1, Ends, Names DEF EndOfInstructions, AtEnd, PeerGone
  <1>3. Deaths /\ wire' = wire /\ handler' = handler /\ session' = session /\ typed' = typed
    BY <1>1, <1>2 DEF EndOfInstructions, Deaths, Dies, process
  <1> QED
    BY <1>3, IdleStep DEF Typed

LEMMA EndOfDispatchStep ==
    ASSUME Typed, EndOfDispatch
    PROVE  Step
  <1>1. Client["dispatch"] = "kernel" /\ "kernel" \in Program
    BY DEF Client, Program
  <1>2. PeerGone("kernel")
    BY <1>1, Ends, Names DEF EndOfDispatch, AtEnd, PeerGone
  <1>3. Deaths /\ wire' = wire /\ handler' = handler /\ session' = session /\ typed' = typed
    BY <1>1, <1>2 DEF EndOfDispatch, Deaths, Dies, process
  <1> QED
    BY <1>3, IdleStep DEF Typed

LEMMA AcceptStep ==
    ASSUME Typed, NEW l \in Link, Accept(l)
    PROVE  Step
  <1>1. /\ handler' \in [Link -> HandlerType]
        /\ handler'[l] = IF l = "command" THEN "handler_connection" ELSE "greeting"
        /\ \A m \in Link : m # l => handler'[m] = handler[m]
    BY Names DEF Accept, Typed, HandlerType
  <1>2. \A m \in Link : LinkStep(m)
    BY <1>1 DEF Accept, LinkStep, Accepts, Quiet, Grows, Same
  <1>3. Deaths
    BY DEF Accept, Deaths, connections
  <1>4. wire' \in [Channel -> Seq(Header)] /\ session' \in Session /\ typed' \in Nat
    BY DEF Accept, Typed, process
  <1> QED
    BY <1>1, <1>2, <1>3, <1>4, SilentStep

LEMMA ReceiveGreetingStep ==
    ASSUME Typed, NEW l \in Link, LinkOK(l), ReceiveGreeting(l)
    PROVE  Step
  <1> DEFINE header == Head(wire[Asks(l)])
  <1>1. l # "command" /\ wire[Asks(l)] # <<>>
    BY DEF ReceiveGreeting, LinkOK
  <1>2. Greeted(l, header) \in HandlerType \ Early
    BY <1>1, GreetedRange DEF HandlerType, Early, Loops
  <1>3. /\ handler' \in [Link -> HandlerType]
        /\ handler'[l] = Greeted(l, header)
        /\ \A m \in Link : m # l => handler'[m] = handler[m]
    BY <1>2 DEF ReceiveGreeting, Typed, HandlerType
  <1>4. /\ wire' \in [Channel -> Seq(Header)]
        /\ wire'[Asks(l)] = Tail(wire[Asks(l)])
        /\ \A m \in Link : m # l => wire'[Asks(m)] = wire[Asks(m)]
    BY <1>1, TakenAsks DEF ReceiveGreeting
  <1>5. Greets(l)
    BY <1>1, <1>2, <1>3, <1>4 DEF ReceiveGreeting, Greets
  <1>6. \A m \in Link : LinkStep(m)
    BY <1>3, <1>4, <1>5 DEF LinkStep, Quiet, Grows, Same
  <1>7. Deaths
    BY DEF ReceiveGreeting, Deaths, connections
  <1>8. session' \in Session /\ typed' \in Nat
    BY DEF ReceiveGreeting, Typed, process
  <1> QED
    BY <1>3, <1>4, <1>6, <1>7, <1>8, SilentStep

\* Whatever byte the thread takes for a greeting, its client has gone.
LEMMA EndOfGreetingStep ==
    ASSUME Typed, NEW l \in Link, LinkOK(l), EndOfGreeting(l)
    PROVE  Step
  <1>1. l # "command" /\ Dead(Client[l])
    BY Ends DEF EndOfGreeting, LinkOK, AtEnd
  <1>2. PICK header : handler' = [handler EXCEPT ![l] = Greeted(l, header)]
    BY DEF EndOfGreeting
  <1>3. Greeted(l, header) \in HandlerType \ Early
    BY <1>1, GreetedRange DEF HandlerType, Early, Loops
  <1>4. /\ handler' \in [Link -> HandlerType]
        /\ handler'[l] \notin Early
        /\ \A m \in Link : m # l => handler'[m] = handler[m]
    BY <1>2, <1>3 DEF Typed, HandlerType
  <1>5. \A m \in Link : LinkStep(m)
    BY <1>1, <1>4 DEF EndOfGreeting, LinkStep, Greets, Quiet, Grows, Same
  <1>6. Deaths
    BY DEF EndOfGreeting, Deaths, connections
  <1>7. wire' \in [Channel -> Seq(Header)] /\ session' \in Session /\ typed' \in Nat
    BY DEF EndOfGreeting, Typed, process
  <1> QED
    BY <1>4, <1>5, <1>6, <1>7, SilentStep

LEMMA EndOfLoopStep ==
    ASSUME Typed, NEW l \in Link, EndOfLoop(l)
    PROVE  Step
  <1>1. Dead(Client[l])
    BY Ends DEF EndOfLoop, AtEnd
  <1>2. handler[l] \in Loops /\ handler[l] \notin Early
    BY Names DEF EndOfLoop
  <1>3. Leaves(l) \in HandlerType \ Early
    BY <1>2 DEF Leaves, HandlerType, Early
  <1>4. /\ handler' \in [Link -> HandlerType]
        /\ handler'[l] \notin Early
        /\ \A m \in Link : m # l => handler'[m] = handler[m]
    BY <1>3 DEF EndOfLoop, Typed, HandlerType
  <1>5. \A m \in Link : LinkStep(m)
    BY <1>1, <1>2, <1>4 DEF EndOfLoop, LinkStep, Works, Quiet, Grows, Same
  <1>6. Deaths
    BY DEF EndOfLoop, Deaths, connections
  <1>7. wire' \in [Channel -> Seq(Header)] /\ session' \in Session /\ typed' \in Nat
    BY DEF EndOfLoop, Typed
  <1> QED
    BY <1>4, <1>5, <1>6, <1>7, SilentStep

-----------------------------------------------------------------------------
(***************************************************************************)
(* Start-up                                                                *)
(***************************************************************************)

\* The two actions that are none of the threads', and a stutter.
Others == (\E p \in Program : Start(p) \/ Connect(p)) \/ UNCHANGED vars

LEMMA NextSteps ==
    ASSUME Typed, Links, [Next]_vars
    PROVE  Step \/ Others
  <1>1. ASSUME NEW l \in Link, Thread(l)
        PROVE  Step
    BY <1>1, AcceptStep, ReceiveGreetingStep, CreateProcessStep, StartPlanningStep,
       HandleCreateProcessStep, HandleFinishProcessStep, HandleInstructionStep,
       ReceiveProcessStep, ExecuteInstructionStep DEF Thread, Links
  <1>2. ASSUME NEW l \in Link, EndOfStream(l)
        PROVE  Step
    BY <1>2, EndOfGreetingStep, EndOfLoopStep, EndOfPayloadStep, EndOfInstructionsStep,
       EndOfDispatchStep DEF EndOfStream, Links
  <1> QED
    BY <1>1, <1>2, ListenStep, PlanStep, FinishProcessStep, BeginStep, TypeStep, ExitStep
       DEF Next, Others

LEMMA StartKeeps ==
    ASSUME Typed, Untried, Links, DiesOfAPeer, NEW p \in Program, Start(p)
    PROVE  Typed' /\ Untried' /\ Links' /\ DiesOfAPeer'
  <1>1. Typed'
    BY DEF Start, Typed, process
  <1>2. \A q \in Program : Dead(q)' <=> Dead(q)
    BY DEF Start, Dead, Typed
  <1>3. DiesOfAPeer'
    BY <1>2, Ends DEF Start, DiesOfAPeer
  <1>4. Links'
    BY <1>2, Ends DEF Start, Links, LinkOK, Asks
  <1> QED
    BY <1>1, <1>3, <1>4 DEF Start, Untried

\* The connection is new, so no thread has it, and its client greets it.
LEMMA ConnectLinks ==
    ASSUME Ended, Links, NEW p \in Program, Connect(p)
    PROVE  Typed' /\ Links'
  <1> DEFINE n == connected[p] + 1
  <1>1. n \in 1 .. Len(Connections[p]) /\ connected[p] \in Nat
    <2>1. connected[p] \in Nat /\ connected[p] < Len(Connections[p])
      BY DEF Ended, Typed, Connect
    <2>2. Len(Connections[p]) \in Nat
      BY Lengths
    <2> QED
      BY <2>1, <2>2
  <1>2. PICK l \in Link : l = Connections[p][n]
    BY <1>1, Connecting
  <1>3. descriptor[l] = "none" /\ handler[l] = "none"
    BY <1>1, <1>2 DEF Ended, Untried, Links, LinkOK
  <1>4. Greeting(l) \in Seq(Header) /\
        (l \notin {"command", "swap"} => Greeting(l) = <<Expected(l)>>) /\
        (l = "swap" => Greeting(l) = <<>>)
    <2>1. /\ <<"KERNEL">> \in Seq(Header) /\ <<"CPU">> \in Seq(Header)
          /\ <<>> \in Seq(Header)
      BY DEF Header
    <2> QED
      BY <1>2, <2>1 DEF Greeting, Expected, Link
  <1>5. /\ connected' = [connected EXCEPT ![p] = n]
        /\ handler' = handler /\ session' = session /\ typed' = typed
    BY DEF Connect, process
  <1>6. /\ connected' \in [Program -> Nat]
        /\ handler' \in [Link -> HandlerType] /\ session' \in Session /\ typed' \in Nat
    BY <1>1, <1>5 DEF Ended, Typed, HandlerType
  <1>7. \A q \in Program : Dead(q) => Dead(q)'
    BY DEF Connect, Dead, Ended, Typed
  <1>8. CASE /\ descriptor' = [descriptor EXCEPT ![l] = "open"]
             /\ wire' = [wire EXCEPT ![Asks(l)] = Greeting(l)]
             /\ state' = state
    <2>1. Typed'
      BY <1>2, <1>4, <1>6, <1>8 DEF Ended, Typed, HandlerType
    <2>2. LinkOK(l)'
      <3>1. descriptor'[l] = "open" /\ wire'[Asks(l)] = Greeting(l)
        BY <1>2, <1>8, Ends DEF Ended, Typed
      <3>2. l = "swap" => wire'[Asks(l)] \in Seq({"CREATE_PROCESS"})
        BY <1>4, <3>1, EmptySeq
      <3>3. handler'[l] = "none"
        BY <1>3, <1>5
      <3>4. l \notin {"command", "swap"} =>
                wire'[Asks(l)] # <<>> /\ Head(wire'[Asks(l)]) = Expected(l)
        <4>1. <<Expected(l)>> # <<>> /\ Head(<<Expected(l)>>) = Expected(l)
          OBVIOUS
        <4> QED
          BY <1>4, <3>1, <4>1
      <3> QED
        BY <3>1, <3>2, <3>3, <3>4 DEF LinkOK, Early, Expected
    <2>3. ASSUME NEW m \in Link, m # l
          PROVE  LinkOK(m)'
      <3>1. /\ descriptor'[m] = descriptor[m]
            /\ wire'[Asks(m)] = wire[Asks(m)]
        BY <1>2, <1>8, <2>3, Ends, Apart DEF Ended, Typed
      <3> QED
        BY <1>5, <1>7, <3>1, Ends DEF Links, LinkOK
    <2> QED
      BY <2>1, <2>2, <2>3 DEF Links
  <1>9. CASE /\ descriptor' = [descriptor EXCEPT ![l] = "refused"]
             /\ state' = [state EXCEPT ![p] = IF p = "console" THEN "dead" ELSE @]
             /\ wire' = wire
    <2>1. Typed'
      BY <1>2, <1>6, <1>9 DEF Ended, Typed, HandlerType
    <2>2. \A m \in Link : descriptor'[m] = IF m = l THEN "refused" ELSE descriptor[m]
      BY <1>2, <1>9 DEF Ended, Typed
    <2>3. ASSUME NEW m \in Link
          PROVE  LinkOK(m)'
      <3>1. LinkOK(m) /\ Client[m] \in Program
        BY Ends DEF Links
      <3>2. Dead(Client[m]) => Dead(Client[m])'
        BY <1>7, <3>1
      <3>3. handler'[m] = handler[m] /\ wire'[Asks(m)] = wire[Asks(m)]
        BY <1>5, <1>9
      <3>4. handler[m] # "none" => descriptor'[m] = "open"
        BY <1>3, <2>2, <3>1 DEF LinkOK
      <3>5. descriptor'[m] = "open" => descriptor[m] = "open"
        BY <2>2
      <3> QED
        BY <3>1, <3>2, <3>3, <3>4, <3>5 DEF LinkOK, Early
    <2> QED
      BY <2>1, <2>3 DEF Links
  <1> QED
    BY <1>2, <1>8, <1>9 DEF Connect

-----------------------------------------------------------------------------
(***************************************************************************)
(* The invariant of the connections                                        *)
(***************************************************************************)

IInv == Typed /\ Untried /\ Links /\ DiesOfAPeer

LEMMA Initial ==
    ASSUME Init
    PROVE  IInv
  <1>1. <<>> \in Seq(Header) /\ <<>> \in Seq({"CREATE_PROCESS"}) /\ <<>> \in Seq(Line)
    BY EmptySeq
  <1>2. Typed
    BY <1>1 DEF Init, Typed, Session
  <1>3. Untried
    BY Connecting DEF Init, Untried
  <1>4. Links
    BY <1>1, Ends DEF Init, Links, LinkOK, Early
  <1>5. DiesOfAPeer
    BY DEF Init, DiesOfAPeer, Dead
  <1> QED
    BY <1>2, <1>3, <1>4, <1>5 DEF IInv

LEMMA Inductive ==
    ASSUME IInv, [Next]_vars
    PROVE  IInv'
  <1>1. CASE Step
    <2>1. Links'
      BY <1>1, LinkKeeps DEF IInv, Step, Links
    <2>2. Untried' /\ DiesOfAPeer'
      BY <1>1, DeathsKeep DEF IInv, Step
    <2> QED
      BY <1>1, <2>1, <2>2 DEF IInv, Step
  <1>2. ASSUME NEW p \in Program, Start(p)
        PROVE  IInv'
    BY <1>2, StartKeeps DEF IInv
  <1>3. ASSUME NEW p \in Program, Connect(p)
        PROVE  IInv'
    BY <1>3, ConnectKeeps, ConnectLinks DEF IInv, Ended
  <1>4. CASE UNCHANGED vars
    BY <1>4 DEF vars, connections, process, IInv, Typed, Untried, Links, LinkOK, Asks,
       DiesOfAPeer, Dead
  <1> QED
    BY <1>1, <1>2, <1>3, <1>4, NextSteps DEF IInv, Others

LEMMA Invariant == Spec => []IInv
  BY Initial, Inductive, PTL DEF Spec

\* A program dies because one it is connected to has gone, whatever the user
\* types and in whatever order the programs start: Deaths is all a step of a
\* thread does to the programs, and a connection in use is never made anew.
THEOREM DeathIsAPeers == Spec => []DiesOfAPeer
  <1>1. IInv => DiesOfAPeer
    BY DEF IInv
  <1> QED
    BY <1>1, Invariant, PTL

\* While its client is there, the thread of a connection runs the function
\* written for that client: what a server reads first is what the client sent
\* first, and each client's first header is its own.
THEOREM HandlerIsRight == Spec => []RightHandler
  <1>1. IInv => RightHandler
    BY DEF IInv, Links, LinkOK, RightHandler, Early
  <1> QED
    BY <1>1, Invariant, PTL

-----------------------------------------------------------------------------
(***************************************************************************)
(* The traffic of the processes                                            *)
(***************************************************************************)

One(b) == IF b THEN 1 ELSE 0

Orders == Len(wire[Asks("dispatch")])
Reports == Len(wire[Answers("dispatch")])
Commands == Len(wire[Asks("command")])

Executing == handler["dispatch"] = "execute_process"

\* The kernel's greeting is among what the CPU has still to read.
Ungreeted == handler["dispatch"] \in Early /\ descriptor["dispatch"] = "open"

Ranges ==
    /\ \A p \in Program : connected[p] <= Len(Connections[p])
    /\ listening \subseteq {Port[l] : l \in Link}
    /\ listener \in {"handle_dispatch_connection", "returned"}
    /\ typed <= Len(session.lines)
    /\ new \in Nat
    /\ started \in BOOLEAN
    /\ busy \in BOOLEAN
    /\ left \in 0 .. Length
    /\ finished \in Nat

\* A process that is dispatched is in one place: on its way to the CPU, in it,
\* or on its way back. The kernel waits for it as long as that.
Token == Orders + One(Executing) + Reports <= One(busy) + One(Ungreeted)

\* A line makes one process at most, and a process ends once.
Count == Commands + new + One(busy) + finished <= typed

Flow == Ranges /\ Token /\ Count /\ (Executing => left >= 1)

LEMMA Numbers ==
    ASSUME Typed
    PROVE  /\ Orders \in Nat /\ Reports \in Nat /\ Commands \in Nat
           /\ One(Executing) \in {0, 1} /\ One(Ungreeted) \in {0, 1} /\ One(busy) \in {0, 1}
           /\ typed \in Nat /\ Len(session.lines) \in Nat
  <1>1. \A c \in Channel : Len(wire[c]) \in Nat
    BY LenProperties DEF Typed
  <1>2. Asks("dispatch") \in Channel /\ Answers("dispatch") \in Channel /\
        Asks("command") \in Channel
    BY Ends, Names
  <1>3. session.lines \in Seq(Line)
    BY DEF Typed, Session
  <1> QED
    BY <1>1, <1>2, <1>3, LenProperties DEF Orders, Reports, Commands, One, Typed

LEMMA NumbersNext ==
    ASSUME Typed'
    PROVE  /\ Orders' \in Nat /\ Reports' \in Nat /\ Commands' \in Nat
           /\ One(Executing)' \in {0, 1} /\ One(Ungreeted)' \in {0, 1} /\ One(busy)' \in {0, 1}
           /\ typed' \in Nat /\ Len(session'.lines) \in Nat
  <1>1. \A c \in Channel : Len(wire'[c]) \in Nat
    BY LenProperties DEF Typed
  <1>2. Asks("dispatch") \in Channel /\ Answers("dispatch") \in Channel /\
        Asks("command") \in Channel
    BY Ends, Names
  <1>3. session'.lines \in Seq(Line)
    BY DEF Typed, Session
  <1> QED
    BY <1>1, <1>2, <1>3, LenProperties DEF Orders, Reports, Commands, One, Typed

\* Three of the channels are these.
LEMMA Lanes ==
    /\ Asks("dispatch") \in Channel /\ Answers("dispatch") \in Channel
    /\ Asks("command") \in Channel
    /\ Asks("dispatch") # Answers("dispatch")
    /\ Asks("command") # Answers("dispatch") /\ Asks("dispatch") # Asks("command")
    /\ \A l \in {"swap", "fetch", "create", "interrupt"} :
          /\ Asks(l) \in Channel /\ Answers(l) \in Channel
          /\ Asks(l) # Asks("dispatch") /\ Asks(l) # Answers("dispatch") /\ Asks(l) # Asks("command")
          /\ Answers(l) # Asks("dispatch") /\ Answers(l) # Answers("dispatch")
          /\ Answers(l) # Asks("command")
  BY Ends, Names DEF Asks, Answers

LEMMA SendLength ==
    ASSUME NEW c \in Channel, NEW header \in Header, NEW w \in [Channel -> Seq(Header)],
           Send(c, header, w)
    PROVE  /\ Len(wire'[c]) \in {Len(w[c]), Len(w[c]) + 1}
           /\ \A d \in Channel : d # c => Len(wire'[d]) = Len(w[d])
  <1>1. wire'[c] \in {w[c], Append(w[c], header)} /\ \A d \in Channel : d # c => wire'[d] = w[d]
    BY SendWire
  <1>2. Len(Append(w[c], header)) = Len(w[c]) + 1
    BY AppendProperties
  <1> QED
    BY <1>1, <1>2

LEMMA TakenLength ==
    ASSUME Typed, NEW c \in Channel, wire[c] # <<>>
    PROVE  /\ Taken(c) \in [Channel -> Seq(Header)]
           /\ Len(wire[c]) \in Nat /\ Len(wire[c]) >= 1
           /\ Len(Taken(c)[c]) = Len(wire[c]) - 1
           /\ \A d \in Channel : d # c => Len(Taken(c)[d]) = Len(wire[d])
  <1>1. /\ Taken(c) \in [Channel -> Seq(Header)]
        /\ Taken(c)[c] = Tail(wire[c])
        /\ \A d \in Channel : d # c => Taken(c)[d] = wire[d]
    BY TakenWire
  <1>2. wire[c] \in Seq(Header)
    BY DEF Typed
  <1>3. Len(wire[c]) \in Nat /\ Len(wire[c]) >= 1
    BY <1>2, EmptySeq, LenProperties
  <1>4. Len(Tail(wire[c])) = Len(wire[c]) - 1
    BY <1>2, HeadTailProperties
  <1> QED
    BY <1>1, <1>3, <1>4

\* A step that puts nothing on these channels and counts nothing.
LEMMA CalmStep ==
    ASSUME Typed, Typed', Flow,
           \A p \in Program : connected'[p] <= Len(Connections[p]),
           listening' \subseteq {Port[l] : l \in Link},
           listener' \in {"handle_dispatch_connection", "returned"},
           started' \in BOOLEAN,
           typed' = typed, typed' <= Len(session'.lines),
           new' = new, busy' = busy, left' = left, finished' = finished,
           Orders' <= Orders, Reports' <= Reports, Commands' <= Commands,
           Executing' = Executing, Ungreeted' = Ungreeted
    PROVE  Flow'
  <1>1. Ranges'
    BY DEF Flow, Ranges
  <1>2. One(Executing)' = One(Executing) /\ One(Ungreeted)' = One(Ungreeted) /\
        One(busy)' = One(busy)
    BY DEF One
  <1>3. Token'
    BY <1>2, Numbers, NumbersNext DEF Flow, Token
  <1>4. Count'
    BY <1>2, Numbers, NumbersNext DEF Flow, Ranges, Count
  <1> QED
    BY <1>1, <1>3, <1>4 DEF Flow

\* The same, of a step that leaves the programs and the ports alone.
LEMMA CalmThread ==
    ASSUME Typed, Typed', Flow,
           connected' = connected, listening' = listening, listener' = listener,
           started' = started, session' = session, typed' = typed,
           new' = new, busy' = busy, left' = left, finished' = finished,
           Orders' <= Orders, Reports' <= Reports, Commands' <= Commands,
           Executing' = Executing, Ungreeted' = Ungreeted
    PROVE  Flow'
  <1>1. /\ \A p \in Program : connected'[p] <= Len(Connections[p])
        /\ listening' \subseteq {Port[l] : l \in Link}
        /\ listener' \in {"handle_dispatch_connection", "returned"}
        /\ started' \in BOOLEAN
        /\ typed' <= Len(session'.lines)
    BY DEF Flow, Ranges
  <1> QED
    BY <1>1, CalmStep

-----------------------------------------------------------------------------
(***************************************************************************)
(* What each action does to it                                             *)
(***************************************************************************)

LEMMA StartFlow ==
    ASSUME Typed, Typed', Flow, NEW p \in Program, Start(p)
    PROVE  Flow'
  BY CalmThread, Numbers
     DEF Start, process, Orders, Reports, Commands, Executing, Ungreeted, Asks, Answers

\* Only a new connection of the kernel to the CPU puts a greeting there.
LEMMA ConnectFlow ==
    ASSUME IInv, Typed', Flow, NEW p \in Program, Connect(p)
    PROVE  Flow'
  <1> DEFINE n == connected[p] + 1
  <1>1. n \in 1 .. Len(Connections[p]) /\ connected[p] \in Nat
    <2>1. connected[p] \in Nat /\ connected[p] < Len(Connections[p]) /\ Len(Connections[p]) \in Nat
      BY Lengths DEF IInv, Typed, Connect
    <2> QED
      BY <2>1
  <1>2. PICK l \in Link : l = Connections[p][n]
    BY <1>1, Connecting
  <1>3. descriptor[l] = "none" /\ handler[l] = "none"
    BY <1>1, <1>2 DEF IInv, Untried, Links, LinkOK
  <1>4. /\ connected' = [connected EXCEPT ![p] = n]
        /\ listening' = listening /\ handler' = handler /\ listener' = listener
        /\ session' = session /\ typed' = typed /\ new' = new /\ started' = started
        /\ busy' = busy /\ left' = left /\ finished' = finished
    BY DEF Connect, process
  <1>5. Typed
    BY DEF IInv
  <1>6. \A q \in Program : connected'[q] <= Len(Connections[q])
    BY <1>1, <1>4, <1>5, Lengths DEF Typed, Flow, Ranges
  <1>7. Ranges'
    BY <1>4, <1>6 DEF Flow, Ranges
  <1>8. One(busy)' = One(busy) /\ One(Executing)' = One(Executing) /\ Executing' = Executing
    BY <1>4 DEF One, Executing
  <1>9. /\ Reports' = Reports /\ Commands' <= Commands
        /\ Orders' - One(Ungreeted)' <= Orders - One(Ungreeted)
    <2>1. CASE /\ descriptor' = [descriptor EXCEPT ![l] = "open"]
               /\ wire' = [wire EXCEPT ![Asks(l)] = Greeting(l)]
      <3>1. /\ descriptor'[l] = "open" /\ wire'[Asks(l)] = Greeting(l)
            /\ \A m \in Link : m # l => descriptor'[m] = descriptor[m]
            /\ \A c \in Channel : c # Asks(l) => wire'[c] = wire[c]
        BY <1>5, <2>1, Ends DEF Typed
      <3>2. Reports' = Reports
        BY <3>1, Lanes, Apart, Names DEF Reports
      <3>3. Commands' <= Commands
        <4>1. CASE l = "command"
          <5>1. wire'[Asks("command")] = <<>>
            BY <3>1, <4>1 DEF Greeting
          <5> QED
            BY <5>1, <1>5, Numbers DEF Commands
        <4>2. CASE l # "command"
          <5>1. Asks(l) # Asks("command")
            BY <4>2, Apart, Names
          <5> QED
            BY <5>1, <3>1, <1>5, Lanes, Numbers DEF Commands
        <4> QED
          BY <4>1, <4>2
      <3>4. CASE l = "dispatch"
        <4>1. wire'[Asks("dispatch")] = <<"KERNEL">>
          BY <3>1, <3>4 DEF Greeting
        <4>2. Orders' = 1
          BY <4>1 DEF Orders
        <4>3. Ungreeted' /\ ~Ungreeted
          BY <1>3, <1>4, <3>1, <3>4 DEF Ungreeted, Early
        <4>4. One(Ungreeted)' = 1 /\ One(Ungreeted) = 0
          BY <4>3 DEF One
        <4> QED
          BY <1>5, <3>2, <3>3, <4>2, <4>4, Numbers
      <3>5. CASE l # "dispatch"
        <4>1. Asks(l) # Asks("dispatch")
          BY <3>5, Apart, Names
        <4>2. Orders' = Orders
          BY <3>1, <4>1, Lanes DEF Orders
        <4>3. Ungreeted' = Ungreeted
          BY <1>4, <3>1, <3>5, Names DEF Ungreeted
        <4>4. One(Ungreeted)' = One(Ungreeted)
          BY <4>3 DEF One
        <4> QED
          BY <1>5, <3>2, <3>3, <4>2, <4>4, Numbers
      <3> QED
        BY <3>4, <3>5
    <2>2. CASE /\ descriptor' = [descriptor EXCEPT ![l] = "refused"]
               /\ wire' = wire
      <3>1. Orders' = Orders /\ Reports' = Reports /\ Commands' = Commands
        BY <2>2 DEF Orders, Reports, Commands, Asks, Answers
      <3>2. Ungreeted' = Ungreeted
        BY <1>3, <1>4, <1>5, <2>2, Names DEF Ungreeted, Typed
      <3>3. One(Ungreeted)' = One(Ungreeted)
        BY <3>2 DEF One
      <3> QED
        BY <1>5, <3>1, <3>3, Numbers
    <2> QED
      BY <1>2, <2>1, <2>2 DEF Connect
  <1>10. Token'
    <2> DEFINE orders == Orders
               ordersNext == Orders'
               away == One(Executing) + Reports
               allowed == One(busy)
               greeting == One(Ungreeted)
               greetingNext == One(Ungreeted)'
    <2>1. {orders, ordersNext, away, allowed, greeting, greetingNext} \subseteq Int
      BY <1>5, Numbers, NumbersNext
    <2>2. orders + away <= allowed + greeting
      BY <1>5, Numbers DEF Flow, Token
    <2>3. ordersNext - greetingNext <= orders - greeting
      BY <1>9
    <2>4. ordersNext + away <= allowed + greetingNext => Token'
      BY <1>5, <1>8, <1>9, Numbers, NumbersNext DEF Token
    <2> HIDE DEF orders, ordersNext, away, allowed, greeting, greetingNext
    <2> QED
      BY <2>1, <2>2, <2>3, <2>4
  <1>11. Count'
    BY <1>4, <1>5, <1>8, <1>9, Numbers, NumbersNext DEF Flow, Ranges, Count
  <1> QED
    BY <1>4, <1>7, <1>8, <1>10, <1>11 DEF Flow

LEMMA ListenFlow ==
    ASSUME Typed, Typed', Flow, NEW l \in Link, Listen(l)
    PROVE  Flow'
  <1>1. listening' \subseteq {Port[m] : m \in Link}
    BY DEF Listen, Flow, Ranges
  <1>2. /\ Orders' = Orders /\ Reports' = Reports /\ Commands' = Commands
        /\ Executing' = Executing /\ Ungreeted' = Ungreeted
    BY DEF Listen, Orders, Reports, Commands, Executing, Ungreeted, Asks, Answers
  <1> QED
    BY <1>1, <1>2, CalmStep, Numbers DEF Listen, process, Flow, Ranges

\* A thread that takes a connection has still to read the greeting.
LEMMA AcceptFlow ==
    ASSUME Typed, Typed', Flow, NEW l \in Link, Accept(l)
    PROVE  Flow'
  <1>1. Orders' = Orders /\ Reports' = Reports /\ Commands' = Commands
    BY DEF Accept, Orders, Reports, Commands, Asks, Answers
  <1>2. Executing' = Executing /\ Ungreeted' = Ungreeted
    BY Names DEF Accept, connections, Executing, Ungreeted, Early, Typed
  <1> QED
    BY <1>1, <1>2, CalmThread, Numbers DEF Accept, connections, process

\* The CPU's thread is past the greeting when it is off the wire.
LEMMA ReceiveGreetingFlow ==
    ASSUME IInv, Typed', Flow, NEW l \in Link, ReceiveGreeting(l)
    PROVE  Flow'
  <1> DEFINE header == Head(wire[Asks(l)])
  <1>1. Typed /\ l # "command" /\ wire[Asks(l)] # <<>> /\ descriptor[l] = "open"
    BY DEF IInv, Links, ReceiveGreeting, LinkOK
  <1>2. Greeted(l, header) \in Loops \cup {"returned"}
    BY <1>1, GreetedRange
  <1>3. /\ handler'[l] = Greeted(l, header)
        /\ \A m \in Link : m # l => handler'[m] = handler[m]
        /\ wire' = Taken(Asks(l)) /\ descriptor' = descriptor
    BY <1>1 DEF ReceiveGreeting, Typed, connections
  <1>4. /\ Len(wire'[Asks(l)]) = Len(wire[Asks(l)]) - 1
        /\ \A d \in Channel : d # Asks(l) => Len(wire'[d]) = Len(wire[d])
    BY <1>1, <1>3, TakenLength, Ends
  <1>5. Reports' = Reports /\ Commands' = Commands
    BY <1>1, <1>4, Lanes, Apart, Names DEF Reports, Commands
  <1>6. CASE l = "dispatch"
    <2>1. Orders' = Orders - 1
      BY <1>4, <1>6 DEF Orders
    <2>2. Ungreeted /\ ~Ungreeted' /\ ~Executing /\ ~Executing'
      BY <1>1, <1>2, <1>3, <1>6 DEF ReceiveGreeting, Ungreeted, Executing, Early, Loops
    <2>3. /\ One(Ungreeted) = 1 /\ One(Ungreeted)' = 0
          /\ One(Executing) = 0 /\ One(Executing)' = 0
      BY <2>2 DEF One
    <2>4. busy' = busy /\ new' = new /\ finished' = finished /\ typed' = typed
      BY DEF ReceiveGreeting, process
    <2>5. One(busy)' = One(busy)
      BY <2>4 DEF One
    <2>6. Token'
      BY <1>1, <1>5, <2>1, <2>3, <2>5, Numbers, NumbersNext DEF Flow, Token
    <2>7. Count'
      BY <1>1, <1>5, <2>4, <2>5, Numbers, NumbersNext DEF Flow, Ranges, Count
    <2>8. Ranges'
      BY DEF ReceiveGreeting, connections, process, Flow, Ranges
    <2> QED
      BY <2>2, <2>6, <2>7, <2>8 DEF Flow
  <1>7. CASE l # "dispatch"
    <2>1. Orders' = Orders
      BY <1>4, <1>7, Lanes, Apart, Names DEF Orders
    <2>2. Executing' = Executing /\ Ungreeted' = Ungreeted
      BY <1>3, <1>7, Names DEF Executing, Ungreeted
    <2> QED
      BY <1>1, <1>5, <2>1, <2>2, CalmThread, Numbers DEF ReceiveGreeting, connections, process
  <1> QED
    BY <1>6, <1>7

\* A line becomes a process.
LEMMA CreateProcessFlow ==
    ASSUME Typed, Typed', Flow, CreateProcess
    PROVE  Flow'
  <1>1. wire[Asks("command")] # <<>> /\ Asks("command") \in Channel
    BY Lanes DEF CreateProcess, Receives
  <1>2. /\ Taken(Asks("command")) \in [Channel -> Seq(Header)]
        /\ Commands >= 1
        /\ Len(Taken(Asks("command"))[Asks("command")]) = Commands - 1
        /\ \A d \in Channel : d # Asks("command") =>
              Len(Taken(Asks("command"))[d]) = Len(wire[d])
    BY <1>1, TakenLength DEF Commands
  <1>3. \A d \in Channel : d # Asks("create") => Len(wire'[d]) = Len(Taken(Asks("command"))[d])
    <2>1. Send(Asks("create"), "CREATE_PROCESS", Taken(Asks("command")))
      BY DEF CreateProcess
    <2>2. Asks("create") \in Channel /\ "CREATE_PROCESS" \in Header
      BY Lanes, Names
    <2> QED
      BY <1>2, <2>1, <2>2, SendLength
  <1>4. Orders' = Orders /\ Reports' = Reports /\ Commands' = Commands - 1
    BY <1>2, <1>3, Lanes DEF Orders, Reports, Commands
  <1>5. /\ new' = new + 1 /\ busy' = busy /\ finished' = finished /\ typed' = typed
        /\ Executing' = Executing /\ Ungreeted' = Ungreeted /\ left' = left
    BY DEF CreateProcess, Executing, Ungreeted
  <1>6. One(busy)' = One(busy) /\ One(Executing)' = One(Executing) /\ One(Ungreeted)' = One(Ungreeted)
    BY <1>5 DEF One
  <1>7. Ranges'
    BY <1>5 DEF CreateProcess, Flow, Ranges
  <1>8. Token'
    BY <1>4, <1>6 DEF Flow, Token
  <1>9. Count'
    BY <1>4, <1>5, <1>6, Numbers DEF Flow, Ranges, Count
  <1> QED
    BY <1>5, <1>7, <1>8, <1>9 DEF Flow

LEMMA StartPlanningFlow ==
    ASSUME Typed, Typed', Flow, StartPlanning
    PROVE  Flow'
  <1>1. wire[Asks("command")] # <<>> /\ wire' = Taken(Asks("command"))
    BY DEF StartPlanning, Receives
  <1>2. /\ Len(wire'[Asks("command")]) = Commands - 1
        /\ \A d \in Channel : d # Asks("command") => Len(wire'[d]) = Len(wire[d])
    BY <1>1, TakenLength, Lanes DEF Commands
  <1>3. Orders' = Orders /\ Reports' = Reports /\ Commands' = Commands - 1
    BY <1>2, Lanes DEF Orders, Reports, Commands
  <1>4. /\ \A p \in Program : connected'[p] <= Len(Connections[p])
        /\ listening' \subseteq {Port[l] : l \in Link}
        /\ listener' \in {"handle_dispatch_connection", "returned"}
        /\ started' \in BOOLEAN
        /\ typed' = typed /\ typed' <= Len(session'.lines)
        /\ new' = new /\ busy' = busy /\ left' = left /\ finished' = finished
        /\ Executing' = Executing /\ Ungreeted' = Ungreeted
    BY DEF StartPlanning, connections, Executing, Ungreeted, Flow, Ranges
  <1> QED
    BY <1>3, <1>4, CalmStep, Numbers

\* The kernel dispatches a process only while it waits for none.
LEMMA PlanFlow ==
    ASSUME Typed, Typed', Flow, Plan
    PROVE  Flow'
  <1>1. wire \in [Channel -> Seq(Header)]
    BY DEF Typed
  <1>2. /\ Len(wire'[Asks("dispatch")]) \in {Orders, Orders + 1}
        /\ \A d \in Channel : d # Asks("dispatch") => Len(wire'[d]) = Len(wire[d])
    BY <1>1, SendLength, Lanes, Names DEF Plan, Orders
  <1>3. Orders' \in {Orders, Orders + 1} /\ Reports' = Reports /\ Commands' = Commands
    BY <1>2, Lanes DEF Orders, Reports, Commands
  <1>4. /\ new' = new - 1 /\ new > 0 /\ finished' = finished /\ typed' = typed
        /\ Executing' = Executing /\ Ungreeted' = Ungreeted /\ left' = left
    BY DEF Plan, Executing, Ungreeted
  <1>5. ~busy /\ busy' = TRUE
    BY DEF Plan
  <1>6. One(busy) = 0 /\ One(busy)' = 1
    BY <1>5 DEF One
  <1>7. One(Executing)' = One(Executing) /\ One(Ungreeted)' = One(Ungreeted)
    BY <1>4 DEF One
  <1>8. Ranges'
    BY <1>4 DEF Plan, Flow, Ranges
  <1>9. Token'
    BY <1>3, <1>6, <1>7, Numbers DEF Flow, Token
  <1>10. Count'
    BY <1>3, <1>4, <1>6, Numbers DEF Flow, Ranges, Count
  <1> QED
    BY <1>4, <1>8, <1>9, <1>10 DEF Flow

\* The report that comes back is of the process the kernel waits for.
LEMMA FinishProcessFlow ==
    ASSUME IInv, Typed', Flow, FinishProcess
    PROVE  Flow'
  <1>0. Typed
    BY DEF IInv
  <1>1. wire[Answers("dispatch")] # <<>>
    BY DEF FinishProcess
  <1>2. /\ Taken(Answers("dispatch")) \in [Channel -> Seq(Header)]
        /\ Reports >= 1
        /\ Len(Taken(Answers("dispatch"))[Answers("dispatch")]) = Reports - 1
        /\ \A d \in Channel : d # Answers("dispatch") =>
              Len(Taken(Answers("dispatch"))[d]) = Len(wire[d])
    BY <1>0, <1>1, TakenLength, Lanes DEF Reports
  <1>3. \A d \in Channel : d # Asks("create") => Len(wire'[d]) = Len(Taken(Answers("dispatch"))[d])
    <2>1. Send(Asks("create"), "FINISH_PROCESS", Taken(Answers("dispatch")))
      BY DEF FinishProcess
    <2>2. Asks("create") \in Channel /\ "FINISH_PROCESS" \in Header
      BY Lanes, Names
    <2> QED
      BY <1>2, <2>1, <2>2, SendLength
  <1>4. Orders' = Orders /\ Reports' = Reports - 1 /\ Commands' = Commands
    BY <1>2, <1>3, Lanes DEF Orders, Reports, Commands
  <1>5. /\ new' = new /\ finished' = finished + 1 /\ typed' = typed /\ busy' = FALSE
        /\ Executing' = Executing /\ Ungreeted' = Ungreeted /\ left' = left
    BY DEF FinishProcess, Executing, Ungreeted
  <1>6. One(busy)' = 0
    BY <1>5 DEF One
  <1>7. One(Executing)' = One(Executing) /\ One(Ungreeted)' = One(Ungreeted)
    BY <1>5 DEF One
  \* A greeting that is on the wire is one of the orders: something else is away.
  <1>8. One(Ungreeted) <= Orders
    <2>1. CASE Ungreeted
      <3>1. wire[Asks("dispatch")] # <<>>
        BY <2>1, Names DEF Ungreeted, IInv, Links, LinkOK
      <3>2. Orders >= 1
        BY <1>0, <3>1, TakenLength, Lanes DEF Orders
      <3> QED
        BY <2>1, <3>2 DEF One
    <2>2. CASE ~Ungreeted
      BY <1>0, <2>2, Numbers DEF One
    <2> QED
      BY <2>1, <2>2
  <1>9. One(busy) = 1
    BY <1>0, <1>2, <1>8, Numbers DEF Flow, Token
  <1>10. Ranges'
    <2>1. finished' \in Nat
      BY <1>5 DEF Flow, Ranges
    <2>2. /\ connected' = connected /\ listening' = listening /\ listener' = listener
          /\ session' = session /\ started' = started
      BY DEF FinishProcess
    <2> QED
      BY <1>5, <2>1, <2>2 DEF Flow, Ranges
  <1>11. Token'
    BY <1>0, <1>4, <1>6, <1>7, <1>8, <1>9, Numbers DEF Flow, Token
  <1>12. Count'
    BY <1>0, <1>4, <1>5, <1>6, <1>9, Numbers DEF Flow, Ranges, Count
  <1> QED
    BY <1>5, <1>10, <1>11, <1>12 DEF Flow

LEMMA HandleCreateProcessFlow ==
    ASSUME Typed, Typed', Flow, HandleCreateProcess
    PROVE  Flow'
  <1>1. wire[Asks("create")] # <<>> /\ Asks("create") \in Channel
    BY Lanes DEF HandleCreateProcess, Receives
  <1>2. /\ Taken(Asks("create")) \in [Channel -> Seq(Header)]
        /\ \A d \in Channel : d # Asks("create") => Len(Taken(Asks("create"))[d]) = Len(wire[d])
    BY <1>1, TakenLength
  <1>3. \A d \in Channel : d # Asks("swap") => Len(wire'[d]) = Len(Taken(Asks("create"))[d])
    <2>1. Send(Asks("swap"), "CREATE_PROCESS", Taken(Asks("create")))
      BY DEF HandleCreateProcess
    <2>2. Asks("swap") \in Channel /\ "CREATE_PROCESS" \in Header
      BY Lanes, Names
    <2> QED
      BY <1>2, <2>1, <2>2, SendLength
  <1>4. Orders' = Orders /\ Reports' = Reports /\ Commands' = Commands
    BY <1>2, <1>3, Lanes DEF Orders, Reports, Commands
  <1>5. Executing' = Executing /\ Ungreeted' = Ungreeted
    BY DEF HandleCreateProcess, Executing, Ungreeted
  <1> QED
    BY <1>4, <1>5, CalmThread, Numbers DEF HandleCreateProcess, process

LEMMA HandleFinishProcessFlow ==
    ASSUME Typed, Typed', Flow, HandleFinishProcess
    PROVE  Flow'
  <1>1. wire[Asks("create")] # <<>> /\ wire' = Taken(Asks("create"))
    BY DEF HandleFinishProcess, Receives
  <1>2. \A d \in Channel : d # Asks("create") => Len(wire'[d]) = Len(wire[d])
    BY <1>1, TakenLength, Lanes
  <1>3. Orders' = Orders /\ Reports' = Reports /\ Commands' = Commands
    BY <1>2, Lanes DEF Orders, Reports, Commands
  <1>4. Executing' = Executing /\ Ungreeted' = Ungreeted
    BY Names DEF HandleFinishProcess, connections, Executing, Ungreeted, Typed
  <1> QED
    BY <1>3, <1>4, CalmThread, Numbers DEF HandleFinishProcess, connections, process

LEMMA HandleInstructionFlow ==
    ASSUME Typed, Typed', Flow, HandleInstruction
    PROVE  Flow'
  <1>1. wire[Asks("fetch")] # <<>> /\ Asks("fetch") \in Channel
    BY Lanes DEF HandleInstruction, Receives
  <1>2. /\ Taken(Asks("fetch")) \in [Channel -> Seq(Header)]
        /\ \A d \in Channel : d # Asks("fetch") => Len(Taken(Asks("fetch"))[d]) = Len(wire[d])
    BY <1>1, TakenLength
  <1>3. \A d \in Channel : d # Answers("fetch") => Len(wire'[d]) = Len(Taken(Asks("fetch"))[d])
    <2>1. Send(Answers("fetch"), "INSTRUCTION", Taken(Asks("fetch")))
      BY DEF HandleInstruction
    <2>2. Answers("fetch") \in Channel /\ "INSTRUCTION" \in Header
      BY Lanes, Names
    <2> QED
      BY <1>2, <2>1, <2>2, SendLength
  <1>4. Orders' = Orders /\ Reports' = Reports /\ Commands' = Commands
    BY <1>2, <1>3, Lanes DEF Orders, Reports, Commands
  <1>5. Executing' = Executing /\ Ungreeted' = Ungreeted
    BY DEF HandleInstruction, Executing, Ungreeted
  <1> QED
    BY <1>4, <1>5, CalmThread, Numbers DEF HandleInstruction, process

\* The process is off the wire and in the CPU.
LEMMA ReceiveProcessFlow ==
    ASSUME Typed, Typed', Flow, ReceiveProcess
    PROVE  Flow'
  <1>1. /\ wire[Asks("dispatch")] # <<>> /\ handler["dispatch"] = "handle_kernel_connection"
        /\ handler' = [handler EXCEPT !["dispatch"] = "execute_process"]
    BY DEF ReceiveProcess, Receives
  <1>2. /\ Taken(Asks("dispatch")) \in [Channel -> Seq(Header)]
        /\ Len(Taken(Asks("dispatch"))[Asks("dispatch")]) = Orders - 1
        /\ \A d \in Channel : d # Asks("dispatch") =>
              Len(Taken(Asks("dispatch"))[d]) = Len(wire[d])
    BY <1>1, TakenLength, Lanes DEF Orders
  <1>3. \A d \in Channel : d # Asks("fetch") => Len(wire'[d]) = Len(Taken(Asks("dispatch"))[d])
    <2>1. Send(Asks("fetch"), "INSTRUCTIONS", Taken(Asks("dispatch")))
      BY DEF ReceiveProcess
    <2>2. Asks("fetch") \in Channel /\ "INSTRUCTIONS" \in Header
      BY Lanes, Names
    <2> QED
      BY <1>2, <2>1, <2>2, SendLength
  <1>4. Orders' = Orders - 1 /\ Reports' = Reports /\ Commands' = Commands
    BY <1>2, <1>3, Lanes DEF Orders, Reports, Commands
  <1>5. ~Executing /\ Executing' /\ ~Ungreeted /\ ~Ungreeted'
    BY <1>1, Names DEF Executing, Ungreeted, Early, Typed
  <1>6. /\ One(Executing) = 0 /\ One(Executing)' = 1
        /\ One(Ungreeted) = 0 /\ One(Ungreeted)' = 0
    BY <1>5 DEF One
  <1>7. new' = new /\ finished' = finished /\ typed' = typed /\ busy' = busy /\ left' = Length
    BY DEF ReceiveProcess
  <1>8. One(busy)' = One(busy)
    BY <1>7 DEF One
  <1>9. Length \in 0 .. Length /\ Length >= 1
    BY LengthAssumption
  <1>10. Ranges'
    BY <1>7, <1>9 DEF ReceiveProcess, Flow, Ranges
  <1>11. Token'
    BY <1>4, <1>6, <1>8, Numbers DEF Flow, Token
  <1>12. Count'
    BY <1>4, <1>7, <1>8 DEF Flow, Count
  <1> QED
    BY <1>7, <1>9, <1>10, <1>11, <1>12 DEF Flow

\* It stays there, or its report is on the way back.
LEMMA ExecuteInstructionFlow ==
    ASSUME Typed, Typed', Flow, ExecuteInstruction
    PROVE  Flow'
  <1>1. wire[Answers("fetch")] # <<>> /\ handler["dispatch"] = "execute_process"
    BY DEF ExecuteInstruction
  <1>2. /\ Taken(Answers("fetch")) \in [Channel -> Seq(Header)]
        /\ \A d \in Channel : d # Answers("fetch") => Len(Taken(Answers("fetch"))[d]) = Len(wire[d])
    BY <1>1, TakenLength, Lanes
  <1>3. /\ new' = new /\ finished' = finished /\ typed' = typed /\ busy' = busy
        /\ left' = left - 1 /\ left >= 1 /\ left \in 0 .. Length
    BY <1>1 DEF ExecuteInstruction, Flow, Ranges, Executing
  <1>4. One(busy)' = One(busy)
    BY <1>3 DEF One
  <1>5. left' \in 0 .. Length
    BY <1>3, LengthAssumption
  <1>6. Ranges'
    BY <1>3, <1>5 DEF ExecuteInstruction, Flow, Ranges
  <1>7. CASE /\ left > 1
             /\ Send(Asks("fetch"), "INSTRUCTIONS", Taken(Answers("fetch")))
             /\ handler' = handler
    <2>1. \A d \in Channel : d # Asks("fetch") => Len(wire'[d]) = Len(Taken(Answers("fetch"))[d])
      <3>1. Asks("fetch") \in Channel /\ "INSTRUCTIONS" \in Header
        BY Lanes, Names
      <3> QED
        BY <1>2, <1>7, <3>1, SendLength
    <2>2. Orders' = Orders /\ Reports' = Reports /\ Commands' = Commands
      BY <1>2, <2>1, Lanes DEF Orders, Reports, Commands
    <2>3. Executing' = Executing /\ Ungreeted' = Ungreeted
      BY <1>7 DEF ExecuteInstruction, Executing, Ungreeted
    <2>4. One(Executing)' = One(Executing) /\ One(Ungreeted)' = One(Ungreeted)
      BY <2>3 DEF One
    <2>5. Token' /\ Count'
      BY <1>3, <1>4, <2>2, <2>4 DEF Flow, Token, Count
    <2>6. left' >= 1
      BY <1>3, <1>7, LengthAssumption
    <2> QED
      BY <1>6, <2>5, <2>6 DEF Flow
  <1>8. CASE /\ Send(Answers("dispatch"), "FINISH_PROCESS", Taken(Answers("fetch")))
             /\ handler' = [handler EXCEPT !["dispatch"] = "handle_kernel_connection"]
    <2>1. /\ Len(wire'[Answers("dispatch")]) \in
                {Len(Taken(Answers("fetch"))[Answers("dispatch")]),
                 Len(Taken(Answers("fetch"))[Answers("dispatch")]) + 1}
          /\ \A d \in Channel : d # Answers("dispatch") =>
                Len(wire'[d]) = Len(Taken(Answers("fetch"))[d])
      BY <1>2, <1>8, SendLength, Lanes, Names
    <2>2. Orders' = Orders /\ Reports' \in {Reports, Reports + 1} /\ Commands' = Commands
      BY <1>2, <2>1, Lanes DEF Orders, Reports, Commands
    <2>3. Executing /\ ~Executing' /\ ~Ungreeted /\ ~Ungreeted'
      BY <1>1, <1>8, Names DEF Executing, Ungreeted, Early, Typed
    <2>4. /\ One(Executing) = 1 /\ One(Executing)' = 0
          /\ One(Ungreeted) = 0 /\ One(Ungreeted)' = 0
      BY <2>3 DEF One
    <2>5. Token'
      BY <1>4, <2>2, <2>4, Numbers DEF Flow, Token
    <2>6. Count'
      BY <1>3, <1>4, <2>2 DEF Flow, Count
    <2> QED
      BY <1>6, <2>3, <2>5, <2>6 DEF Flow
  <1> QED
    BY <1>7, <1>8 DEF ExecuteInstruction

\* A step that leaves the wire and the dispatch connection alone.
LEMMA StillFlow ==
    ASSUME Typed, Typed', Flow, wire' = wire,
           handler'["dispatch"] = handler["dispatch"], descriptor' = descriptor,
           connected' = connected, listening' = listening,
           listener' \in {"handle_dispatch_connection", "returned"},
           started' \in BOOLEAN,
           session' = session, typed' = typed,
           new' = new, busy' = busy, left' = left, finished' = finished
    PROVE  Flow'
  <1>1. Orders' = Orders /\ Reports' = Reports /\ Commands' = Commands
    BY DEF Orders, Reports, Commands, Asks, Answers
  <1>2. Executing' = Executing /\ Ungreeted' = Ungreeted
    BY DEF Executing, Ungreeted
  <1>3. /\ \A p \in Program : connected'[p] <= Len(Connections[p])
        /\ listening' \subseteq {Port[l] : l \in Link}
        /\ typed' <= Len(session'.lines)
    BY DEF Flow, Ranges
  <1> QED
    BY <1>1, <1>2, <1>3, CalmStep, Numbers

\* The kernel does not go before the CPU's thread has read its greeting.
LEMMA EndOfGreetingFlow ==
    ASSUME IInv, Typed', Flow, NEW l \in Link, EndOfGreeting(l)
    PROVE  Flow'
  <1>1. Typed /\ handler[l] = "greeting" /\ wire[Asks(l)] = <<>> /\ descriptor[l] = "open"
    BY Ends DEF IInv, EndOfGreeting, AtEnd
  <1>2. l # "dispatch"
    BY <1>1 DEF IInv, Links, LinkOK, Early
  <1>3. handler'["dispatch"] = handler["dispatch"]
    BY <1>1, <1>2, Names DEF EndOfGreeting, Typed
  <1> QED
    BY <1>1, <1>3, StillFlow DEF EndOfGreeting, connections, process, Flow, Ranges

LEMMA EndOfLoopFlow ==
    ASSUME Typed, Typed', Flow, NEW l \in Link, EndOfLoop(l)
    PROVE  Flow'
  <1>1. handler[l] \in Loops
    BY DEF EndOfLoop
  <1>2. started' \in BOOLEAN
    BY DEF EndOfLoop, Flow, Ranges
  <1>3. CASE l # "dispatch"
    <2>1. handler'["dispatch"] = handler["dispatch"]
      BY <1>3, Names DEF EndOfLoop, Typed
    <2> QED
      BY <1>2, <2>1, StillFlow DEF EndOfLoop, connections, Flow, Ranges
  <1>4. CASE l = "dispatch"
    <2>1. handler'["dispatch"] = "returned"
      BY <1>4, Names DEF EndOfLoop, Leaves, Server, Typed
    <2>2. Executing' = Executing /\ Ungreeted' = Ungreeted
      BY <1>1, <1>4, <2>1, Names DEF Executing, Ungreeted, Early, Loops
    <2>3. Orders' = Orders /\ Reports' = Reports /\ Commands' = Commands
      BY DEF EndOfLoop, Orders, Reports, Commands, Asks, Answers
    <2>4. /\ \A p \in Program : connected'[p] <= Len(Connections[p])
          /\ listening' \subseteq {Port[m] : m \in Link}
          /\ listener' \in {"handle_dispatch_connection", "returned"}
          /\ typed' = typed /\ typed' <= Len(session'.lines)
          /\ new' = new /\ busy' = busy /\ left' = left /\ finished' = finished
      BY DEF EndOfLoop, connections, Flow, Ranges
    <2> QED
      BY <1>2, <2>2, <2>3, <2>4, CalmStep, Numbers
  <1> QED
    BY <1>3, <1>4

LEMMA EndOfPayloadFlow ==
    ASSUME Typed, Typed', Flow, NEW l \in Link, EndOfPayload(l)
    PROVE  Flow'
  BY StillFlow DEF EndOfPayload, process, Flow, Ranges

LEMMA EndOfInstructionsFlow ==
    ASSUME Typed, Typed', Flow, EndOfInstructions
    PROVE  Flow'
  BY StillFlow DEF EndOfInstructions, process, Flow, Ranges

LEMMA EndOfDispatchFlow ==
    ASSUME Typed, Typed', Flow, EndOfDispatch
    PROVE  Flow'
  BY StillFlow DEF EndOfDispatch, process, Flow, Ranges

LEMMA ExitFlow ==
    ASSUME Typed, Typed', Flow, Exit
    PROVE  Flow'
  BY StillFlow DEF Exit, process, Flow, Ranges

\* A session begins with nothing typed.
LEMMA BeginFlow ==
    ASSUME Typed, Typed', Flow, Begin
    PROVE  Flow'
  <1>1. /\ Orders' = Orders /\ Reports' = Reports /\ Commands' = Commands
        /\ Executing' = Executing /\ Ungreeted' = Ungreeted
    BY DEF Begin, connections, Orders, Reports, Commands, Executing, Ungreeted, Asks, Answers
  <1>2. Len(session.lines) = 0
    BY DEF Begin
  <1>3. typed' = typed /\ typed' <= Len(session'.lines)
    BY <1>2, Numbers, NumbersNext DEF Begin, Flow, Ranges
  <1>4. /\ \A p \in Program : connected'[p] <= Len(Connections[p])
        /\ listening' \subseteq {Port[l] : l \in Link}
        /\ listener' \in {"handle_dispatch_connection", "returned"}
        /\ started' \in BOOLEAN
        /\ new' = new /\ busy' = busy /\ left' = left /\ finished' = finished
    BY DEF Begin, connections, Flow, Ranges
  <1> QED
    BY <1>1, <1>3, <1>4, CalmStep, Numbers

\* A line that is typed is one command at most.
LEMMA TypeFlow ==
    ASSUME Typed, Typed', Flow, Type
    PROVE  Flow'
  <1>1. typed' = typed + 1 /\ typed < Len(session.lines) /\ session' = session
    BY DEF Type
  <1>2. /\ new' = new /\ busy' = busy /\ left' = left /\ finished' = finished
        /\ Executing' = Executing /\ Ungreeted' = Ungreeted
    BY DEF Type, Executing, Ungreeted
  <1>3. One(busy)' = One(busy) /\ One(Executing)' = One(Executing) /\ One(Ungreeted)' = One(Ungreeted)
    BY <1>2 DEF One
  <1>4. Orders' = Orders /\ Reports' = Reports /\ Commands' \in {Commands, Commands + 1}
    <2>1. CASE Send(Asks("command"), session.lines[typed + 1].command, wire)
      <3>1. session.lines[typed + 1].command \in Header
        <4>1. session.lines \in Seq(Line) /\ typed \in Nat /\ typed < Len(session.lines)
          BY DEF Type, Typed, Session
        <4>2. session.lines[typed + 1] \in Line
          BY <4>1, ElementOfSeq
        <4> QED
          BY <4>2 DEF Line, Header
      <3>2. wire \in [Channel -> Seq(Header)]
        BY DEF Typed
      <3>3. /\ Len(wire'[Asks("command")]) \in {Commands, Commands + 1}
            /\ \A d \in Channel : d # Asks("command") => Len(wire'[d]) = Len(wire[d])
        BY <2>1, <3>1, <3>2, SendLength, Lanes DEF Commands
      <3> QED
        BY <3>3, Lanes DEF Orders, Reports, Commands
    <2>2. CASE UNCHANGED <<wire, state>>
      BY <2>2 DEF Orders, Reports, Commands, Asks, Answers
    <2> QED
      BY <2>1, <2>2 DEF Type
  <1>5. Ranges'
    <2>1. typed' <= Len(session'.lines)
      BY <1>1, Numbers
    <2> QED
      BY <1>2, <2>1 DEF Type, Flow, Ranges
  <1>6. Token'
    BY <1>3, <1>4 DEF Flow, Token
  <1>7. Count'
    BY <1>1, <1>2, <1>3, <1>4, Numbers DEF Flow, Ranges, Count
  <1> QED
    BY <1>2, <1>5, <1>6, <1>7 DEF Flow

-----------------------------------------------------------------------------

LEMMA InitialFlow ==
    ASSUME Init
    PROVE  Flow
  <1>1. \A l \in Link : wire[Asks(l)] = <<>> /\ wire[Answers(l)] = <<>> /\ handler[l] = "none" /\
                        descriptor[l] = "none"
    BY Ends DEF Init
  <1>2. Orders = 0 /\ Reports = 0 /\ Commands = 0 /\ ~Executing /\ ~Ungreeted
    BY <1>1, Names DEF Orders, Reports, Commands, Executing, Ungreeted
  <1>3. One(Executing) = 0 /\ One(Ungreeted) = 0 /\ One(busy) = 0
    BY <1>2 DEF Init, One
  <1>4. \A p \in Program : connected[p] <= Len(Connections[p])
    BY Lengths DEF Init
  <1>5. Ranges
    <2>1. typed = 0 /\ Len(session.lines) = 0
      BY DEF Init
    <2>2. left \in 0 .. Length
      BY LengthAssumption DEF Init
    <2>3. new \in Nat /\ finished \in Nat
      BY DEF Init
    <2>4. /\ listening \subseteq {Port[l] : l \in Link}
          /\ listener \in {"handle_dispatch_connection", "returned"}
          /\ started \in BOOLEAN /\ busy \in BOOLEAN
      BY DEF Init
    <2>5. typed <= Len(session.lines)
      BY <2>1
    <2> QED
      BY <1>4, <2>2, <2>3, <2>4, <2>5 DEF Ranges
  <1> QED
    BY <1>2, <1>3, <1>5 DEF Init, Flow, Token, Count

LEMMA FlowStep ==
    ASSUME IInv, Flow, [Next]_vars
    PROVE  Flow'
  <1>1. Typed /\ Typed'
    BY Inductive DEF IInv
  <1>2. ASSUME NEW l \in Link, Thread(l)
        PROVE  Flow'
    BY <1>1, <1>2, AcceptFlow, ReceiveGreetingFlow, CreateProcessFlow, StartPlanningFlow,
       HandleCreateProcessFlow, HandleFinishProcessFlow, HandleInstructionFlow,
       ReceiveProcessFlow, ExecuteInstructionFlow DEF Thread
  <1>3. ASSUME NEW l \in Link, EndOfStream(l)
        PROVE  Flow'
    BY <1>1, <1>3, EndOfGreetingFlow, EndOfLoopFlow, EndOfPayloadFlow, EndOfInstructionsFlow,
       EndOfDispatchFlow DEF EndOfStream
  <1>4. ASSUME NEW p \in Program, Start(p) \/ Connect(p)
        PROVE  Flow'
    BY <1>1, <1>4, StartFlow, ConnectFlow
  <1>5. CASE UNCHANGED vars
    BY <1>1, <1>5, StillFlow DEF vars, connections, process, Flow, Ranges
  <1> QED
    BY <1>1, <1>2, <1>3, <1>4, <1>5, ListenFlow, PlanFlow, FinishProcessFlow, BeginFlow,
       TypeFlow, ExitFlow DEF Next

\* Whatever is typed, and whoever dies in between, no more processes end than
\* lines were typed, none is counted twice on its way, and the CPU asks for no
\* instruction past the last: the kernel has one process away at a time.
THEOREM TypeCorrect == Spec => []TypeOK
  <1>1. ASSUME IInv, Flow
        PROVE  TypeOK
    <2>1. Typed /\ Ranges /\ Count
      BY <1>1 DEF IInv, Flow
    <2>2. \A p \in Program : connected[p] \in 0 .. Len(Connections[p])
      BY <2>1, Lengths DEF Typed, Ranges
    <2>3. /\ typed \in 0 .. Len(session.lines)
          /\ new \in 0 .. Len(session.lines)
          /\ finished \in 0 .. Len(session.lines)
      BY <2>1, Numbers DEF Ranges, Count
    <2> QED
      BY <2>1, <2>2, <2>3 DEF Typed, Ranges, TypeOK
  <1>2. Spec => []Flow
    BY Invariant, InitialFlow, FlowStep, PTL DEF Spec
  <1> QED
    BY <1>1, <1>2, Invariant, PTL
=============================================================================
