-------------------------------- MODULE Network --------------------------------
(***************************************************************************)
(* The five programs from start-up to the end of their connections: who    *)
(* connects to whom, the greeting that picks the handler of a connection,  *)
(* a connection that is refused, the traffic of a process that is created, *)
(* planned and ends, and what a thread reads once its peer has gone.       *)
(*                                                                         *)
(* Messages are whole (Framing) and reduced to their header; a PCB's way   *)
(* through the kernel is in System. Algorithm FIFO: the interrupt          *)
(* connection is greeted and carries nothing.                              *)
(***************************************************************************)
EXTENDS Integers, Sequences, FiniteSets

CONSTANTS
    Sessions,   \* what a user may do: lines typed, or in a script file
    Length      \* the instructions of a process

ASSUME LengthAssumption == Length \in Nat \ {0}

\* t_command, as far as it makes a process run. A line may have an argument.
Line == [command : {"CREATE_PROCESS", "START_PLANNING"}, argument : BOOLEAN]
Session == [lines : Seq(Line), file : BOOLEAN]

ASSUME SessionsAssumption == Sessions \subseteq Session

Program == {"filesystem", "memory", "cpu", "kernel", "console"}
Link == {"swap", "fetch", "create", "dispatch", "interrupt", "command"}

Client == [swap |-> "memory", fetch |-> "cpu", create |-> "kernel", dispatch |-> "kernel",
           interrupt |-> "kernel", command |-> "console"]

Server == [swap |-> "filesystem", fetch |-> "memory", create |-> "memory", dispatch |-> "cpu",
           interrupt |-> "cpu", command |-> "kernel"]

\* The memory has one port for both of its clients.
Port == [swap |-> "swap", fetch |-> "memory", create |-> "memory", dispatch |-> "dispatch",
         interrupt |-> "interrupt", command |-> "command"]

\* A link is two channels: what the client asks and what the server answers.
Channel == Link \X {"ask", "answer"}
Asks(l) == <<l, "ask">>
Answers(l) == <<l, "answer">>

From(c) == IF c[2] = "ask" THEN Client[c[1]] ELSE Server[c[1]]
To(c) == IF c[2] = "ask" THEN Server[c[1]] ELSE Client[c[1]]

\* t_operation_code, as far as it travels here.
Header == {"KERNEL", "CPU", "CREATE_PROCESS", "START_PLANNING", "EXECUTE_PROCESS",
           "INSTRUCTIONS", "INSTRUCTION", "FINISH_PROCESS"}

VARIABLES
    state,      \* of a program: "off", "up" or "dead"
    connected,  \* connections each main has tried
    listening,  \* ports
    descriptor, \* of a link, at its client
    wire,       \* headers on each channel
    handler,    \* the function the server's thread of a link is in
    listener,   \* the kernel's dispatch thread
    session,    \* what the user does: the lines and whether a file has them
    typed,      \* lines the console is through with
    new,        \* processes the kernel has created and not dispatched
    started,    \* planning has been started
    busy,       \* the kernel waits for a process it dispatched
    left,       \* instructions the CPU has still to execute
    finished    \* processes that have ended

connections == <<state, connected, listening, descriptor>>
process == <<session, typed, new, started, busy, left, finished>>
vars == <<connections, wire, handler, listener, process>>

Up(p) == state[p] = "up"
Dead(p) == state[p] = "dead"

-----------------------------------------------------------------------------
(***************************************************************************)
(* Start-up                                                                *)
(***************************************************************************)

\* What each main connects to, in order.
Connections ==
    [filesystem |-> <<>>, memory |-> <<"swap">>, cpu |-> <<"fetch">>,
     kernel |-> <<"create", "dispatch", "interrupt">>, console |-> <<"command">>]

\* Mutant: the CPU greets the memory as the kernel does.
GreetingAsKernel(l) ==
    IF l \in {"create", "dispatch", "interrupt", "fetch"} THEN <<"KERNEL">> ELSE <<>>

\* The header a client sends first. The memory and the console send none.
Greeting(l) ==
    IF l \in {"create", "dispatch", "interrupt"} THEN <<"KERNEL">>
    ELSE IF l = "fetch" THEN <<"CPU">> ELSE <<>>

Init ==
    /\ state = [p \in Program |-> "off"]
    /\ connected = [p \in Program |-> 0]
    /\ listening = {}
    /\ descriptor = [l \in Link |-> "none"]
    /\ wire = [c \in Channel |-> <<>>]
    /\ handler = [l \in Link |-> "none"]
    /\ listener = "handle_dispatch_connection"
    /\ session = [lines |-> <<>>, file |-> FALSE]
    /\ typed = 0
    /\ new = 0
    /\ started = FALSE
    /\ busy = FALSE
    /\ left = 0
    /\ finished = 0

\* Someone runs the program, in whatever order.
Start(p) ==
    /\ state[p] = "off"
    /\ state' = [state EXCEPT ![p] = "up"]
    /\ UNCHANGED <<connected, listening, descriptor, wire, handler, listener, process>>

\* create_connection of a client and the greeting. Nobody looks at the result:
\* EXIT_FAILURE is taken for a descriptor, but for the console, which leaves.
Connect(p) ==
    /\ Up(p)
    /\ connected[p] < Len(Connections[p])
    /\ connected' = [connected EXCEPT ![p] = @ + 1]
    /\ LET l == Connections[p][connected[p] + 1]
       IN  \/ /\ Port[l] \in listening
              /\ Up(Server[l])
              /\ descriptor' = [descriptor EXCEPT ![l] = "open"]
              /\ wire' = [wire EXCEPT ![Asks(l)] = Greeting(l)]
              /\ UNCHANGED state
           \/ /\ Port[l] \notin listening \/ ~Up(Server[l])
              /\ descriptor' = [descriptor EXCEPT ![l] = "refused"]
              /\ state' = [state EXCEPT ![p] = IF p = "console" THEN "dead" ELSE @]
              /\ UNCHANGED wire
    /\ UNCHANGED <<listening, handler, listener, process>>

\* A main is through with its connections: its threads run.
Running(p) == Up(p) /\ connected[p] = Len(Connections[p])

\* create_connection of a server.
Listen(l) ==
    /\ Running(Server[l])
    /\ Port[l] \notin listening
    /\ listening' = listening \cup {Port[l]}
    /\ UNCHANGED <<state, connected, descriptor, wire, handler, listener, process>>

\* server_listen accepts and starts a thread; the kernel's expects no greeting.
Accept(l) ==
    /\ Up(Server[l])
    /\ descriptor[l] = "open"
    /\ handler[l] = "none"
    /\ handler' = [handler EXCEPT ![l] =
           IF l = "command" THEN "handler_connection" ELSE "greeting"]
    /\ UNCHANGED <<connections, wire, listener, process>>

-----------------------------------------------------------------------------
(***************************************************************************)
(* Sending and receiving                                                   *)
(***************************************************************************)

\* There is a message for the thread of l that is in the function f.
Receives(l, f, header) ==
    /\ Up(Server[l])
    /\ handler[l] = f
    /\ wire[Asks(l)] # <<>>
    /\ Head(wire[Asks(l)]) = header

\* Taken off the wire.
Taken(c) == [wire EXCEPT ![c] = Tail(@)]

\* A send on channel c, where w is the wire without the message that led to it.
\* On a refused connection it fails and nobody looks; when the peer has gone the
\* bytes are lost, or the program gets SIGPIPE.
Send(c, header, w) ==
    \/ /\ descriptor[c[1]] = "open"
       /\ ~Dead(To(c))
       /\ wire' = [w EXCEPT ![c] = Append(@, header)]
       /\ UNCHANGED state
    \/ /\ descriptor[c[1]] = "refused" \/ Dead(To(c))
       /\ wire' = w
       /\ UNCHANGED state
    \/ /\ descriptor[c[1]] = "open"
       /\ Dead(To(c))
       /\ wire' = w
       /\ state' = [state EXCEPT ![From(c)] = "dead"]

\* Mutant: recv_all sees the -1 of a descriptor that is none as an end.
AtEndOrRefused(c) ==
    /\ wire[c] = <<>>
    /\ Dead(From(c)) \/ descriptor[c[1]] = "refused"

\* recv returns 0, recv_all with it, and receive_header returns a byte it has
\* not set. On a refused connection recv returns -1, which recv_all takes for a
\* size: it calls recv for ever.
AtEnd(c) ==
    /\ descriptor[c[1]] = "open"
    /\ wire[c] = <<>>
    /\ Dead(From(c))

-----------------------------------------------------------------------------
(***************************************************************************)
(* The handlers of the servers                                             *)
(***************************************************************************)

\* The switch of each handler_connection. The default case returns.
Handlers ==
    [filesystem |-> [MEMORY |-> "handle_memory_connection", KERNEL |-> "handle_kernel_connection"],
     memory |-> [KERNEL |-> "handle_kernel_connection", CPU |-> "handle_cpu_connection",
                 FILESYSTEM |-> "handle_filesystem_connection"],
     cpu |-> [KERNEL |-> "handle_kernel_connection"]]

Greeted(l, header) ==
    LET known == Handlers[Server[l]]
    IN  IF header \in DOMAIN known THEN known[header] ELSE "returned"

ReceiveGreeting(l) ==
    /\ Up(Server[l])
    /\ handler[l] = "greeting"
    /\ wire[Asks(l)] # <<>>
    /\ handler' = [handler EXCEPT ![l] = Greeted(l, Head(wire[Asks(l)]))]
    /\ wire' = Taken(Asks(l))
    /\ UNCHANGED <<connections, listener, process>>

\* receive_pcb_and_create and move_process_to_new.
CreateProcess ==
    /\ Receives("command", "handler_connection", "CREATE_PROCESS")
    /\ new' = new + 1
    /\ Send(Asks("create"), "CREATE_PROCESS", Taken(Asks("command")))
    /\ UNCHANGED <<connected, listening, descriptor, handler, listener, session, typed, started, busy, left, finished>>

\* It waits for mutex_stopping_planner: a second one stays there.
StartPlanning ==
    /\ Receives("command", "handler_connection", "START_PLANNING")
    /\ ~started
    /\ started' = TRUE
    /\ wire' = Taken(Asks("command"))
    /\ UNCHANGED <<connections, handler, listener, session, typed, new, busy, left, finished>>

\* Mutant: sem_process_new and sem_process_ready are not waited for.
PlanUnwaited ==
    /\ Running("kernel")
    /\ started
    /\ ~busy
    /\ new' = new - 1
    /\ busy' = TRUE
    /\ Send(Asks("dispatch"), "EXECUTE_PROCESS", wire)
    /\ UNCHANGED <<connected, listening, descriptor, handler, listener, session, typed, started, left, finished>>

\* The planners, through to dispatch_process_to_cpu.
Plan ==
    /\ Running("kernel")
    /\ started
    /\ new > 0
    /\ ~busy
    /\ new' = new - 1
    /\ busy' = TRUE
    /\ Send(Asks("dispatch"), "EXECUTE_PROCESS", wire)
    /\ UNCHANGED <<connected, listening, descriptor, handler, listener, session, typed, started, left, finished>>

\* The memory's handle_create_process tells the filesystem.
HandleCreateProcess ==
    /\ Receives("create", "handle_kernel_connection", "CREATE_PROCESS")
    /\ Send(Asks("swap"), "CREATE_PROCESS", Taken(Asks("create")))
    /\ UNCHANGED <<connected, listening, descriptor, handler, listener, process>>

\* handle_finish_process reads from the address of a function, for ever.
HandleFinishProcess ==
    /\ Receives("create", "handle_kernel_connection", "FINISH_PROCESS")
    /\ handler' = [handler EXCEPT !["create"] = "handle_finish_process"]
    /\ wire' = Taken(Asks("create"))
    /\ UNCHANGED <<connections, listener, process>>

HandleInstruction ==
    /\ Receives("fetch", "handle_cpu_connection", "INSTRUCTIONS")
    /\ Send(Answers("fetch"), "INSTRUCTION", Taken(Asks("fetch")))
    /\ UNCHANGED <<connected, listening, descriptor, handler, listener, process>>

\* The CPU begins a process and asks for its first instruction.
ReceiveProcess ==
    /\ Receives("dispatch", "handle_kernel_connection", "EXECUTE_PROCESS")
    /\ handler' = [handler EXCEPT !["dispatch"] = "execute_process"]
    /\ left' = Length
    /\ Send(Asks("fetch"), "INSTRUCTIONS", Taken(Asks("dispatch")))
    /\ UNCHANGED <<connected, listening, descriptor, listener, session, typed, new, started, busy, finished>>

\* An instruction has come and is executed; the last one is EXIT.
ExecuteInstruction ==
    /\ Up("cpu")
    /\ handler["dispatch"] = "execute_process"
    /\ wire[Answers("fetch")] # <<>>
    /\ left' = left - 1
    /\ \/ /\ left > 1
          /\ Send(Asks("fetch"), "INSTRUCTIONS", Taken(Answers("fetch")))
          /\ UNCHANGED handler
       \/ /\ left = 1
          /\ Send(Answers("dispatch"), "FINISH_PROCESS", Taken(Answers("fetch")))
          /\ handler' = [handler EXCEPT !["dispatch"] = "handle_kernel_connection"]
    /\ UNCHANGED <<connected, listening, descriptor, listener, session, typed, new, started, busy, finished>>

\* Mutant: sem_cpu_available is not posted.
FinishKeepsCpu ==
    /\ Running("kernel")
    /\ listener = "handle_dispatch_connection"
    /\ wire[Answers("dispatch")] # <<>>
    /\ finished' = finished + 1
    /\ Send(Asks("create"), "FINISH_PROCESS", Taken(Answers("dispatch")))
    /\ UNCHANGED <<connected, listening, descriptor, handler, listener, session, typed, new, started, busy, left>>

\* The kernel's dispatch thread and finish_process.
FinishProcess ==
    /\ Running("kernel")
    /\ listener = "handle_dispatch_connection"
    /\ wire[Answers("dispatch")] # <<>>
    /\ busy' = FALSE
    /\ finished' = finished + 1
    /\ Send(Asks("create"), "FINISH_PROCESS", Taken(Answers("dispatch")))
    /\ UNCHANGED <<connected, listening, descriptor, handler, listener, session, typed, new, started, left>>

-----------------------------------------------------------------------------
(***************************************************************************)
(* The end of a stream                                                     *)
(***************************************************************************)

Dies(p) == state' = [state EXCEPT ![p] = "dead"]

\* The byte may be any header; Handlers has the cases.
EndOfGreeting(l) ==
    /\ Up(Server[l])
    /\ handler[l] = "greeting"
    /\ AtEnd(Asks(l))
    /\ \E header \in DOMAIN Handlers[Server[l]] \cup {"DEFAULT_OPERATION"} :
          handler' = [handler EXCEPT ![l] = Greeted(l, header)]
    /\ UNCHANGED <<connections, wire, listener, process>>

\* Where a handler goes: the default case returns in some, and FINISH_PROCESS
\* does in the memory what it always does.
Leaves(l) ==
    IF Server[l] = "cpu" \/ handler[l] = "handle_filesystem_connection" THEN "returned"
    ELSE IF Server[l] = "memory" /\ handler[l] = "handle_kernel_connection"
         THEN "handle_finish_process" ELSE handler[l]

Loops == {"handler_connection", "handle_kernel_connection", "handle_cpu_connection",
          "handle_memory_connection", "handle_filesystem_connection"}

\* The byte is a header without a payload, or none of the cases. The kernel may
\* take it for START_PLANNING or STOP_PLANNING.
EndOfLoop(l) ==
    /\ Up(Server[l])
    /\ handler[l] \in Loops
    /\ AtEnd(Asks(l))
    /\ handler' = [handler EXCEPT ![l] = Leaves(l)]
    /\ IF l = "command" THEN started' \in BOOLEAN ELSE UNCHANGED started
    /\ UNCHANGED <<connections, wire, listener, session, typed, new, busy, left, finished>>

\* The byte is a header with a payload: receive_payload gives NULL and the take
\* functions dereference it. Only the filesystem's handler for a kernel has no
\* such case.
EndOfPayload(l) ==
    /\ Up(Server[l])
    /\ handler[l] \in Loops
    /\ ~(Server[l] = "filesystem" /\ handler[l] = "handle_kernel_connection")
    /\ AtEnd(Asks(l))
    /\ Dies(Server[l])
    /\ UNCHANGED <<connected, listening, descriptor, wire, handler, listener, process>>

\* The CPU waits for an instruction and gets no payload.
EndOfInstructions ==
    /\ Up("cpu")
    /\ handler["dispatch"] = "execute_process"
    /\ AtEnd(Answers("fetch"))
    /\ Dies("cpu")
    /\ UNCHANGED <<connected, listening, descriptor, wire, handler, listener, process>>

EndOfDispatch ==
    /\ Running("kernel")
    /\ listener = "handle_dispatch_connection"
    /\ AtEnd(Answers("dispatch"))
    /\ \/ Dies("kernel") /\ UNCHANGED listener
       \/ listener' = "returned" /\ UNCHANGED state
    /\ UNCHANGED <<connected, listening, descriptor, wire, handler, process>>

-----------------------------------------------------------------------------
(***************************************************************************)
(* The console                                                             *)
(***************************************************************************)

\* The user types at the menu, or takes choice 5 and the name of a script.
Begin ==
    /\ Running("console")
    /\ session.lines = <<>>
    /\ session' \in Sessions
    /\ UNCHANGED <<connections, wire, handler, listener, typed, new, started, busy, left, finished>>

\* read_file splits a line at its spaces and fgets leaves the newline, which is
\* then a part of the command unless an argument follows it; only the last line
\* of a script has none. enter_command and the menu give the command itself.
Recognised(i) ==
    \/ ~session.file
    \/ session.lines[i].argument
    \/ i = Len(session.lines)

\* start_console: translate_command and the message.
Type ==
    /\ Running("console")
    /\ typed < Len(session.lines)
    /\ typed' = typed + 1
    /\ \/ /\ Recognised(typed + 1)
          /\ Send(Asks("command"), session.lines[typed + 1].command, wire)
       \/ /\ ~Recognised(typed + 1)
          /\ UNCHANGED <<wire, state>>
    /\ UNCHANGED <<connected, listening, descriptor, handler, listener, session, new, started, busy, left, finished>>

\* Choice 7, close_program.
Exit ==
    /\ Running("console")
    /\ Dies("console")
    /\ UNCHANGED <<connected, listening, descriptor, wire, handler, listener, process>>

-----------------------------------------------------------------------------

\* The server's thread of a link, while its client is there.
Thread(l) ==
    \/ Accept(l) \/ ReceiveGreeting(l)
    \/ l = "command" /\ (CreateProcess \/ StartPlanning)
    \/ l = "create" /\ (HandleCreateProcess \/ HandleFinishProcess)
    \/ l = "fetch" /\ HandleInstruction
    \/ l = "dispatch" /\ (ReceiveProcess \/ ExecuteInstruction)

EndOfStream(l) ==
    \/ EndOfGreeting(l) \/ EndOfLoop(l) \/ EndOfPayload(l)
    \/ l = "dispatch" /\ (EndOfInstructions \/ EndOfDispatch)

Next ==
    \/ \E p \in Program : Start(p) \/ Connect(p)
    \/ \E l \in Link : Listen(l) \/ Thread(l) \/ EndOfStream(l)
    \/ Plan \/ FinishProcess \/ Begin \/ Type \/ Exit

\* Each thread is run; nothing obliges anyone to start a program or to type, and
\* the byte at the end of a stream may be any at every turn.
Fairness ==
    /\ \A p \in Program : WF_vars(Connect(p))
    /\ \A l \in Link : WF_vars(Listen(l)) /\ WF_vars(Thread(l))
    /\ WF_vars(Plan)
    /\ WF_vars(FinishProcess)

Spec == Init /\ [][Next]_vars /\ Fairness

-----------------------------------------------------------------------------
(***************************************************************************)
(* Properties                                                              *)
(***************************************************************************)

TypeOK ==
    /\ state \in [Program -> {"off", "up", "dead"}]
    /\ \A p \in Program : connected[p] \in 0 .. Len(Connections[p])
    /\ listening \subseteq {Port[l] : l \in Link}
    /\ descriptor \in [Link -> {"none", "open", "refused"}]
    /\ handler \in [Link -> Loops \cup
            {"none", "greeting", "returned", "execute_process", "handle_finish_process"}]
    /\ wire \in [Channel -> Seq(Header)]
    /\ listener \in {"handle_dispatch_connection", "returned"}
    /\ session \in Session
    /\ typed \in 0 .. Len(session.lines)
    /\ new \in 0 .. Len(session.lines)
    /\ started \in BOOLEAN
    /\ busy \in BOOLEAN
    /\ left \in 0 .. Length
    /\ finished \in 0 .. Len(session.lines)

\* What a server's thread may be in for a client that is there.
Serving ==
    [swap |-> {"returned"}, fetch |-> {"handle_cpu_connection"},
     create |-> {"handle_kernel_connection", "handle_finish_process"},
     dispatch |-> {"handle_kernel_connection", "execute_process"},
     interrupt |-> {"handle_kernel_connection"}, command |-> {"handler_connection"}]

\* However the programs start and connect, a thread past its greeting runs the
\* function written for its client and no other, and does not return; only the
\* memory's messages to the filesystem, which it does not greet, are given up
\* (memory/src/handle_connection.c:13-33, memory.c:28, cpu/src/handle_connection.c:13-25).
RightHandler ==
    \A l \in Link : ~Dead(Client[l]) => handler[l] \in Serving[l] \cup {"none", "greeting"}

\* A program dies because one it is connected to has gone, or is the console
\* and leaves: never of a connection that was refused
\* (shared/src/sockets.c:60, 86-97, 124-138).
DiesOfAPeer ==
    \A p \in Program \ {"console"} :
        Dead(p) => \E l \in Link : /\ descriptor[l] = "open"
                                   /\ \/ Client[l] = p /\ Dead(Server[l])
                                      \/ Server[l] = p /\ Dead(Client[l])

Gone == \E p \in Program : Dead(p)

Sent(command) ==
    {i \in 1 .. typed : Recognised(i) /\ session.lines[i].command = command}

\* Once a console has asked for planning every process it created ends, though
\* the kernel reaches no memory, the memory no filesystem, and the memory's thread
\* is lost with the first process that ends; what it takes are the dispatch and
\* the fetch connection and that nobody leaves
\* (kernel/src/kernel.c:67-76, queues.c:198-208, memory.c:28, console.c:34-38).
Served ==
    (Sent("START_PLANNING") # {}) ~>
        \/ finished = Cardinality(Sent("CREATE_PROCESS"))
        \/ Gone
        \/ "refused" \in {descriptor["dispatch"], descriptor["fetch"]}

\* A console that leaves is logged ("Client was disconnected from %s") and the
\* kernel goes on (kernel/src/handle_connection.c:52-54, console/src/console.c:153-155).
KernelSurvives == ~Dead("kernel")
=============================================================================
