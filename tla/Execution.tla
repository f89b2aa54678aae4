------------------------------- MODULE Execution -------------------------------
(***************************************************************************)
(* One process and the copies of its PCB: the kernel keeps one while       *)
(* others travel to the CPU and back. Modelled are the counter and the     *)
(* registers, what the instructions do to them, and which copy goes on     *)
(* after each request. Other processes, and who holds which resource, are  *)
(* an environment that grants a WAIT or not. System has the scheduling.    *)
(*                                                                         *)
(* A register is a cell of a list of pointers (64 bits) in the CPU, and a  *)
(* uint32_t on the wire; an instruction computes in int or uint32_t. Only  *)
(* the first four cells are ever read: the list that JNZ makes longer is   *)
(* modelled by those.                                                      *)
(***************************************************************************)
EXTENDS Integers, Sequences

CONSTANTS
    Programs,   \* the instruction files a process may run
    Half        \* 2^31 of an int of 32 bits; smaller for TLC

ASSUME HalfAssumption == Half \in Nat \ {0}

VARIABLES
    program,    \* the file of this process
    kept,       \* the kernel's PCB of it
    place,      \* the queue or thread of the kernel that has it
    down,       \* dispatch socket, kernel to CPU
    up,         \* dispatch socket, CPU to kernel
    cpuPc,      \* where execute_process is; "receive" outside of it
    process,    \* its PCB
    ended,      \* its end_of_execution
    hasInterrupt,
    mutexInterrupt

cpuVars == <<cpuPc, process, ended, hasInterrupt, mutexInterrupt>>
vars == <<program, kept, place, down, up, cpuVars>>

Modulus == 2 * Half
Register == 1 .. 4      \* AX, BX, CX, DX

\* An int, sign extended, or a uint32_t that came over the wire.
Cell == -Half .. Modulus - 1

Instruction ==
    [op : {"SET", "JNZ"}, to : Register, value : -Half .. Half - 1]
        \cup [op : {"SUM", "SUB"}, to : Register, from : Register]
        \cup [op : {"NO_OP", "SLEEP", "WAIT", "SIGNAL", "EXIT"}]

ASSUME ProgramsAssumption ==
    \A p \in Programs : p \in Seq(Instruction) /\ p # <<>>

PCB == [counter : Nat, register : [Register -> Cell]]
Packed == [counter : Nat, register : [Register -> 0 .. Modulus - 1]]
Message == [op : {"FINISH_PROCESS", "INTERRUPT", "SLEEP", "WAIT", "SIGNAL"}, pcb : Packed]

TypeOK ==
    /\ program \in Programs
    /\ kept \in Packed
    /\ place \in {"ready", "exec", "blocked", "asleep", "gone"}
    /\ down \in Seq(Packed)
    /\ up \in Seq(Message)
    /\ cpuPc \in {"receive", "cycle", "check"}
    /\ process \in PCB
    /\ ended \in BOOLEAN
    /\ hasInterrupt \in BOOLEAN
    /\ mutexInterrupt \in BOOLEAN

\* create_pcb; the moves that admit it are in Kernel.
Init ==
    /\ program \in Programs
    /\ kept = [counter |-> 0, register |-> [r \in Register |-> 0]]
    /\ place = "ready"
    /\ down = <<>>
    /\ up = <<>>
    /\ cpuPc = "receive"
    /\ process = kept
    /\ ended = FALSE
    /\ hasInterrupt = FALSE
    /\ mutexInterrupt = TRUE

-----------------------------------------------------------------------------
(***************************************************************************)
(* Values                                                                  *)
(***************************************************************************)

\* add_UINT32_to_buffer of a cell and take_UINT32_from_buffer.
Uint32(x) == x % Modulus
Sent(pcb) == [pcb EXCEPT !.register = [r \in Register |-> Uint32(pcb.register[r])]]

\* Mutant: a sum is kept as it is.
Wide(x) == x

\* The conversion to int.
Int32(x) == IF Uint32(x) < Half THEN Uint32(x) ELSE Uint32(x) - Modulus

Advance(pcb) == [pcb EXCEPT !.counter = @ + 1]

\* What get_instruction_from_file answers, and translate_instruction names.
Fetch(counter) ==
    program[IF counter < Len(program) THEN counter + 1 ELSE Len(program)]

\* list_add_in_index, as far as the first four cells show it.
InsertCell(cells, r, x) ==
    [j \in Register |-> IF j < r THEN cells[j] ELSE IF j = r THEN x ELSE cells[j - 1]]

Set(instruction, cells) == [cells EXCEPT ![instruction.to] = instruction.value]

Sum(instruction, cells) ==
    [cells EXCEPT ![instruction.to] = Int32(Uint32(@) + Uint32(cells[instruction.from]))]

Sub(instruction, cells) ==
    [cells EXCEPT ![instruction.to] = Int32(@ - cells[instruction.from])]

Jnz(instruction, cells) ==
    IF cells[instruction.to] # 0
    THEN InsertCell(cells, instruction.to, instruction.value)
    ELSE cells

Executed(instruction, cells) ==
    CASE instruction.op = "SET" -> Set(instruction, cells)
      [] instruction.op = "SUM" -> Sum(instruction, cells)
      [] instruction.op = "SUB" -> Sub(instruction, cells)
      [] instruction.op = "JNZ" -> Jnz(instruction, cells)
      [] instruction.op = "NO_OP" -> cells

-----------------------------------------------------------------------------
(***************************************************************************)
(* The CPU                                                                 *)
(***************************************************************************)

ReceiveProcess ==
    /\ cpuPc = "receive"
    /\ down # <<>>
    /\ process' = Head(down)
    /\ down' = Tail(down)
    /\ ended' = FALSE
    /\ cpuPc' = "cycle"
    /\ UNCHANGED <<program, kept, place, up, hasInterrupt, mutexInterrupt>>

Request(op) == IF op = "EXIT" THEN "FINISH_PROCESS" ELSE op

Requests == {"SLEEP", "WAIT", "SIGNAL", "EXIT"}

\* Fetch, execute_instruction_cycle and the increment of the counter.
ExecuteInstruction ==
    /\ cpuPc = "cycle"
    /\ Fetch(process.counter).op \notin Requests
    /\ process' = Advance([process EXCEPT !.register = Executed(Fetch(process.counter), @)])
    /\ cpuPc' = "check"
    /\ UNCHANGED <<program, kept, place, down, up, ended, hasInterrupt, mutexInterrupt>>

\* A request leaves before the increment.
RequestKernel ==
    /\ cpuPc = "cycle"
    /\ Fetch(process.counter).op \in Requests
    /\ up' = Append(up, [op |-> Request(Fetch(process.counter).op), pcb |-> Sent(process)])
    /\ process' = Advance(process)
    /\ ended' = TRUE
    /\ cpuPc' = "check"
    /\ UNCHANGED <<program, kept, place, down, hasInterrupt, mutexInterrupt>>

\* The thread of the interrupt socket: the end of a quantum, this process's or
\* one that ran before it.
ReceiveInterrupt ==
    /\ mutexInterrupt
    /\ hasInterrupt' = TRUE
    /\ UNCHANGED <<program, kept, place, down, up, cpuPc, process, ended, mutexInterrupt>>

NoInterrupt ==
    /\ cpuPc = "check"
    /\ mutexInterrupt
    /\ ~hasInterrupt
    /\ cpuPc' = IF ended THEN "receive" ELSE "cycle"
    /\ UNCHANGED <<program, kept, place, down, up, process, ended, hasInterrupt, mutexInterrupt>>

\* Mutant: end_of_execution is not asked for.
YieldAlways ==
    /\ cpuPc = "check"
    /\ mutexInterrupt
    /\ hasInterrupt
    /\ up' = Append(up, [op |-> "INTERRUPT", pcb |-> Sent(process)])
    /\ hasInterrupt' = FALSE
    /\ cpuPc' = "receive"
    /\ UNCHANGED <<program, kept, place, down, process, ended, mutexInterrupt>>

YieldProcess ==
    /\ cpuPc = "check"
    /\ mutexInterrupt
    /\ hasInterrupt
    /\ ~ended
    /\ up' = Append(up, [op |-> "INTERRUPT", pcb |-> Sent(process)])
    /\ hasInterrupt' = FALSE
    /\ cpuPc' = "receive"
    /\ UNCHANGED <<program, kept, place, down, process, ended, mutexInterrupt>>

\* The flag is cleared outside of the mutex, so an interrupt may come behind it;
\* the mutex stays taken. Cpu has the three steps apart.
RejectInterrupt ==
    /\ cpuPc = "check"
    /\ mutexInterrupt
    /\ hasInterrupt
    /\ ended
    /\ hasInterrupt' \in BOOLEAN
    /\ mutexInterrupt' = FALSE
    /\ cpuPc' = "receive"
    /\ UNCHANGED <<program, kept, place, down, up, process, ended>>

-----------------------------------------------------------------------------
(***************************************************************************)
(* The kernel                                                              *)
(***************************************************************************)

\* dispatch_process_to_cpu; the PCB itself stays in queue_exec.
DispatchProcess ==
    /\ place = "ready"
    /\ place' = "exec"
    /\ down' = Append(down, Sent(kept))
    /\ UNCHANGED <<program, kept, up, cpuVars>>

\* The head of the dispatch socket asks for op.
Asked(op) == up # <<>> /\ Head(up).op = op
Arrived == Head(up).pcb

\* Mutant: the PCB popped from queue_exec goes on, not the one that arrived.
RequeuePopped ==
    /\ Asked("INTERRUPT")
    /\ place' = "ready"
    /\ up' = Tail(up)
    /\ UNCHANGED <<program, kept, down, cpuVars>>

\* queue_exec is popped and what it held dropped: the PCB that arrived goes on.
HandleInterrupt ==
    /\ Asked("INTERRUPT")
    /\ kept' = Arrived
    /\ place' = "ready"
    /\ up' = Tail(up)
    /\ UNCHANGED <<program, down, cpuVars>>

\* handle_sleep_interruption and the sleep thread until its usleep.
HandleSleep ==
    /\ Asked("SLEEP")
    /\ kept' = Arrived
    /\ place' = "asleep"
    /\ up' = Tail(up)
    /\ UNCHANGED <<program, down, cpuVars>>

\* Behind usleep.
Awake ==
    /\ place = "asleep"
    /\ kept' = Advance(kept)
    /\ place' = "ready"
    /\ UNCHANGED <<program, down, up, cpuVars>>

\* A WAIT that finds an instance, or a SIGNAL of a resource the process holds:
\* the PCB that arrived goes back, the one in queue_exec is as it was.
Respond(op) ==
    /\ Asked(op)
    /\ down' = Append(down, Sent(Advance(Arrived)))
    /\ up' = Tail(up)
    /\ UNCHANGED <<program, kept, place, cpuVars>>

HandleWaitGranted == Respond("WAIT")
HandleSignal == Respond("SIGNAL")

\* No instance: the PCB that arrived is dropped, the one in queue_exec waits.
HandleWaitBlocked ==
    /\ Asked("WAIT")
    /\ place' = "blocked"
    /\ up' = Tail(up)
    /\ UNCHANGED <<program, kept, down, cpuVars>>

MoveProcessFromBlockToReady ==
    /\ place = "blocked"
    /\ place' = "ready"
    /\ UNCHANGED <<program, kept, down, up, cpuVars>>

\* FINISH_PROCESS, a resource that is not valid, a SIGNAL of one that is not held.
FinishProcess ==
    /\ Asked("FINISH_PROCESS") \/ Asked("WAIT") \/ Asked("SIGNAL")
    /\ place' = "gone"
    /\ up' = Tail(up)
    /\ UNCHANGED <<program, kept, down, cpuVars>>

-----------------------------------------------------------------------------

Cpu ==
    \/ ReceiveProcess \/ ExecuteInstruction \/ RequestKernel \/ ReceiveInterrupt
    \/ NoInterrupt \/ YieldProcess \/ RejectInterrupt

Kernel ==
    \/ DispatchProcess \/ HandleInterrupt \/ HandleSleep \/ Awake
    \/ HandleWaitGranted \/ HandleSignal \/ HandleWaitBlocked
    \/ MoveProcessFromBlockToReady \/ FinishProcess

Next == Cpu \/ Kernel

Spec == Init /\ [][Next]_vars

-----------------------------------------------------------------------------
(***************************************************************************)
(* Properties                                                              *)
(***************************************************************************)

Running == cpuPc # "receive" /\ ~ended

\* While queue_exec holds the process exactly one other copy of it is on its
\* way or runs, and otherwise none (cpu/src/handle_connection.c:101-128).
OneTraveller ==
    Len(down) + Len(up) + (IF Running THEN 1 ELSE 0) = (IF place = "exec" THEN 1 ELSE 0)

\* The copy that counts: the one that travels, or the kernel's.
Latest ==
    IF down # <<>> THEN Head(down)
    ELSE IF up # <<>> THEN Head(up).pcb
    ELSE IF Running THEN process ELSE kept

\* Whatever interrupts it, the process computes what it would without ever
\* being moved, in 32 bits, and only a WAIT that blocks takes it back, to where
\* it was last dispatched (kernel/src/queues.c:294-312, handle_connection.c:130-150).
M == INSTANCE Machine WITH
        now <- Sent(Latest), saved <- Sent(kept), ended <- (place = "gone")
RefinesMachine == M!Spec
=============================================================================
