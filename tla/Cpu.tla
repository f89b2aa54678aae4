---------------------------------- MODULE Cpu ----------------------------------
(***************************************************************************)
(* The CPU module (src/cpu): one thread receives a process from the        *)
(* dispatch socket and runs instruction cycles, another raises             *)
(* has_interrupt for every header of the interrupt socket. The request to  *)
(* memory inside a cycle is synchronous and private to the first thread.   *)
(***************************************************************************)
EXTENDS Shared

CONSTANT NoProcess  \* the first thread has no process

ASSUME NoProcessAssumption == NoProcess \notin PCB

VARIABLES
    cpuPc,          \* where the thread of the dispatch socket is
    process,        \* the process it runs
    ended,          \* end_of_execution
    hasInterrupt,   \* has_interrupt
    mutexInterrupt  \* mutex_interrupt is free

cpuVars == <<cpuPc, process, ended, hasInterrupt, mutexInterrupt>>

CpuTypeOK ==
    /\ cpuPc \in {"receive", "cycle", "check", "clear", "relock"}
    /\ process \in PCB \cup {NoProcess}
    /\ cpuPc \in {"cycle", "check"} => process \in PCB
    /\ ended \in BOOLEAN
    /\ hasInterrupt \in BOOLEAN
    /\ mutexInterrupt \in BOOLEAN

CpuInit ==
    /\ cpuPc = "receive"
    /\ process = NoProcess
    /\ ended = FALSE
    /\ hasInterrupt = FALSE
    /\ mutexInterrupt = TRUE

-----------------------------------------------------------------------------

\* handle_kernel_connection: EXECUTE_PROCESS, WAIT_RESPONSE and SIGNAL_RESPONSE
\* all enter execute_process.
ReceiveProcess ==
    /\ cpuPc = "receive"
    /\ toCpu # <<>>
    /\ process' = Head(toCpu).pcb
    /\ toCpu' = Tail(toCpu)
    /\ cpuPc' = "cycle"
    /\ UNCHANGED <<ended, hasInterrupt, mutexInterrupt, toKernel, quantumIrq>>

\* What the instruction asks of the kernel; execute_instruction_cycle returns 0.
Request(instruction, pcb) ==
    CASE instruction.op = "EXIT"  -> [op |-> "FINISH_PROCESS", pcb |-> pcb]
      [] instruction.op = "SLEEP" -> [op |-> "SLEEP_REQUEST", pcb |-> pcb]
      [] instruction.op = "WAIT"  -> [op |-> "WAIT_REQUEST", pcb |-> pcb,
                                      resource |-> instruction.resource]
      [] instruction.op = "SIGNAL" -> [op |-> "SIGNAL_REQUEST", pcb |-> pcb,
                                       resource |-> instruction.resource]

\* One pass of the loop of execute_process up to sem_wait(mutex_interrupt).
ExecuteInstructionCycle ==
    /\ cpuPc = "cycle"
    /\ LET instruction == Fetch(process)
       IN  /\ ended' = (instruction.op # "CPU")
           /\ toKernel' = IF instruction.op = "CPU" THEN toKernel
                          ELSE Append(toKernel, Request(instruction, process))
    /\ process' = [process EXCEPT !.counter = @ + 1]
    /\ cpuPc' = "check"
    /\ UNCHANGED <<hasInterrupt, mutexInterrupt, toCpu, quantumIrq>>

\* Leaving execute_process: its locals die.
Leave == cpuPc' = "receive" /\ process' = NoProcess /\ ended' = FALSE

\* No interrupt: mutex_interrupt is taken and given back; go on while the last
\* instruction did not end the execution.
NoInterrupt ==
    /\ cpuPc = "check"
    /\ mutexInterrupt
    /\ ~hasInterrupt
    /\ IF ended THEN Leave ELSE cpuPc' = "cycle" /\ UNCHANGED <<process, ended>>
    /\ UNCHANGED <<hasInterrupt, mutexInterrupt, channels>>

\* Mutant: the interrupted process is sent back though it already was.
YieldAlways ==
    /\ cpuPc = "check"
    /\ mutexInterrupt
    /\ hasInterrupt
    /\ toKernel' = Append(toKernel, [op |-> "INTERRUPT", pcb |-> process])
    /\ hasInterrupt' = FALSE
    /\ Leave
    /\ UNCHANGED <<mutexInterrupt, toCpu, quantumIrq>>

\* An interrupt stops a process that could go on: it is sent back.
YieldProcess ==
    /\ cpuPc = "check"
    /\ mutexInterrupt
    /\ hasInterrupt
    /\ ~ended
    /\ toKernel' = Append(toKernel, [op |-> "INTERRUPT", pcb |-> process])
    /\ hasInterrupt' = FALSE
    /\ Leave
    /\ UNCHANGED <<mutexInterrupt, toCpu, quantumIrq>>

\* An interrupt meets an instruction that already ended the execution:
\* sem_post, then the flag is cleared without the mutex, then sem_wait and
\* "continue", which leaves the loop without the sem_post at its end.
RejectInterrupt ==
    /\ cpuPc = "check"
    /\ mutexInterrupt
    /\ hasInterrupt
    /\ ended
    /\ cpuPc' = "clear"
    /\ UNCHANGED <<process, ended, hasInterrupt, mutexInterrupt, channels>>

ClearInterrupt ==
    /\ cpuPc = "clear"
    /\ hasInterrupt' = FALSE
    /\ cpuPc' = "relock"
    /\ UNCHANGED <<process, ended, mutexInterrupt, channels>>

RelockInterrupt ==
    /\ cpuPc = "relock"
    /\ mutexInterrupt
    /\ mutexInterrupt' = FALSE
    /\ Leave
    /\ UNCHANGED <<hasInterrupt, channels>>

\* The thread of the interrupt socket: INTERRUPT_QUANTUM raises the flag.
ReceiveInterrupt ==
    /\ quantumIrq > 0
    /\ mutexInterrupt
    /\ quantumIrq' = quantumIrq - 1
    /\ hasInterrupt' = TRUE
    /\ UNCHANGED <<cpuPc, process, ended, mutexInterrupt, toCpu, toKernel>>
=============================================================================
