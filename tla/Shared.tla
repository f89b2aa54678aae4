-------------------------------- MODULE Shared --------------------------------
(***************************************************************************)
(* What the kernel and the CPU share (src/shared): the process control     *)
(* block, the programs it points at, and the two sockets between them.     *)
(*                                                                         *)
(* Resources are numbered by their position in RESOURCES; a number outside *)
(* 1..Len(Instances) stands for a name that is not configured.             *)
(***************************************************************************)
EXTENDS Integers, Sequences, FiniteSets

CONSTANTS
    Program,    \* the pseudocode file of every path
    Instances   \* RESOURCES_INSTANCES of kernel.config

Path == DOMAIN Program
Resource == 1 .. Len(Instances)

Instruction ==
    [op : {"CPU", "SLEEP", "EXIT"}] \cup [op : {"WAIT", "SIGNAL"}, resource : Nat]

ASSUME ProgramAssumption ==
    \A path \in Path : Program[path] \in Seq(Instruction) /\ Program[path] # <<>>

ASSUME InstancesAssumption == Instances \in Seq(Nat)

-----------------------------------------------------------------------------

ProcessState == {"NEW", "READY", "EXECUTION", "BLOCKED", "EXIT"}

\* t_pcb: the fields the scheduler reads; registers, size and socket are left out.
PCB == [pid : Nat, path : Path, counter : Nat,
        resources : Seq(Resource), state : ProcessState]

MessageToCpu ==
    [op : {"EXECUTE_PROCESS", "WAIT_RESPONSE", "SIGNAL_RESPONSE"}, pcb : PCB]

MessageToKernel ==
    [op : {"FINISH_PROCESS", "INTERRUPT", "SLEEP_REQUEST"}, pcb : PCB]
        \cup [op : {"WAIT_REQUEST", "SIGNAL_REQUEST"}, pcb : PCB, resource : Nat]

VARIABLES
    toCpu,      \* dispatch socket, kernel to CPU
    toKernel,   \* dispatch socket, CPU to kernel
    quantumIrq  \* interrupt socket: INTERRUPT_QUANTUM headers not yet read

channels == <<toCpu, toKernel, quantumIrq>>

ChannelsInit == toCpu = <<>> /\ toKernel = <<>> /\ quantumIrq = 0

ChannelsTypeOK ==
    /\ toCpu \in Seq(MessageToCpu)
    /\ toKernel \in Seq(MessageToKernel)
    /\ quantumIrq \in Nat

\* The instruction the memory module answers with: past the end of the file
\* get_instruction_from_file keeps returning the last line it read.
Fetch(pcb) ==
    LET lines == Program[pcb.path]
    IN  lines[IF pcb.counter < Len(lines) THEN pcb.counter + 1 ELSE Len(lines)]
=============================================================================
