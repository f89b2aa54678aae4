---------------------------- MODULE ExecutionProofs ----------------------------
(***************************************************************************)
(* Theorems about Execution: its types, one copy of the process under way, *)
(* and that it implements Machine, for integers of any width and programs  *)
(* of any length.                                                          *)
(***************************************************************************)
EXTENDS Execution, SequenceTheorems, TLAPS

-----------------------------------------------------------------------------
(***************************************************************************)
(* Arithmetic modulo a constant                                            *)
(***************************************************************************)

LEMMA ModulusNatural == Modulus \in Nat /\ Modulus > 1 /\ Modulus = Half + Half /\ Half \in Nat /\ Half > 0
  BY HalfAssumption, SMT DEF Modulus

\* Quotient and remainder.
LEMMA Division ==
    ASSUME NEW x \in Int
    PROVE  /\ x = (x \div Modulus) * Modulus + (x % Modulus)
           /\ x \div Modulus \in Int
           /\ x % Modulus \in 0 .. Modulus - 1
  BY ModulusNatural, SMT

LEMMA Multiple ==
    ASSUME NEW k \in Int, k > 0
    PROVE  k * Modulus >= Modulus
  <1>1. PICK j \in Nat : k = j + 1
    BY SMT
  <1>2. k * Modulus = j * Modulus + Modulus
    BY <1>1, ModulusNatural, SMT
  <1>3. j * Modulus >= 0
    BY ModulusNatural, SMT
  <1> QED
    BY <1>2, <1>3, ModulusNatural, SMT

\* The remainder is unique.
LEMMA Remainder ==
    ASSUME NEW q \in Int, NEW p \in Int,
           NEW r \in 0 .. Modulus - 1, NEW s \in 0 .. Modulus - 1,
           q * Modulus + r = p * Modulus + s
    PROVE  r = s
  <1>0. q * Modulus \in Int /\ p * Modulus \in Int
    BY ModulusNatural, SMT
  <1>1. CASE q = p
    BY <1>0, <1>1, ModulusNatural, SMT
  <1>2. CASE q > p
    <2>1. (q - p) * Modulus >= Modulus
      BY <1>2, Multiple
    <2>2. (q - p) * Modulus = q * Modulus - p * Modulus
      BY ModulusNatural, SMT
    <2> QED
      BY <1>0, <2>1, <2>2, ModulusNatural, SMT
  <1>3. CASE q < p
    <2>1. (p - q) * Modulus >= Modulus
      BY <1>3, Multiple
    <2>2. (p - q) * Modulus = p * Modulus - q * Modulus
      BY ModulusNatural, SMT
    <2> QED
      BY <1>0, <2>1, <2>2, ModulusNatural, SMT
  <1> QED
    BY <1>1, <1>2, <1>3, SMT

\* What differs by a multiple has one remainder.
LEMMA Congruent ==
    ASSUME NEW x \in Int, NEW y \in Int, NEW k \in Int, y = x + k * Modulus
    PROVE  y % Modulus = x % Modulus
  <1>1. x = (x \div Modulus) * Modulus + (x % Modulus) /\ x \div Modulus \in Int
    BY Division
  <1>2. y = (y \div Modulus) * Modulus + (y % Modulus) /\ y \div Modulus \in Int
    BY Division
  <1>3. \A q \in Int : (q + k) * Modulus = q * Modulus + k * Modulus
    BY ModulusNatural, SMT
  <1>4a. \A q \in Int : q * Modulus \in Int
    BY ModulusNatural, SMT
  <1>4. /\ k * Modulus \in Int
        /\ (x \div Modulus) * Modulus \in Int
        /\ x % Modulus \in 0 .. Modulus - 1
        /\ y % Modulus \in 0 .. Modulus - 1
    BY <1>1, <1>4a, Division
  <1>5. y = ((x \div Modulus) + k) * Modulus + (x % Modulus)
    BY <1>1, <1>3, <1>4, ModulusNatural, SMT
  <1>6. (x \div Modulus) + k \in Int
    BY <1>1, SMT
  <1> QED
    BY <1>2, <1>4, <1>5, <1>6, Remainder

-----------------------------------------------------------------------------
(***************************************************************************)
(* The conversions of the code                                             *)
(***************************************************************************)

LEMMA Uint32Range ==
    ASSUME NEW x \in Int
    PROVE  Uint32(x) \in 0 .. Modulus - 1
  BY Division DEF Uint32

\* A value of the range is its own remainder.
LEMMA Uint32Fixed ==
    ASSUME NEW x \in 0 .. Modulus - 1
    PROVE  Uint32(x) = x
  BY ModulusNatural, SMT DEF Uint32

LEMMA Uint32Shift ==
    ASSUME NEW x \in Int
    PROVE  Uint32(x - Modulus) = Uint32(x)
  <1>1. x - Modulus = x + (-1) * Modulus /\ x - Modulus \in Int
    BY ModulusNatural, SMT
  <1> QED
    BY <1>1, Congruent DEF Uint32

\* The conversion to int keeps the remainder and gives an int.
LEMMA Int32Lemma ==
    ASSUME NEW x \in Int
    PROVE  Int32(x) \in -Half .. Half - 1 /\ Uint32(Int32(x)) = Uint32(x)
  <1>1. Uint32(x) \in 0 .. Modulus - 1 /\ Uint32(x) \in Int
    BY Uint32Range, ModulusNatural, SMT
  <1>2. Uint32(Uint32(x)) = Uint32(x)
    BY <1>1, Uint32Fixed
  <1>3. Uint32(Uint32(x) - Modulus) = Uint32(x)
    BY <1>1, <1>2, Uint32Shift
  <1>4. Int32(x) \in -Half .. Half - 1
    BY <1>1, ModulusNatural, SMT DEF Int32
  <1> QED
    BY <1>2, <1>3, <1>4 DEF Int32

\* A difference may be taken before the remainder or behind it.
LEMMA Difference ==
    ASSUME NEW x \in Int, NEW y \in Int
    PROVE  Uint32(x - y) = (Uint32(x) - Uint32(y)) % Modulus
  <1> DEFINE p == x \div Modulus
             q == y \div Modulus
             r == x % Modulus
             s == y % Modulus
  <1>1. x = p * Modulus + r /\ p \in Int /\ r \in Int
    BY Division, ModulusNatural, SMT
  <1>2. y = q * Modulus + s /\ q \in Int /\ s \in Int
    BY Division, ModulusNatural, SMT
  <1> HIDE DEF p, q, r, s
  <1>3. (p - q) * Modulus = p * Modulus - q * Modulus /\ p - q \in Int
    BY <1>1, <1>2, ModulusNatural, SMT
  <1>4. p * Modulus \in Int /\ q * Modulus \in Int
    BY <1>1, <1>2, ModulusNatural, SMT
  <1>5. x - y = (r - s) + (p - q) * Modulus
    BY <1>1, <1>2, <1>3, <1>4, SMT
  <1>6. (x - y) % Modulus = (r - s) % Modulus
    BY <1>1, <1>2, <1>3, <1>5, Congruent, SMT
  <1> QED
    BY <1>6 DEF r, s, Uint32

\* The test of JNZ sees 64 bits, and zero is zero in 32 as well.
LEMMA ZeroCell ==
    ASSUME NEW x \in Cell
    PROVE  x \in Int /\ (x = 0 <=> Uint32(x) = 0)
  <1>0. x \in Int
    BY ModulusNatural, SMT DEF Cell
  <1>1. CASE x >= 0
    <2>1. x \in 0 .. Modulus - 1
      BY <1>1, ModulusNatural, SMT DEF Cell
    <2> QED
      BY <1>0, <2>1, Uint32Fixed
  <1>2. CASE x < 0
    <2>1. x + Modulus \in 0 .. Modulus - 1 /\ x + Modulus \in Int /\ x + Modulus > 0
      BY <1>2, ModulusNatural, SMT DEF Cell
    <2>2. (x + Modulus) - Modulus = x
      BY <1>0, ModulusNatural, SMT
    <2>3. Uint32(x) = x + Modulus
      BY <2>1, <2>2, Uint32Fixed, Uint32Shift
    <2> QED
      BY <1>0, <1>2, <2>1, <2>3, SMT
  <1> QED
    BY <1>0, <1>1, <1>2, SMT

-----------------------------------------------------------------------------
(***************************************************************************)
(* Types                                                                   *)
(***************************************************************************)

LEMMA PackedCells == 0 .. Modulus - 1 \subseteq Cell /\ Packed \subseteq PCB
  <1>1. 0 .. Modulus - 1 \subseteq Cell
    BY ModulusNatural, SMT DEF Cell
  <1> QED
    BY <1>1 DEF Packed, PCB

LEMMA CellInt == Cell \subseteq Int /\ -Half .. Half - 1 \subseteq Cell
  BY ModulusNatural, SMT DEF Cell

\* What is sent is packed, whatever the registers hold.
LEMMA SentType ==
    ASSUME NEW pcb \in PCB
    PROVE  Sent(pcb) \in Packed /\ Sent(pcb).counter = pcb.counter
  <1>1. \A r \in Register : Uint32(pcb.register[r]) \in 0 .. Modulus - 1
    BY CellInt, Uint32Range DEF PCB
  <1> QED
    BY <1>1 DEF Sent, PCB, Packed

\* A packed PCB is sent as it is.
LEMMA SentFixed ==
    ASSUME NEW pcb \in Packed
    PROVE  Sent(pcb) = pcb
  <1>1. \A r \in Register : Uint32(pcb.register[r]) = pcb.register[r]
    BY Uint32Fixed DEF Packed
  <1>2. [r \in Register |-> Uint32(pcb.register[r])] = pcb.register
    BY <1>1 DEF Packed
  <1> QED
    BY <1>2 DEF Sent, Packed

LEMMA AdvanceType ==
    /\ \A pcb \in PCB : Advance(pcb) \in PCB /\ Advance(pcb).register = pcb.register
    /\ \A pcb \in Packed : Advance(pcb) \in Packed
  BY SMT DEF Advance, PCB, Packed

\* The program has an instruction for every counter.
LEMMA FetchType ==
    ASSUME program \in Programs, NEW counter \in Nat
    PROVE  Fetch(counter) \in Instruction
  <1>1. program \in Seq(Instruction) /\ program # <<>>
    BY ProgramsAssumption
  <1>2. Len(program) \in Nat /\ Len(program) > 0
    BY <1>1
  <1>3. (IF counter < Len(program) THEN counter + 1 ELSE Len(program)) \in 1 .. Len(program)
    BY <1>2
  <1> QED
    BY <1>1, <1>3 DEF Fetch

\* An instruction leaves cells, and in 32 bits what Machine promises.
LEMMA ExecutedLemma ==
    ASSUME NEW instruction \in Instruction, NEW cells \in [Register -> Cell],
           instruction.op \in {"SET", "SUM", "SUB", "JNZ"}
    PROVE  /\ Executed(instruction, cells) \in [Register -> Cell]
           /\ [r \in Register |-> Uint32(Executed(instruction, cells)[r])]
                = M!Result(instruction, [r \in Register |-> Uint32(cells[r])])
  <1> DEFINE packed == [r \in Register |-> Uint32(cells[r])]
             to == instruction.to
             x == cells[to]
  <1>0. /\ M!Modulus = Modulus
        /\ M!Register = Register
        /\ to \in Register
        /\ \A r \in Register : cells[r] \in Int
        /\ -Half .. Half - 1 \subseteq Int
    BY CellInt, ModulusNatural DEF M!Modulus, Modulus, M!Register, Register, Instruction
  <1>1. CASE instruction.op = "SET"
    <2> DEFINE v == instruction.value
    <2>1. v \in Cell /\ v \in Int
      BY <1>1, CellInt DEF Instruction
    <2>2. Executed(instruction, cells) = [cells EXCEPT ![to] = v]
      BY <1>1 DEF Executed, Set
    <2>3. M!Result(instruction, packed) = [packed EXCEPT ![to] = Uint32(v)]
      BY <1>0, <1>1 DEF M!Result, Uint32
    <2> HIDE DEF v, to
    <2> QED
      BY <1>0, <2>1, <2>2, <2>3
  <1>2. CASE instruction.op = "SUM"
    <2> DEFINE y == cells[instruction.from]
               v == Int32(Uint32(x) + Uint32(y))
    <2>0. instruction.from \in Register
      BY <1>2 DEF Instruction
    <2>1. x \in Int /\ y \in Int
      BY <1>0, <2>0
    <2>2. Uint32(x) + Uint32(y) \in Int
      BY <2>1, Uint32Range, ModulusNatural
    <2>3. v \in Cell /\ Uint32(v) = (Uint32(x) + Uint32(y)) % Modulus
      BY <2>2, Int32Lemma, CellInt DEF Uint32
    <2>4. Executed(instruction, cells) = [cells EXCEPT ![to] = v]
      BY <1>2, <1>0 DEF Executed, Sum
    <2>5. M!Result(instruction, packed) = [packed EXCEPT ![to] = (packed[to] + packed[instruction.from]) % Modulus]
      BY <1>0, <1>2 DEF M!Result
    <2>6. packed[to] = Uint32(x) /\ packed[instruction.from] = Uint32(y)
      BY <1>0, <2>0
    <2> HIDE DEF v, to, x, y
    <2> QED
      BY <1>0, <2>3, <2>4, <2>5, <2>6
  <1>3. CASE instruction.op = "SUB"
    <2> DEFINE y == cells[instruction.from]
               v == Int32(x - y)
    <2>0. instruction.from \in Register
      BY <1>3 DEF Instruction
    <2>1. x \in Int /\ y \in Int /\ x - y \in Int
      BY <1>0, <2>0
    <2>2. v \in Cell /\ Uint32(v) = Uint32(x - y)
      BY <2>1, Int32Lemma, CellInt
    <2>3. Uint32(v) = (Uint32(x) - Uint32(y)) % Modulus
      BY <2>1, <2>2, Difference
    <2>4. Executed(instruction, cells) = [cells EXCEPT ![to] = v]
      BY <1>3, <1>0 DEF Executed, Sub
    <2>5. M!Result(instruction, packed) = [packed EXCEPT ![to] = (packed[to] - packed[instruction.from]) % Modulus]
      BY <1>0, <1>3 DEF M!Result
    <2>6. packed[to] = Uint32(x) /\ packed[instruction.from] = Uint32(y)
      BY <1>0, <2>0
    <2> HIDE DEF v, to, x, y
    <2> QED
      BY <1>0, <2>2, <2>3, <2>4, <2>5, <2>6
  <1>4. CASE instruction.op = "JNZ"
    <2> DEFINE v == instruction.value
    <2>1. v \in Cell /\ v \in Int
      BY <1>4, CellInt DEF Instruction
    <2>2. packed[to] = Uint32(x) /\ x \in Cell
      BY <1>0
    <2>3. x = 0 <=> packed[to] = 0
      BY <2>2, ZeroCell
    <2>4. CASE x = 0
      <3>1. Executed(instruction, cells) = cells
        BY <1>4, <2>4 DEF Executed, Jnz
      <3>2. M!Result(instruction, packed) = packed
        BY <1>4, <2>3, <2>4 DEF M!Result
      <3> QED
        BY <3>1, <3>2
    <2>5. CASE x # 0
      <3>1. Executed(instruction, cells) = InsertCell(cells, to, v)
        BY <1>4, <2>5 DEF Executed, Jnz
      <3>2. M!Result(instruction, packed) = M!Inserted(packed, to, Uint32(v))
        BY <1>0, <1>4, <2>3, <2>5 DEF M!Result, Uint32
      <3>3. \A j \in Register : ~ (j < to) /\ j # to => j - 1 \in Register
        BY <1>0 DEF Register
      <3> HIDE DEF v, to, x
      <3>4. InsertCell(cells, to, v) \in [Register -> Cell]
        BY <2>1, <3>3 DEF InsertCell
      <3>5. [r \in Register |-> Uint32(InsertCell(cells, to, v)[r])] = M!Inserted(packed, to, Uint32(v))
        BY <1>0, <3>3 DEF InsertCell, M!Inserted
      <3> QED
        BY <3>1, <3>2, <3>4, <3>5
    <2> QED
      BY <2>4, <2>5
  <1> QED
    BY <1>1, <1>2, <1>3, <1>4

\* Sending, receiving and answering keep the sockets typed.
LEMMA TypeStep ==
    ASSUME TypeOK, [Next]_vars
    PROVE  TypeOK'
  <1>1. /\ process \in PCB /\ kept \in Packed /\ kept \in PCB
        /\ down \in Seq(Packed) /\ up \in Seq(Message)
    BY PackedCells DEF TypeOK
  <1>2. /\ down # <<>> => Head(down) \in Packed /\ Tail(down) \in Seq(Packed)
        /\ up # <<>> => Head(up) \in Message /\ Tail(up) \in Seq(Message)
    BY <1>1
  <1>3. \A pcb \in PCB : Sent(pcb) \in Packed
    BY SentType
  <1>4. /\ \A pcb \in Packed : pcb \in PCB /\ Advance(pcb) \in Packed /\ Advance(pcb) \in PCB
        /\ \A pcb \in PCB : Advance(pcb) \in PCB
    <2>1. \A pcb \in Packed : pcb \in PCB
      BY PackedCells
    <2> QED
      BY <2>1, AdvanceType
  <1>5. up # <<>> => Arrived \in Packed
    BY <1>2 DEF Arrived, Message
  <1>6. CASE ReceiveProcess
    <2>1. process' \in PCB /\ down' \in Seq(Packed)
      BY <1>2, <1>4, <1>6 DEF ReceiveProcess
    <2> QED
      BY <1>6, <2>1 DEF ReceiveProcess, TypeOK
  <1>7. CASE ExecuteInstruction
    <2> DEFINE instruction == Fetch(process.counter)
               registers == Executed(instruction, process.register)
    <2>1. instruction \in Instruction /\ instruction.op \notin Requests
      BY FetchType, <1>1, <1>7 DEF TypeOK, PCB, ExecuteInstruction
    <2>4. registers \in [Register -> Cell]
      <3>1. CASE instruction.op = "NO_OP"
        BY <1>1, <3>1 DEF Executed, PCB
      <3>2. CASE instruction.op \in {"SET", "SUM", "SUB", "JNZ"}
        BY <1>1, <2>1, <3>2, ExecutedLemma DEF PCB
      <3> QED
        BY <2>1, <3>1, <3>2 DEF Instruction, Requests
    <2>5. process' = Advance([process EXCEPT !.register = registers])
      BY <1>7 DEF ExecuteInstruction
    <2> HIDE DEF registers
    <2>6. [process EXCEPT !.register = registers] \in PCB
      BY <1>1, <2>4 DEF PCB
    <2>7. process' \in PCB
      BY <1>4, <2>5, <2>6
    <2> QED
      BY <1>7, <2>7 DEF ExecuteInstruction, TypeOK
  <1>21. CASE RequestKernel
    <2> DEFINE op == Fetch(process.counter).op
    <2>1. op \in Requests
      BY <1>21 DEF RequestKernel
    <2>2. Request(op) \in {"FINISH_PROCESS", "INTERRUPT", "SLEEP", "WAIT", "SIGNAL"}
      BY <2>1 DEF Request, Requests
    <2>3. [op |-> Request(op), pcb |-> Sent(process)] \in Message
      BY <1>1, <1>3, <2>2 DEF Message
    <2>4. up' \in Seq(Message)
      BY <1>1, <1>21, <2>3 DEF RequestKernel
    <2>5. process' \in PCB
      BY <1>1, <1>4, <1>21 DEF RequestKernel
    <2> QED
      BY <1>21, <2>4, <2>5 DEF RequestKernel, TypeOK
  <1>8. CASE ReceiveInterrupt
    BY <1>8 DEF ReceiveInterrupt, TypeOK
  <1>9. CASE NoInterrupt
    BY <1>9 DEF NoInterrupt, TypeOK
  <1>10. CASE YieldProcess
    <2>1. [op |-> "INTERRUPT", pcb |-> Sent(process)] \in Message
      BY <1>1, <1>3 DEF Message
    <2>2. up' \in Seq(Message)
      BY <1>1, <1>10, <2>1 DEF YieldProcess
    <2> QED
      BY <1>10, <2>2 DEF YieldProcess, TypeOK
  <1>11. CASE RejectInterrupt
    BY <1>11 DEF RejectInterrupt, TypeOK
  <1>12. CASE DispatchProcess
    <2>1. down' \in Seq(Packed)
      BY <1>1, <1>3, <1>12 DEF DispatchProcess
    <2> QED
      BY <1>12, <2>1 DEF DispatchProcess, TypeOK, cpuVars
  <1>13. CASE HandleInterrupt
    BY <1>2, <1>5, <1>13 DEF HandleInterrupt, Asked, TypeOK, cpuVars
  <1>14. CASE HandleSleep
    BY <1>2, <1>5, <1>14 DEF HandleSleep, Asked, TypeOK, cpuVars
  <1>15. CASE Awake
    BY <1>1, <1>4, <1>15 DEF Awake, TypeOK, cpuVars
  <1>16. CASE HandleWaitGranted \/ HandleSignal
    <2>0. up # <<>> /\ up' = Tail(up) /\ down' = Append(down, Sent(Advance(Arrived)))
      BY <1>16 DEF HandleWaitGranted, HandleSignal, Respond, Asked
    <2>2. Sent(Advance(Arrived)) \in Packed
      BY <1>3, <1>4, <1>5, <2>0
    <2>1. down' \in Seq(Packed) /\ up' \in Seq(Message)
      BY <1>1, <1>2, <2>0, <2>2
    <2> QED
      BY <1>16, <2>1 DEF HandleWaitGranted, HandleSignal, Respond, TypeOK, cpuVars
  <1>17. CASE HandleWaitBlocked
    BY <1>2, <1>17 DEF HandleWaitBlocked, Asked, TypeOK, cpuVars
  <1>18. CASE MoveProcessFromBlockToReady
    BY <1>18 DEF MoveProcessFromBlockToReady, TypeOK, cpuVars
  <1>19. CASE FinishProcess
    BY <1>2, <1>19 DEF FinishProcess, Asked, TypeOK, cpuVars
  <1>20. CASE UNCHANGED vars
    BY <1>20 DEF vars, cpuVars, TypeOK
  <1> QED
    BY <1>6, <1>7, <1>8, <1>9, <1>10, <1>11, <1>12, <1>13, <1>14, <1>15, <1>16,
       <1>17, <1>18, <1>19, <1>20, <1>21 DEF Next, Cpu, Kernel

LEMMA InitType ==
    ASSUME Init
    PROVE  TypeOK
  <1>1. 0 \in 0 .. Modulus - 1
    BY ModulusNatural, SMT
  <1>2. kept \in Packed /\ process \in PCB
    <2>1. kept \in Packed /\ process = kept
      BY <1>1 DEF Init, Packed
    <2> QED
      BY <2>1, PackedCells
  <1>3. down \in Seq(Packed) /\ up \in Seq(Message)
    BY DEF Init
  <1> QED
    BY <1>2, <1>3 DEF Init, TypeOK

\* A process's PCB stays well typed wherever it is: a register is an int or a
\* uint32_t in the CPU and a uint32_t everywhere else
\* (cpu/src/instruction_execution.c:15-92, shared/src/process.c:78-91).
THEOREM PcbTypes == Spec => []TypeOK
  BY InitType, TypeStep, PTL DEF Spec
-----------------------------------------------------------------------------
(***************************************************************************)
(* One copy under way                                                      *)
(***************************************************************************)

\* An instruction runs only before a request.
CycleRuns == cpuPc = "cycle" => ~ended

\* A request answers to the instruction its counter stands at.
AskedFor ==
    up # <<>> /\ Head(up).op # "INTERRUPT" =>
        LET op == Fetch(Head(up).pcb.counter).op
        IN  op \in Requests /\ Head(up).op = Request(op)

AsleepFor == place = "asleep" => Fetch(kept.counter).op = "SLEEP"

IInv == TypeOK /\ OneTraveller /\ CycleRuns /\ AskedFor /\ AsleepFor

\* Lengths of the sockets when one message is put in or taken out.
LEMMA Lengths ==
    ASSUME NEW S, NEW s \in Seq(S)
    PROVE  /\ Len(s) \in Nat
           /\ s # <<>> => Len(s) > 0 /\ Len(Tail(s)) = Len(s) - 1
           /\ s = <<>> => Len(s) = 0
           /\ \A x \in S : Len(Append(s, x)) = Len(s) + 1
  OBVIOUS

LEMMA Singleton ==
    ASSUME NEW S, NEW s \in Seq(S)
    PROVE  /\ Len(s) \in Nat
           /\ s # <<>> => Len(s) > 0
           /\ Len(s) = 1 => Tail(s) = <<>>
  <1>1. CASE s = <<>>
    BY <1>1
  <1>2. CASE s # <<>>
    <2>1. Tail(s) \in Seq(S) /\ Len(Tail(s)) = Len(s) - 1 /\ Len(s) \in Nat /\ Len(s) > 0
      BY <1>2, HeadTailProperties, EmptySeq
    <2>2. Len(Tail(s)) = 0 => Tail(s) = <<>>
      BY <2>1, EmptySeq
    <2> QED
      BY <1>2, <2>1, <2>2
  <1> QED
    BY <1>1, <1>2

\* Where the one copy is decides where the others are not.
LEMMA Places ==
    ASSUME TypeOK, OneTraveller
    PROVE  /\ down # <<>> => up = <<>> /\ Tail(down) = <<>> /\ ~Running /\ place = "exec"
           /\ up # <<>> => down = <<>> /\ Tail(up) = <<>> /\ ~Running /\ place = "exec"
           /\ Running => down = <<>> /\ up = <<>> /\ place = "exec"
           /\ place # "exec" => down = <<>> /\ up = <<>> /\ ~Running
  <1> DEFINE d == Len(down)
             u == Len(up)
             running == IF Running THEN 1 ELSE 0
             exec == IF place = "exec" THEN 1 ELSE 0
  <1>1. /\ down \in Seq(Packed)
        /\ up \in Seq(Message)
    BY DEF TypeOK
  <1>2. /\ d \in Nat /\ u \in Nat
        /\ down # <<>> => d > 0 /\ (d = 1 => Tail(down) = <<>>)
        /\ up # <<>> => u > 0 /\ (u = 1 => Tail(up) = <<>>)
    BY <1>1, Singleton
  <1>3. /\ running \in {0, 1} /\ exec \in {0, 1}
        /\ Running <=> running = 1
        /\ place = "exec" <=> exec = 1
    OBVIOUS
  <1>4. d + u + running = exec
    BY DEF OneTraveller
  <1> HIDE DEF d, u, running, exec
  <1>5. /\ down # <<>> => d = 1 /\ u = 0 /\ running = 0 /\ exec = 1
        /\ up # <<>> => u = 1 /\ d = 0 /\ running = 0 /\ exec = 1
        /\ running = 1 => d = 0 /\ u = 0 /\ exec = 1
        /\ exec = 0 => d = 0 /\ u = 0 /\ running = 0
    BY <1>2, <1>3, <1>4
  <1> QED
    BY <1>2, <1>3, <1>5

\* Each step moves the copy or leaves it.
LEMMA TravellerStep ==
    ASSUME TypeOK, OneTraveller, CycleRuns, [Next]_vars
    PROVE  OneTraveller' /\ CycleRuns'
  <1> DEFINE Copies(d, u, running) == Len(d) + Len(u) + (IF running THEN 1 ELSE 0)
             Place(p) == IF p = "exec" THEN 1 ELSE 0
  <1>1. down \in Seq(Packed) /\ up \in Seq(Message)
    BY DEF TypeOK
  <1>2. /\ Len(down) \in Nat /\ Len(up) \in Nat
        /\ down # <<>> => Len(Tail(down)) = Len(down) - 1
        /\ up # <<>> => Len(Tail(up)) = Len(up) - 1
    BY <1>1, Lengths
  <1>3. Len(down) + Len(up) + (IF Running THEN 1 ELSE 0) = (IF place = "exec" THEN 1 ELSE 0)
    BY DEF OneTraveller
  <1>4. \A x : Len(Append(up, x)) = Len(up) + 1 /\ Len(Append(down, x)) = Len(down) + 1
    BY <1>1
  <1>5. CASE ReceiveProcess
    BY <1>2, <1>3, <1>5 DEF ReceiveProcess, OneTraveller, CycleRuns, Running
  <1>6. CASE ExecuteInstruction
    BY <1>2, <1>3, <1>6 DEF ExecuteInstruction, OneTraveller, CycleRuns, Running
  <1>7. CASE RequestKernel
    <2>1. Len(up') = Len(up) + 1 /\ Running /\ ~Running' /\ cpuPc' # "cycle"
      BY <1>4, <1>7 DEF RequestKernel, CycleRuns, Running
    <2>2. down' = down /\ place' = place
      BY <1>7 DEF RequestKernel
    <2> QED
      BY <1>2, <1>3, <2>1, <2>2 DEF OneTraveller, CycleRuns
  <1>8. CASE ReceiveInterrupt
    BY <1>3, <1>8 DEF ReceiveInterrupt, OneTraveller, CycleRuns, Running
  <1>9. CASE NoInterrupt
    BY <1>3, <1>9 DEF NoInterrupt, OneTraveller, CycleRuns, Running
  <1>10. CASE YieldProcess
    <2>1. Len(up') = Len(up) + 1 /\ Running /\ ~Running' /\ cpuPc' # "cycle"
      BY <1>4, <1>10 DEF YieldProcess, Running
    <2>2. down' = down /\ place' = place
      BY <1>10 DEF YieldProcess
    <2> QED
      BY <1>2, <1>3, <2>1, <2>2 DEF OneTraveller, CycleRuns
  <1>11. CASE RejectInterrupt
    BY <1>3, <1>11 DEF RejectInterrupt, OneTraveller, CycleRuns, Running
  <1>12. CASE DispatchProcess
    <2>1. Len(down') = Len(down) + 1 /\ place = "ready" /\ place' = "exec" /\ up' = up
      BY <1>4, <1>12 DEF DispatchProcess
    <2>2. Running' = Running /\ cpuPc' = cpuPc /\ ended' = ended
      BY <1>12 DEF DispatchProcess, cpuVars, Running
    <2> QED
      BY <1>2, <1>3, <2>1, <2>2 DEF OneTraveller, CycleRuns
  <1>13. CASE HandleInterrupt \/ HandleSleep \/ HandleWaitBlocked \/ FinishProcess
    <2>1. up # <<>> /\ up' = Tail(up) /\ down' = down /\ place' # "exec"
      BY <1>13 DEF HandleInterrupt, HandleSleep, HandleWaitBlocked, FinishProcess, Asked
    <2>2. Running' = Running /\ cpuPc' = cpuPc /\ ended' = ended
      BY <1>13 DEF HandleInterrupt, HandleSleep, HandleWaitBlocked, FinishProcess, cpuVars, Running
    <2>3. Len(up') = Len(up) - 1 /\ Len(up) > 0
      BY <1>1, <1>2, <2>1
    <2> QED
      BY <1>2, <1>3, <2>1, <2>2, <2>3 DEF OneTraveller, CycleRuns
  <1>14. CASE HandleWaitGranted \/ HandleSignal
    <2>1. up # <<>> /\ up' = Tail(up) /\ Len(down') = Len(down) + 1 /\ place' = place
      BY <1>4, <1>14 DEF HandleWaitGranted, HandleSignal, Respond, Asked
    <2>2. Running' = Running /\ cpuPc' = cpuPc /\ ended' = ended
      BY <1>14 DEF HandleWaitGranted, HandleSignal, Respond, cpuVars, Running
    <2>3. Len(up') = Len(up) - 1
      BY <1>2, <2>1
    <2> QED
      BY <1>2, <1>3, <2>1, <2>2, <2>3 DEF OneTraveller, CycleRuns
  <1>15. CASE Awake \/ MoveProcessFromBlockToReady
    <2>1. down' = down /\ up' = up /\ place # "exec" /\ place' # "exec"
      BY <1>15 DEF Awake, MoveProcessFromBlockToReady
    <2>2. Running' = Running /\ cpuPc' = cpuPc /\ ended' = ended
      BY <1>15 DEF Awake, MoveProcessFromBlockToReady, cpuVars, Running
    <2> QED
      BY <1>3, <2>1, <2>2 DEF OneTraveller, CycleRuns
  <1>16. CASE UNCHANGED vars
    BY <1>3, <1>16 DEF vars, cpuVars, OneTraveller, CycleRuns, Running
  <1> QED
    BY <1>5, <1>6, <1>7, <1>8, <1>9, <1>10, <1>11, <1>12, <1>13, <1>14, <1>15, <1>16
       DEF Next, Cpu, Kernel

\* The program does not change under the process.
LEMMA SameProgram ==
    ASSUME [Next]_vars
    PROVE  program' = program
  BY DEF Next, Cpu, Kernel, ReceiveProcess, ExecuteInstruction, RequestKernel, ReceiveInterrupt,
         NoInterrupt, YieldProcess, RejectInterrupt, DispatchProcess, HandleInterrupt, HandleSleep,
         Awake, HandleWaitGranted, HandleSignal, Respond, HandleWaitBlocked,
         MoveProcessFromBlockToReady, FinishProcess, vars

\* The kernel meets a request at the instruction that made it.
LEMMA RequestStep ==
    ASSUME IInv, [Next]_vars
    PROVE  AskedFor' /\ AsleepFor'
  <1>0. TypeOK /\ OneTraveller /\ CycleRuns /\ AskedFor /\ AsleepFor
    BY DEF IInv
  <1>1. program' = program
    BY SameProgram
  <1>2. /\ process \in PCB
        /\ up \in Seq(Message)
    BY <1>0 DEF TypeOK
  <1>3. /\ down # <<>> => up = <<>>
        /\ up # <<>> => Tail(up) = <<>>
        /\ Running => up = <<>>
    BY <1>0, Places
  <1>4. CASE RequestKernel
    <2> DEFINE op == Fetch(process.counter).op
               message == [op |-> Request(op), pcb |-> Sent(process)]
    <2>1. op \in Requests /\ up' = Append(up, message) /\ place' = place /\ kept' = kept
      BY <1>4 DEF RequestKernel
    <2>2. up = <<>>
      BY <1>0, <1>3, <1>4 DEF RequestKernel, CycleRuns, Running
    <2>3. Head(up') = message
      BY <2>1, <2>2
    <2>4. Head(up').pcb.counter = process.counter /\ Head(up').op = Request(op)
      BY <1>2, <2>3, SentType
    <2>5. AskedFor'
      BY <1>1, <2>1, <2>4 DEF AskedFor, Fetch
    <2> QED
      BY <1>0, <1>1, <2>1, <2>5 DEF AsleepFor, Fetch
  <1>5. CASE YieldProcess
    <2>1. up = <<>>
      BY <1>0, <1>3, <1>5 DEF YieldProcess, Running
    <2>2. Head(up').op = "INTERRUPT" /\ place' = place /\ kept' = kept
      BY <2>1, <1>5 DEF YieldProcess
    <2> QED
      BY <1>0, <1>1, <2>2 DEF AskedFor, AsleepFor, Fetch
  <1>6. CASE HandleSleep
    <2>1. up # <<>> /\ Head(up).op = "SLEEP" /\ kept' = Head(up).pcb /\ up' = Tail(up)
      BY <1>6 DEF HandleSleep, Asked, Arrived
    <2>2. Fetch(kept'.counter).op = "SLEEP"
      BY <1>0, <2>1 DEF AskedFor, Request
    <2> QED
      BY <1>1, <1>3, <2>1, <2>2 DEF AskedFor, AsleepFor, Fetch
  <1>7. CASE HandleInterrupt \/ HandleWaitGranted \/ HandleSignal \/ HandleWaitBlocked \/ FinishProcess
    <2>1. up # <<>> /\ up' = Tail(up)
      BY <1>7
         DEF HandleInterrupt, HandleWaitGranted, HandleSignal, Respond, HandleWaitBlocked,
             FinishProcess, Asked
    <2>2. (place' = place /\ kept' = kept) \/ place' # "asleep"
      BY <1>7
         DEF HandleInterrupt, HandleWaitGranted, HandleSignal, Respond, HandleWaitBlocked,
             FinishProcess
    <2> QED
      BY <1>0, <1>1, <1>3, <2>1, <2>2 DEF AskedFor, AsleepFor, Fetch
  <1>8. CASE DispatchProcess \/ Awake \/ MoveProcessFromBlockToReady
    <2>1. up' = up /\ place' # "asleep"
      BY <1>8 DEF DispatchProcess, Awake, MoveProcessFromBlockToReady
    <2> QED
      BY <1>0, <1>1, <2>1 DEF AskedFor, AsleepFor, Fetch
  <1>9. CASE ReceiveProcess \/ ExecuteInstruction \/ ReceiveInterrupt \/ NoInterrupt
                \/ RejectInterrupt \/ UNCHANGED vars
    <2>1. up' = up /\ place' = place /\ kept' = kept
      BY <1>9
         DEF ReceiveProcess, ExecuteInstruction, ReceiveInterrupt, NoInterrupt, RejectInterrupt,
             vars
    <2> QED
      BY <1>0, <1>1, <2>1 DEF AskedFor, AsleepFor, Fetch
  <1> QED
    BY <1>4, <1>5, <1>6, <1>7, <1>8, <1>9 DEF Next, Cpu, Kernel

LEMMA IInvInductive ==
    /\ Init => IInv
    /\ IInv /\ [Next]_vars => IInv'
  <1>1. Init => IInv
    <2> SUFFICES ASSUME Init PROVE IInv
      OBVIOUS
    <2>1. TypeOK
      BY InitType
    <2>2. OneTraveller
      BY DEF Init, OneTraveller, Running
    <2> QED
      BY <2>1, <2>2 DEF Init, IInv, CycleRuns, AskedFor, AsleepFor
  <1>2. IInv /\ [Next]_vars => IInv'
    BY TypeStep, TravellerStep, RequestStep DEF IInv
  <1> QED
    BY <1>1, <1>2

LEMMA IInvHolds == Spec => []IInv
  BY IInvInductive, PTL DEF Spec

\* While queue_exec holds the process exactly one other copy of it is under way,
\* and otherwise none, whatever interrupts it (cpu/src/handle_connection.c:101-128,
\* kernel/src/queues.c:286-330).
THEOREM OneTravellerHolds == Spec => []OneTraveller
  <1>1. IInv => OneTraveller
    BY DEF IInv
  <1> QED
    BY <1>1, IInvHolds, PTL
-----------------------------------------------------------------------------
(***************************************************************************)
(* The process goes on as Machine says                                     *)
(***************************************************************************)

\* Nothing of what Machine sees changes.
Stutters ==
    /\ program' = program
    /\ Sent(Latest)' = Sent(Latest)
    /\ Sent(kept)' = Sent(kept)
    /\ (place = "gone")' = (place = "gone")

LEMMA StutterMaps ==
    ASSUME Stutters
    PROVE  [M!Next]_(M!vars)
  BY DEF Stutters, M!vars

\* Sent of a packed PCB, primed or not.
LEMMA SentPacked ==
    \A pcb \in Packed : Sent(pcb) = pcb /\ pcb \in PCB
  BY SentFixed, PackedCells

\* Machine counts and fetches as the CPU does.
LEMMA SameFetch ==
    /\ \A pcb : M!Advanced(pcb) = Advance(pcb)
    /\ \A pcb \in PCB : Sent(Advance(pcb)) = M!Advanced(Sent(pcb))
    /\ \A counter : M!Fetched(counter) = Fetch(counter)
  <1>1. \A pcb : M!Advanced(pcb) = Advance(pcb)
    BY DEF M!Advanced, Advance
  <1>2. \A counter : M!Fetched(counter) = Fetch(counter)
    BY DEF M!Fetched, Fetch
  <1>3. ASSUME NEW pcb \in PCB
        PROVE  Sent(Advance(pcb)) = Advance(Sent(pcb))
    BY DEF Sent, Advance, PCB
  <1> QED
    BY <1>1, <1>2, <1>3

\* A step of the CPU on the running copy.
LEMMA CpuMaps ==
    ASSUME IInv, Cpu
    PROVE  [M!Next]_(M!vars)
  <1>0. /\ TypeOK /\ OneTraveller /\ CycleRuns
        /\ process \in PCB /\ down \in Seq(Packed) /\ up \in Seq(Message)
    BY DEF IInv, TypeOK
  <1>1. /\ down # <<>> => up = <<>> /\ Tail(down) = <<>> /\ ~Running /\ place = "exec"
        /\ Running => down = <<>> /\ up = <<>> /\ place = "exec"
    BY <1>0, Places
  <1>2. CASE ReceiveProcess
    <2>1. /\ down # <<>> /\ down' = <<>> /\ up = <<>> /\ up' = <<>> /\ Running'
          /\ process' = Head(down) /\ kept' = kept /\ place' = place /\ program' = program
      BY <1>1, <1>2 DEF ReceiveProcess, Running
    <2>2. Latest' = Latest
      BY <2>1 DEF Latest
    <2> QED
      BY <2>1, <2>2, StutterMaps DEF Stutters, Sent
  <1>3. CASE ExecuteInstruction
    <2> DEFINE instruction == Fetch(process.counter)
               registers == Executed(instruction, process.register)
    <2>1. /\ Running /\ Running' /\ down = <<>> /\ up = <<>> /\ down' = <<>> /\ up' = <<>>
          /\ place = "exec" /\ place' = place /\ kept' = kept /\ program' = program
      BY <1>0, <1>1, <1>3 DEF ExecuteInstruction, CycleRuns, Running
    <2>2. Latest = process /\ Latest' = process'
      BY <2>1 DEF Latest
    <2>3. instruction \in Instruction /\ instruction.op \notin Requests
      BY <1>0, <1>3, FetchType DEF TypeOK, PCB, ExecuteInstruction
    <2>4. process' = Advance([process EXCEPT !.register = registers])
      BY <1>3 DEF ExecuteInstruction
    <2>5. M!Current = instruction
      BY <1>0, <2>2, SentType, SameFetch DEF M!Current
    <2>6. (Sent(kept))' = Sent(kept) /\ (place = "gone")' = (place = "gone")
      BY <2>1 DEF Sent
    <2>7. CASE instruction.op = "NO_OP"
      <3>1. process' = Advance(process)
        BY <1>0, <2>4, <2>7 DEF Executed, PCB
      <3>2. (Sent(Latest))' = M!Advanced(Sent(Latest))
        BY <1>0, <2>2, <3>1, SameFetch DEF Sent
      <3>3. M!Idle
        BY <2>1, <2>5, <2>6, <2>7, <3>2 DEF M!Idle
      <3> QED
        BY <2>1, <3>3 DEF M!Next
    <2>8. CASE instruction.op \in {"SET", "SUM", "SUB", "JNZ"}
      <3>1. /\ registers \in [Register -> Cell]
            /\ [r \in Register |-> Uint32(registers[r])]
                 = M!Result(instruction, [r \in Register |-> Uint32(process.register[r])])
        BY <1>0, <2>3, <2>8, ExecutedLemma DEF PCB
      <3> DEFINE moved == [process EXCEPT !.register = registers]
      <3>2. moved \in PCB /\ moved.register = registers
        BY <1>0, <3>1 DEF PCB
      <3>3. Sent(moved) = [Sent(process) EXCEPT !.register = M!Result(instruction, @)]
        BY <1>0, <3>1, <3>2 DEF Sent, PCB
      <3>4. Sent(process') = M!Advanced(Sent(moved))
        BY <2>4, <3>2, SameFetch
      <3>5. (Sent(Latest))' = M!Advanced([Sent(Latest) EXCEPT !.register = M!Result(instruction, @)])
        BY <2>2, <3>3, <3>4 DEF Sent
      <3>6. M!Compute
        BY <2>1, <2>5, <2>6, <2>8, <3>5 DEF M!Compute
      <3> QED
        BY <2>1, <3>6 DEF M!Next
    <2> QED
      BY <2>3, <2>7, <2>8 DEF Instruction, Requests
  <1>4. CASE RequestKernel
    <2> DEFINE message == [op |-> Request(Fetch(process.counter).op), pcb |-> Sent(process)]
    <2>1. /\ Running /\ down = <<>> /\ up = <<>> /\ down' = <<>> /\ up' = Append(up, message)
          /\ place' = place /\ kept' = kept /\ program' = program
      BY <1>0, <1>1, <1>4 DEF RequestKernel, CycleRuns, Running
    <2>2. Latest = process /\ Latest' = Sent(process)
      BY <2>1 DEF Latest
    <2>3. Sent(Sent(process)) = Sent(process)
      BY <1>0, SentType, SentPacked
    <2>4. (Sent(Latest))' = Sent(Latest)
      BY <2>2, <2>3 DEF Sent
    <2> QED
      BY <2>1, <2>4, StutterMaps DEF Stutters, Sent
  <1>5. CASE YieldProcess
    <2> DEFINE message == [op |-> "INTERRUPT", pcb |-> Sent(process)]
    <2>1. /\ Running /\ down = <<>> /\ up = <<>> /\ down' = <<>> /\ up' = Append(up, message)
          /\ place' = place /\ kept' = kept /\ program' = program
      BY <1>1, <1>5 DEF YieldProcess, Running
    <2>2. Latest = process /\ Latest' = Sent(process)
      BY <2>1 DEF Latest
    <2>3. Sent(Sent(process)) = Sent(process)
      BY <1>0, SentType, SentPacked
    <2>4. (Sent(Latest))' = Sent(Latest)
      BY <2>2, <2>3 DEF Sent
    <2> QED
      BY <2>1, <2>4, StutterMaps DEF Stutters, Sent
  <1>6. CASE ReceiveInterrupt \/ NoInterrupt \/ RejectInterrupt
    <2>1. /\ down' = down /\ up' = up /\ process' = process /\ Running' = Running
          /\ place' = place /\ kept' = kept /\ program' = program
      BY <1>6 DEF ReceiveInterrupt, NoInterrupt, RejectInterrupt, Running
    <2>2. Latest' = Latest
      BY <2>1 DEF Latest
    <2> QED
      BY <2>1, <2>2, StutterMaps DEF Stutters, Sent
  <1> QED
    BY <1>2, <1>3, <1>4, <1>5, <1>6 DEF Cpu

\* A step of the kernel on the copy that arrived or on its own.
LEMMA KernelMaps ==
    ASSUME IInv, Kernel
    PROVE  [M!Next]_(M!vars)
  <1>0. /\ TypeOK /\ OneTraveller /\ AskedFor /\ AsleepFor
        /\ kept \in Packed /\ down \in Seq(Packed) /\ up \in Seq(Message)
    BY DEF IInv, TypeOK
  <1>1. /\ up # <<>> => down = <<>> /\ Tail(up) = <<>> /\ ~Running /\ place = "exec"
        /\ place # "exec" => down = <<>> /\ up = <<>> /\ ~Running
    BY <1>0, Places
  <1>2. up # <<>> => Latest = Arrived /\ Arrived \in Packed /\ Sent(Arrived) = Arrived
    <2> SUFFICES ASSUME up # <<>>
                 PROVE  Latest = Arrived /\ Arrived \in Packed /\ Sent(Arrived) = Arrived
      OBVIOUS
    <2>1. Head(up) \in Message
      BY <1>0
    <2>2. Arrived \in Packed
      BY <2>1 DEF Arrived, Message
    <2> QED
      BY <1>1, <2>2, SentPacked DEF Latest, Arrived
  <1>3. Sent(kept) = kept
    BY <1>0, SentPacked
  <1>4. up # <<>> => M!Current = Fetch(Arrived.counter)
    BY <1>2, SameFetch DEF M!Current
  <1>5. CASE DispatchProcess
    <2>1. /\ down = <<>> /\ up = <<>> /\ ~Running /\ down' = Append(down, Sent(kept))
          /\ kept' = kept /\ program' = program /\ place # "gone" /\ place' # "gone"
      BY <1>1, <1>5 DEF DispatchProcess
    <2>2. Latest = kept /\ Latest' = kept
      BY <1>3, <2>1 DEF Latest
    <2> QED
      BY <2>1, <2>2, StutterMaps DEF Stutters, Sent
  <1>6. CASE HandleInterrupt \/ HandleSleep
    <2>1. /\ up # <<>> /\ down = <<>> /\ down' = <<>> /\ up' = <<>> /\ ~Running /\ ~Running'
          /\ kept' = Arrived /\ program' = program /\ place # "gone" /\ place' # "gone"
      BY <1>1, <1>6 DEF HandleInterrupt, HandleSleep, Asked, cpuVars, Running
    <2>2. Latest' = Arrived
      BY <2>1 DEF Latest
    <2>3. (Sent(Latest))' = Sent(Latest) /\ (Sent(kept))' = Sent(Latest)
      BY <1>2, <2>1, <2>2 DEF Sent
    <2>4. M!Save
      BY <2>1, <2>3 DEF M!Save
    <2> QED
      BY <2>1, <2>4 DEF M!Next
  <1>7. CASE Awake
    <2>1. /\ down = <<>> /\ up = <<>> /\ down' = <<>> /\ up' = <<>> /\ ~Running /\ ~Running'
          /\ kept' = Advance(kept) /\ program' = program /\ place # "gone" /\ place' # "gone"
          /\ place = "asleep"
      BY <1>1, <1>7 DEF Awake, cpuVars, Running
    <2>2. Latest = kept /\ Latest' = kept'
      BY <2>1 DEF Latest
    <2>3. Advance(kept) \in Packed
      BY <1>0, AdvanceType
    <2>4. Sent(kept') = M!Advanced(Sent(kept))
      BY <1>0, <2>1, SentPacked, SameFetch
    <2>5. /\ (Sent(kept))' = M!Advanced(Sent(Latest))
          /\ (Sent(Latest))' = M!Advanced(Sent(Latest))
          /\ Sent(Latest) = Sent(kept)
      BY <2>2, <2>4 DEF Sent
    <2>6. M!Current.op = "SLEEP"
      BY <1>0, <1>3, <2>1, <2>2, SameFetch DEF M!Current, AsleepFor
    <2>7. M!Awake
      BY <2>1, <2>5, <2>6 DEF M!Awake
    <2> QED
      BY <2>1, <2>7 DEF M!Next
  <1>8. CASE HandleWaitGranted \/ HandleSignal
    <2>1. /\ up # <<>> /\ down = <<>> /\ down' = Append(down, Sent(Advance(Arrived)))
          /\ kept' = kept /\ program' = program /\ place = "exec" /\ place' = place
          /\ Head(up).op \in {"WAIT", "SIGNAL"}
      BY <1>1, <1>8 DEF HandleWaitGranted, HandleSignal, Respond, Asked
    <2>2. Latest' = Sent(Advance(Arrived))
      BY <2>1 DEF Latest
    <2>3. Advance(Arrived) \in Packed /\ Sent(Advance(Arrived)) = Advance(Arrived)
      BY <1>2, <2>1, AdvanceType, SentPacked
    <2>4. (Sent(Latest))' = M!Advanced(Sent(Latest)) /\ (Sent(kept))' = Sent(kept)
      <3>1. Latest' = Advance(Arrived)
        BY <2>2, <2>3
      <3>2. (Sent(Latest))' = Sent(Advance(Arrived))
        BY <3>1 DEF Sent
      <3>3. M!Advanced(Sent(Latest)) = Advance(Arrived)
        BY <1>2, <2>1, SameFetch
      <3> QED
        BY <2>1, <2>3, <3>2, <3>3 DEF Sent
    <2>5. M!Current.op \in {"WAIT", "SIGNAL"}
      BY <1>0, <1>4, <2>1 DEF AskedFor, Request, Requests, Arrived
    <2>6. M!Pass
      BY <2>1, <2>4, <2>5 DEF M!Pass
    <2> QED
      BY <2>1, <2>6 DEF M!Next
  <1>9. CASE HandleWaitBlocked
    <2>1. /\ up # <<>> /\ down = <<>> /\ down' = <<>> /\ up' = <<>> /\ ~Running /\ ~Running'
          /\ kept' = kept /\ program' = program /\ place # "gone" /\ place' # "gone"
          /\ Head(up).op = "WAIT"
      BY <1>1, <1>9 DEF HandleWaitBlocked, Asked, cpuVars, Running
    <2>2. Latest' = kept
      BY <2>1 DEF Latest
    <2>3. (Sent(Latest))' = Sent(kept) /\ (Sent(kept))' = Sent(kept)
      BY <2>1, <2>2 DEF Sent
    <2>4. M!Current.op = "WAIT"
      BY <1>0, <1>4, <2>1 DEF AskedFor, Request, Requests, Arrived
    <2>5. M!SetBack
      BY <2>1, <2>3, <2>4 DEF M!SetBack
    <2> QED
      BY <2>1, <2>5 DEF M!Next
  <1>10. CASE MoveProcessFromBlockToReady
    <2>1. /\ down = <<>> /\ up = <<>> /\ down' = <<>> /\ up' = <<>> /\ ~Running /\ ~Running'
          /\ kept' = kept /\ program' = program /\ place # "gone" /\ place' # "gone"
      BY <1>1, <1>10 DEF MoveProcessFromBlockToReady, cpuVars, Running
    <2>2. Latest = kept /\ Latest' = kept
      BY <2>1 DEF Latest
    <2> QED
      BY <2>1, <2>2, StutterMaps DEF Stutters, Sent
  <1>11. CASE FinishProcess
    <2>1. /\ up # <<>> /\ down = <<>> /\ down' = <<>> /\ up' = <<>> /\ ~Running /\ ~Running'
          /\ kept' = kept /\ program' = program /\ place = "exec" /\ place' = "gone"
          /\ Head(up).op \in {"FINISH_PROCESS", "WAIT", "SIGNAL"}
      BY <1>1, <1>11 DEF FinishProcess, Asked, cpuVars, Running
    <2>2. Latest' = kept
      BY <2>1 DEF Latest
    <2>3. (Sent(Latest))' = Sent(kept) /\ (Sent(kept))' = Sent(kept)
      BY <2>1, <2>2 DEF Sent
    <2>4. M!Current.op \in {"EXIT", "WAIT", "SIGNAL"}
      BY <1>0, <1>4, <2>1 DEF AskedFor, Request, Requests, Arrived
    <2>5. M!End
      BY <2>1, <2>3, <2>4 DEF M!End
    <2> QED
      BY <2>1, <2>5 DEF M!Next
  <1> QED
    BY <1>5, <1>6, <1>7, <1>8, <1>9, <1>10, <1>11 DEF Kernel

LEMMA InitMaps ==
    ASSUME Init
    PROVE  M!Init
  <1>1. TypeOK
    BY InitType
  <1>2. Latest = kept /\ Sent(kept) = kept
    BY <1>1, SentPacked DEF Init, Latest, Running, TypeOK
  <1> QED
    BY <1>2 DEF Init, M!Init, M!Register, Register

\* However kernel and CPU pass its PCB about, a process computes what Machine
\* says (cpu/src/instruction_execution.c:15-134, kernel/src/handle_connection.c:122-237).
THEOREM Refinement == Spec => RefinesMachine
  <1>1. Init => M!Init
    BY InitMaps
  <1>2. IInv /\ [Next]_vars => [M!Next]_(M!vars)
    <2> SUFFICES ASSUME IInv, [Next]_vars
                 PROVE  [M!Next]_(M!vars)
      OBVIOUS
    <2>1. CASE UNCHANGED vars
      <3>1. Stutters
        BY <2>1 DEF Stutters, vars, cpuVars, Latest, Sent, Running
      <3> QED
        BY <3>1, StutterMaps
    <2> QED
      BY <2>1, CpuMaps, KernelMaps DEF Next
  <1> QED
    BY <1>1, <1>2, IInvHolds, PTL DEF Spec, RefinesMachine, M!Spec
=============================================================================
