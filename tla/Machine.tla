-------------------------------- MODULE Machine --------------------------------
(***************************************************************************)
(* What a process is promised while kernel and CPU pass its PCB to and     *)
(* fro: its program runs in order on registers of 32 bits that wrap, as if *)
(* nothing had moved it. The one thing that takes it back is a WAIT that   *)
(* blocks: then it goes on from where it was last dispatched.              *)
(***************************************************************************)
EXTENDS Integers, Sequences

CONSTANT Half       \* 2^31 of an int of 32 bits

VARIABLES
    program,    \* the instructions of the process, fixed
    now,        \* its counter and registers
    saved,      \* those it had when it was last dispatched
    ended       \* it has finished

vars == <<program, now, saved, ended>>

Modulus == 2 * Half
Register == 1 .. 4

\* Past the end the last instruction is fetched again.
Fetched(counter) ==
    program[IF counter < Len(program) THEN counter + 1 ELSE Len(program)]

Current == Fetched(now.counter)

\* JNZ does not jump: the value goes in front of the register it tests.
Inserted(registers, r, value) ==
    [j \in Register |-> IF j < r THEN registers[j]
                        ELSE IF j = r THEN value ELSE registers[j - 1]]

Result(instruction, registers) ==
    LET r == instruction.to
        x == registers[r]
    IN  CASE instruction.op = "SET" -> [registers EXCEPT ![r] = instruction.value % Modulus]
          [] instruction.op = "SUM" ->
                [registers EXCEPT ![r] = (x + registers[instruction.from]) % Modulus]
          [] instruction.op = "SUB" ->
                [registers EXCEPT ![r] = (x - registers[instruction.from]) % Modulus]
          [] instruction.op = "JNZ" ->
                IF x = 0 THEN registers
                ELSE Inserted(registers, r, instruction.value % Modulus)

Advanced(state) == [state EXCEPT !.counter = @ + 1]

Init ==
    /\ now = [counter |-> 0, register |-> [r \in Register |-> 0]]
    /\ saved = now
    /\ ended = FALSE

Compute ==
    /\ Current.op \in {"SET", "SUM", "SUB", "JNZ"}
    /\ now' = Advanced([now EXCEPT !.register = Result(Current, @)])
    /\ UNCHANGED <<program, saved, ended>>

\* MOV_IN, MOV_OUT, the F_ instructions and NO_OP.
Idle ==
    /\ Current.op = "NO_OP"
    /\ now' = Advanced(now)
    /\ UNCHANGED <<program, saved, ended>>

\* A quantum ends, or a SLEEP begins.
Save ==
    /\ saved' = now
    /\ UNCHANGED <<program, now, ended>>

Awake ==
    /\ Current.op = "SLEEP"
    /\ now = saved
    /\ now' = Advanced(now)
    /\ saved' = now'
    /\ UNCHANGED <<program, ended>>

\* A WAIT is granted, a SIGNAL accepted.
Pass ==
    /\ Current.op \in {"WAIT", "SIGNAL"}
    /\ now' = Advanced(now)
    /\ UNCHANGED <<program, saved, ended>>

SetBack ==
    /\ Current.op = "WAIT"
    /\ now' = saved
    /\ UNCHANGED <<program, saved, ended>>

\* EXIT, or a resource that is not there or not held; what travelled is dropped.
End ==
    /\ Current.op \in {"EXIT", "WAIT", "SIGNAL"}
    /\ ended' = TRUE
    /\ now' = saved
    /\ UNCHANGED <<program, saved>>

Next ==
    /\ ~ended
    /\ Compute \/ Idle \/ Save \/ Awake \/ Pass \/ SetBack \/ End

Spec == Init /\ [][Next]_vars
=============================================================================
