----------------------------- MODULE MCExecution -----------------------------
(***************************************************************************)
(* Instances of Execution for TLC: programs in the shape of test/, with    *)
(* integers of three bits so that sums overflow.                           *)
(***************************************************************************)
EXTENDS Execution

SetTo(r, x) == [op |-> "SET", to |-> r, value |-> x]
SumOf(r, s) == [op |-> "SUM", to |-> r, from |-> s]
SubOf(r, s) == [op |-> "SUB", to |-> r, from |-> s]
JnzOf(r, x) == [op |-> "JNZ", to |-> r, value |-> x]
Do(op) == [op |-> op]

\* test/DEADLOCK_A: waits, sleeps, waits again, sums and gives back.
Deadlock ==
    <<SetTo(1, 1), Do("WAIT"), Do("SLEEP"), Do("WAIT"), SetTo(2, 1), SumOf(1, 2),
      Do("SLEEP"), Do("SIGNAL"), Do("EXIT")>>

\* test/PLANI_2 with values that overflow, below zero and above.
Overflow ==
    <<SetTo(1, 3), SetTo(2, 2), SumOf(1, 2), SubOf(3, 1), SumOf(3, 1), JnzOf(3, 2),
      JnzOf(1, -1), SubOf(2, 3), Do("NO_OP"), SumOf(4, 2), Do("EXIT")>>

\* Two requests in one stay on the CPU.
Greedy ==
    <<SetTo(1, -1), Do("WAIT"), SumOf(1, 1), JnzOf(1, 3), Do("WAIT"), SubOf(2, 1),
      Do("SIGNAL"), Do("EXIT")>>

MCPrograms == {Deadlock, Overflow, Greedy}
=============================================================================
