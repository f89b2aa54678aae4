------------------------------ MODULE MCSystem ------------------------------
(***************************************************************************)
(* Instances of System for TLC: programs and scripts in the shape of the   *)
(* repository's test/ and scripts/ files, shortened.                       *)
(***************************************************************************)
EXTENDS System

Cpu1 == [op |-> "CPU"]
Sleep == [op |-> "SLEEP"]
Exit == [op |-> "EXIT"]
Wait(r) == [op |-> "WAIT", resource |-> r]
Signal(r) == [op |-> "SIGNAL", resource |-> r]

Create(path) == [op |-> "CREATE_PROCESS", path |-> path]
Kill(pid) == [op |-> "FINISH_PROCESS", pid |-> pid, after |-> FALSE]
KillAfter(pid) == [op |-> "FINISH_PROCESS", pid |-> pid, after |-> TRUE]
Stop == [op |-> "STOP_PLANNING"]
Start == [op |-> "START_PLANNING"]
SetDegree(n) == [op |-> "MODIFY_MULTIPROGRAMMING_DEGREE", degree |-> n]

OneInstance == <<1>>
TwoResources == <<1, 1>>

\* test/PLANI_3 and test/DEADLOCK_A, _B shortened, test/ERROR_1 and _2 (a
\* resource that is not configured), and processes that retain a resource while
\* asleep, that use one, that signal one they lack, or twice the one they
\* have, and that hold one when they ask for what is not configured.
MCPrograms ==
    [plain |-> <<Cpu1, Exit>>,
     retainer |-> <<Wait(1), Sleep, Exit>>,
     user |-> <<Wait(1), Cpu1, Signal(1), Exit>>,
     taker |-> <<Wait(1), Exit>>,
     twice |-> <<Wait(1), Cpu1, Signal(1), Signal(1), Exit>>,
     invalid |-> <<Wait(1), Wait(9), Exit>>,
     error1 |-> <<Wait(9), Exit>>,
     error2 |-> <<Signal(9), Exit>>,
     unheld |-> <<Signal(1), Exit>>,
     deadlockA |-> <<Wait(1), Sleep, Wait(2), Exit>>,
     signaller |-> <<Wait(1), Sleep, Wait(2), Sleep, Signal(2), Signal(1), Exit>>,
     deadlockB |-> <<Wait(2), Sleep, Wait(1), Exit>>]

OneConsole == {"console"}
TwoConsoles == {"console", "second"}

FifoScript ==
    [console |-> <<Create("retainer"), Start, Create("retainer"), Create("user")>>]
RoundRobinScript ==
    [console |-> <<Create("twice"), Create("invalid"), Start, SetDegree(2), Stop>>]
DeadlockScript ==
    [console |-> <<Create("deadlockA"), Create("deadlockB"), Start, KillAfter(0),
                 Create("unheld"), Create("error1"), Create("error2")>>]

\* scripts/2-resources/FINISH_PROCESS_TEST from a second console: the kill
\* may come while the first one is still creating, or at any later moment.
RaceScript ==
    [console |-> <<Create("retainer"), Create("taker"), Start>>, second |-> <<Kill(0)>>]

\* The menu of the console: 1, 3, 4, 2, 1 and 3 again.
StopScript ==
    [console |-> <<Create("plain"), Start, Stop, Kill(1), Create("plain"), Start>>]
\* test/DEADLOCK_A on its own.
MintScript == [console |-> <<Create("signaller"), Start>>]
\* scripts/1-base-round-robin/TEST_1.
WedgeScript == [console |-> <<Create("plain"), Create("plain"), Start>>]
=============================================================================
