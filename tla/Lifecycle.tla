------------------------------- MODULE Lifecycle -------------------------------
(***************************************************************************)
(* What the scheduler promises: every process is in one stage of the       *)
(* seven-state diagram, moves only along its arrows, at most one executes  *)
(* and at most Degree are admitted.                                        *)
(***************************************************************************)
EXTENDS Naturals, FiniteSets

CONSTANTS Pid, Degree

VARIABLE stage

Stage == {"absent", "new", "ready", "exec", "blocked", "asleep", "exit"}

Admitted == {p \in Pid : stage[p] \in {"ready", "exec", "blocked", "asleep"}}
Executing == {p \in Pid : stage[p] = "exec"}

TypeOK == stage \in [Pid -> Stage]

Init == stage = [p \in Pid |-> "absent"]

Move(p, from, to) == stage[p] = from /\ stage' = [stage EXCEPT ![p] = to]

Create(p) == Move(p, "absent", "new")
Admit(p) == Cardinality(Admitted) < Degree /\ Move(p, "new", "ready")
Dispatch(p) == Executing = {} /\ Move(p, "ready", "exec")
Preempt(p) == Move(p, "exec", "ready")
Block(p) == Move(p, "exec", "blocked")
Wake(p) == Move(p, "blocked", "ready")
Sleep(p) == Move(p, "exec", "asleep")
Awake(p) == Move(p, "asleep", "ready")
Exit(p) == Move(p, "exec", "exit")
Kill(p) == stage[p] \in {"new", "blocked"} /\ stage' = [stage EXCEPT ![p] = "exit"]

Next == \E p \in Pid :
    \/ Create(p) \/ Admit(p) \/ Dispatch(p) \/ Preempt(p) \/ Block(p)
    \/ Wake(p) \/ Sleep(p) \/ Awake(p) \/ Exit(p) \/ Kill(p)

Spec == Init /\ [][Next]_stage
=============================================================================
