------------------------------ MODULE MCNetwork ------------------------------
(***************************************************************************)
(* Instances of Network for TLC: two sessions of a user.                   *)
(***************************************************************************)
EXTENDS Network

Create == [command |-> "CREATE_PROCESS", argument |-> TRUE]
Plans == [command |-> "START_PLANNING", argument |-> FALSE]

\* scripts/3-memory/TEST_3: a command without argument first, and again last.
Repeated == [lines |-> <<Plans, Create, Plans>>, file |-> TRUE]

\* The menu.
Interactive == [lines |-> <<Create, Plans, Create>>, file |-> FALSE]

MCSessions == {Repeated, Interactive}
=============================================================================
