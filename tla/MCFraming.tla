------------------------------ MODULE MCFraming ------------------------------
(***************************************************************************)
(* Instances of Framing for TLC: what the console, the CPU and the kernel  *)
(* send in the scenarios of test/ and scripts/, one message of each shape. *)
(***************************************************************************)
EXTENDS Framing

Thread == {"first", "second"}

\* create_pcb: four registers, no resource, state NEW; and a PCB the CPU sends
\* back, in state EXECUTION. quantum and size differ, as do the four texts.
Created(pid) ==
    [pid |-> pid, program_counter |-> 0, quantum |-> 5, size |-> 0,
     cpu_register |-> <<0, 0, 0, 0>>, resources |-> <<>>, table_pages |-> 0,
     path |-> 7, state |-> 0, client_socket |-> 9]

Executed(pid, resources) ==
    [Created(pid) EXCEPT !.program_counter = 3, !.cpu_register = <<1, 0, 2, 0>>,
                         !.resources = resources, !.state = 2]

ConsoleMessages ==
    <<[header |-> "CREATE_PROCESS", path |-> 7], [header |-> "START_PLANNING"],
      [header |-> "FINISH_PROCESS", pid |-> 0], [header |-> "SHOW_ALL_PROCESSES"],
      [header |-> "STOP_PLANNING"]>>

DispatchMessages ==
    <<[header |-> "WAIT_REQUEST", resource |-> 4] @@ Executed(0, <<>>),
      [header |-> "SLEEP_REQUEST", sleep_time |-> 6] @@ Executed(0, <<4>>),
      [header |-> "INTERRUPT"] @@ Executed(1, <<>>),
      [header |-> "FINISH_PROCESS"] @@ Executed(0, <<4, 3>>)>>

MemoryMessages ==
    <<[header |-> "CREATE_PROCESS"] @@ Created(0),
      [header |-> "FINISH_PROCESS"] @@ Executed(0, <<4>>)>>

Alone(messages) == [first |-> messages, second |-> <<>>]

EachLink ==
    [console |-> Alone(ConsoleMessages), dispatch |-> Alone(DispatchMessages),
     memory |-> Alone(MemoryMessages)]

\* Two consoles create a process each.
TwoConsoles ==
    [memory |-> [first |-> <<[header |-> "CREATE_PROCESS"] @@ Created(0)>>,
                 second |-> <<[header |-> "CREATE_PROCESS"] @@ Created(1)>>]]
=============================================================================
