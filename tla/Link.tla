--------------------------------- MODULE Link ---------------------------------
(***************************************************************************)
(* What a connection between two modules promises, and what Shared takes   *)
(* for granted of the sockets it models as queues of messages: each        *)
(* message is handled whole and once, those of one sender in the order it  *)
(* sent them. The messages a sender sends are distinct.                    *)
(***************************************************************************)
EXTENDS Naturals, Sequences, FiniteSets

CONSTANT Sender

VARIABLES
    outbox,     \* what each sender sends, fixed
    received    \* what the other end has handled

Handled(s) ==
    Cardinality({i \in DOMAIN outbox[s] :
                    \E j \in DOMAIN received : received[j] = outbox[s][i]})

Deliver(s) ==
    /\ Handled(s) < Len(outbox[s])
    /\ received' = Append(received, outbox[s][Handled(s) + 1])
    /\ UNCHANGED outbox

Init == received = <<>>

Spec == Init /\ [][\E s \in Sender : Deliver(s)]_<<outbox, received>>
=============================================================================
