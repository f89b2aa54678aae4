-------------------------------- MODULE Framing --------------------------------
(***************************************************************************)
(* Packages on a socket (src/shared): a header, a size of four bytes and a *)
(* payload go out in three calls of send_all, and the other end reads them *)
(* back with recv_all, in pieces of whatever size send and recv take. The  *)
(* links are the three that carry commands and PCBs: "console" (console to *)
(* kernel), "dispatch" (CPU to kernel) and "memory" (kernel to memory).    *)
(*                                                                         *)
(* A cell of the wire is a byte of a header or of a size, or a whole       *)
(* integer or text of a payload; the size counts cells.                    *)
(***************************************************************************)
EXTENDS Integers, Sequences, FiniteSets, SequencesExt

CONSTANTS
    Sender,     \* threads that write to a link
    Scenario,   \* for each link examined, the messages each sender sends
    Capacity    \* bound: cells the socket buffers before send blocks

VARIABLES
    link,       \* the link examined
    next,       \* messages each sender has begun to send
    pending,    \* what its send_all calls have still to send
    wire,       \* the cells in the socket
    phase,      \* what the reader waits for
    header,     \* the header it read
    need,       \* cells recv_all still wants, those in got included
    got,        \* cells of the field it is reading
    received    \* the messages its handler has acted on

vars == <<link, next, pending, wire, phase, header, need, got, received>>
reader == <<phase, header, need, got, received>>

Outbox(s) == Scenario[link][s]

\* t_operation_code, as far as these links go.
OperationCode ==
    [INTERRUPT |-> 3, CREATE_PROCESS |-> 8, FINISH_PROCESS |-> 10, STOP_PLANNING |-> 13,
     START_PLANNING |-> 14, SHOW_ALL_PROCESSES |-> 16, WAIT_REQUEST |-> 34,
     SLEEP_REQUEST |-> 35, SIGNAL_REQUEST |-> 36]

Header == DOMAIN OperationCode

\* Headers that travel alone: send_header.
Bare == {"STOP_PLANNING", "START_PLANNING", "SHOW_ALL_PROCESSES"}

-----------------------------------------------------------------------------
(***************************************************************************)
(* Serialization                                                           *)
(***************************************************************************)

\* add_pcb_to_buffer: the fields and how each is added.
PcbAdded ==
    << <<"pid", "int">>, <<"program_counter", "int">>, <<"quantum", "int">>, <<"size", "int">>,
       <<"cpu_register", "ints">>, <<"resources", "strings">>, <<"table_pages", "int">>,
       <<"path", "string">>, <<"state", "int">>, <<"client_socket", "int">> >>

\* Mutant: quantum and size are taken in the order t_pcb declares them.
PcbTakenAsDeclared ==
    << <<"pid", "int">>, <<"program_counter", "int">>, <<"size", "int">>, <<"quantum", "int">>,
       <<"cpu_register", "ints">>, <<"resources", "strings">>, <<"table_pages", "int">>,
       <<"path", "string">>, <<"state", "int">>, <<"client_socket", "int">> >>

\* take_pcb_from_buffer: the fields and how each is taken.
PcbTaken ==
    << <<"pid", "int">>, <<"program_counter", "int">>, <<"quantum", "int">>, <<"size", "int">>,
       <<"cpu_register", "ints">>, <<"resources", "strings">>, <<"table_pages", "int">>,
       <<"path", "string">>, <<"state", "int">>, <<"client_socket", "int">> >>

\* send_process, send_process_id, send_pcb, send_pcb_and_resource, send_sleep.
Added ==
    [console |-> [CREATE_PROCESS |-> << <<"path", "string">> >>,
                  FINISH_PROCESS |-> << <<"pid", "int">> >>],
     dispatch |-> [FINISH_PROCESS |-> PcbAdded,
                   INTERRUPT |-> PcbAdded,
                   WAIT_REQUEST |-> Append(PcbAdded, <<"resource", "string">>),
                   SIGNAL_REQUEST |-> Append(PcbAdded, <<"resource", "string">>),
                   SLEEP_REQUEST |-> Append(PcbAdded, <<"sleep_time", "int">>)],
     memory |-> [CREATE_PROCESS |-> PcbAdded, FINISH_PROCESS |-> PcbAdded]]

\* What the handler at the other end of each link takes. The memory's handler
\* of FINISH_PROCESS is not here: see ReceiveHeader.
Taken ==
    [console |-> [CREATE_PROCESS |-> << <<"path", "string">> >>,
                  FINISH_PROCESS |-> << <<"pid", "int">> >>],
     dispatch |-> [FINISH_PROCESS |-> PcbTaken,
                   INTERRUPT |-> PcbTaken,
                   WAIT_REQUEST |-> Append(PcbTaken, <<"resource", "string">>),
                   SIGNAL_REQUEST |-> Append(PcbTaken, <<"resource", "string">>),
                   SLEEP_REQUEST |-> Append(PcbTaken, <<"sleep_time", "int">>)],
     memory |-> [CREATE_PROCESS |-> PcbTaken]]

\* add_string_to_buffer: the length, its NUL included, then text and NUL.
AddString(text) == <<2, text, 0>>

AddField(kind, value) ==
    CASE kind = "int"     -> <<value>>
      [] kind = "string"  -> AddString(value)
      [] kind = "ints"    -> <<Len(value)>> \o value
      [] kind = "strings" ->
            <<Len(value)>> \o FlattenSeq([i \in DOMAIN value |-> AddString(value[i])])

Payload(message) ==
    LET fields == Added[link][message.header]
    IN  FlattenSeq([i \in DOMAIN fields |-> AddField(fields[i][2], message[fields[i][1]])])

\* buffer_take reads where offset points, be it behind the end of the stream.
Cell(stream, position) == IF position \in DOMAIN stream THEN stream[position] ELSE 0

\* take_string_from_buffer: where it ends, and the text.
AfterString(stream, offset) == offset + 1 + Cell(stream, offset + 1)
Text(stream, offset) == Cell(stream, offset + 2)

\* take_list_from_buffer of texts: where each of them ends.
Ends(stream, offset) ==
    LET end[i \in 0 .. Cell(stream, offset + 1)] ==
            IF i = 0 THEN offset + 1 ELSE AfterString(stream, end[i - 1])
    IN  end

\* The offset a take function leaves, and the value it returns.
After(kind, stream, offset) ==
    CASE kind = "int"     -> offset + 1
      [] kind = "string"  -> AfterString(stream, offset)
      [] kind = "ints"    -> offset + 1 + Cell(stream, offset + 1)
      [] kind = "strings" -> Ends(stream, offset)[Cell(stream, offset + 1)]

TakenValue(kind, stream, offset) ==
    CASE kind = "int"     -> Cell(stream, offset + 1)
      [] kind = "string"  -> Text(stream, offset)
      [] kind = "ints"    ->
            [i \in 1 .. Cell(stream, offset + 1) |-> Cell(stream, offset + 1 + i)]
      [] kind = "strings" ->
            [i \in 1 .. Cell(stream, offset + 1) |->
                Text(stream, Ends(stream, offset)[i - 1])]

\* The offset of the buffer before the first field and behind each of them.
Offsets(name, stream) ==
    LET fields == Taken[link][name]
        offset[i \in 0 .. Len(fields)] ==
            IF i = 0 THEN 0 ELSE After(fields[i][2], stream, offset[i - 1])
    IN  offset

TakeMessage(name, stream) ==
    LET fields == Taken[link][name]
        position(f) == CHOOSE i \in DOMAIN fields : fields[i][1] = f
    IN  [f \in {"header"} \cup {fields[i][1] : i \in DOMAIN fields} |->
            IF f = "header" THEN name
            ELSE TakenValue(fields[position(f)][2], stream,
                            Offsets(name, stream)[position(f) - 1])]

-----------------------------------------------------------------------------
(***************************************************************************)
(* The sending end                                                         *)
(***************************************************************************)

SizeBytes(n) == <<n % 256, (n \div 256) % 256, (n \div 65536) % 256, n \div 16777216>>
SizeOf(bytes) == bytes[1] + 256 * bytes[2] + 65536 * bytes[3] + 16777216 * bytes[4]

\* create_package and what fills it; then send_package makes three calls of
\* send_all, send_header one.
BuildPackage(s) ==
    /\ pending[s] = <<>>
    /\ next[s] < Len(Outbox(s))
    /\ LET message == Outbox(s)[next[s] + 1]
           code == <<OperationCode[message.header]>>
       IN  pending' = [pending EXCEPT ![s] =
               IF message.header \in Bare THEN <<code>>
               ELSE <<code, SizeBytes(Len(Payload(message))), Payload(message)>>]
    /\ next' = [next EXCEPT ![s] = @ + 1]
    /\ UNCHANGED <<link, wire, reader>>

\* Mutant: send_all does not go on after a short send.
SendOnce(s) ==
    /\ pending[s] # <<>>
    /\ \E n \in 1 .. Len(Head(pending[s])) :
          /\ Len(wire) + n <= Capacity
          /\ wire' = wire \o SubSeq(Head(pending[s]), 1, n)
          /\ pending' = [pending EXCEPT ![s] = Tail(@)]
    /\ UNCHANGED <<link, next, reader>>

\* One send of send_all's loop: it takes as many cells as it likes.
Send(s) ==
    /\ pending[s] # <<>>
    /\ \E n \in 1 .. Len(Head(pending[s])) :
          /\ Len(wire) + n <= Capacity
          /\ wire' = wire \o SubSeq(Head(pending[s]), 1, n)
          /\ pending' = [pending EXCEPT ![s] =
                 IF n = Len(Head(@)) THEN Tail(@)
                 ELSE <<SubSeq(Head(@), n + 1, Len(Head(@)))>> \o Tail(@)]
    /\ UNCHANGED <<link, next, reader>>

-----------------------------------------------------------------------------
(***************************************************************************)
(* The receiving end                                                       *)
(***************************************************************************)

\* receive_header and the switch of the link's handler. The memory's
\* handle_finish_process reads from the address of the function socket, for it
\* has no parameter of that name: recv fails, recv_all takes the -1 for a size
\* and calls recv for ever ("spin"). The default case logs and reads on, except
\* that the dispatch thread returns.
ReceiveHeader ==
    /\ phase = "header"
    /\ wire # <<>>
    /\ wire' = Tail(wire)
    /\ LET names == {h \in Header : OperationCode[h] = Head(wire)}
           default == IF link = "dispatch" THEN "returned" ELSE "header"
       IN  IF link = "console" /\ names \cap Bare # {}
           THEN /\ received' = Append(received, [header |-> CHOOSE h \in names : TRUE])
                /\ UNCHANGED <<phase, header, need>>
           ELSE IF names \cap DOMAIN Taken[link] # {}
           THEN /\ phase' = "size"
                /\ header' = CHOOSE h \in names : TRUE
                /\ need' = 4
                /\ UNCHANGED received
           ELSE /\ phase' = IF link = "memory" /\ "FINISH_PROCESS" \in names
                            THEN "spin" ELSE default
                /\ UNCHANGED <<header, need, received>>
    /\ UNCHANGED <<link, next, pending, got>>

\* One recv of recv_all's loop, in the size or in the payload.
Receive ==
    /\ phase \in {"size", "payload"}
    /\ Len(got) < need
    /\ \E n \in 1 .. Len(wire) :
          /\ n <= need - Len(got)
          /\ got' = got \o SubSeq(wire, 1, n)
          /\ wire' = SubSeq(wire, n + 1, Len(wire))
    /\ UNCHANGED <<link, next, pending, phase, header, need, received>>

\* receive_payload has the size: create_buffer, then the stream.
ReceiveSize ==
    /\ phase = "size"
    /\ Len(got) = need
    /\ phase' = "payload"
    /\ need' = SizeOf(got)
    /\ got' = <<>>
    /\ UNCHANGED <<link, next, pending, wire, header, received>>

\* The take functions and the handler. Taking behind the end of the stream is
\* undefined; the reader stops there.
HandlePackage ==
    /\ phase = "payload"
    /\ Len(got) = need
    /\ IF Offsets(header, got)[Len(Taken[link][header])] <= Len(got)
       THEN phase' = "header" /\ received' = Append(received, TakeMessage(header, got))
       ELSE phase' = "undefined" /\ UNCHANGED received
    /\ need' = 0
    /\ got' = <<>>
    /\ UNCHANGED <<link, next, pending, wire, header>>

-----------------------------------------------------------------------------

Init ==
    /\ link \in DOMAIN Scenario
    /\ next = [s \in Sender |-> 0]
    /\ pending = [s \in Sender |-> <<>>]
    /\ wire = <<>>
    /\ phase = "header"
    /\ header = "FINISH_PROCESS"
    /\ need = 0
    /\ got = <<>>
    /\ received = <<>>

Writer(s) == BuildPackage(s) \/ Send(s)
Reader == ReceiveHeader \/ Receive \/ ReceiveSize \/ HandlePackage

Next == Reader \/ \E s \in Sender : Writer(s)

Fairness == WF_vars(Reader) /\ \A s \in Sender : WF_vars(Writer(s))

Spec == Init /\ [][Next]_vars /\ Fairness

-----------------------------------------------------------------------------
(***************************************************************************)
(* Properties                                                              *)
(***************************************************************************)

\* Whatever send and recv take at a time, the other end acts on the messages
\* that were sent, whole and in order (sockets.c:73-170, process.c:70-161).
PromisedLink == INSTANCE Link WITH outbox <- Scenario[link]
RefinesLink == PromisedLink!Spec

Everything == Len(received) = Cardinality(UNION {{s} \X DOMAIN Outbox(s) : s \in Sender})

\* Every message is acted on in the end, or the memory's thread has met the
\* FINISH_PROCESS it does not survive (memory/src/handle_connection.c:169-171).
Delivered == <>(Everything \/ phase = "spin")

\* The other end acts on nothing that was not sent and takes nothing from
\* behind the end of a payload (kernel/src/semaphores.c:32, queues.c:197).
WellFramed ==
    /\ phase # "undefined"
    /\ ToSet(received) \subseteq UNION {ToSet(Outbox(s)) : s \in Sender}
=============================================================================
