---------------------------- MODULE LocalStreams -----------------------------
(***************************************************************************)
(* The client's store of streams and what its websocket read loop does to  *)
(* it for Data and End (ownserver/src/lib.rs), the same for TCP and UDP.   *)
(* A stream has an entry in the store, a queue that the entry sends to, a  *)
(* task that forwards the queue to the local socket, and for an End the    *)
(* task that closes it.                                                    *)
(***************************************************************************)
EXTENDS Tunnel

CONSTANTS
    Streams,
    Close        \* StreamMessage::Close in a queue; also: no data in a packet

VARIABLES
    locals,      \* Store.streams has an entry
    local_write, \* forward_to_local_*: "none", "running", "ended"
    queue,       \* its UnboundedReceiver
    closer       \* tasks spawned for End: some before remove_stream ("remove",
                 \* the later ones find nothing), one in its "sleep"

store_vars == <<locals, local_write, queue, closer>>

Init_(s)    == [type |-> "Init", stream |-> s, data |-> Close]
Data(s, x)  == [type |-> "Data", stream |-> s, data |-> x]
End(s)      == [type |-> "End", stream |-> s, data |-> Close]
Refused(s)  == [type |-> "Refused", stream |-> s, data |-> Close]
Packet(Payload) == [type : {"Init", "Data", "End", "Refused"},
                    stream : Streams, data : Payload \union {Close}]

StoreTypeOK(Payload) ==
    /\ TunnelTypeOK(Packet(Payload))
    /\ locals \in [Streams -> BOOLEAN]
    /\ local_write \in [Streams -> {"none", "running", "ended"}]
    /\ queue \in [Streams -> Seq(Payload \union {Close})]
    /\ closer \in [Streams -> SUBSET {"remove", "sleep"}]

StoreInit ==
    /\ TunnelInit
    /\ locals = [s \in Streams |-> FALSE]
    /\ local_write = [s \in Streams |-> "none"]
    /\ queue = [s \in Streams |-> <<>>]
    /\ closer = [s \in Streams |-> {}]

\* The read loop takes the next packet, which is of this type.
Arrives(type) ==
    session /\ to_client # <<>> /\ Head(to_client).type = type

\* add_stream, and the task that forwards its queue.
AddStream(s) ==
    /\ locals' = [locals EXCEPT ![s] = TRUE]
    /\ local_write' = [local_write EXCEPT ![s] = "running"]
    /\ UNCHANGED <<queue, closer>>

\* Data: to the queue; no stream: Refused; if that cannot be sent, or nobody
\* reads the queue, the error ends the session.
HandleData ==
    LET s == Head(to_client).stream
    IN /\ \/ /\ locals[s] /\ local_write[s] = "running"
             /\ queue' = [queue EXCEPT ![s] = Append(@, Head(to_client).data)]
             /\ to_client' = Tail(to_client)
             /\ UNCHANGED <<to_server, session>>
          \/ /\ ~ locals[s]
             /\ SendToServer(Refused(s))
             /\ to_client' = Tail(to_client)
             /\ UNCHANGED <<queue, session>>
          \/ /\ ~ locals[s]
             /\ SendToServerFails
             /\ SessionEnds
             /\ UNCHANGED queue
          \/ /\ locals[s] /\ local_write[s] = "ended"
             /\ SessionEnds
             /\ UNCHANGED <<queue, to_server>>
       /\ UNCHANGED <<connected, ws_vars, locals, local_write, closer>>

\* Mutant: End is ignored.
HandleEndIgnored ==
    /\ to_client' = Tail(to_client)
    /\ UNCHANGED <<tunnel_vars, to_server, store_vars>>

\* End: spawn a task that closes the stream.
HandleEnd ==
    /\ closer' = [closer EXCEPT ![Head(to_client).stream] = @ \union {"remove"}]
    /\ to_client' = Tail(to_client)
    /\ UNCHANGED <<tunnel_vars, to_server, locals, local_write, queue>>

\* The task: remove_stream, and if there was one, sleep.
CloserRemoves(s) ==
    /\ "remove" \in closer[s]
    /\ closer' = [closer EXCEPT ![s] = (@ \ {"remove"})
                                       \union {x \in {"sleep"} : locals[s]}]
    /\ locals' = [locals EXCEPT ![s] = FALSE]
    /\ UNCHANGED <<local_write, queue>>

\* ... five seconds, then StreamMessage::Close.
CloserCloses(s) ==
    /\ "sleep" \in closer[s]
    /\ closer' = [closer EXCEPT ![s] = @ \ {"sleep"}]
    /\ queue' = [queue EXCEPT ![s] =
                    IF local_write[s] = "running" THEN Append(@, Close) ELSE @]
    /\ UNCHANGED <<locals, local_write>>

\* Mutant: the message is looked at and stays in the queue.
RestPeeked(q) == q

\* queue.next() takes the first message out.
Rest(q) == Tail(q)

\* The next message for the local socket is data.
HasData(s) ==
    local_write[s] = "running" /\ queue[s] # <<>> /\ Head(queue[s]) # Close

\* The forwarding task stops on Close or when every sender is dropped.
QueueCloses(s) ==
    /\ local_write[s] = "running"
    /\ IF queue[s] = <<>> THEN ~ locals[s] /\ "sleep" \notin closer[s]
                          ELSE Head(queue[s]) = Close
    /\ local_write' = [local_write EXCEPT ![s] = "ended"]
    /\ UNCHANGED <<locals, queue, closer>>
==============================================================================
