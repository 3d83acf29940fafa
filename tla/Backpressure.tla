----------------------------- MODULE Backpressure -----------------------------
(***************************************************************************)
(* Who waits for whom when buffers are full.  A websocket takes Room       *)
(* packets each way; then a write waits.  The server writes to a client    *)
(* under the write lock of Store.clients and to a remote user under that   *)
(* of Store.streams (store.rs); a client writes to the server under its    *)
(* mutex Store.client (ownserver/src/lib.rs).  The read loops at both ends *)
(* answer under the same locks, and while one of them waits, it reads      *)
(* nothing.                                                                *)
(*                                                                         *)
(* The websockets stay up here: ServerStreams and ClientSession say what   *)
(* happens when one breaks, which ends every write to it.  A task that     *)
(* waits for a lock with nothing in hand is one that has not begun; what   *)
(* is kept apart is a task that keeps others waiting while it waits.       *)
(***************************************************************************)
EXTENDS Naturals, Sequences

CONSTANTS
    Clients,   \* connected clients
    Expired,   \* clients in the map whose window is over
    Room       \* bound: packets that a websocket takes each way

ASSUME RoomAssumption == Room \in Nat \ {0}

VARIABLES
    \* server
    clients_lock,   \* Store.clients: Free, Scan, or a task and the client it
                    \* writes to; a reader for a moment is not seen
    streams_lock,   \* Store.streams: the clients whose read loop writes under it
    read_loop,      \* client_read_loop (client.rs)
    expired,        \* clients of Expired still in the map
    cleanup, uncut, \* phase of Store::cleanup; clients its scan has yet to cut
    \* the websockets
    to_client, to_server,
    \* client
    answer,         \* the answer that its read loop is about to send
    mutex           \* Store.client: "free", or who writes under it

store_vars == <<clients_lock, streams_lock>>
cleanup_vars == <<expired, cleanup, uncut>>
client_vars == <<answer, mutex>>
vars == <<store_vars, read_loop, cleanup_vars, to_client, to_server,
          client_vars>>

Free == <<>>
Scan == <<"scan">>
Senders == {"ping", "remote", "read_loop"}

Buffer(kinds) == {s \in Seq(kinds) : Len(s) <= Room}

TypeOK ==
    /\ clients_lock \in {Free, Scan} \union (Senders \X Clients)
    /\ streams_lock \in SUBSET Clients
    /\ read_loop \in [Clients -> {"reading", "answering", "writing", "disabling"}]
    /\ expired \in SUBSET Expired /\ uncut \in SUBSET Expired
    /\ cleanup \in {"sleeping", "scanning", "retaining", "sweeping"}
    /\ to_client \in [Clients -> Buffer({"Ping", "Pong", "Stream"})]
    /\ to_server \in [Clients -> Buffer({"Ping", "Pong", "Refused", "Data"})]
    /\ answer \in [Clients -> {"none", "Pong", "Refused"}]
    /\ mutex \in [Clients -> {"free", "read_loop", "ping", "local"}]

Init ==
    /\ clients_lock = Free /\ streams_lock = {}
    /\ read_loop = [c \in Clients |-> "reading"]
    /\ expired = Expired /\ cleanup = "sleeping" /\ uncut = {}
    /\ to_client = [c \in Clients |-> <<>>]
    /\ to_server = [c \in Clients |-> <<>>]
    /\ answer = [c \in Clients |-> "none"]
    /\ mutex = [c \in Clients |-> "free"]
------------------------------------------------------------------------------
(* Server: Store::send_to_client *)

\* A task gets the write lock of the clients in order to write to c.
Take(task, c) ==
    /\ clients_lock = Free
    /\ clients_lock' = <<task, c>>
    /\ UNCHANGED streams_lock

\* Mutant: the write does not wait for room.
WrittenAnyway(task, c, packet) ==
    /\ clients_lock = <<task, c>>
    /\ to_client' = [to_client EXCEPT ![c] = Append(@, packet)]
    /\ clients_lock' = Free
    /\ UNCHANGED streams_lock

\* Its write gets through, and the lock is released.
Written(task, c, packet) ==
    /\ clients_lock = <<task, c>>
    /\ Len(to_client[c]) < Room
    /\ to_client' = [to_client EXCEPT ![c] = Append(@, packet)]
    /\ clients_lock' = Free
    /\ UNCHANGED streams_lock

\* The ping loop: one send_to_client after the other.
PingTakes(c) ==
    /\ Take("ping", c)
    /\ UNCHANGED <<read_loop, cleanup_vars, to_client, to_server,
                   client_vars>>
PingSent(c) ==
    /\ Written("ping", c, "Ping")
    /\ UNCHANGED <<read_loop, cleanup_vars, to_server, client_vars>>

\* A stream of c: its accept task with Init, its read loop with Data or End.
RemoteTakes(c) ==
    /\ Take("remote", c)
    /\ UNCHANGED <<read_loop, cleanup_vars, to_client, to_server,
                   client_vars>>
RemoteSent(c) ==
    /\ Written("remote", c, "Stream")
    /\ UNCHANGED <<read_loop, cleanup_vars, to_server, client_vars>>
------------------------------------------------------------------------------
(* Server: the read loop of a client *)

\* It takes the next packet and turns to what that packet asks for.
ServerReads(c) ==
    /\ read_loop[c] = "reading"
    /\ to_server[c] # <<>>
    /\ to_server' = [to_server EXCEPT ![c] = Tail(@)]
    /\ read_loop' = [read_loop EXCEPT ![c] =
                       CASE Head(to_server[c]) = "Ping"    -> "answering"
                         [] Head(to_server[c]) = "Pong"    -> "reading"
                         [] Head(to_server[c]) = "Data"    -> "writing"
                         [] Head(to_server[c]) = "Refused" -> "disabling"]
    /\ UNCHANGED <<store_vars, cleanup_vars, to_client, client_vars>>

PongTakes(c) ==
    /\ read_loop[c] = "answering"
    /\ Take("read_loop", c)
    /\ UNCHANGED <<read_loop, cleanup_vars, to_client, to_server,
                   client_vars>>
PongSent(c) ==
    /\ Written("read_loop", c, "Pong")
    /\ read_loop' = [read_loop EXCEPT ![c] = "reading"]
    /\ UNCHANGED <<cleanup_vars, to_server, client_vars>>

\* Store::send_to_remote, which keeps the lock of the streams while it writes.
WriteTakes(c) ==
    /\ read_loop[c] = "writing"
    /\ streams_lock = {}
    /\ streams_lock' = {c}
    /\ UNCHANGED <<clients_lock, read_loop, cleanup_vars, to_client,
                   to_server, client_vars>>
\* The remote user's socket takes it, however long that lasts: write_all has no
\* timeout, so a user who stays and does not read lets it wait for ever.
RemoteWritten(c) ==
    /\ streams_lock = {c} /\ read_loop[c] = "writing"
    /\ streams_lock' = {}
    /\ read_loop' = [read_loop EXCEPT ![c] = "reading"]
    /\ UNCHANGED <<clients_lock, cleanup_vars, to_client, to_server,
                   client_vars>>

\* Mutant: disable_remote is called in an arm of the match that still keeps
\* the guard.
WriteFailsUnderLock(c) ==
    /\ streams_lock = {c} /\ read_loop[c] = "writing"
    /\ read_loop' = [read_loop EXCEPT ![c] = "disabling"]
    /\ UNCHANGED <<store_vars, cleanup_vars, to_client, to_server,
                   client_vars>>

\* There is no such stream, or its user has closed the connection.
WriteFails(c) ==
    /\ streams_lock = {c} /\ read_loop[c] = "writing"
    /\ streams_lock' = {}
    /\ read_loop' = [read_loop EXCEPT ![c] = "disabling"]
    /\ UNCHANGED <<clients_lock, cleanup_vars, to_client, to_server,
                   client_vars>>

\* disable_remote; the stream's own read loop ends by it.
Disables(c) ==
    /\ read_loop[c] = "disabling"
    /\ streams_lock = {}
    /\ read_loop' = [read_loop EXCEPT ![c] = "reading"]
    /\ UNCHANGED <<store_vars, cleanup_vars, to_client, to_server,
                   client_vars>>
------------------------------------------------------------------------------
(* Server: Store::cleanup *)

\* The scan keeps the read lock of the clients while it waits for the streams.
ScanTakes ==
    /\ cleanup = "sleeping"
    /\ clients_lock = Free
    /\ clients_lock' = Scan
    /\ cleanup' = "scanning" /\ uncut' = expired
    /\ UNCHANGED <<streams_lock, read_loop, expired, to_client,
                   to_server, client_vars>>
ScanCuts(c) ==
    /\ cleanup = "scanning" /\ c \in uncut
    /\ streams_lock = {}
    /\ uncut' = uncut \ {c}
    /\ UNCHANGED <<store_vars, read_loop, expired, cleanup,
                   to_client, to_server, client_vars>>
ScanEnds ==
    /\ cleanup = "scanning" /\ uncut = {}
    /\ clients_lock' = Free
    /\ cleanup' = "retaining"
    /\ UNCHANGED <<streams_lock, read_loop, expired, uncut, to_client,
                   to_server, client_vars>>
Retain ==
    /\ cleanup = "retaining"
    /\ clients_lock = Free
    /\ expired' = {}
    /\ cleanup' = "sweeping"
    /\ UNCHANGED <<store_vars, read_loop, uncut, to_client, to_server,
                   client_vars>>
Sweep ==
    /\ cleanup = "sweeping"
    /\ streams_lock = {}
    /\ cleanup' = "sleeping"
    /\ UNCHANGED <<store_vars, read_loop, expired, uncut, to_client,
                   to_server, client_vars>>
------------------------------------------------------------------------------
(* Client *)

\* Its read loop takes the next packet.  Data goes to an unbounded queue, or
\* there is no stream for it.  An Init that fails ends the session.
ClientReads(c) ==
    /\ answer[c] = "none"
    /\ to_client[c] # <<>>
    /\ to_client' = [to_client EXCEPT ![c] = Tail(@)]
    /\ \E a \in {"none", "Pong", "Refused"} :
          /\ a = "Pong" <=> Head(to_client[c]) = "Ping"
          /\ a = "Refused" => Head(to_client[c]) = "Stream"
          /\ answer' = [answer EXCEPT ![c] = a]
    /\ UNCHANGED <<store_vars, read_loop, cleanup_vars, to_server,
                   mutex>>

\* Somebody gets the mutex in order to write to the server: the read loop for
\* its answer, the ping task, process_local_tcp for what the service says.
MutexTakes(c, task) ==
    /\ mutex[c] = "free"
    /\ task = "read_loop" => answer[c] # "none"
    /\ mutex' = [mutex EXCEPT ![c] = task]
    /\ UNCHANGED <<store_vars, read_loop, cleanup_vars, to_client,
                   to_server, answer>>

\* Mutant: an answer that does not get through is dropped.
SendOrDrop(c) ==
    /\ mutex[c] # "free"
    /\ to_server' = IF Len(to_server[c]) < Room
                    THEN [to_server EXCEPT ![c] =
                            Append(@, CASE mutex[c] = "read_loop" -> answer[c]
                                        [] mutex[c] = "ping"      -> "Ping"
                                        [] mutex[c] = "local"     -> "Data")]
                    ELSE to_server
    /\ answer' = [answer EXCEPT ![c] = IF mutex[c] = "read_loop" THEN "none" ELSE @]
    /\ mutex' = [mutex EXCEPT ![c] = "free"]
    /\ UNCHANGED <<store_vars, read_loop, cleanup_vars, to_client>>

\* send_to_server: the write gets through, and the mutex is released.
SendToServer(c) ==
    /\ mutex[c] # "free"
    /\ Len(to_server[c]) < Room
    /\ to_server' = [to_server EXCEPT ![c] =
                       Append(@, CASE mutex[c] = "read_loop" -> answer[c]
                                   [] mutex[c] = "ping"      -> "Ping"
                                   [] mutex[c] = "local"     -> "Data")]
    /\ answer' = [answer EXCEPT ![c] = IF mutex[c] = "read_loop" THEN "none" ELSE @]
    /\ mutex' = [mutex EXCEPT ![c] = "free"]
    /\ UNCHANGED <<store_vars, read_loop, cleanup_vars, to_client>>
------------------------------------------------------------------------------
SendToClient(c) == PingSent(c) \/ RemoteSent(c) \/ PongSent(c)
SendToRemote(c) == WriteTakes(c) \/ RemoteWritten(c) \/ WriteFails(c)

Next ==
    \/ \E c \in Clients :
          \/ PingTakes(c) \/ RemoteTakes(c) \/ PongTakes(c)
          \/ SendToClient(c)
          \/ ServerReads(c) \/ SendToRemote(c) \/ Disables(c)
          \/ ClientReads(c) \/ SendToServer(c)
          \/ \E task \in {"read_loop", "ping", "local"} : MutexTakes(c, task)
    \/ \E c \in Expired : ScanCuts(c)
    \/ ScanTakes \/ ScanEnds \/ Retain \/ Sweep

\* What is ready is done.  The locks of tokio are fair queues: who waits gets one
\* that is freed again and again (SF).  Nobody has to ping, to speak, to connect
\* or, of the remote users, to read.
Fairness ==
    /\ \A c \in Clients :
          /\ WF_vars(SendToClient(c)) /\ WF_vars(SendToServer(c))
          /\ WF_vars(ServerReads(c)) /\ WF_vars(ClientReads(c))
          /\ SF_vars(PongTakes(c)) /\ SF_vars(MutexTakes(c, "read_loop"))
          /\ SF_vars(WriteTakes(c) \/ Disables(c))
    /\ \A c \in Expired : SF_vars(ScanCuts(c))
    /\ WF_vars(ScanEnds) /\ SF_vars(Retain) /\ SF_vars(Sweep)

SafetySpec == Init /\ [][Next]_vars
Spec == SafetySpec /\ Fairness
------------------------------------------------------------------------------
\* The cycle: a write to c waits for room, under the lock that c's read loop
\* at the server needs for its own Pong; so nothing is taken from to_server,
\* and at the other end the client's read loop waits to send an answer there
\* before it takes anything from to_client.
Stuck(c) ==
    /\ \E task \in Senders : clients_lock = <<task, c>>
    /\ Len(to_client[c]) = Room
    /\ read_loop[c] = "answering"
    /\ Len(to_server[c]) = Room
    /\ answer[c] # "none"

SomeoneIsStuck == \E c \in Clients : Stuck(c)

\* A remote user of c takes nothing, and the write to it keeps the streams.
Unread(c) == streams_lock = {c} /\ read_loop[c] = "writing"

\* The locks that are kept across a write (store.rs:38, store.rs:58, lib.rs:359)
\* stall the system in two ways only.  Short of a remote user who stays and
\* never reads, and of the cycle, the clients' lock is released by whoever has
\* it, also by the cleanup, which waits for the streams under it, and both read
\* loops deal with every packet they take.
OnlyTwoStalls ==
    \/ \E c \in Clients : <>[]Unread(c)
    \/ /\ clients_lock # Free ~> clients_lock = Free \/ SomeoneIsStuck
       /\ \A c \in Clients :
             /\ read_loop[c] # "reading" ~> read_loop[c] = "reading" \/ SomeoneIsStuck
             /\ answer[c] # "none" ~> answer[c] = "none" \/ SomeoneIsStuck

\* The cycle does not resolve itself: no answer, ping, remote user or cleanup
\* gets a client out of it, and with it the lock of all clients.  Only the
\* websocket breaking does.
StuckIsForever == [][\A c \in Clients : Stuck(c) => Stuck(c)']_vars
==============================================================================
