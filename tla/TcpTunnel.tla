------------------------------ MODULE TcpTunnel ------------------------------
(***************************************************************************)
(* TCP streams through the tunnel of one client.  Server side: accept      *)
(* task, read loop of the remote socket and the store's stream map         *)
(* (remote/tcp.rs, store.rs, client.rs).  Client side: the websocket read  *)
(* loop and the tasks of the local socket (ownserver/src/lib.rs,           *)
(* local/tcp.rs).  Between them the websockets of Tunnel.                  *)
(*                                                                         *)
(* The bytes of a stream are chunks numbered 1, 2, ... in the order they   *)
(* were sent.  Expiry and cleanup of clients are in ControlServer; the     *)
(* sweep that takes disabled streams out of the map changes nothing here,  *)
(* as a disabled stream and a missing one answer alike.                    *)
(***************************************************************************)
EXTENDS LocalStreams

CONSTANTS
    None,
    MaxChunks   \* chunks the two ends of a stream (a remote user's
                \* connection) send together at most

ASSUME NoneAssumption == None \notin Streams
ASSUME ChunksAssumption == MaxChunks \in Nat
ASSUME CloseAssumption == Close \notin 1 .. MaxChunks

VARIABLES
    \* server, for each stream
    accept,      \* accept_connection: "none", "init", "add", "done"
    reader,      \* remote_tcp_read_loop: "none", "reading", "leaving", "ended"
    streams,     \* Store.streams: "absent", "enabled", "disabled"
    refused,     \* history: the server has handled Refused
    raced,       \* history: somebody used the stream before its accept task
                 \* had sent Init (read loop) or registered it (the others)
    \* remote user: chunks sent / read by the server / received; its end
    \* of the connection ("open", "fin", "reset")
    rsent, rread, rgot, rend,
    \* client, for each stream
    setup,       \* stream whose setup_new_stream the read loop is in, or None
    local_read,  \* process_local_tcp: as reader
    \* local service: chunks sent / read by the client / received; finished
    lsent, lread, lgot, lclosed

server_vars == <<accept, reader, streams, refused, raced>>
remote_vars == <<rsent, rread, rgot, rend>>
client_vars == <<setup, local_read, store_vars>>
local_vars  == <<lsent, lread, lgot, lclosed>>
vars == <<tunnel_vars, chan_vars, server_vars, remote_vars, client_vars,
          local_vars>>

Chunk == 1 .. MaxChunks

TypeOK ==
    /\ StoreTypeOK(Chunk)
    /\ accept \in [Streams -> {"none", "init", "add", "done"}]
    /\ reader \in [Streams -> {"none", "reading", "leaving", "ended"}]
    /\ streams \in [Streams -> {"absent", "enabled", "disabled"}]
    /\ refused \in [Streams -> BOOLEAN] /\ raced \in [Streams -> BOOLEAN]
    /\ rsent \in [Streams -> 0 .. MaxChunks]
    /\ rread \in [Streams -> 0 .. MaxChunks]
    /\ rgot \in [Streams -> Seq(Chunk)]
    /\ rend \in [Streams -> {"open", "fin", "reset"}]
    /\ setup \in Streams \union {None}
    /\ local_read \in [Streams -> {"none", "reading", "leaving", "ended"}]
    /\ lsent \in [Streams -> 0 .. MaxChunks]
    /\ lread \in [Streams -> 0 .. MaxChunks]
    /\ lgot \in [Streams -> Seq(Chunk)]
    /\ lclosed \in [Streams -> BOOLEAN]

Init ==
    /\ StoreInit
    /\ accept = [r \in Streams |-> "none"]
    /\ reader = [r \in Streams |-> "none"]
    /\ streams = [r \in Streams |-> "absent"]
    /\ refused = [r \in Streams |-> FALSE]
    /\ raced = [r \in Streams |-> FALSE]
    /\ rsent = [r \in Streams |-> 0] /\ rread = [r \in Streams |-> 0]
    /\ rgot = [r \in Streams |-> <<>>]
    /\ rend = [r \in Streams |-> "open"]
    /\ setup = None
    /\ local_read = [r \in Streams |-> "none"]
    /\ lsent = [r \in Streams |-> 0] /\ lread = [r \in Streams |-> 0]
    /\ lgot = [r \in Streams |-> <<>>]
    /\ lclosed = [r \in Streams |-> FALSE]
------------------------------------------------------------------------------
(* Server *)

\* RemoteTcp::disable, wherever it is called from; a stream that is not in
\* the map yet is not touched.
Disabled(r) ==
    [streams EXCEPT ![r] = IF @ = "enabled" THEN "disabled" ELSE @]

\* The stream is used while its accept task is still in one of the phases.
Overtakes(r, phases) ==
    raced' = [raced EXCEPT ![r] = @ \/ accept[r] \in phases]

\* A remote user connects: RemoteTcp::new spawns the read loop.
Accept(r) ==
    /\ accept[r] = "none"
    /\ accept' = [accept EXCEPT ![r] = "init"]
    /\ reader' = [reader EXCEPT ![r] = "reading"]
    /\ UNCHANGED <<tunnel_vars, chan_vars, streams, refused, raced, remote_vars,
                   client_vars, local_vars>>

\* send_init_to_client; when it fails the RemoteTcp is dropped, its read
\* loop is not.
SendInit(r) ==
    /\ accept[r] = "init"
    /\ \/ SendToClient(Init_(r)) /\ accept' = [accept EXCEPT ![r] = "add"]
       \/ SendToClientFails /\ accept' = [accept EXCEPT ![r] = "done"]
    /\ UNCHANGED <<session, ws_vars, to_server, reader, streams, refused, raced,
                   remote_vars, client_vars, local_vars>>

AddRemote(r) ==
    /\ accept[r] = "add"
    /\ accept' = [accept EXCEPT ![r] = "done"]
    /\ streams' = [streams EXCEPT ![r] = "enabled"]
    /\ UNCHANGED <<tunnel_vars, chan_vars, reader, refused, raced, remote_vars,
                   client_vars, local_vars>>

\* The read loop takes a chunk and sends it; if it cannot, it breaks.
ReadRemote(r) ==
    /\ reader[r] = "reading"
    /\ rread[r] < rsent[r]
    /\ rread' = [rread EXCEPT ![r] = @ + 1]
    /\ \/ SendToClient(Data(r, rread[r] + 1)) /\ UNCHANGED reader
       \/ SendToClientFails /\ reader' = [reader EXCEPT ![r] = "leaving"]
    /\ Overtakes(r, {"init"})
    /\ UNCHANGED <<session, ws_vars, to_server, accept, streams, refused,
                   rsent, rgot, rend, client_vars, local_vars>>

\* n == 0: tell the client, then break.
RemoteEof(r) ==
    /\ reader[r] = "reading"
    /\ rend[r] = "fin" /\ rread[r] = rsent[r]
    /\ SendToClient(End(r)) \/ SendToClientFails
    /\ reader' = [reader EXCEPT ![r] = "leaving"]
    /\ Overtakes(r, {"init"})
    /\ UNCHANGED <<session, ws_vars, to_server, accept, streams, refused,
                   remote_vars, client_vars, local_vars>>

\* The read fails: break, without a word to the client.
ReadError(r) ==
    /\ reader[r] = "reading"
    /\ rend[r] = "reset"
    /\ reader' = [reader EXCEPT ![r] = "leaving"]
    /\ UNCHANGED <<tunnel_vars, chan_vars, accept, streams, refused, raced,
                   remote_vars, client_vars, local_vars>>

\* Mutant: the loop ends without disable_remote.
ReaderJustLeaves(r) ==
    /\ reader[r] = "leaving"
    /\ reader' = [reader EXCEPT ![r] = "ended"]
    /\ UNCHANGED <<tunnel_vars, chan_vars, accept, streams, refused, raced,
                   remote_vars, client_vars, local_vars>>

\* After the loop: disable_remote.
ReaderLeaves(r) ==
    /\ reader[r] = "leaving"
    /\ reader' = [reader EXCEPT ![r] = "ended"]
    /\ streams' = Disabled(r)
    /\ Overtakes(r, {"init", "add"})
    /\ UNCHANGED <<tunnel_vars, chan_vars, accept, refused, remote_vars,
                   client_vars, local_vars>>

\* The stream was disabled: its token ends the read loop without an End.
ReaderCancelled(r) ==
    /\ reader[r] = "reading"
    /\ streams[r] = "disabled"
    /\ reader' = [reader EXCEPT ![r] = "ended"]
    /\ UNCHANGED <<tunnel_vars, chan_vars, accept, streams, refused, raced,
                   remote_vars, client_vars, local_vars>>

\* Client read loop, Data: send_to_remote, and disable_remote if it fails
\* (no enabled stream, or a write to a socket whose peer is gone).
ServerData(p) ==
    /\ p.type = "Data"
    /\ LET r == p.stream
       IN \/ /\ streams[r] = "enabled"
             /\ rgot' = [rgot EXCEPT ![r] = Append(@, p.data)]
             /\ UNCHANGED streams
          \/ /\ streams[r] # "enabled" \/ rend[r] # "open"
             /\ streams' = Disabled(r)
             /\ UNCHANGED rgot
    /\ UNCHANGED refused

\* Mutant: Refused is only logged.
ServerRefusedLogged(p) ==
    /\ p.type = "Refused"
    /\ refused' = [refused EXCEPT ![p.stream] = TRUE]
    /\ UNCHANGED <<streams, rgot>>

\* Client read loop, Refused: disable_remote.
ServerRefused(p) ==
    /\ p.type = "Refused"
    /\ streams' = Disabled(p.stream)
    /\ refused' = [refused EXCEPT ![p.stream] = TRUE]
    /\ UNCHANGED rgot

ServerReceives(w) ==
    /\ TakeFrom(w)
    /\ LET p == Head(to_server[w])
       IN /\ ServerData(p) \/ ServerRefused(p)
          /\ Overtakes(p.stream, {"init", "add"})
    /\ UNCHANGED <<tunnel_vars, to_client, accept, reader, rsent, rread,
                   rend, client_vars, local_vars>>

ServerLoopEnds(w) ==
    /\ LoopEnds(w)
    /\ UNCHANGED <<server_vars, remote_vars, client_vars, local_vars>>
------------------------------------------------------------------------------
(* Client *)

\* Mutant: packets are handled while a stream is being set up.
ReceivesAnyTime(type) == Arrives(type)

\* The read loop takes a packet; it handles one at a time.
Receives(type) == setup = None /\ Arrives(type)

\* Init: connect to the local service and spawn process_local_tcp.  A
\* stream that is known already is an error and ends the session.
ClientInit ==
    /\ Receives("Init")
    /\ LET r == Head(to_client).stream
       IN IF locals[r]
          THEN /\ SessionEnds
               /\ UNCHANGED <<setup, local_read>>
          ELSE /\ setup' = r
               /\ local_read' = [local_read EXCEPT ![r] = "reading"]
               /\ to_client' = Tail(to_client)
               /\ UNCHANGED session
    /\ UNCHANGED <<connected, ws_vars, to_server, server_vars, remote_vars,
                   locals, local_write, queue, closer, local_vars>>

\* The connect is refused: Refused is sent and the error ends the session.
ClientInitRefused ==
    /\ Receives("Init")
    /\ ~ locals[Head(to_client).stream]
    /\ SendToServer(Refused(Head(to_client).stream))
    /\ SessionEnds
    /\ UNCHANGED <<connected, ws_vars, server_vars, remote_vars,
                   client_vars, local_vars>>

\* setup_new_stream goes on: add_stream, spawn forward_to_local_tcp.
StreamSetUp ==
    /\ setup # None
    /\ AddStream(setup)
    /\ setup' = None
    /\ UNCHANGED <<tunnel_vars, chan_vars, server_vars, remote_vars,
                   local_read, local_vars>>

ClientData ==
    /\ Receives("Data")
    /\ HandleData
    /\ UNCHANGED <<server_vars, remote_vars, setup, local_read, local_vars>>

ClientEnd ==
    /\ Receives("End")
    /\ HandleEnd
    /\ UNCHANGED <<server_vars, remote_vars, setup, local_read, local_vars>>

Closer(r) ==
    /\ CloserRemoves(r) \/ CloserCloses(r)
    /\ UNCHANGED <<tunnel_vars, chan_vars, server_vars, remote_vars, setup,
                   local_read, local_vars>>

\* Mutant: a read that returns nothing is taken for data.
LocalSaidOrEmpty(r) == lread[r] <= lsent[r]

LocalSaid(r) == lread[r] < lsent[r]

\* process_local_tcp sends what the service said; an error ends it.
ReadLocal(r) ==
    /\ local_read[r] = "reading"
    /\ LocalSaid(r)
    /\ lread' = [lread EXCEPT ![r] = @ + 1]
    /\ \/ SendToServer(Data(r, lread[r] + 1)) /\ UNCHANGED local_read
       \/ /\ SendToServerFails
          /\ local_read' = [local_read EXCEPT ![r] = "leaving"]
    /\ UNCHANGED <<tunnel_vars, to_client, server_vars, remote_vars, setup,
                   locals, local_write, queue, closer, lsent, lgot, lclosed>>

\* n == 0, or a read error, which may come before everything is read.
LocalEof(r) ==
    /\ local_read[r] = "reading"
    /\ lclosed[r]
    /\ local_read' = [local_read EXCEPT ![r] = "leaving"]
    /\ UNCHANGED <<tunnel_vars, chan_vars, server_vars, remote_vars, setup,
                   locals, local_write, queue, closer, local_vars>>

\* The end of its task: remove_stream.  The server is not told.
LocalReaderLeaves(r) ==
    /\ local_read[r] = "leaving"
    /\ local_read' = [local_read EXCEPT ![r] = "ended"]
    /\ locals' = [locals EXCEPT ![r] = FALSE]
    /\ UNCHANGED <<tunnel_vars, chan_vars, server_vars, remote_vars, setup,
                   local_write, queue, closer, local_vars>>

\* forward_to_local_tcp: write a chunk, which fails once the peer is gone.
WriteLocal(r) ==
    /\ HasData(r)
    /\ queue' = [queue EXCEPT ![r] = Rest(@)]
    /\ \/ /\ lgot' = [lgot EXCEPT ![r] = Append(@, Head(queue[r]))]
          /\ UNCHANGED local_write
       \/ /\ lclosed[r]
          /\ local_write' = [local_write EXCEPT ![r] = "ended"]
          /\ UNCHANGED lgot
    /\ UNCHANGED <<tunnel_vars, chan_vars, server_vars, remote_vars, setup,
                   locals, local_read, closer, lsent, lread, lclosed>>

\* It shuts the local socket down on Close or when every sender is dropped.
ShutdownLocal(r) ==
    /\ QueueCloses(r)
    /\ UNCHANGED <<tunnel_vars, chan_vars, server_vars, remote_vars, setup,
                   local_read, local_vars>>
------------------------------------------------------------------------------
(* Environment *)

RemoteSends(r) ==
    /\ accept[r] # "none" /\ rend[r] = "open"
    /\ rsent[r] + lsent[r] < MaxChunks
    /\ rsent' = [rsent EXCEPT ![r] = @ + 1]
    /\ UNCHANGED <<tunnel_vars, chan_vars, server_vars, rread, rgot, rend,
                   client_vars, local_vars>>

RemoteCloses(r) ==
    /\ accept[r] # "none" /\ rend[r] = "open"
    /\ \E end \in {"fin", "reset"} : rend' = [rend EXCEPT ![r] = end]
    /\ UNCHANGED <<tunnel_vars, chan_vars, server_vars, rsent, rread, rgot,
                   client_vars, local_vars>>

LocalSends(r) ==
    /\ local_read[r] # "none" /\ ~ lclosed[r]
    /\ rsent[r] + lsent[r] < MaxChunks
    /\ lsent' = [lsent EXCEPT ![r] = @ + 1]
    /\ UNCHANGED <<tunnel_vars, chan_vars, server_vars, remote_vars,
                   client_vars, lread, lgot, lclosed>>

LocalCloses(r) ==
    /\ local_read[r] # "none" /\ ~ lclosed[r]
    /\ lclosed' = [lclosed EXCEPT ![r] = TRUE]
    /\ UNCHANGED <<tunnel_vars, chan_vars, server_vars, remote_vars,
                   client_vars, lsent, lread, lgot>>

ConnectionLost ==
    /\ setup = None
    /\ \E w \in WebSocket : Breaks(w)
    /\ UNCHANGED <<server_vars, remote_vars, client_vars, local_vars>>

Reconnect ==
    /\ Reconnecting
    /\ UNCHANGED <<server_vars, remote_vars, client_vars, local_vars>>
------------------------------------------------------------------------------
AcceptTask(r)  == SendInit(r) \/ AddRemote(r)
ReaderTask(r)  == ReadRemote(r) \/ RemoteEof(r) \/ ReadError(r)
                    \/ ReaderLeaves(r) \/ ReaderCancelled(r)
LocalReader(r) == ReadLocal(r) \/ LocalEof(r) \/ LocalReaderLeaves(r)
LocalWriter(r) == WriteLocal(r) \/ ShutdownLocal(r)
ClientLoop     == ClientInit \/ StreamSetUp \/ ClientData \/ ClientEnd
Remote(r)      == Accept(r) \/ RemoteSends(r) \/ RemoteCloses(r)
LocalService(r) == LocalSends(r) \/ LocalCloses(r)

Next ==
    \/ \E r \in Streams :
          \/ Remote(r) \/ AcceptTask(r) \/ ReaderTask(r)
          \/ Closer(r) \/ LocalReader(r) \/ LocalWriter(r)
          \/ LocalService(r)
    \/ \E w \in WebSocket : ServerReceives(w) \/ ServerLoopEnds(w)
    \/ ClientLoop \/ ClientInitRefused
    \/ ConnectionLost \/ Reconnect

\* Every task is polled.  Nothing makes the remote user, the local service or
\* the network do anything, nor a local connect fail.
Fairness ==
    /\ \A r \in Streams :
          /\ WF_vars(AcceptTask(r)) /\ WF_vars(ReaderTask(r))
          /\ WF_vars(Closer(r)) /\ WF_vars(LocalReader(r))
          /\ WF_vars(LocalWriter(r))
    /\ \A w \in WebSocket : WF_vars(ServerReceives(w) \/ ServerLoopEnds(w))
    /\ WF_vars(ClientLoop)

SafetySpec == Init /\ [][Next]_vars
Spec == SafetySpec /\ Fairness
------------------------------------------------------------------------------
\* README.md:127 "All requests to that public address are forwarded to your
\* local game server": each end of a stream gets once, in order and without a
\* gap what the other end sent.  A gap is possible once the tunnel has been
\* replaced, as streams survive what was lost in the old one, or if the stream
\* was raced.  Towards the remote user so is another order once the tunnel has
\* been replaced: what the old websocket still holds is handled by its read
\* loop, beside the one of the new websocket.
Lossy == [r \in Streams |-> raced[r] \/ reconnects > 0]

ToLocal == INSTANCE StreamPipe
           WITH sent <- rsent, got <- lgot, lossy <- Lossy,
                shuffles <- [r \in Streams |-> FALSE]
ToRemote == INSTANCE StreamPipe
            WITH sent <- lsent, got <- rgot, lossy <- Lossy,
                 shuffles <- [r \in Streams |-> reconnects > 0]

TwoPipes == ToLocal!PipeSpec /\ ToRemote!PipeSpec

\* ownserver_lib/src/lib.rs:104 on Refused: "The server will close the
\* corresponding remote stream upon receiving this notification."
RefusedCloses ==
    \A r \in Streams : refused[r] /\ ~ raced[r] => streams[r] # "enabled"

\* A stream whose remote user has left does not stay enabled: its read loop
\* notices, and the store learns of it.
ClosedRemoteIsDisabled ==
    \A r \in Streams : rend[r] # "open" ~> [](streams[r] # "enabled" \/ raced[r])

\* While the tunnel holds, a remote user who closes the connection takes the
\* local one along.  Two cases are left out because they fail: a reset makes
\* the read loop break without an End, and a failed write to the user (hence
\* the silent service) disables the stream and cancels the read loop before
\* it can send one.
CloseReachesLocal ==
    \A r \in Streams :
       [](session /\ lsent[r] = 0 /\ ~ raced[r]) =>
          (rend[r] = "fin" /\ local_write[r] = "running"
              ~> local_write[r] = "ended")
==============================================================================
