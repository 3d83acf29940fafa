---------------------------- MODULE ServerStreams ----------------------------
(***************************************************************************)
(* The streams of remote users over the life of a tunnel: the store's      *)
(* streams map and the RemoteTcp tasks (store.rs, remote/tcp.rs) composed  *)
(* with ControlServer.  TcpTunnel says what one stream carries; this       *)
(* module says when a stream comes into the map of a client and when it    *)
(* has to leave it again: its own end, a refusal, or the end of its client *)
(* as Store::cleanup notices it.                                           *)
(*                                                                         *)
(* A stream is made by a TCP listener.  A UDP stream has no reader task    *)
(* and is otherwise kept and dropped by the same code.                     *)
(***************************************************************************)
EXTENDS ControlServer

CONSTANT Streams   \* stream ids, StreamId::new() being fresh

VARIABLES
    stream,     \* accept_connection and the map: where stream r is
    sclient,    \* RemoteTcp.client_id
    disabled,   \* RemoteTcp.socket_tx is None, its token cancelled
    reader,     \* remote_tcp_read_loop task
    cut         \* history: clients whose streams the cleanup has disabled

stream_vars == <<stream, sclient, disabled, reader, cut>>
all_vars == <<vars, stream_vars>>

StreamsTypeOK ==
    /\ stream \in [Streams -> {"none", "made", "inited", "added", "gone"}]
    /\ sclient \in [Streams -> Conns \union {None}]
    /\ disabled \in [Streams -> BOOLEAN]
    /\ reader \in [Streams -> {"none", "reading", "leaving", "ended"}]
    /\ cut \in SUBSET Conns

StreamsInit ==
    /\ Init
    /\ stream = [r \in Streams |-> "none"]
    /\ sclient = [r \in Streams |-> None]
    /\ disabled = [r \in Streams |-> FALSE]
    /\ reader = [r \in Streams |-> "none"]
    /\ cut = {}
------------------------------------------------------------------------------
\* send_to_client succeeds.  A write to a websocket that has just died may.
CanSend(c) == clients[c] # None /\ state[clients[c]] = "Connected"

\* send_to_client fails: no such client, a waiting one, or a write that finds
\* the websocket dead and makes the client wait.
SendToClientFails(c) ==
    \/ ~ CanSend(c) /\ UNCHANGED vars
    \/ SendFails(c)

\* disable_remote on a set of streams; it looks in the map only.
Disable(rs) ==
    disabled' = [r \in Streams |-> \/ disabled[r]
                                   \/ r \in rs /\ stream[r] = "added"]

\* Mutant: the stream is filed under the endpoint.
AcceptForEndpoint(x, r) ==
    /\ x \in listeners
    /\ x[2].protocol = "TCP"
    /\ stream[r] = "none"
    /\ stream' = [stream EXCEPT ![r] = "made"]
    /\ sclient' = [sclient EXCEPT ![r] = x]
    /\ reader' = [reader EXCEPT ![r] = "reading"]
    /\ UNCHANGED <<vars, disabled, cut>>

\* A listener accepts a remote user: RemoteTcp::new spawns the reader.  The
\* select of the listener may prefer a connection to its cancellation.
Accept(x, r) ==
    /\ x \in listeners
    /\ x[2].protocol = "TCP"
    /\ stream[r] = "none"
    /\ stream' = [stream EXCEPT ![r] = "made"]
    /\ sclient' = [sclient EXCEPT ![r] = x[1]]
    /\ reader' = [reader EXCEPT ![r] = "reading"]
    /\ UNCHANGED <<vars, disabled, cut>>

InitSent(r) ==
    /\ stream[r] = "made"
    /\ CanSend(sclient[r])
    /\ stream' = [stream EXCEPT ![r] = "inited"]
    /\ UNCHANGED <<vars, sclient, disabled, reader, cut>>

\* The RemoteTcp is dropped, which does not cancel its reader.
InitFails(r) ==
    /\ stream[r] = "made"
    /\ SendToClientFails(sclient[r])
    /\ stream' = [stream EXCEPT ![r] = "gone"]
    /\ UNCHANGED <<sclient, disabled, reader, cut>>

\* Store::add_remote, whatever has become of the client meanwhile.
AddRemote(r) ==
    /\ stream[r] = "inited"
    /\ stream' = [stream EXCEPT ![r] = "added"]
    /\ UNCHANGED <<vars, sclient, disabled, reader, cut>>
------------------------------------------------------------------------------
\* The remote user closes or resets the connection; an End may have found the
\* websocket dead.
RemoteLeaves(r) ==
    /\ reader[r] = "reading"
    /\ reader' = [reader EXCEPT ![r] = "leaving"]
    /\ UNCHANGED vars \/ SendFails(sclient[r])
    /\ UNCHANGED <<stream, sclient, disabled, cut>>

\* The remote user sends, and the data cannot be forwarded.
ForwardFails(r) ==
    /\ reader[r] = "reading"
    /\ SendToClientFails(sclient[r])
    /\ reader' = [reader EXCEPT ![r] = "leaving"]
    /\ UNCHANGED <<stream, sclient, disabled, cut>>

\* Mutant: the reader leaves the stream as it is.
ReaderEndsOnly(r) ==
    /\ reader[r] = "leaving"
    /\ reader' = [reader EXCEPT ![r] = "ended"]
    /\ UNCHANGED <<vars, stream, sclient, disabled, cut>>

\* The reader's last statement, disable_remote(stream_id).
ReaderEnds(r) ==
    /\ reader[r] = "leaving"
    /\ reader' = [reader EXCEPT ![r] = "ended"]
    /\ Disable({r})
    /\ UNCHANGED <<vars, stream, sclient, cut>>

ReaderCancelled(r) ==
    /\ reader[r] = "reading"
    /\ disabled[r]
    /\ reader' = [reader EXCEPT ![r] = "ended"]
    /\ UNCHANGED <<vars, stream, sclient, disabled, cut>>

\* A read loop of the client gets a Refused for the stream, or data that
\* cannot be written to the remote user.
ReadLoopDisables(r) ==
    /\ \E s \in Conns : read_loop[s] = "reading" /\ cid[s] = sclient[r]
    /\ stream[r] = "added" /\ ~ disabled[r]
    /\ Disable({r})
    /\ UNCHANGED <<vars, stream, sclient, reader, cut>>
------------------------------------------------------------------------------
\* Clients whose window is over, as the cleanup finds them.
Expired == {c \in Conns : clients[c] # None /\ CanCleanup(clients[c])}

\* Mutant: the streams of every waiting client are cut.
ScanCutsWaiting ==
    /\ CleanupScan
    /\ LET waiting == {c \in Conns : /\ clients[c] # None
                                     /\ state[clients[c]] = "WaitReconnect"}
       IN /\ Disable({r \in Streams : sclient[r] \in waiting})
          /\ cut' = cut \union waiting
    /\ UNCHANGED <<stream, sclient, reader>>

\* The scan of Store::cleanup, with disable_remote_by_client.
ScanCutsStreams ==
    /\ CleanupScan
    /\ Disable({r \in Streams : sclient[r] \in Expired})
    /\ cut' = cut \union Expired
    /\ UNCHANGED <<stream, sclient, reader>>

\* The end of Store::cleanup: disabled streams leave the map.
Sweep ==
    /\ CleanupDone
    /\ stream' = [r \in Streams |->
                    IF stream[r] = "added" /\ disabled[r] THEN "gone"
                                                          ELSE stream[r]]
    /\ UNCHANGED <<sclient, disabled, reader, cut>>

\* What the server does that leaves the streams alone.
OtherStep ==
    \/ \E s \in Conns : Hello(s) \/ Handle(s) \/ ReadLoop(s)
    \/ \E c \in Conns : SendPing(c) \/ SendFails(c)
    \/ \E x \in listeners : ListenerStops(x)
    \/ CleanupRetain \/ \E x \in eids_to_remove : CleanupRelease(x)
    \/ \E s \in Conns : Disconnect(s) \/ WindowEnds(s)

AcceptTask(r) == InitSent(r) \/ InitFails(r) \/ AddRemote(r)
ReaderTask(r) == ReaderEnds(r) \/ ReaderCancelled(r)

StreamsNext ==
    \/ OtherStep /\ UNCHANGED stream_vars
    \/ ScanCutsStreams \/ Sweep
    \/ \E r \in Streams :
          \/ \E x \in listeners : Accept(x, r)
          \/ AcceptTask(r) \/ ReaderTask(r)
          \/ RemoteLeaves(r) \/ ForwardFails(r) \/ ReadLoopDisables(r)

\* The tasks of the streams run as those of the server do, and every remote
\* user sends something from time to time.
StreamsSafety == StreamsInit /\ [][StreamsNext]_all_vars
StreamsSpec ==
    /\ StreamsSafety
    /\ Fairness
    /\ \A r \in Streams : /\ WF_all_vars(AcceptTask(r))
                          /\ WF_all_vars(ReaderTask(r))
                          /\ WF_all_vars(ForwardFails(r))
------------------------------------------------------------------------------
\* "if client does't reconnect within window, drop streams associated with
\* this client" (client.rs:34).  The scan does so for the streams it finds; a
\* stream that it missed, because its client's window ended later or because
\* it was added later, is found by its own reader as soon as the remote user
\* says something, and is swept.
OrphansEnd ==
    \A r \in Streams :
       /\ stream[r] = "added" /\ Gone(sclient[r])
       /\ disabled[r] \/ reader[r] # "ended"
       ~> stream[r] = "gone"

\* "if client does't reconnect within window, drop streams associated with
\* this client" (client.rs:34): the cleanup cuts the streams of clients that
\* stay in the map, their windows over, until it removes them; they are gone
\* then.  There is one exception, the client that comes back between the scan
\* and the removal.  (A client without endpoints has no streams.)
CutClientsLeave ==
    \A c \in cut : endpoints[c] # {} =>
       \/ c \in late
       \/ /\ Holders(c) = {}
          /\ clients[c] # None => cleanup = "retain" /\ CanCleanup(clients[c])

\* Whoever loses its streams to the cleanup gives its ports back, also one
\* that comes back meanwhile: a port that is not available is about to be
\* released or belongs to a client that the cleanup has not cut.  That client
\* lives, or it left without being seen: by a hello that could not be sent, or
\* because its window ended between the scan and the removal (store.rs:129).
PortsAccounted ==
    \A p \in PortRange \ available_ports :
       \E c \in Conns :
          /\ p \in RemotePorts(endpoints[c])
          /\ \/ c \notin cut
             \/ \E x \in eids_to_remove : x[1] = c /\ x[2].remote_port = p
==============================================================================
