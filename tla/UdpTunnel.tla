------------------------------ MODULE UdpTunnel ------------------------------
(***************************************************************************)
(* UDP through the tunnel of one client.  Server side: one listener task   *)
(* for each endpoint, the map from peer addresses to streams and the       *)
(* streams (remote/udp.rs, store.rs).  Client side: the websocket read     *)
(* loop and for each stream a connected socket with two tasks              *)
(* (ownserver/src/lib.rs, local/udp.rs).                                   *)
(*                                                                         *)
(* A datagram is its peer, the endpoint it was sent to and its number in   *)
(* the order of receipt: what the network loses or reorders before it is   *)
(* received shows nowhere else.  The listener's token and the departure of *)
(* the client are in ControlServer.                                        *)
(***************************************************************************)
EXTENDS LocalStreams, FiniteSets

CONSTANTS
    Peers,         \* socket addresses of remote users
    Endpoints,     \* UDP endpoints of the client
    Routes,        \* which peer sends to which endpoints
    Shared,        \* peers whose address is also that of a TCP user, or of one
                   \* who sends to another client: addrs_map has one entry
    Other,         \* a stream of theirs, in addrs_map
    MaxReplies     \* bound on the datagrams of the local services

ASSUME OtherAssumption == Shared \subseteq Peers /\ Other \notin Streams \union {0}
ASSUME RoutesAssumption == Routes \subseteq Peers \X Endpoints
ASSUME StreamsAssumption ==
    IsFiniteSet(Streams) /\ Streams = 1 .. Cardinality(Streams)
ASSUME RepliesAssumption == MaxReplies \in Nat

VARIABLES
    \* server
    listener,    \* process_udp_stream: "recv", "find", "init", "add", "send",
                 \* or "stopped"
    dgram,       \* what it has received last, NoDatagram before
    sid,         \* its stream_id, NoStream before
    received,    \* datagrams received so far
    opened,      \* streams made so far
    info,        \* peer and endpoint of a RemoteUdp
    streams,     \* Store.streams: "absent", "enabled", "disabled"
    addrs_map,   \* stream of a peer, Other or NoStream
    refused_at,  \* history: received when the server handled a Refused for
                 \* the stream for the last time; 0 if it has not
    \* client
    local_read,  \* process_local_udp: "none", "reading", "leaving", "ended"
    lgot,        \* datagrams sent on the socket of a stream
    unreachable, \* the socket of a stream has an error to report
    replies      \* datagrams received from local services so far

listener_vars == <<listener, dgram, sid, received, opened, info>>
remote_vars   == <<streams, addrs_map, refused_at>>
local_vars    == <<local_read, lgot, unreachable, replies>>
server_vars   == <<listener_vars, remote_vars>>
client_vars   == <<store_vars, local_vars>>
vars == <<tunnel_vars, chan_vars, server_vars, client_vars>>

NoStream == 0
\* There is at most one stream for each datagram that is received.
MaxDatagrams == Cardinality(Streams)
Datagram == [peer : Peers, endpoint : Endpoints, n : 1 .. MaxDatagrams,
             empty : BOOLEAN]
NoDatagram == [n |-> 0]
Reply == [n : 1 .. MaxReplies]

TypeOK ==
    /\ StoreTypeOK(Datagram \union Reply)
    /\ listener \in [Endpoints -> {"recv", "find", "init", "add", "send",
                                   "stopped"}]
    /\ dgram \in [Endpoints -> Datagram \union {NoDatagram}]
    /\ sid \in [Endpoints -> Streams \union {Other, NoStream}]
    /\ received \in 0 .. MaxDatagrams /\ opened \in 0 .. received
    /\ info \in [1 .. opened -> Peers \X Endpoints]
    /\ streams \in [Streams -> {"absent", "enabled", "disabled"}]
    /\ addrs_map \in [Peers -> Streams \union {Other, NoStream}]
    /\ refused_at \in [Streams -> 0 .. received]
    /\ local_read \in [Streams -> {"none", "reading", "leaving", "ended"}]
    /\ lgot \in [Streams -> Seq(Datagram)]
    /\ unreachable \in [Streams -> BOOLEAN]
    /\ replies \in 0 .. MaxReplies

Init ==
    /\ StoreInit
    /\ listener = [e \in Endpoints |-> "recv"]
    /\ dgram = [e \in Endpoints |-> NoDatagram]
    /\ sid = [e \in Endpoints |-> NoStream]
    /\ received = 0 /\ opened = 0 /\ info = <<>>
    /\ streams = [s \in Streams |-> "absent"]
    /\ addrs_map = [p \in Peers |-> NoStream]
    /\ refused_at = [s \in Streams |-> 0]
    /\ local_read = [s \in Streams |-> "none"]
    /\ lgot = [s \in Streams |-> <<>>]
    /\ unreachable = [s \in Streams |-> FALSE]
    /\ replies = 0
------------------------------------------------------------------------------
(* Server *)

To(e, step) == listener' = [listener EXCEPT ![e] = step]

\* recv_from returns a datagram.
Recv(e) ==
    /\ listener[e] = "recv"
    /\ received < MaxDatagrams
    /\ \E p \in Peers, empty \in BOOLEAN :
          /\ <<p, e>> \in Routes
          /\ dgram' = [dgram EXCEPT ![e] =
                [peer |-> p, endpoint |-> e, n |-> received + 1,
                 empty |-> empty]]
    /\ received' = received + 1
    /\ To(e, "find")
    /\ UNCHANGED <<tunnel_vars, chan_vars, sid, opened, info, remote_vars,
                   client_vars>>

\* Mutants: the entry of addrs_map is enough; no entry is enough as well.
KnownWhenMapped(p) == addrs_map[p] # NoStream
KnownUnlessDisabled(p) ==
    addrs_map[p] \in Streams => streams[addrs_map[p]] = "enabled"

\* find_stream_id_by_addr finds a stream that is not disabled; one of the
\* others may be either.
Known(p) == addrs_map[p] \in Streams /\ streams[addrs_map[p]] = "enabled"

\* The stream that is mapped to the peer, or a new RemoteUdp.
FindStream(e) ==
    /\ listener[e] = "find"
    /\ LET p == dgram[e].peer
       IN \/ /\ Known(p) \/ addrs_map[p] = Other
             /\ sid' = [sid EXCEPT ![e] = addrs_map[p]]
             /\ To(e, "send")
             /\ UNCHANGED <<opened, info>>
          \/ /\ ~ Known(p)
             /\ sid' = [sid EXCEPT ![e] = opened + 1]
             /\ opened' = opened + 1
             /\ info' = Append(info, <<p, e>>)
             /\ To(e, "init")
    /\ UNCHANGED <<tunnel_vars, chan_vars, dgram, received, remote_vars,
                   client_vars>>

\* send_init_to_client; when it fails the listener returns.
SendInit(e) ==
    /\ listener[e] = "init"
    /\ \/ SendToClient(Init_(sid[e])) /\ To(e, "add")
       \/ SendToClientFails /\ To(e, "stopped")
    /\ UNCHANGED <<session, ws_vars, to_server, dgram, sid, received, opened,
                   info, remote_vars, client_vars>>

\* Mutants: the map is keyed by host, which here all peers share; the map is
\* forgotten; the listener does not go on with the first datagram.
AddRemoteByHost(e) ==
    /\ listener[e] = "add"
    /\ streams' = [streams EXCEPT ![sid[e]] = "enabled"]
    /\ addrs_map' = [p \in Peers |-> sid[e]]
    /\ To(e, "send")
    /\ UNCHANGED <<tunnel_vars, chan_vars, dgram, sid, received, opened, info,
                   refused_at, client_vars>>
AddRemoteUnmapped(e) ==
    /\ listener[e] = "add"
    /\ streams' = [streams EXCEPT ![sid[e]] = "enabled"]
    /\ To(e, "send")
    /\ UNCHANGED <<tunnel_vars, chan_vars, dgram, sid, received, opened, info,
                   addrs_map, refused_at, client_vars>>
AddRemoteAndContinue(e) ==
    /\ listener[e] = "add"
    /\ streams' = [streams EXCEPT ![sid[e]] = "enabled"]
    /\ addrs_map' = [addrs_map EXCEPT ![dgram[e].peer] = sid[e]]
    /\ To(e, "recv")
    /\ UNCHANGED <<tunnel_vars, chan_vars, dgram, sid, received, opened, info,
                   refused_at, client_vars>>

\* Store::add_remote
AddRemote(e) ==
    /\ listener[e] = "add"
    /\ streams' = [streams EXCEPT ![sid[e]] = "enabled"]
    /\ addrs_map' = [addrs_map EXCEPT ![dgram[e].peer] = sid[e]]
    /\ To(e, "send")
    /\ UNCHANGED <<tunnel_vars, chan_vars, dgram, sid, received, opened, info,
                   refused_at, client_vars>>

\* n == 0: End; otherwise the data.  A failure is logged.  What is sent for a
\* stream of the others is not for the streams here.
Forward(e) ==
    /\ listener[e] = "send"
    /\ \/ /\ sid[e] # Other
          /\ SendToClient(IF dgram[e].empty THEN End(sid[e])
                                            ELSE Data(sid[e], dgram[e]))
       \/ sid[e] = Other /\ connected /\ UNCHANGED <<connected, to_client>>
       \/ SendToClientFails
    /\ To(e, "recv")
    /\ dgram' = [dgram EXCEPT ![e] = NoDatagram]
    /\ sid' = [sid EXCEPT ![e] = NoStream]
    /\ UNCHANGED <<session, ws_vars, to_server, received, opened, info,
                   remote_vars, client_vars>>

\* RemoteUdp::disable; a stream that is not in the map is not touched.
Disabled(s) ==
    [streams EXCEPT ![s] = IF @ = "enabled" THEN "disabled" ELSE @]

\* Read loop of the websocket, Data: send_to_remote, whose failure (no
\* enabled stream, or an error of the socket) disables the stream.
ServerData(p) ==
    /\ p.type = "Data"
    /\ \/ streams[p.stream] = "enabled" /\ UNCHANGED streams
       \/ streams' = Disabled(p.stream)
    /\ UNCHANGED refused_at

\* Mutant: Refused is only logged.
ServerRefusedLogged(p) ==
    /\ p.type = "Refused"
    /\ refused_at' = [refused_at EXCEPT ![p.stream] = received]
    /\ UNCHANGED streams

\* The same, Refused: disable_remote.
ServerRefused(p) ==
    /\ p.type = "Refused"
    /\ refused_at' = [refused_at EXCEPT ![p.stream] = received]
    /\ streams' = Disabled(p.stream)

ServerReceives(w) ==
    /\ TakeFrom(w)
    /\ LET p == Head(to_server[w]) IN ServerData(p) \/ ServerRefused(p)
    /\ UNCHANGED <<tunnel_vars, to_client, listener_vars, addrs_map,
                   client_vars>>

ServerLoopEnds(w) == LoopEnds(w) /\ UNCHANGED <<server_vars, client_vars>>
------------------------------------------------------------------------------
(* Client *)

\* Init: bind, connect and add_stream.  The socket has nothing to read before
\* something was sent on it, so the reading task, which is spawned first, does
\* not get ahead.  The id of a stream is never used again.
ClientInit ==
    /\ Arrives("Init")
    /\ AddStream(Head(to_client).stream)
    /\ local_read' = [local_read EXCEPT ![Head(to_client).stream] = "reading"]
    /\ to_client' = Tail(to_client)
    /\ UNCHANGED <<tunnel_vars, to_server, server_vars, lgot, unreachable,
                   replies>>

\* No socket can be had: the error ends the session, the server is not told.
ClientInitFails ==
    /\ Arrives("Init")
    /\ SessionEnds
    /\ UNCHANGED <<connected, ws_vars, to_server, server_vars, client_vars>>

ClientData ==
    /\ Arrives("Data")
    /\ HandleData
    /\ UNCHANGED <<server_vars, local_vars>>

ClientEnd ==
    /\ Arrives("End")
    /\ HandleEnd
    /\ UNCHANGED <<server_vars, local_vars>>

Closer(s) ==
    /\ CloserRemoves(s) \/ CloserCloses(s)
    /\ UNCHANGED <<tunnel_vars, chan_vars, server_vars, local_vars>>

\* forward_to_local_udp sends a datagram.  If nothing is bound there by now,
\* the socket gets an error, which the next call on it reports.
SendLocal(s) ==
    /\ HasData(s) /\ ~ unreachable[s]
    /\ queue' = [queue EXCEPT ![s] = Rest(@)]
    /\ lgot' = [lgot EXCEPT ![s] = Append(@, Head(queue[s]))]
    /\ \E error \in BOOLEAN :
          unreachable' = [unreachable EXCEPT ![s] = error]
    /\ UNCHANGED <<tunnel_vars, chan_vars, server_vars, locals, local_write,
                   closer, local_read, replies>>

\* The send reports it: the task returns, the entry in the store stays.
SendLocalFails(s) ==
    /\ HasData(s) /\ unreachable[s]
    /\ queue' = [queue EXCEPT ![s] = Rest(@)]
    /\ local_write' = [local_write EXCEPT ![s] = "ended"]
    /\ unreachable' = [unreachable EXCEPT ![s] = FALSE]
    /\ UNCHANGED <<tunnel_vars, chan_vars, server_vars, locals, closer,
                   local_read, lgot, replies>>

StopForwarding(s) ==
    /\ QueueCloses(s)
    /\ UNCHANGED <<tunnel_vars, chan_vars, server_vars, local_vars>>

\* process_local_udp receives a datagram; it returns if that is empty or
\* cannot be sent to the server.
ReadReply(s) ==
    /\ local_read[s] = "reading" /\ ~ unreachable[s]
    /\ lgot[s] # <<>>
    /\ replies < MaxReplies
    /\ replies' = replies + 1
    /\ \/ /\ SendToServer(Data(s, [n |-> replies + 1]))
          /\ UNCHANGED local_read
       \/ /\ local_read' = [local_read EXCEPT ![s] = "leaving"]
          /\ UNCHANGED to_server
    /\ UNCHANGED <<tunnel_vars, to_client, server_vars, store_vars, lgot,
                   unreachable>>

ReadError(s) ==
    /\ local_read[s] = "reading" /\ unreachable[s]
    /\ local_read' = [local_read EXCEPT ![s] = "leaving"]
    /\ unreachable' = [unreachable EXCEPT ![s] = FALSE]
    /\ UNCHANGED <<tunnel_vars, chan_vars, server_vars, store_vars, lgot,
                   replies>>

\* The end of its task: remove_stream.  The server is not told.
LocalReaderLeaves(s) ==
    /\ local_read[s] = "leaving"
    /\ local_read' = [local_read EXCEPT ![s] = "ended"]
    /\ locals' = [locals EXCEPT ![s] = FALSE]
    /\ UNCHANGED <<tunnel_vars, chan_vars, server_vars, local_write, queue,
                   closer, lgot, unreachable, replies>>
------------------------------------------------------------------------------
(* Environment *)

\* Others with the address of a shared peer: add_remote overwrites its entry,
\* which matters, and so is modelled, when a listener is about to look; or
\* another client's listener sends to the stream in it, which that client does
\* not know: its Refused disables the stream.
OthersAdd(p) ==
    /\ \E e \in Endpoints : listener[e] = "find" /\ dgram[e].peer = p
    /\ addrs_map' = [addrs_map EXCEPT ![p] = Other]
    /\ UNCHANGED <<tunnel_vars, chan_vars, listener_vars, streams, refused_at,
                   client_vars>>
OthersRefuse(p) ==
    /\ addrs_map[p] \in Streams
    /\ streams' = Disabled(addrs_map[p])
    /\ UNCHANGED <<tunnel_vars, chan_vars, listener_vars, addrs_map, refused_at,
                   client_vars>>

ConnectionLost ==
    /\ \E w \in WebSocket : Breaks(w)
    /\ UNCHANGED <<server_vars, client_vars>>

Reconnect == Reconnecting /\ UNCHANGED <<server_vars, client_vars>>
------------------------------------------------------------------------------
Listener(e) == FindStream(e) \/ SendInit(e) \/ AddRemote(e) \/ Forward(e)
ClientLoop == ClientInit \/ ClientData \/ ClientEnd
LocalWriter(s) == SendLocal(s) \/ SendLocalFails(s) \/ StopForwarding(s)
LocalReader(s) == ReadError(s) \/ LocalReaderLeaves(s)

Next ==
    \/ \E e \in Endpoints : Recv(e) \/ Listener(e)
    \/ \E s \in Streams : \/ Closer(s) \/ LocalWriter(s)
                          \/ LocalReader(s) \/ ReadReply(s)
    \/ \E w \in WebSocket : ServerReceives(w) \/ ServerLoopEnds(w)
    \/ ClientLoop \/ ClientInitFails
    \/ \E p \in Shared : OthersAdd(p) \/ OthersRefuse(p)
    \/ ConnectionLost \/ Reconnect

\* Every task is polled.  Nothing makes a peer or a service send or stop, nor
\* the network fail.
Fairness ==
    /\ \A e \in Endpoints : WF_vars(Listener(e))
    /\ \A s \in Streams : /\ WF_vars(Closer(s)) /\ WF_vars(LocalWriter(s))
                          /\ WF_vars(LocalReader(s))
    /\ \A w \in WebSocket : WF_vars(ServerReceives(w) \/ ServerLoopEnds(w))
    /\ WF_vars(ClientLoop)

SafetySpec == Init /\ [][Next]_vars
Spec == SafetySpec /\ Fairness
------------------------------------------------------------------------------
Delivered(s) == {lgot[s][i] : i \in DOMAIN lgot[s]}

\* README.md:127 "All requests to that public address are forwarded to your
\* local game server": a datagram reaches the service of the endpoint that it
\* was sent to.
EndpointsApart ==
    \A s \in 1 .. opened : \A d \in Delivered(s) : d.endpoint = info[s][2]

\* README.md:127 again: somebody listens for the endpoints of a client that is
\* connected.
ListenersRun ==
    connected => \A e \in Endpoints : listener[e] # "stopped"

\* The address of the peer sends to one endpoint only.
Faithful(p) ==
    /\ p \notin Shared
    /\ \A e, f \in Endpoints : <<p, e>> \in Routes /\ <<p, f>> \in Routes => e = f

\* What a service reads on the socket of a stream comes from the peer of that
\* stream, so the answer goes to who asked, whoever else has its address; and
\* if the peer sends to one endpoint only (addrs_map does not know the
\* endpoint), it was sent to that one.
FaithfulReachTheirs ==
    \A s \in 1 .. opened : \A d \in Delivered(s) :
       /\ d.peer = info[s][1]
       /\ Faithful(info[s][1]) => d.endpoint = info[s][2]

\* Such a peer has one stream at a time, though streams come and go and the
\* map keeps the old entries.
OneStreamAtATime ==
    \A s, t \in 1 .. opened :
       /\ info[s] = info[t] /\ Faithful(info[s][1])
       /\ streams[s] = "enabled" /\ streams[t] = "enabled"
       => s = t

\* The datagrams of one endpoint and one stream reach the service in the order
\* of their receipt and once.
InOrder ==
    \A s \in Streams : \A i, j \in DOMAIN lgot[s] :
       /\ i < j
       /\ lgot[s][i].endpoint = lgot[s][j].endpoint
       => lgot[s][i].n < lgot[s][j].n

\* ownserver_lib/src/lib.rs:104 on Refused: "The server will close the
\* corresponding remote stream upon receiving this notification."
RefusedCloses == \A s \in Streams : refused_at[s] # 0 => streams[s] # "enabled"

\* What is received after that goes to another stream.
RefusedIsLeft ==
    \A s \in Streams : refused_at[s] # 0 =>
       /\ \A d \in Delivered(s) : d.n <= refused_at[s]
       /\ \A i \in DOMAIN to_client :
             /\ to_client[i].stream = s /\ to_client[i].type = "Data"
             => to_client[i].data.n <= refused_at[s]

\* A datagram is delivered unless the tunnel or the local service fails, a
\* stream is refused or the address of the peer is shared.  (Before add_client
\* a Refused is written to the old websocket, and may be lost.)
Excused == \/ \E s \in Streams : refused_at[s] # 0 \/ unreachable[s]
           \/ ~ session \/ entering \/ ~ connected
DatagramsArrive ==
    \A n \in 1 .. MaxDatagrams :
       (\E e \in Endpoints : /\ listener[e] = "find" /\ dgram[e].peer \notin Shared
                             /\ dgram[e].n = n /\ ~ dgram[e].empty)
          ~> (\E s \in Streams : \E d \in Delivered(s) : d.n = n) \/ Excused

\* ownserver/src/lib.rs:233 on End: "proxy server try to close control stream
\* and local stream": unless the tunnel fails, what was queued is still sent
\* and the forwarding task ends.  (The reading task does not.)
EndStopsForwarding ==
    \A s \in Streams :
       (\E i \in DOMAIN to_client : to_client[i] = End(s))
          ~> local_write[s] # "running" \/ ~ session
==============================================================================
