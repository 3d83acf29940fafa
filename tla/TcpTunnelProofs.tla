--------------------------- MODULE TcpTunnelProofs ---------------------------
(***************************************************************************)
(* Type correctness of TcpTunnel, that Refused closes the remote stream,   *)
(* and that a TCP stream is a pipe (StreamPipe) in each direction, for any *)
(* number of streams, chunks and reconnects.                               *)
(***************************************************************************)
EXTENDS TcpTunnel, TLAPS

LEMMA Packets ==
  /\ \A r \in Streams : /\ Init_(r) \in Packet(Chunk) /\ End(r) \in Packet(Chunk)
                        /\ Refused(r) \in Packet(Chunk)
  /\ \A r \in Streams, n \in Chunk : Data(r, n) \in Packet(Chunk)
  BY DEF Packet, Init_, End, Refused, Data

Channels == [WebSocket -> Seq(Packet(Chunk))]

\* The channels, whoever writes to them.
LEMMA Written ==
  ASSUME TypeOK, NEW p \in Packet(Chunk)
  PROVE  /\ SendToClient(p) => to_client' \in Seq(Packet(Chunk))
         /\ SendToServer(p) => to_server' \in Channels
  <1>1. /\ to_client \in Seq(Packet(Chunk)) /\ to_server \in Channels
        /\ slot \in WebSocket
    BY DEF TypeOK, StoreTypeOK, TunnelTypeOK, Channels
  <1>2. Append(to_client, p) \in Seq(Packet(Chunk))
    BY <1>1
  <1>3. [to_server EXCEPT ![slot] = Append(@, p)] \in Channels
    <2>1. Append(to_server[slot], p) \in Seq(Packet(Chunk))
      BY <1>1 DEF Channels
    <2> QED
      BY <1>1, <2>1 DEF Channels
  <1> QED
    BY <1>1, <1>2, <1>3 DEF SendToClient, SendToServer

LEMMA Taken ==
  ASSUME TypeOK
  PROVE  /\ to_client # <<>> => /\ Tail(to_client) \in Seq(Packet(Chunk))
                                /\ Head(to_client) \in Packet(Chunk)
         /\ \A w \in WebSocket : to_server[w] # <<>> =>
               /\ Tail(to_server[w]) \in Seq(Packet(Chunk))
               /\ Head(to_server[w]) \in Packet(Chunk)
               /\ 1 \in DOMAIN to_server[w] /\ to_server[w][1] = Head(to_server[w])
  <1>1. to_client \in Seq(Packet(Chunk)) /\ to_server \in Channels
    BY DEF TypeOK, StoreTypeOK, TunnelTypeOK, Channels
  <1>2. \A q \in Seq(Packet(Chunk)) : q # <<>> =>
           /\ Tail(q) \in Seq(Packet(Chunk)) /\ Head(q) \in Packet(Chunk)
           /\ 1 \in DOMAIN q /\ q[1] = Head(q)
    OBVIOUS
  <1> QED
    BY <1>1, <1>2 DEF Channels

\* What a reader takes is a chunk, and the next one.
LEMMA NextChunk ==
  ASSUME TypeOK, NEW t \in Streams
  PROVE  /\ ReadRemote(t) => rread[t] + 1 \in Chunk /\ rread' = [rread EXCEPT ![t] = @ + 1]
         /\ ReadLocal(t) => lread[t] + 1 \in Chunk
  <1>1. MaxChunks \in Nat /\ Chunk = 1 .. MaxChunks
    BY ChunksAssumption DEF Chunk
  <1>2. /\ rread[t] \in 0 .. MaxChunks /\ rsent[t] \in 0 .. MaxChunks
        /\ lread[t] \in 0 .. MaxChunks /\ lsent[t] \in 0 .. MaxChunks
    BY DEF TypeOK
  <1>3. ReadRemote(t) => rread[t] < rsent[t] /\ rread' = [rread EXCEPT ![t] = @ + 1]
    BY DEF ReadRemote
  <1>4. ReadLocal(t) => lread[t] < lsent[t]
    BY DEF ReadLocal, LocalSaid
  <1> QED
    BY <1>1, <1>2, <1>3, <1>4

LEMMA PacketParts ==
  \A p \in Packet(Chunk) : p.stream \in Streams /\ p.data \in Chunk \union {Close}
  BY DEF Packet

LEMMA InitTypes == Init => TypeOK
  <1> SUFFICES ASSUME Init PROVE TypeOK
    OBVIOUS
  <1>1. TunnelTypeOK(Packet(Chunk))
    <2>1. 0 \in WebSocket
      BY ReconnectsAssumption DEF WebSocket
    <2>2. <<>> \in Seq(Packet(Chunk))
      OBVIOUS
    <2> QED
      BY <2>1, <2>2 DEF Init, StoreInit, TunnelInit, TunnelTypeOK
  <1>2. StoreTypeOK(Chunk)
    BY <1>1 DEF Init, StoreInit, StoreTypeOK
  <1>3. /\ rgot \in [Streams -> Seq(Chunk)] /\ lgot \in [Streams -> Seq(Chunk)]
        /\ 0 \in 0 .. MaxChunks
    BY ChunksAssumption DEF Init
  <1> QED
    BY <1>2, <1>3 DEF Init, TypeOK

\* The two halves of TypeOK that a step may leave alone.
ServerTypes ==
    /\ accept \in [Streams -> {"none", "init", "add", "done"}]
    /\ reader \in [Streams -> {"none", "reading", "leaving", "ended"}]
    /\ streams \in [Streams -> {"absent", "enabled", "disabled"}]
    /\ refused \in [Streams -> BOOLEAN] /\ raced \in [Streams -> BOOLEAN]
RemoteTypes ==
    /\ rsent \in [Streams -> 0 .. MaxChunks]
    /\ rread \in [Streams -> 0 .. MaxChunks]
    /\ rgot \in [Streams -> Seq(Chunk)]
    /\ rend \in [Streams -> {"open", "fin", "reset"}]
ClientTypes ==
    /\ setup \in Streams \union {None}
    /\ local_read \in [Streams -> {"none", "reading", "leaving", "ended"}]
    /\ locals \in [Streams -> BOOLEAN]
    /\ local_write \in [Streams -> {"none", "running", "ended"}]
    /\ queue \in [Streams -> Seq(Chunk \union {Close})]
    /\ closer \in [Streams -> SUBSET {"remove", "sleep"}]
LocalTypes ==
    /\ lsent \in [Streams -> 0 .. MaxChunks]
    /\ lread \in [Streams -> 0 .. MaxChunks]
    /\ lgot \in [Streams -> Seq(Chunk)]
    /\ lclosed \in [Streams -> BOOLEAN]

LEMMA TypeParts ==
  TypeOK <=> /\ TunnelTypeOK(Packet(Chunk)) /\ ServerTypes /\ RemoteTypes
             /\ ClientTypes /\ LocalTypes
  BY DEF TypeOK, StoreTypeOK, ServerTypes, RemoteTypes, ClientTypes, LocalTypes

\* A Data packet to the server carries a chunk, never Close.
Carries ==
    \A w \in WebSocket : \A i \in DOMAIN to_server[w] :
       to_server[w][i].type = "Data" => to_server[w][i].data \in Chunk

LEMMA NoPackets == <<>> \in Seq(Packet(Chunk))
  OBVIOUS

\* The packet that a loop of the server takes.
LEMMA TakenFrom ==
  ASSUME TypeOK, NEW w \in WebSocket, TakeFrom(w)
  PROVE  /\ to_server[w] # <<>> /\ w \in loops
         /\ to_server' = [to_server EXCEPT ![w] = Tail(@)]
         /\ to_server' \in Channels
         /\ Head(to_server[w]) \in Packet(Chunk)
         /\ 1 \in DOMAIN to_server[w] /\ to_server[w][1] = Head(to_server[w])
  <1>1. to_server \in Channels
    BY DEF TypeOK, StoreTypeOK, TunnelTypeOK, Channels
  <1>2. /\ to_server[w] # <<>> /\ w \in loops
        /\ to_server' = [to_server EXCEPT ![w] = Tail(@)]
    BY DEF TakeFrom
  <1>3. Tail(to_server[w]) \in Seq(Packet(Chunk))
    BY <1>2, Taken
  <1> QED
    BY <1>1, <1>2, <1>3, Taken DEF Channels

\* The websockets come and go.
LEMMA TunnelSteps ==
  ASSUME TunnelTypeOK(Packet(Chunk)),
         \/ \E w \in WebSocket : Breaks(w) \/ LoopEnds(w)
         \/ Reconnecting
  PROVE  TunnelTypeOK(Packet(Chunk))'
  <1>0. /\ connected \in BOOLEAN /\ session \in BOOLEAN /\ entering \in BOOLEAN
        /\ slot \in WebSocket /\ reconnects \in WebSocket
        /\ alive \subseteq WebSocket /\ loops \subseteq WebSocket
        /\ to_client \in Seq(Packet(Chunk)) /\ to_server \in Channels
    BY DEF TunnelTypeOK, Channels
  <1>1. <<>> \in Seq(Packet(Chunk))
    OBVIOUS
  <1>2. ASSUME NEW w \in WebSocket, Breaks(w) PROVE TunnelTypeOK(Packet(Chunk))'
    BY <1>0, <1>1, <1>2 DEF Breaks, SessionEnds, TunnelTypeOK, Channels
  <1>3. ASSUME NEW w \in WebSocket, LoopEnds(w) PROVE TunnelTypeOK(Packet(Chunk))'
    BY <1>0, <1>1, <1>3 DEF LoopEnds, TunnelTypeOK, Channels
  <1>4. CASE TakeOver
    <2>1. reconnects' = reconnects + 1 /\ reconnects + 1 \in WebSocket
      BY <1>0, <1>4, ReconnectsAssumption DEF TakeOver, WebSocket
    <2>2. PICK on \in SUBSET loops :
             /\ loops' = on \union {reconnects + 1}
             /\ alive' = (alive \intersect on) \union {reconnects + 1}
             /\ to_server' = [w \in WebSocket |->
                                IF w \in on THEN to_server[w] ELSE <<>>]
      BY <1>4 DEF TakeOver
    <2>3. to_server' \in Channels
      BY <1>0, <1>1, <2>2 DEF Channels
    <2> QED
      BY <1>0, <1>1, <1>4, <2>1, <2>2, <2>3 DEF TakeOver, TunnelTypeOK, Channels
  <1>5. CASE Enter
    BY <1>0, <1>5 DEF Enter, chan_vars, TunnelTypeOK, Channels
  <1>6. CASE AddClient
    BY <1>0, <1>6 DEF AddClient, chan_vars, TunnelTypeOK, Channels
  <1> QED
    BY <1>2, <1>3, <1>4, <1>5, <1>6 DEF Reconnecting

LEMMA NextTypes == TypeOK /\ Carries /\ [Next]_vars => TypeOK'
  <1> SUFFICES ASSUME TypeOK, Carries, [Next]_vars PROVE TypeOK'
    OBVIOUS
  <1> DEFINE T == TunnelTypeOK(Packet(Chunk))
  <1>0. T /\ ServerTypes /\ RemoteTypes /\ ClientTypes /\ LocalTypes
    BY TypeParts
  <1>p. T' /\ ServerTypes' /\ RemoteTypes' /\ ClientTypes' /\ LocalTypes' => TypeOK'
    BY DEF TypeOK, StoreTypeOK, ServerTypes, RemoteTypes, ClientTypes, LocalTypes
  <1>1. ASSUME NEW r \in Streams, Accept(r) PROVE TypeOK'
    <2>1. T'
      BY <1>1, <1>0, Packets, Written, Taken, PacketParts, ReconnectsAssumption
         DEF Accept, TunnelTypeOK, tunnel_vars, ws_vars, chan_vars, RemoteTypes, LocalTypes, ServerTypes, Chunk
    <2>2. ServerTypes'
      BY <1>1, <1>0 DEF Accept, ServerTypes, Chunk, server_vars
    <2>3. RemoteTypes'
      BY <1>1, <1>0 DEF Accept, RemoteTypes, Chunk, remote_vars
    <2>4. ClientTypes'
      BY <1>1, <1>0 DEF Accept, ClientTypes, Chunk, client_vars, store_vars
    <2>5. LocalTypes'
      BY <1>1, <1>0 DEF Accept, LocalTypes, Chunk, local_vars
    <2> QED
      BY <2>1, <2>2, <2>3, <2>4, <2>5, <1>p
  <1>2. ASSUME NEW r \in Streams, SendInit(r) PROVE TypeOK'
    <2>1. T'
      <3>1. UNCHANGED <<session, ws_vars, to_server>>
        BY <1>2 DEF SendInit
      <3>2. CASE SendToClient(Init_(r))
        <4>1. Init_(r) \in Packet(Chunk)
          BY <1>2, <1>0, Packets, ChunksAssumption DEF SendInit, RemoteTypes, Chunk
        <4>2. to_client' \in Seq(Packet(Chunk)) /\ connected' = connected
          BY <3>2, <4>1, Written DEF SendToClient
        <4> QED
          BY <3>1, <4>2, <1>0 DEF TunnelTypeOK, ws_vars
      <3>3. CASE SendToClientFails
        BY <3>1, <3>3, <1>0 DEF SendToClientFails, TunnelTypeOK, ws_vars
      <3> QED
        BY <1>2, <3>2, <3>3 DEF SendInit
    <2>2. ServerTypes'
      BY <1>2, <1>0 DEF SendInit, SendToClientFails, ServerTypes, Chunk, server_vars
    <2>3. RemoteTypes'
      BY <1>2, <1>0 DEF SendInit, SendToClientFails, RemoteTypes, Chunk, remote_vars
    <2>4. ClientTypes'
      BY <1>2, <1>0 DEF SendInit, SendToClientFails, ClientTypes, Chunk, client_vars, store_vars
    <2>5. LocalTypes'
      BY <1>2, <1>0 DEF SendInit, SendToClientFails, LocalTypes, Chunk, local_vars
    <2> QED
      BY <2>1, <2>2, <2>3, <2>4, <2>5, <1>p
  <1>3. ASSUME NEW r \in Streams, AddRemote(r) PROVE TypeOK'
    <2>1. T'
      BY <1>3, <1>0, Packets, Written, Taken, PacketParts, ReconnectsAssumption
         DEF AddRemote, TunnelTypeOK, tunnel_vars, ws_vars, chan_vars, RemoteTypes, LocalTypes, ServerTypes, Chunk
    <2>2. ServerTypes'
      BY <1>3, <1>0 DEF AddRemote, ServerTypes, Chunk, server_vars
    <2>3. RemoteTypes'
      BY <1>3, <1>0 DEF AddRemote, RemoteTypes, Chunk, remote_vars
    <2>4. ClientTypes'
      BY <1>3, <1>0 DEF AddRemote, ClientTypes, Chunk, client_vars, store_vars
    <2>5. LocalTypes'
      BY <1>3, <1>0 DEF AddRemote, LocalTypes, Chunk, local_vars
    <2> QED
      BY <2>1, <2>2, <2>3, <2>4, <2>5, <1>p
  <1>4. ASSUME NEW r \in Streams, RemoteEof(r) PROVE TypeOK'
    <2>1. T'
      <3>1. UNCHANGED <<session, ws_vars, to_server>>
        BY <1>4 DEF RemoteEof
      <3>2. CASE SendToClient(End(r))
        <4>1. End(r) \in Packet(Chunk)
          BY <1>4, <1>0, Packets, ChunksAssumption DEF RemoteEof, RemoteTypes, Chunk
        <4>2. to_client' \in Seq(Packet(Chunk)) /\ connected' = connected
          BY <3>2, <4>1, Written DEF SendToClient
        <4> QED
          BY <3>1, <4>2, <1>0 DEF TunnelTypeOK, ws_vars
      <3>3. CASE SendToClientFails
        BY <3>1, <3>3, <1>0 DEF SendToClientFails, TunnelTypeOK, ws_vars
      <3> QED
        BY <1>4, <3>2, <3>3 DEF RemoteEof
    <2>2. ServerTypes'
      BY <1>4, <1>0 DEF RemoteEof, SendToClientFails, Overtakes, ServerTypes, Chunk, server_vars
    <2>3. RemoteTypes'
      BY <1>4, <1>0 DEF RemoteEof, SendToClientFails, Overtakes, RemoteTypes, Chunk, remote_vars
    <2>4. ClientTypes'
      BY <1>4, <1>0 DEF RemoteEof, SendToClientFails, Overtakes, ClientTypes, Chunk, client_vars, store_vars
    <2>5. LocalTypes'
      BY <1>4, <1>0 DEF RemoteEof, SendToClientFails, Overtakes, LocalTypes, Chunk, local_vars
    <2> QED
      BY <2>1, <2>2, <2>3, <2>4, <2>5, <1>p
  <1>5. ASSUME NEW r \in Streams, ReadError(r) PROVE TypeOK'
    <2>1. T'
      BY <1>5, <1>0, Packets, Written, Taken, PacketParts, ReconnectsAssumption
         DEF ReadError, TunnelTypeOK, tunnel_vars, ws_vars, chan_vars, RemoteTypes, LocalTypes, ServerTypes, Chunk
    <2>2. ServerTypes'
      BY <1>5, <1>0 DEF ReadError, ServerTypes, Chunk, server_vars
    <2>3. RemoteTypes'
      BY <1>5, <1>0 DEF ReadError, RemoteTypes, Chunk, remote_vars
    <2>4. ClientTypes'
      BY <1>5, <1>0 DEF ReadError, ClientTypes, Chunk, client_vars, store_vars
    <2>5. LocalTypes'
      BY <1>5, <1>0 DEF ReadError, LocalTypes, Chunk, local_vars
    <2> QED
      BY <2>1, <2>2, <2>3, <2>4, <2>5, <1>p
  <1>6. ASSUME NEW r \in Streams, ReaderLeaves(r) PROVE TypeOK'
    <2>1. T'
      BY <1>6, <1>0, Packets, Written, Taken, PacketParts, ReconnectsAssumption
         DEF ReaderLeaves, Disabled, Overtakes, TunnelTypeOK, tunnel_vars, ws_vars, chan_vars, RemoteTypes, LocalTypes, ServerTypes, Chunk
    <2>2. ServerTypes'
      BY <1>6, <1>0 DEF ReaderLeaves, Disabled, Overtakes, ServerTypes, Chunk, server_vars
    <2>3. RemoteTypes'
      BY <1>6, <1>0 DEF ReaderLeaves, Disabled, Overtakes, RemoteTypes, Chunk, remote_vars
    <2>4. ClientTypes'
      BY <1>6, <1>0 DEF ReaderLeaves, Disabled, Overtakes, ClientTypes, Chunk, client_vars, store_vars
    <2>5. LocalTypes'
      BY <1>6, <1>0 DEF ReaderLeaves, Disabled, Overtakes, LocalTypes, Chunk, local_vars
    <2> QED
      BY <2>1, <2>2, <2>3, <2>4, <2>5, <1>p
  <1>7. ASSUME NEW r \in Streams, ReaderCancelled(r) PROVE TypeOK'
    <2>1. T'
      BY <1>7, <1>0, Packets, Written, Taken, PacketParts, ReconnectsAssumption
         DEF ReaderCancelled, TunnelTypeOK, tunnel_vars, ws_vars, chan_vars, RemoteTypes, LocalTypes, ServerTypes, Chunk
    <2>2. ServerTypes'
      BY <1>7, <1>0 DEF ReaderCancelled, ServerTypes, Chunk, server_vars
    <2>3. RemoteTypes'
      BY <1>7, <1>0 DEF ReaderCancelled, RemoteTypes, Chunk, remote_vars
    <2>4. ClientTypes'
      BY <1>7, <1>0 DEF ReaderCancelled, ClientTypes, Chunk, client_vars, store_vars
    <2>5. LocalTypes'
      BY <1>7, <1>0 DEF ReaderCancelled, LocalTypes, Chunk, local_vars
    <2> QED
      BY <2>1, <2>2, <2>3, <2>4, <2>5, <1>p
  <1>8. ASSUME NEW w \in WebSocket, ServerLoopEnds(w) PROVE TypeOK'
    <2>1. T'
      BY <1>8, <1>0, TunnelSteps DEF ServerLoopEnds
    <2>2. ServerTypes'
      BY <1>8, <1>0 DEF ServerLoopEnds, ServerTypes, Chunk, server_vars
    <2>3. RemoteTypes'
      BY <1>8, <1>0 DEF ServerLoopEnds, RemoteTypes, Chunk, remote_vars
    <2>4. ClientTypes'
      BY <1>8, <1>0 DEF ServerLoopEnds, ClientTypes, Chunk, client_vars, store_vars
    <2>5. LocalTypes'
      BY <1>8, <1>0 DEF ServerLoopEnds, LocalTypes, Chunk, local_vars
    <2> QED
      BY <2>1, <2>2, <2>3, <2>4, <2>5, <1>p
  <1>9. ASSUME StreamSetUp PROVE TypeOK'
    <2>1. T'
      BY <1>9, <1>0, Packets, Written, Taken, PacketParts, ReconnectsAssumption
         DEF StreamSetUp, AddStream, TunnelTypeOK, tunnel_vars, ws_vars, chan_vars, RemoteTypes, LocalTypes, ServerTypes, Chunk
    <2>2. ServerTypes'
      BY <1>9, <1>0 DEF StreamSetUp, AddStream, ServerTypes, Chunk, server_vars
    <2>3. RemoteTypes'
      BY <1>9, <1>0 DEF StreamSetUp, AddStream, RemoteTypes, Chunk, remote_vars
    <2>4. ClientTypes'
      BY <1>9, <1>0 DEF StreamSetUp, AddStream, ClientTypes, Chunk, client_vars, store_vars
    <2>5. LocalTypes'
      BY <1>9, <1>0 DEF StreamSetUp, AddStream, LocalTypes, Chunk, local_vars
    <2> QED
      BY <2>1, <2>2, <2>3, <2>4, <2>5, <1>p
  <1>10. ASSUME ClientEnd PROVE TypeOK'
    <2>1. T'
      BY <1>10, <1>0, Packets, Written, Taken, PacketParts, ReconnectsAssumption
         DEF ClientEnd, Receives, Arrives, HandleEnd, TunnelTypeOK, tunnel_vars, ws_vars, chan_vars, RemoteTypes, LocalTypes, ServerTypes, Chunk
    <2>2. ServerTypes'
      BY <1>10, <1>0 DEF ClientEnd, Receives, Arrives, HandleEnd, ServerTypes, Chunk, server_vars
    <2>3. RemoteTypes'
      BY <1>10, <1>0 DEF ClientEnd, Receives, Arrives, HandleEnd, RemoteTypes, Chunk, remote_vars
    <2>4. ClientTypes'
      BY <1>10, <1>0 DEF ClientEnd, Receives, Arrives, HandleEnd, ClientTypes, Chunk, client_vars, store_vars
    <2>5. LocalTypes'
      BY <1>10, <1>0 DEF ClientEnd, Receives, Arrives, HandleEnd, LocalTypes, Chunk, local_vars
    <2> QED
      BY <2>1, <2>2, <2>3, <2>4, <2>5, <1>p
  <1>11. ASSUME NEW r \in Streams, LocalEof(r) PROVE TypeOK'
    <2>1. T'
      BY <1>11, <1>0, Packets, Written, Taken, PacketParts, ReconnectsAssumption
         DEF LocalEof, TunnelTypeOK, tunnel_vars, ws_vars, chan_vars, RemoteTypes, LocalTypes, ServerTypes, Chunk
    <2>2. ServerTypes'
      BY <1>11, <1>0 DEF LocalEof, ServerTypes, Chunk, server_vars
    <2>3. RemoteTypes'
      BY <1>11, <1>0 DEF LocalEof, RemoteTypes, Chunk, remote_vars
    <2>4. ClientTypes'
      BY <1>11, <1>0 DEF LocalEof, ClientTypes, Chunk, client_vars, store_vars
    <2>5. LocalTypes'
      BY <1>11, <1>0 DEF LocalEof, LocalTypes, Chunk, local_vars
    <2> QED
      BY <2>1, <2>2, <2>3, <2>4, <2>5, <1>p
  <1>12. ASSUME NEW r \in Streams, LocalReaderLeaves(r) PROVE TypeOK'
    <2>1. T'
      BY <1>12, <1>0, Packets, Written, Taken, PacketParts, ReconnectsAssumption
         DEF LocalReaderLeaves, TunnelTypeOK, tunnel_vars, ws_vars, chan_vars, RemoteTypes, LocalTypes, ServerTypes, Chunk
    <2>2. ServerTypes'
      BY <1>12, <1>0 DEF LocalReaderLeaves, ServerTypes, Chunk, server_vars
    <2>3. RemoteTypes'
      BY <1>12, <1>0 DEF LocalReaderLeaves, RemoteTypes, Chunk, remote_vars
    <2>4. ClientTypes'
      BY <1>12, <1>0 DEF LocalReaderLeaves, ClientTypes, Chunk, client_vars, store_vars
    <2>5. LocalTypes'
      BY <1>12, <1>0 DEF LocalReaderLeaves, LocalTypes, Chunk, local_vars
    <2> QED
      BY <2>1, <2>2, <2>3, <2>4, <2>5, <1>p
  <1>13. ASSUME NEW r \in Streams, ShutdownLocal(r) PROVE TypeOK'
    <2>1. T'
      BY <1>13, <1>0, Packets, Written, Taken, PacketParts, ReconnectsAssumption
         DEF ShutdownLocal, QueueCloses, TunnelTypeOK, tunnel_vars, ws_vars, chan_vars, RemoteTypes, LocalTypes, ServerTypes, Chunk
    <2>2. ServerTypes'
      BY <1>13, <1>0 DEF ShutdownLocal, QueueCloses, ServerTypes, Chunk, server_vars
    <2>3. RemoteTypes'
      BY <1>13, <1>0 DEF ShutdownLocal, QueueCloses, RemoteTypes, Chunk, remote_vars
    <2>4. ClientTypes'
      BY <1>13, <1>0 DEF ShutdownLocal, QueueCloses, ClientTypes, Chunk, client_vars, store_vars
    <2>5. LocalTypes'
      BY <1>13, <1>0 DEF ShutdownLocal, QueueCloses, LocalTypes, Chunk, local_vars
    <2> QED
      BY <2>1, <2>2, <2>3, <2>4, <2>5, <1>p
  <1>14. ASSUME NEW r \in Streams, LocalCloses(r) PROVE TypeOK'
    <2>1. T'
      BY <1>14, <1>0, Packets, Written, Taken, PacketParts, ReconnectsAssumption
         DEF LocalCloses, TunnelTypeOK, tunnel_vars, ws_vars, chan_vars, RemoteTypes, LocalTypes, ServerTypes, Chunk
    <2>2. ServerTypes'
      BY <1>14, <1>0 DEF LocalCloses, ServerTypes, Chunk, server_vars
    <2>3. RemoteTypes'
      BY <1>14, <1>0 DEF LocalCloses, RemoteTypes, Chunk, remote_vars
    <2>4. ClientTypes'
      BY <1>14, <1>0 DEF LocalCloses, ClientTypes, Chunk, client_vars, store_vars
    <2>5. LocalTypes'
      BY <1>14, <1>0 DEF LocalCloses, LocalTypes, Chunk, local_vars
    <2> QED
      BY <2>1, <2>2, <2>3, <2>4, <2>5, <1>p
  <1>15. ASSUME NEW r \in Streams, ReadRemote(r) PROVE TypeOK'
    <2>1. T'
      <3>1. UNCHANGED <<session, ws_vars, to_server>>
        BY <1>15 DEF ReadRemote
      <3>2. CASE SendToClient(Data(r, rread[r] + 1))
        <4>1. Data(r, rread[r] + 1) \in Packet(Chunk)
          BY <1>15, <1>0, Packets, ChunksAssumption DEF ReadRemote, RemoteTypes, Chunk
        <4>2. to_client' \in Seq(Packet(Chunk)) /\ connected' = connected
          BY <3>2, <4>1, Written DEF SendToClient
        <4> QED
          BY <3>1, <4>2, <1>0 DEF TunnelTypeOK, ws_vars
      <3>3. CASE SendToClientFails
        BY <3>1, <3>3, <1>0 DEF SendToClientFails, TunnelTypeOK, ws_vars
      <3> QED
        BY <1>15, <3>2, <3>3 DEF ReadRemote
    <2>2. ServerTypes'
      BY <1>15, <1>0 DEF ReadRemote, SendToClientFails, Overtakes, ServerTypes, Chunk, server_vars
    <2>3. RemoteTypes'
      BY <1>15, <1>0, ChunksAssumption DEF ReadRemote, SendToClientFails, Overtakes, RemoteTypes, Chunk, remote_vars
    <2>4. ClientTypes'
      BY <1>15, <1>0 DEF ReadRemote, SendToClientFails, Overtakes, ClientTypes, Chunk, client_vars, store_vars
    <2>5. LocalTypes'
      BY <1>15, <1>0 DEF ReadRemote, SendToClientFails, Overtakes, LocalTypes, Chunk, local_vars
    <2> QED
      BY <2>1, <2>2, <2>3, <2>4, <2>5, <1>p
  <1>16. ASSUME NEW w \in WebSocket, ServerReceives(w) PROVE TypeOK'
    <2> DEFINE p == Head(to_server[w])
    <2>0. TakeFrom(w) /\ (ServerData(p) \/ ServerRefused(p)) /\ Overtakes(p.stream, {"init", "add"})
      BY <1>16 DEF ServerReceives
    <2>t. /\ to_server[w] # <<>> /\ to_server' \in Channels /\ p \in Packet(Chunk)
          /\ 1 \in DOMAIN to_server[w] /\ to_server[w][1] = p
      BY <2>0, TakenFrom
    <2> HIDE DEF p
    <2>1. T'
      BY <1>16, <2>t, <1>0 DEF ServerReceives, tunnel_vars, ws_vars, TunnelTypeOK, Channels
    <2>2. ServerTypes'
      <3>1. UNCHANGED <<accept, reader>>
        BY <1>16 DEF ServerReceives
      <3>2. raced' \in [Streams -> BOOLEAN]
        BY <2>0, <1>0 DEF Overtakes, ServerTypes
      <3>3. /\ streams' \in [Streams -> {"absent", "enabled", "disabled"}]
            /\ refused' \in [Streams -> BOOLEAN]
        <4>1. CASE ServerData(p)
          BY <4>1, <1>0 DEF ServerData, Disabled, ServerTypes
        <4>2. CASE ServerRefused(p)
          BY <4>2, <1>0 DEF ServerRefused, Disabled, ServerTypes
        <4> QED
          BY <2>0, <4>1, <4>2
      <3> QED
        BY <3>1, <3>2, <3>3, <1>0 DEF ServerTypes
    <2>3. RemoteTypes'
      <3>0. UNCHANGED <<rsent, rread, rend>>
        BY <1>16 DEF ServerReceives
      <3>1. CASE ServerData(p)
        <4> DEFINE r == p.stream
        <4>1. r \in Streams /\ p.data \in Chunk
          BY <3>1, <2>t, PacketParts DEF ServerData, Carries
        <4>2. rgot' = rgot \/ rgot' = [rgot EXCEPT ![r] = Append(@, p.data)]
          BY <3>1 DEF ServerData
        <4>3. Append(rgot[r], p.data) \in Seq(Chunk)
          BY <4>1, <1>0 DEF RemoteTypes
        <4>4. rgot' \in [Streams -> Seq(Chunk)]
          BY <4>1, <4>2, <4>3, <1>0 DEF RemoteTypes
        <4> QED
          BY <3>0, <4>4, <1>0 DEF RemoteTypes
      <3>2. CASE ServerRefused(p)
        BY <3>0, <3>2, <1>0 DEF ServerRefused, RemoteTypes
      <3> QED
        BY <2>0, <3>1, <3>2
    <2>4. ClientTypes'
      BY <1>16, <1>0 DEF ServerReceives, ClientTypes, Chunk, client_vars, store_vars
    <2>5. LocalTypes'
      BY <1>16, <1>0 DEF ServerReceives, LocalTypes, Chunk, local_vars
    <2> QED
      BY <2>1, <2>2, <2>3, <2>4, <2>5, <1>p
  <1>17. ASSUME ClientInit PROVE TypeOK'
    <2>1. T'
      <3>1. UNCHANGED <<connected, ws_vars, to_server>>
        BY <1>17 DEF ClientInit
      <3>2. to_client # <<>> /\ (to_client' = <<>> \/ to_client' = Tail(to_client))
        <4>1. to_client # <<>>
          BY <1>17 DEF ClientInit, Receives, Arrives
        <4>2. CASE locals[Head(to_client).stream]
          BY <1>17, <4>1, <4>2 DEF ClientInit, SessionEnds
        <4>3. CASE ~ locals[Head(to_client).stream]
          BY <1>17, <4>1, <4>3 DEF ClientInit
        <4> QED
          BY <4>2, <4>3
      <3>3. session' = FALSE \/ session' = session
        BY <1>17 DEF ClientInit, SessionEnds
      <3>4. to_client' \in Seq(Packet(Chunk))
        BY <3>2, Taken, NoPackets
      <3> QED
        BY <3>1, <3>3, <3>4, <1>0 DEF TunnelTypeOK, ws_vars, Channels
    <2>2. ServerTypes'
      BY <1>17, <1>0 DEF ClientInit, Receives, Arrives, SessionEnds, ServerTypes, Chunk, server_vars
    <2>3. RemoteTypes'
      BY <1>17, <1>0 DEF ClientInit, Receives, Arrives, SessionEnds, RemoteTypes, Chunk, remote_vars
    <2>4. ClientTypes'
      <3> DEFINE r == Head(to_client).stream
      <3>1. to_client # <<>>
        BY <1>17 DEF ClientInit, Receives, Arrives
      <3>2. r \in Streams
        BY <3>1, <1>0, Taken, PacketParts
      <3>3. UNCHANGED <<locals, local_write, queue, closer>>
        BY <1>17 DEF ClientInit
      <3>4. \/ UNCHANGED <<setup, local_read>>
            \/ setup' = r /\ local_read' = [local_read EXCEPT ![r] = "reading"]
        BY <1>17 DEF ClientInit
      <3> QED
        BY <3>2, <3>3, <3>4, <1>0 DEF ClientTypes
    <2>5. LocalTypes'
      BY <1>17, <1>0 DEF ClientInit, Receives, Arrives, SessionEnds, LocalTypes, Chunk, local_vars
    <2> QED
      BY <2>1, <2>2, <2>3, <2>4, <2>5, <1>p
  <1>18. ASSUME ClientInitRefused PROVE TypeOK'
    <2>1. T'
      <3> DEFINE p == Refused(Head(to_client).stream)
      <3>1. /\ to_client # <<>> /\ SendToServer(p) /\ SessionEnds
            /\ UNCHANGED <<connected, ws_vars>>
        BY <1>18 DEF ClientInitRefused, Receives, Arrives
      <3>2. p \in Packet(Chunk)
        BY <3>1, Taken, PacketParts, Packets
      <3>3. to_server' \in Channels
        BY <3>1, <3>2, Written
      <3>4. to_client' \in Seq(Packet(Chunk)) /\ session' = FALSE
        BY <3>1 DEF SessionEnds
      <3> QED
        BY <3>1, <3>3, <3>4, <1>0 DEF TunnelTypeOK, ws_vars, Channels
    <2>2. ServerTypes'
      BY <1>18, <1>0 DEF ClientInitRefused, Receives, Arrives, SessionEnds, ServerTypes, Chunk, server_vars
    <2>3. RemoteTypes'
      BY <1>18, <1>0 DEF ClientInitRefused, Receives, Arrives, SessionEnds, RemoteTypes, Chunk, remote_vars
    <2>4. ClientTypes'
      BY <1>18, <1>0 DEF ClientInitRefused, Receives, Arrives, SessionEnds, ClientTypes, Chunk, client_vars, store_vars
    <2>5. LocalTypes'
      BY <1>18, <1>0 DEF ClientInitRefused, Receives, Arrives, SessionEnds, LocalTypes, Chunk, local_vars
    <2> QED
      BY <2>1, <2>2, <2>3, <2>4, <2>5, <1>p
  <1>19. ASSUME ClientData PROVE TypeOK'
    <2>1. T'
      <3> DEFINE p == Refused(Head(to_client).stream)
      <3>1. to_client # <<>> /\ HandleData
        BY <1>19 DEF ClientData, Receives, Arrives
      <3>2. p \in Packet(Chunk)
        BY <3>1, Taken, PacketParts, Packets
      <3>3. to_server' = to_server \/ SendToServer(p)
        BY <3>1 DEF HandleData, SendToServerFails
      <3>4. to_server' \in Channels
        <4>1. CASE to_server' = to_server
          BY <4>1, <1>0 DEF TunnelTypeOK, Channels
        <4> QED
          BY <3>2, <3>3, <4>1, Written
      <3>5. to_client' = <<>> \/ to_client' = Tail(to_client)
        BY <3>1 DEF HandleData, SessionEnds
      <3>6. UNCHANGED <<connected, ws_vars>> /\ (session' = FALSE \/ session' = session)
        BY <3>1 DEF HandleData, SessionEnds
      <3>7. to_client' \in Seq(Packet(Chunk))
        BY <3>1, <3>5, Taken, NoPackets
      <3> QED
        BY <3>4, <3>6, <3>7, <1>0 DEF TunnelTypeOK, ws_vars, Channels
    <2>2. ServerTypes'
      BY <1>19, <1>0 DEF ClientData, Receives, Arrives, HandleData, SessionEnds, ServerTypes, Chunk, server_vars
    <2>3. RemoteTypes'
      BY <1>19, <1>0 DEF ClientData, Receives, Arrives, HandleData, SessionEnds, RemoteTypes, Chunk, remote_vars
    <2>4. ClientTypes'
      <3> DEFINE q == Head(to_client).stream
      <3>1. to_client # <<>> /\ HandleData
        BY <1>19 DEF ClientData, Receives, Arrives
      <3>2. q \in Streams /\ Head(to_client).data \in Chunk \union {Close}
        BY <3>1, Taken, PacketParts
      <3>3. Append(queue[q], Head(to_client).data) \in Seq(Chunk \union {Close})
        BY <3>2, <1>0 DEF ClientTypes
      <3>4. \/ queue' = queue
            \/ queue' = [queue EXCEPT ![q] = Append(@, Head(to_client).data)]
        BY <3>1 DEF HandleData
      <3>5. queue' \in [Streams -> Seq(Chunk \union {Close})]
        BY <3>2, <3>3, <3>4, <1>0 DEF ClientTypes
      <3>6. UNCHANGED <<setup, local_read, locals, local_write, closer>>
        BY <1>19, <3>1 DEF ClientData, HandleData
      <3> QED
        BY <3>5, <3>6, <1>0 DEF ClientTypes
    <2>5. LocalTypes'
      BY <1>19, <1>0 DEF ClientData, Receives, Arrives, HandleData, SessionEnds, LocalTypes, Chunk, local_vars
    <2> QED
      BY <2>1, <2>2, <2>3, <2>4, <2>5, <1>p
  <1>20. ASSUME NEW r \in Streams, Closer(r) PROVE TypeOK'
    <2>1. T'
      BY <1>20, <1>0, Packets, Written, Taken, PacketParts, ReconnectsAssumption
         DEF Closer, CloserRemoves, CloserCloses, TunnelTypeOK, tunnel_vars, ws_vars, chan_vars, RemoteTypes, LocalTypes, ServerTypes, Chunk
    <2>2. ServerTypes'
      BY <1>20, <1>0 DEF Closer, CloserRemoves, CloserCloses, ServerTypes, Chunk, server_vars
    <2>3. RemoteTypes'
      BY <1>20, <1>0 DEF Closer, CloserRemoves, CloserCloses, RemoteTypes, Chunk, remote_vars
    <2>4. ClientTypes'
      <3>1. UNCHANGED <<setup, local_read, local_write>>
        BY <1>20 DEF Closer, CloserRemoves, CloserCloses
      <3>2. Append(queue[r], Close) \in Seq(Chunk \union {Close})
        BY <1>0 DEF ClientTypes
      <3>3. queue' = queue \/ queue' = [queue EXCEPT ![r] = IF local_write[r] = "running" THEN Append(@, Close) ELSE @]
        BY <1>20 DEF Closer, CloserRemoves, CloserCloses
      <3>4. queue' \in [Streams -> Seq(Chunk \union {Close})]
        BY <3>2, <3>3, <1>0 DEF ClientTypes
      <3>5. locals' \in [Streams -> BOOLEAN]
        BY <1>20, <1>0 DEF Closer, CloserRemoves, CloserCloses, ClientTypes
      <3>6. closer' \in [Streams -> SUBSET {"remove", "sleep"}]
        <4>1. CASE CloserRemoves(r)
          <5>1. (closer[r] \ {"remove"}) \union {x \in {"sleep"} : locals[r]}
                   \in SUBSET {"remove", "sleep"}
            BY <1>0 DEF ClientTypes
          <5> QED
            BY <4>1, <5>1, <1>0 DEF CloserRemoves, ClientTypes
        <4>2. CASE CloserCloses(r)
          BY <4>2, <1>0 DEF CloserCloses, ClientTypes
        <4> QED
          BY <1>20, <4>1, <4>2 DEF Closer
      <3> QED
        BY <3>1, <3>4, <3>5, <3>6, <1>0 DEF ClientTypes
    <2>5. LocalTypes'
      BY <1>20, <1>0 DEF Closer, CloserRemoves, CloserCloses, LocalTypes, Chunk, local_vars
    <2> QED
      BY <2>1, <2>2, <2>3, <2>4, <2>5, <1>p
  <1>21. ASSUME NEW r \in Streams, ReadLocal(r) PROVE TypeOK'
    <2>1. T'
      <3>1. UNCHANGED <<tunnel_vars, to_client>>
        BY <1>21 DEF ReadLocal
      <3>2. Data(r, lread[r] + 1) \in Packet(Chunk)
        BY <1>21, <1>0, Packets, ChunksAssumption DEF ReadLocal, LocalSaid, LocalTypes, Chunk
      <3>3. to_server' = to_server \/ SendToServer(Data(r, lread[r] + 1))
        BY <1>21 DEF ReadLocal, SendToServerFails
      <3>4. to_server' \in Channels
        <4>1. CASE to_server' = to_server
          BY <4>1, <1>0 DEF TunnelTypeOK, Channels
        <4> QED
          BY <3>2, <3>3, <4>1, Written
      <3> QED
        BY <3>1, <3>4, <1>0 DEF TunnelTypeOK, tunnel_vars, ws_vars, Channels
    <2>2. ServerTypes'
      BY <1>21, <1>0 DEF ReadLocal, LocalSaid, ServerTypes, Chunk, server_vars
    <2>3. RemoteTypes'
      BY <1>21, <1>0 DEF ReadLocal, LocalSaid, RemoteTypes, Chunk, remote_vars
    <2>4. ClientTypes'
      BY <1>21, <1>0 DEF ReadLocal, LocalSaid, ClientTypes, Chunk, client_vars, store_vars
    <2>5. LocalTypes'
      BY <1>21, <1>0, ChunksAssumption DEF ReadLocal, LocalSaid, LocalTypes, Chunk, local_vars
    <2> QED
      BY <2>1, <2>2, <2>3, <2>4, <2>5, <1>p
  <1>22. ASSUME NEW r \in Streams, WriteLocal(r) PROVE TypeOK'
    <2>1. T'
      BY <1>22, <1>0, Packets, Written, Taken, PacketParts, ReconnectsAssumption
         DEF WriteLocal, HasData, Rest, TunnelTypeOK, tunnel_vars, ws_vars, chan_vars, RemoteTypes, LocalTypes, ServerTypes, Chunk
    <2>2. ServerTypes'
      BY <1>22, <1>0 DEF WriteLocal, HasData, Rest, ServerTypes, Chunk, server_vars
    <2>3. RemoteTypes'
      BY <1>22, <1>0 DEF WriteLocal, HasData, Rest, RemoteTypes, Chunk, remote_vars
    <2>4. ClientTypes'
      <3>1. UNCHANGED <<setup, local_read, locals, closer>>
        BY <1>22 DEF WriteLocal
      <3>2. local_write' \in [Streams -> {"none", "running", "ended"}]
        BY <1>22, <1>0 DEF WriteLocal, ClientTypes
      <3>3. queue[r] # <<>> /\ queue' = [queue EXCEPT ![r] = Tail(@)]
        BY <1>22 DEF WriteLocal, HasData, Rest
      <3>4. Tail(queue[r]) \in Seq(Chunk \union {Close})
        BY <3>3, <1>0 DEF ClientTypes
      <3>5. queue' \in [Streams -> Seq(Chunk \union {Close})]
        BY <3>3, <3>4, <1>0 DEF ClientTypes
      <3> QED
        BY <3>1, <3>2, <3>5, <1>0 DEF ClientTypes
    <2>5. LocalTypes'
      <3>1. UNCHANGED <<lsent, lread, lclosed>>
        BY <1>22 DEF WriteLocal
      <3>2. queue[r] # <<>> /\ queue[r] \in Seq(Chunk \union {Close}) /\ Head(queue[r]) # Close
        BY <1>22, <1>0 DEF WriteLocal, HasData, ClientTypes
      <3>3. Head(queue[r]) \in Chunk
        BY <3>2
      <3>4. Append(lgot[r], Head(queue[r])) \in Seq(Chunk)
        BY <3>3, <1>0 DEF LocalTypes
      <3>5. lgot' = lgot \/ lgot' = [lgot EXCEPT ![r] = Append(@, Head(queue[r]))]
        BY <1>22 DEF WriteLocal
      <3> QED
        BY <3>1, <3>4, <3>5, <1>0 DEF LocalTypes
    <2> QED
      BY <2>1, <2>2, <2>3, <2>4, <2>5, <1>p
  <1>23. ASSUME NEW r \in Streams, RemoteSends(r) PROVE TypeOK'
    <2>1. T'
      BY <1>23, <1>0, Packets, Written, Taken, PacketParts, ReconnectsAssumption
         DEF RemoteSends, TunnelTypeOK, tunnel_vars, ws_vars, chan_vars, RemoteTypes, LocalTypes, ServerTypes, Chunk
    <2>2. ServerTypes'
      BY <1>23, <1>0 DEF RemoteSends, ServerTypes, Chunk, server_vars
    <2>3. RemoteTypes'
      <3>1. rsent[r] \in 0 .. MaxChunks /\ lsent[r] \in 0 .. MaxChunks /\ MaxChunks \in Nat
        BY <1>0, ChunksAssumption DEF RemoteTypes, LocalTypes
      <3>2. rsent[r] + 1 \in 0 .. MaxChunks
        BY <1>23, <3>1 DEF RemoteSends
      <3> QED
        BY <1>23, <1>0, <3>2 DEF RemoteSends, RemoteTypes
    <2>4. ClientTypes'
      BY <1>23, <1>0 DEF RemoteSends, ClientTypes, Chunk, client_vars, store_vars
    <2>5. LocalTypes'
      BY <1>23, <1>0 DEF RemoteSends, LocalTypes, Chunk, local_vars
    <2> QED
      BY <2>1, <2>2, <2>3, <2>4, <2>5, <1>p
  <1>24. ASSUME NEW r \in Streams, RemoteCloses(r) PROVE TypeOK'
    <2>1. T'
      BY <1>24, <1>0, Packets, Written, Taken, PacketParts, ReconnectsAssumption
         DEF RemoteCloses, TunnelTypeOK, tunnel_vars, ws_vars, chan_vars, RemoteTypes, LocalTypes, ServerTypes, Chunk
    <2>2. ServerTypes'
      BY <1>24, <1>0 DEF RemoteCloses, ServerTypes, Chunk, server_vars
    <2>3. RemoteTypes'
      BY <1>24, <1>0 DEF RemoteCloses, RemoteTypes, Chunk, remote_vars
    <2>4. ClientTypes'
      BY <1>24, <1>0 DEF RemoteCloses, ClientTypes, Chunk, client_vars, store_vars
    <2>5. LocalTypes'
      BY <1>24, <1>0 DEF RemoteCloses, LocalTypes, Chunk, local_vars
    <2> QED
      BY <2>1, <2>2, <2>3, <2>4, <2>5, <1>p
  <1>25. ASSUME NEW r \in Streams, LocalSends(r) PROVE TypeOK'
    <2>1. T'
      BY <1>25, <1>0, Packets, Written, Taken, PacketParts, ReconnectsAssumption
         DEF LocalSends, TunnelTypeOK, tunnel_vars, ws_vars, chan_vars, RemoteTypes, LocalTypes, ServerTypes, Chunk
    <2>2. ServerTypes'
      BY <1>25, <1>0 DEF LocalSends, ServerTypes, Chunk, server_vars
    <2>3. RemoteTypes'
      BY <1>25, <1>0 DEF LocalSends, RemoteTypes, Chunk, remote_vars
    <2>4. ClientTypes'
      BY <1>25, <1>0 DEF LocalSends, ClientTypes, Chunk, client_vars, store_vars
    <2>5. LocalTypes'
      <3>1. rsent[r] \in 0 .. MaxChunks /\ lsent[r] \in 0 .. MaxChunks /\ MaxChunks \in Nat
        BY <1>0, ChunksAssumption DEF RemoteTypes, LocalTypes
      <3>2. lsent[r] + 1 \in 0 .. MaxChunks
        BY <1>25, <3>1 DEF LocalSends
      <3> QED
        BY <1>25, <1>0, <3>2 DEF LocalSends, LocalTypes
    <2> QED
      BY <2>1, <2>2, <2>3, <2>4, <2>5, <1>p
  <1>26. ASSUME ConnectionLost PROVE TypeOK'
    <2>1. T'
      BY <1>26, <1>0, TunnelSteps DEF ConnectionLost
    <2>2. ServerTypes'
      BY <1>26, <1>0 DEF ConnectionLost, ServerTypes, Chunk, server_vars
    <2>3. RemoteTypes'
      BY <1>26, <1>0 DEF ConnectionLost, RemoteTypes, Chunk, remote_vars
    <2>4. ClientTypes'
      BY <1>26, <1>0 DEF ConnectionLost, ClientTypes, Chunk, client_vars, store_vars
    <2>5. LocalTypes'
      BY <1>26, <1>0 DEF ConnectionLost, LocalTypes, Chunk, local_vars
    <2> QED
      BY <2>1, <2>2, <2>3, <2>4, <2>5, <1>p
  <1>27. ASSUME Reconnect PROVE TypeOK'
    <2>1. T'
      BY <1>27, <1>0, TunnelSteps DEF Reconnect
    <2>2. ServerTypes'
      BY <1>27, <1>0 DEF Reconnect, ServerTypes, Chunk, server_vars
    <2>3. RemoteTypes'
      BY <1>27, <1>0 DEF Reconnect, RemoteTypes, Chunk, remote_vars
    <2>4. ClientTypes'
      BY <1>27, <1>0 DEF Reconnect, ClientTypes, Chunk, client_vars, store_vars
    <2>5. LocalTypes'
      BY <1>27, <1>0 DEF Reconnect, LocalTypes, Chunk, local_vars
    <2> QED
      BY <2>1, <2>2, <2>3, <2>4, <2>5, <1>p
  <1>28. CASE UNCHANGED vars
    BY <1>28 DEF vars, tunnel_vars, ws_vars, chan_vars, server_vars, remote_vars, client_vars, store_vars,
       local_vars, TypeOK, StoreTypeOK, TunnelTypeOK
  <1> QED
    BY <1>1, <1>2, <1>3, <1>4, <1>5, <1>6, <1>7, <1>8, <1>9, <1>10, <1>11, <1>12, <1>13,
       <1>14, <1>15, <1>16, <1>17, <1>18, <1>19, <1>20, <1>21, <1>22, <1>23, <1>24, <1>25,
       <1>26, <1>27, <1>28
       DEF Next, Remote, AcceptTask, ReaderTask, LocalReader, LocalWriter, LocalService,
           ClientLoop
------------------------------------------------------------------------------
\* Who may write what: each part of the state with the actions that change it.
Frame ==
    /\ \/ UNCHANGED to_server
       \/ \E w \in WebSocket : ServerReceives(w) \/ ServerLoopEnds(w)
       \/ ClientInitRefused \/ ClientData \/ Reconnect
       \/ \E r \in Streams : ReadLocal(r)
    /\ \/ UNCHANGED to_client
       \/ ClientInit \/ ClientInitRefused \/ ClientData \/ ClientEnd
       \/ ConnectionLost \/ Reconnect
       \/ \E r \in Streams : SendInit(r) \/ ReadRemote(r) \/ RemoteEof(r)
    /\ \/ UNCHANGED accept
       \/ \E r \in Streams : Accept(r) \/ SendInit(r) \/ AddRemote(r)
    /\ \/ UNCHANGED reader
       \/ \E r \in Streams : \/ Accept(r) \/ ReadRemote(r) \/ RemoteEof(r)
                            \/ ReadError(r) \/ ReaderLeaves(r) \/ ReaderCancelled(r)
    /\ \/ UNCHANGED local_read
       \/ ClientInit
       \/ \E r \in Streams : ReadLocal(r) \/ LocalEof(r) \/ LocalReaderLeaves(r)
    /\ \/ UNCHANGED <<streams, refused, raced>>
       \/ \E w \in WebSocket : ServerReceives(w)
       \/ \E r \in Streams : \/ AddRemote(r) \/ ReadRemote(r) \/ RemoteEof(r)
                            \/ ReaderLeaves(r)

\* The same for what the pipes are made of.
PipeFrame ==
    /\ \/ UNCHANGED <<queue, lgot>>
       \/ ClientData
       \/ \E r \in Streams : Closer(r) \/ WriteLocal(r)
    /\ \/ UNCHANGED <<locals, local_write, closer>>
       \/ StreamSetUp \/ ClientEnd
       \/ \E r \in Streams : \/ Closer(r) \/ LocalReaderLeaves(r) \/ WriteLocal(r)
                            \/ ShutdownLocal(r)
    /\ \/ UNCHANGED setup
       \/ ClientInit \/ StreamSetUp
    /\ \/ UNCHANGED session
       \/ ClientInit \/ ClientInitRefused \/ ClientData \/ ConnectionLost \/ Reconnect
    /\ \/ UNCHANGED connected
       \/ Reconnect \/ \E w \in WebSocket : ServerLoopEnds(w)
       \/ \E r \in Streams : SendInit(r) \/ ReadRemote(r) \/ RemoteEof(r)
    /\ UNCHANGED <<entering, slot, reconnects>> \/ Reconnect
    /\ \/ UNCHANGED <<alive, loops>>
       \/ ConnectionLost \/ Reconnect \/ \E w \in WebSocket : ServerLoopEnds(w)
    /\ UNCHANGED rread \/ \E r \in Streams : ReadRemote(r)
    /\ UNCHANGED rsent \/ \E r \in Streams : RemoteSends(r)
    /\ UNCHANGED rgot \/ \E w \in WebSocket : ServerReceives(w)
    /\ UNCHANGED lread \/ \E r \in Streams : ReadLocal(r)
    /\ UNCHANGED lsent \/ \E r \in Streams : LocalSends(r)

LEMMA NextFrame == [Next]_vars => Frame /\ PipeFrame
  <1> SUFFICES ASSUME [Next]_vars PROVE Frame /\ PipeFrame
    OBVIOUS
  <1> USE DEF Frame, PipeFrame, tunnel_vars, ws_vars, chan_vars, server_vars, remote_vars, client_vars,
              store_vars, local_vars
  <1>1. ASSUME NEW r \in Streams, Accept(r) PROVE Frame /\ PipeFrame
    BY <1>1 DEF Accept
  <1>2. ASSUME NEW r \in Streams, SendInit(r) PROVE Frame /\ PipeFrame
    BY <1>2 DEF SendInit
  <1>3. ASSUME NEW r \in Streams, AddRemote(r) PROVE Frame /\ PipeFrame
    BY <1>3 DEF AddRemote
  <1>4. ASSUME NEW r \in Streams, ReadRemote(r) PROVE Frame /\ PipeFrame
    BY <1>4 DEF ReadRemote
  <1>5. ASSUME NEW r \in Streams, RemoteEof(r) PROVE Frame /\ PipeFrame
    BY <1>5 DEF RemoteEof
  <1>6. ASSUME NEW r \in Streams, ReadError(r) PROVE Frame /\ PipeFrame
    BY <1>6 DEF ReadError
  <1>7. ASSUME NEW r \in Streams, ReaderLeaves(r) PROVE Frame /\ PipeFrame
    BY <1>7 DEF ReaderLeaves
  <1>8. ASSUME NEW r \in Streams, ReaderCancelled(r) PROVE Frame /\ PipeFrame
    BY <1>8 DEF ReaderCancelled
  <1>9. ASSUME NEW w \in WebSocket, ServerReceives(w) PROVE Frame /\ PipeFrame
    BY <1>9 DEF ServerReceives
  <1>10. ASSUME NEW w \in WebSocket, ServerLoopEnds(w) PROVE Frame /\ PipeFrame
    BY <1>10 DEF ServerLoopEnds, LoopEnds
  <1>11. ASSUME ClientInit PROVE Frame /\ PipeFrame
    BY <1>11 DEF ClientInit
  <1>12. ASSUME ClientInitRefused PROVE Frame /\ PipeFrame
    BY <1>12 DEF ClientInitRefused
  <1>13. ASSUME StreamSetUp PROVE Frame /\ PipeFrame
    BY <1>13 DEF StreamSetUp, AddStream
  <1>14. ASSUME ClientData PROVE Frame /\ PipeFrame
    BY <1>14 DEF ClientData, HandleData
  <1>15. ASSUME ClientEnd PROVE Frame /\ PipeFrame
    BY <1>15 DEF ClientEnd, HandleEnd
  <1>16. ASSUME NEW r \in Streams, Closer(r) PROVE Frame /\ PipeFrame
    BY <1>16 DEF Closer
  <1>17. ASSUME NEW r \in Streams, ReadLocal(r) PROVE Frame /\ PipeFrame
    BY <1>17 DEF ReadLocal
  <1>18. ASSUME NEW r \in Streams, LocalEof(r) PROVE Frame /\ PipeFrame
    BY <1>18 DEF LocalEof
  <1>19. ASSUME NEW r \in Streams, LocalReaderLeaves(r) PROVE Frame /\ PipeFrame
    BY <1>19 DEF LocalReaderLeaves
  <1>20. ASSUME NEW r \in Streams, WriteLocal(r) PROVE Frame /\ PipeFrame
    BY <1>20 DEF WriteLocal
  <1>21. ASSUME NEW r \in Streams, ShutdownLocal(r) PROVE Frame /\ PipeFrame
    BY <1>21 DEF ShutdownLocal, QueueCloses
  <1>22. ASSUME NEW r \in Streams, RemoteSends(r) PROVE Frame /\ PipeFrame
    BY <1>22 DEF RemoteSends
  <1>23. ASSUME NEW r \in Streams, RemoteCloses(r) PROVE Frame /\ PipeFrame
    BY <1>23 DEF RemoteCloses
  <1>24. ASSUME NEW r \in Streams, LocalSends(r) PROVE Frame /\ PipeFrame
    BY <1>24 DEF LocalSends
  <1>25. ASSUME NEW r \in Streams, LocalCloses(r) PROVE Frame /\ PipeFrame
    BY <1>25 DEF LocalCloses
  <1>26. ASSUME ConnectionLost PROVE Frame /\ PipeFrame
    BY <1>26 DEF ConnectionLost, Breaks
  <1>27. ASSUME Reconnect PROVE Frame /\ PipeFrame
    BY <1>27 DEF Reconnect
  <1>28. CASE UNCHANGED vars
    BY <1>28 DEF vars
  <1> HIDE DEF Frame
  <1> QED
    BY <1>1, <1>2, <1>3, <1>4, <1>5, <1>6, <1>7, <1>8, <1>9, <1>10, <1>11, <1>12, <1>13,
       <1>14, <1>15, <1>16, <1>17, <1>18, <1>19, <1>20, <1>21, <1>22, <1>23, <1>24, <1>25,
       <1>26, <1>27, <1>28
       DEF Next, Remote, AcceptTask, ReaderTask, LocalReader, LocalWriter, LocalService,
           ClientLoop

\* A packet of a stream, a task that reads for it, exists only once a remote
\* user has been accepted for it.
Opened(r) == accept[r] # "none"
Known ==
    /\ \A w \in WebSocket : \A i \in DOMAIN to_server[w] : Opened(to_server[w][i].stream)
    /\ \A i \in DOMAIN to_client : Opened(to_client[i].stream)
    /\ \A r \in Streams : reader[r] # "none" => Opened(r)
    /\ \A r \in Streams : local_read[r] # "none" => Opened(r)

\* A Refused that was handled found the stream in the map, or raced it.
RefusedLate ==
    \A r \in Streams : refused[r] /\ ~ raced[r] =>
       accept[r] = "done" /\ streams[r] # "enabled"

IInv == TypeOK /\ Carries /\ Known /\ RefusedLate

LEMMA Shrunk ==
  ASSUME NEW S, NEW q \in Seq(S), NEW r,
         r = q \/ r = <<>> \/ (q # <<>> /\ r = Tail(q))
  PROVE  \A i \in DOMAIN r : \E j \in DOMAIN q : r[i] = q[j]
  <1>1. CASE r = q
    BY <1>1
  <1>2. CASE r = <<>>
    BY <1>2
  <1>3. CASE q # <<>> /\ r = Tail(q)
    <2> SUFFICES ASSUME NEW i \in DOMAIN r PROVE \E j \in DOMAIN q : r[i] = q[j]
      OBVIOUS
    <2>1. i + 1 \in DOMAIN q /\ r[i] = q[i + 1]
      BY <1>3
    <2> QED
      BY <2>1
  <1> QED
    BY <1>1, <1>2, <1>3

LEMMA Grown ==
  ASSUME NEW S, NEW q \in Seq(S), NEW p \in S, NEW i \in DOMAIN Append(q, p)
  PROVE  Append(q, p)[i] = p \/ \E j \in DOMAIN q : Append(q, p)[i] = q[j]
  <1>1. CASE i = Len(q) + 1
    BY <1>1
  <1>2. CASE i # Len(q) + 1
    <2>1. i \in DOMAIN q /\ Append(q, p)[i] = q[i]
      BY <1>2
    <2> QED
      BY <2>1
  <1> QED
    BY <1>1, <1>2

LEMMA Opening == TypeOK /\ [Next]_vars => \A r \in Streams : Opened(r) => Opened(r)'
  <1> SUFFICES ASSUME TypeOK, [Next]_vars, NEW r \in Streams, Opened(r)
               PROVE  Opened(r)'
    OBVIOUS
  <1>1. accept \in [Streams -> {"none", "init", "add", "done"}]
    BY DEF TypeOK
  <1>2. CASE UNCHANGED accept
    BY <1>2 DEF Opened
  <1>3. CASE \E t \in Streams : Accept(t) \/ SendInit(t) \/ AddRemote(t)
    BY <1>1, <1>3 DEF Opened, Accept, SendInit, AddRemote
  <1> QED
    BY <1>2, <1>3, NextFrame DEF Frame

\* What is new in to_server.
LEMMA ToServer ==
  ASSUME TypeOK, Known, [Next]_vars, NEW w \in WebSocket, NEW i \in DOMAIN to_server'[w]
  PROVE  \/ \E j \in DOMAIN to_server[w] : to_server'[w][i] = to_server[w][j]
         \/ /\ to_server'[w][i].stream \in Streams
            /\ Opened(to_server'[w][i].stream)
            /\ to_server'[w][i].type = "Data" => to_server'[w][i].data \in Chunk
  <1> DEFINE Old == \E j \in DOMAIN to_server[w] : to_server'[w][i] = to_server[w][j]
             New(p) == /\ p.stream \in Streams /\ Opened(p.stream)
                       /\ p.type = "Data" => p.data \in Chunk
  <1>0. /\ to_server \in Channels /\ to_client \in Seq(Packet(Chunk))
        /\ to_server[w] \in Seq(Packet(Chunk)) /\ slot \in WebSocket
    BY DEF TypeOK, StoreTypeOK, TunnelTypeOK, Channels
  <1>q. ASSUME \/ to_server'[w] = to_server[w] \/ to_server'[w] = <<>>
               \/ to_server[w] # <<>> /\ to_server'[w] = Tail(to_server[w])
        PROVE  Old
    <2> DEFINE q == to_server[w]
               z == to_server'[w]
    <2>1. q \in Seq(Packet(Chunk)) /\ (z = q \/ z = <<>> \/ (q # <<>> /\ z = Tail(q)))
      BY <1>q, <1>0
    <2> HIDE DEF q, z
    <2>2. \A k \in DOMAIN z : \E j \in DOMAIN q : z[k] = q[j]
      BY <2>1, Shrunk
    <2> QED
      BY <2>2 DEF q, z
  <1>s. ASSUME NEW p \in Packet(Chunk), New(p), SendToServer(p)
        PROVE  Old \/ New(to_server'[w][i])
    <2>1. CASE to_server'[w] = to_server[w]
      BY <2>1
    <2>2. CASE to_server'[w] = Append(to_server[w], p)
      <3>1. to_server'[w][i] = p \/ Old
        BY <2>2, <1>0, Grown
      <3> QED
        BY <3>1, <1>s
    <2> QED
      BY <1>0, <1>s, <2>1, <2>2 DEF SendToServer, Channels
  <1>r. ASSUME to_client # <<>>
        PROVE  LET p == Refused(Head(to_client).stream) IN p \in Packet(Chunk) /\ New(p)
    <2>1. Head(to_client).stream \in Streams
      BY <1>r, Taken, PacketParts
    <2>2. Head(to_client) = to_client[1] /\ 1 \in DOMAIN to_client
      BY <1>r, <1>0
    <2>3. Opened(Head(to_client).stream)
      BY <2>2 DEF Known
    <2> QED
      BY <2>1, <2>3, Packets DEF Refused
  <1>1. CASE UNCHANGED to_server
    BY <1>1
  <1>2. ASSUME NEW v \in WebSocket, ServerReceives(v) PROVE Old \/ New(to_server'[w][i])
    <2>1. to_server[v] # <<>> /\ to_server' = [to_server EXCEPT ![v] = Tail(@)]
      BY <1>2, TakenFrom DEF ServerReceives
    <2> QED
      BY <2>1, <1>0, <1>q DEF Channels
  <1>3. CASE ClientInitRefused
    <2>1. to_client # <<>> /\ SendToServer(Refused(Head(to_client).stream))
      BY <1>3 DEF ClientInitRefused, Receives, Arrives
    <2> QED
      BY <2>1, <1>r, <1>s
  <1>4. CASE ClientData
    <2>1. /\ to_client # <<>>
          /\ UNCHANGED to_server \/ SendToServer(Refused(Head(to_client).stream))
      BY <1>4 DEF ClientData, Receives, Arrives, HandleData, SendToServerFails
    <2> QED
      BY <2>1, <1>1, <1>r, <1>s
  <1>5. ASSUME Reconnect \/ \E v \in WebSocket : ServerLoopEnds(v) PROVE Old
    <2>1. to_server'[w] = to_server[w] \/ to_server'[w] = <<>>
      BY <1>5, <1>0 DEF Reconnect, Reconnecting, TakeOver, Enter, AddClient, chan_vars,
                        ServerLoopEnds, LoopEnds, Channels
    <2> QED
      BY <2>1, <1>0, Shrunk
  <1>6. ASSUME NEW r \in Streams, ReadLocal(r) PROVE Old \/ New(to_server'[w][i])
    <2>1. lread[r] + 1 \in Chunk
      BY <1>6, NextChunk
    <2>2. Opened(r)
      BY <1>6 DEF ReadLocal, Known
    <2>3. New(Data(r, lread[r] + 1)) /\ Data(r, lread[r] + 1) \in Packet(Chunk)
      BY <2>1, <2>2, Packets DEF Data
    <2>4. UNCHANGED to_server \/ SendToServer(Data(r, lread[r] + 1))
      BY <1>6 DEF ReadLocal, SendToServerFails
    <2> QED
      BY <2>3, <2>4, <1>1, <1>s
  <1> QED
    BY <1>1, <1>2, <1>3, <1>4, <1>5, <1>6, NextFrame DEF Frame

LEMMA ToClient ==
  ASSUME TypeOK, Known, [Next]_vars, NEW i \in DOMAIN to_client'
  PROVE  \/ \E j \in DOMAIN to_client : to_client'[i] = to_client[j]
         \/ to_client'[i].stream \in Streams /\ Opened(to_client'[i].stream)
  <1> DEFINE Old == \E j \in DOMAIN to_client : to_client'[i] = to_client[j]
             New(p) == p.stream \in Streams /\ Opened(p.stream)
  <1>0. to_client \in Seq(Packet(Chunk))
    BY DEF TypeOK, StoreTypeOK, TunnelTypeOK
  <1>s. ASSUME NEW p \in Packet(Chunk), New(p), SendToClient(p)
        PROVE  Old \/ New(to_client'[i])
    <2>1. CASE to_client' = to_client
      BY <2>1
    <2>2. CASE to_client' = Append(to_client, p)
      <3>1. to_client'[i] = p \/ Old
        BY <2>2, <1>0, Grown
      <3> QED
        BY <3>1, <1>s
    <2> QED
      BY <1>s, <2>1, <2>2 DEF SendToClient
  <1>1. CASE UNCHANGED to_client
    BY <1>1
  <1>2. CASE \/ to_client' = <<>>
             \/ to_client # <<>> /\ to_client' = Tail(to_client)
    BY <1>2, <1>0, Shrunk
  <1>3. CASE ClientInit
    <2>1. to_client # <<>>
      BY <1>3 DEF ClientInit, Receives, Arrives
    <2>2. CASE locals[Head(to_client).stream]
      BY <1>2, <1>3, <2>2 DEF ClientInit, SessionEnds
    <2>3. CASE ~ locals[Head(to_client).stream]
      BY <1>2, <1>3, <2>1, <2>3 DEF ClientInit
    <2> QED
      BY <2>2, <2>3
  <1>4. CASE ClientInitRefused \/ ConnectionLost \/ Reconnect
    BY <1>1, <1>2, <1>4 DEF ClientInitRefused, ConnectionLost, Breaks, SessionEnds, Reconnect,
                            Reconnecting, TakeOver, Enter, AddClient, chan_vars
  <1>5. CASE ClientData
    BY <1>2, <1>5 DEF ClientData, Receives, Arrives, HandleData, SessionEnds
  <1>6. CASE ClientEnd
    BY <1>2, <1>6 DEF ClientEnd, Receives, Arrives, HandleEnd
  <1>7. ASSUME NEW r \in Streams, SendInit(r) PROVE Old \/ New(to_client'[i])
    <2>1. New(Init_(r)) /\ Init_(r) \in Packet(Chunk)
      BY <1>7, Packets DEF SendInit, Opened, Init_
    <2> QED
      BY <1>7, <2>1, <1>1, <1>s DEF SendInit, SendToClientFails
  <1>8. ASSUME NEW r \in Streams, RemoteEof(r) PROVE Old \/ New(to_client'[i])
    <2>1. New(End(r)) /\ End(r) \in Packet(Chunk)
      BY <1>8, Packets DEF RemoteEof, Known, End
    <2> QED
      BY <1>8, <2>1, <1>1, <1>s DEF RemoteEof, SendToClientFails
  <1>9. ASSUME NEW r \in Streams, ReadRemote(r) PROVE Old \/ New(to_client'[i])
    <2>1. rread[r] + 1 \in Chunk
      BY <1>9, NextChunk
    <2>2. New(Data(r, rread[r] + 1)) /\ Data(r, rread[r] + 1) \in Packet(Chunk)
      BY <1>9, <2>1, Packets DEF ReadRemote, Known, Data
    <2> QED
      BY <1>9, <2>2, <1>1, <1>s DEF ReadRemote, SendToClientFails
  <1> QED
    BY <1>1, <1>3, <1>4, <1>5, <1>6, <1>7, <1>8, <1>9, NextFrame DEF Frame

LEMMA NextKnown == TypeOK /\ Carries /\ Known /\ [Next]_vars => Carries' /\ Known'
  <1> SUFFICES ASSUME TypeOK, Carries, Known, [Next]_vars PROVE Carries' /\ Known'
    OBVIOUS
  <1>0. to_server \in Channels /\ to_client \in Seq(Packet(Chunk))
    BY DEF TypeOK, StoreTypeOK, TunnelTypeOK, Channels
  <1>s. /\ \A w \in WebSocket : \A i \in DOMAIN to_server[w] :
              to_server[w][i].stream \in Streams
        /\ \A i \in DOMAIN to_client : to_client[i].stream \in Streams
    BY <1>0, PacketParts DEF Channels
  <1>o. \A r \in Streams : accept[r] # "none" => accept'[r] # "none"
    BY Opening DEF Opened
  <1>1. Carries'
    BY ToServer DEF Carries, Chunk
  <1>2. ASSUME NEW w \in WebSocket, NEW i \in DOMAIN to_server'[w]
        PROVE  accept'[to_server'[w][i].stream] # "none"
    <2>1. CASE \E j \in DOMAIN to_server[w] : to_server'[w][i] = to_server[w][j]
      BY <2>1, <1>s, <1>o DEF Known, Opened
    <2>2. CASE to_server'[w][i].stream \in Streams /\ Opened(to_server'[w][i].stream)
      BY <2>2, <1>o DEF Opened
    <2> QED
      BY <2>1, <2>2, ToServer
  <1>3. ASSUME NEW i \in DOMAIN to_client' PROVE accept'[to_client'[i].stream] # "none"
    <2>1. CASE \E j \in DOMAIN to_client : to_client'[i] = to_client[j]
      BY <2>1, <1>s, <1>o DEF Known, Opened
    <2>2. CASE to_client'[i].stream \in Streams /\ Opened(to_client'[i].stream)
      BY <2>2, <1>o DEF Opened
    <2> QED
      BY <2>1, <2>2, ToClient
  <1>4. ASSUME NEW r \in Streams, reader'[r] # "none" PROVE Opened(r)'
    <2>1. CASE \E t \in Streams : Accept(t)
      BY <2>1, <1>4, Opening DEF Accept, TypeOK, Known, Opened
    <2>2. CASE \/ UNCHANGED reader
               \/ \E t \in Streams : \/ ReadRemote(t) \/ RemoteEof(t) \/ ReadError(t)
                                    \/ ReaderLeaves(t) \/ ReaderCancelled(t)
      <3>1. reader[r] # "none"
        BY <2>2, <1>4 DEF ReadRemote, RemoteEof, ReadError, ReaderLeaves, ReaderCancelled,
                          TypeOK
      <3> QED
        BY <3>1, Opening DEF Known
    <2> QED
      BY <2>1, <2>2, NextFrame DEF Frame
  <1>5. ASSUME NEW r \in Streams, local_read'[r] # "none" PROVE Opened(r)'
    <2>1. CASE local_read[r] # "none"
      BY <2>1, Opening DEF Known
    <2>2. CASE local_read[r] = "none"
      <3>0. local_read \in [Streams -> {"none", "reading", "leaving", "ended"}]
        BY DEF TypeOK
      <3>1. ~ \E t \in Streams : ReadLocal(t) \/ LocalEof(t) \/ LocalReaderLeaves(t)
        BY <3>0, <2>2, <1>5 DEF ReadLocal, LocalEof, LocalReaderLeaves
      <3>2. ClientInit
        BY <3>1, <2>2, <1>5, NextFrame DEF Frame
      <3>3. to_client # <<>> /\ r = Head(to_client).stream
        BY <3>2, <2>2, <1>5 DEF ClientInit, Receives, Arrives, TypeOK
      <3>4. 1 \in DOMAIN to_client /\ to_client[1] = Head(to_client)
        BY <3>3, <1>0
      <3> QED
        BY <3>3, <3>4, Opening DEF Known
    <2> QED
      BY <2>1, <2>2
  <1> QED
    BY <1>1, <1>2, <1>3, <1>4, <1>5 DEF Known, Opened

LEMMA NextRefused == IInv /\ [Next]_vars => RefusedLate'
  <1> SUFFICES ASSUME IInv, [Next]_vars, NEW r \in Streams, refused'[r], ~ raced'[r]
               PROVE  accept'[r] = "done" /\ streams'[r] # "enabled"
    BY DEF RefusedLate
  <1>0. /\ accept \in [Streams -> {"none", "init", "add", "done"}]
        /\ streams \in [Streams -> {"absent", "enabled", "disabled"}]
        /\ refused \in [Streams -> BOOLEAN] /\ raced \in [Streams -> BOOLEAN]
    BY DEF IInv, TypeOK
  <1>1. ASSUME accept[r] = "done" PROVE accept'[r] = "done"
    <2>1. CASE UNCHANGED accept
      BY <1>1, <2>1
    <2>2. CASE \E t \in Streams : Accept(t) \/ SendInit(t) \/ AddRemote(t)
      BY <1>0, <1>1, <2>2 DEF Accept, SendInit, AddRemote
    <2> QED
      BY <2>1, <2>2, NextFrame DEF Frame
  <1>2. CASE UNCHANGED <<streams, refused, raced>>
    BY <1>1, <1>2 DEF IInv, RefusedLate
  <1>3. ASSUME NEW t \in Streams, AddRemote(t) PROVE streams'[r] # "enabled" /\ accept[r] = "done"
    BY <1>0, <1>3 DEF AddRemote, IInv, RefusedLate
  <1>4. ASSUME NEW t \in Streams, ReadRemote(t) \/ RemoteEof(t) \/ ReaderLeaves(t)
        PROVE  streams'[r] # "enabled" /\ accept[r] = "done"
    BY <1>0, <1>4 DEF ReadRemote, RemoteEof, ReaderLeaves, Overtakes, Disabled, IInv,
                      RefusedLate
  <1>5. ASSUME NEW w \in WebSocket, ServerReceives(w)
        PROVE  streams'[r] # "enabled" /\ accept[r] = "done"
    <2> DEFINE p == Head(to_server[w])
               h == p.stream
    <2>1. /\ TakeFrom(w) /\ (ServerData(p) \/ ServerRefused(p))
          /\ Overtakes(h, {"init", "add"})
      BY <1>5 DEF ServerReceives
    <2>2. h \in Streams /\ Opened(h)
      BY <2>1, TakenFrom, PacketParts DEF IInv, Known
    <2>3. raced' = [raced EXCEPT ![h] = @ \/ accept[h] \in {"init", "add"}]
      BY <2>1 DEF Overtakes
    <2>4. ~ raced[r] /\ (r = h => accept[r] = "done")
      BY <1>0, <2>2, <2>3 DEF Opened
    <2>5. CASE ServerData(p)
      <3>1. UNCHANGED refused /\ (UNCHANGED streams \/ streams' = Disabled(h))
        BY <2>5 DEF ServerData
      <3> QED
        BY <3>1, <2>4, <1>0 DEF Disabled, IInv, RefusedLate
    <2>6. CASE ServerRefused(p)
      <3>1. streams' = Disabled(h) /\ refused' = [refused EXCEPT ![h] = TRUE]
        BY <2>6 DEF ServerRefused
      <3> QED
        BY <3>1, <2>2, <2>4, <1>0 DEF Disabled, IInv, RefusedLate
    <2> QED
      BY <2>1, <2>5, <2>6
  <1> QED
    BY <1>1, <1>2, <1>3, <1>4, <1>5, NextFrame DEF Frame

LEMMA InitIInv == Init => IInv
  <1> SUFFICES ASSUME Init PROVE IInv
    OBVIOUS
  <1>1. TypeOK
    BY InitTypes
  <1>2. Carries /\ Known
    BY DEF Init, StoreInit, TunnelInit, Carries, Known
  <1>3. RefusedLate
    BY DEF Init, RefusedLate
  <1> QED
    BY <1>1, <1>2, <1>3 DEF IInv

LEMMA NextIInv == IInv /\ [Next]_vars => IInv'
  BY NextTypes, NextKnown, NextRefused DEF IInv

------------------------------------------------------------------------------
(* The pipes: what is in a channel of the tunnel is in order and, unless the   *)
(* stream is lossy, complete.                                                  *)

\* Data of a stream in a channel.
IsData(p, r) == p.type = "Data" /\ p.stream = r

\* They are on their way in the order of their numbers, the last one sent is
\* number "last", and those in "passed" are ahead of all of them.
InTransit(chan, r, passed, last) ==
    /\ \A i \in DOMAIN chan : IsData(chan[i], r) =>
          /\ chan[i].data \in 1 .. last
          /\ \A x \in passed : x < chan[i].data
    /\ \A i, j \in DOMAIN chan :
          i < j /\ IsData(chan[i], r) /\ IsData(chan[j], r)
             => chan[i].data < chan[j].data

\* All of them are, from number first + 1 to number last.
Complete(chan, r, first, last) ==
    \A n \in first + 1 .. last :
       \E i \in DOMAIN chan : IsData(chan[i], r) /\ chan[i].data = n

LEMMA TailParts ==
  ASSUME NEW S, NEW q \in Seq(S), q # <<>>
  PROVE  /\ Tail(q) \in Seq(S) /\ Head(q) = q[1] /\ 1 \in DOMAIN q
         /\ \A i \in DOMAIN Tail(q) : /\ i \in Nat /\ 1 < i + 1
                                      /\ i + 1 \in DOMAIN q /\ Tail(q)[i] = q[i + 1]
         /\ \A i \in DOMAIN q : i # 1 => /\ i - 1 \in DOMAIN Tail(q)
                                         /\ Tail(q)[i - 1] = q[i]
  OBVIOUS

LEMMA AppendParts ==
  ASSUME NEW S, NEW q \in Seq(S), NEW p \in S
  PROVE  /\ Append(q, p) \in Seq(S)
         /\ Len(Append(q, p)) = Len(q) + 1
         /\ \A i \in DOMAIN q : i \in DOMAIN Append(q, p) /\ Append(q, p)[i] = q[i]
         /\ Len(q) + 1 \in DOMAIN Append(q, p) /\ Append(q, p)[Len(q) + 1] = p
         /\ \A i \in DOMAIN Append(q, p) :
               \/ i \in DOMAIN q /\ i < Len(q) + 1
               \/ i = Len(q) + 1
  OBVIOUS

LEMMA TransitTail ==
  ASSUME NEW S, NEW q \in Seq(S), q # <<>>, NEW r, NEW passed, NEW last \in Nat,
         InTransit(q, r, passed, last)
  PROVE  InTransit(Tail(q), r, passed, last)
  <1>1. \A i \in DOMAIN Tail(q) : i \in Nat /\ i + 1 \in DOMAIN q /\ Tail(q)[i] = q[i + 1]
    BY TailParts
  <1>2. \A i, j \in DOMAIN Tail(q) : i < j => i + 1 < j + 1
    BY <1>1
  <1> QED
    BY <1>1, <1>2 DEF InTransit

LEMMA TransitTaken ==
  ASSUME NEW S, NEW q \in Seq(S), q # <<>>, NEW r, NEW passed, NEW last \in Nat,
         InTransit(q, r, passed, last), IsData(Head(q), r)
  PROVE  /\ Head(q).data \in 1 .. last
         /\ \A x \in passed : x < Head(q).data
         /\ InTransit(Tail(q), r, passed \union {Head(q).data}, last)
  <1>1. Head(q) = q[1] /\ 1 \in DOMAIN q
    BY TailParts
  <1>2. Head(q).data \in 1 .. last /\ \A x \in passed : x < Head(q).data
    BY <1>1 DEF InTransit
  <1>3. \A i \in DOMAIN Tail(q) : 1 < i + 1 /\ i + 1 \in DOMAIN q /\ Tail(q)[i] = q[i + 1]
    BY TailParts
  <1>4. \A i \in DOMAIN Tail(q) : IsData(Tail(q)[i], r) => Head(q).data < Tail(q)[i].data
    BY <1>1, <1>3 DEF InTransit
  <1>5. InTransit(Tail(q), r, passed, last)
    BY TransitTail
  <1> QED
    BY <1>2, <1>4, <1>5 DEF InTransit

LEMMA TransitSent ==
  ASSUME NEW S, NEW q \in Seq(S), NEW p \in S, NEW r, NEW passed \in SUBSET Nat,
         NEW last \in Nat, InTransit(q, r, passed, last),
         \A x \in passed : x <= last,
         IsData(p, r), p.data = last + 1
  PROVE  InTransit(Append(q, p), r, passed, last + 1)
  <1> DEFINE z == Append(q, p)
  <1>1. \A i \in DOMAIN z : \/ i \in DOMAIN q /\ i < Len(q) + 1 /\ z[i] = q[i]
                            \/ i = Len(q) + 1 /\ z[i] = p
    BY AppendParts
  <1>2. ASSUME NEW i \in DOMAIN z, IsData(z[i], r)
        PROVE  z[i].data \in 1 .. last + 1 /\ \A x \in passed : x < z[i].data
    <2>1. CASE i \in DOMAIN q /\ z[i] = q[i]
      BY <1>2, <2>1 DEF InTransit
    <2>2. CASE z[i] = p
      BY <2>2
    <2> QED
      BY <1>1, <2>1, <2>2
  <1>3. ASSUME NEW i \in DOMAIN z, NEW j \in DOMAIN z, i < j,
               IsData(z[i], r), IsData(z[j], r)
        PROVE  z[i].data < z[j].data
    <2>1. i \in DOMAIN q /\ z[i] = q[i]
      BY <1>1, <1>3
    <2>2. q[i].data \in 1 .. last
      BY <2>1, <1>3 DEF InTransit
    <2>3. CASE z[j] = p
      BY <2>1, <2>2, <2>3
    <2>4. CASE j \in DOMAIN q /\ z[j] = q[j]
      BY <2>1, <2>4, <1>3 DEF InTransit
    <2> QED
      BY <1>1, <2>3, <2>4
  <1> QED
    BY <1>2, <1>3 DEF InTransit

LEMMA TransitOther ==
  ASSUME NEW S, NEW q \in Seq(S), NEW p \in S, NEW r, NEW passed, NEW last \in Nat,
         InTransit(q, r, passed, last), ~ IsData(p, r)
  PROVE  InTransit(Append(q, p), r, passed, last)
  <1> DEFINE z == Append(q, p)
  <1>1. \A i \in DOMAIN z : IsData(z[i], r) => i \in DOMAIN q /\ z[i] = q[i]
    BY AppendParts
  <1> QED
    BY <1>1 DEF InTransit

LEMMA CompleteTail ==
  ASSUME NEW S, NEW q \in Seq(S), q # <<>>, NEW r, NEW first \in Nat, NEW last \in Nat,
         Complete(q, r, first, last), ~ IsData(Head(q), r)
  PROVE  Complete(Tail(q), r, first, last)
  <1> SUFFICES ASSUME NEW n \in first + 1 .. last
               PROVE  \E i \in DOMAIN Tail(q) : IsData(Tail(q)[i], r) /\ Tail(q)[i].data = n
    BY DEF Complete
  <1>1. PICK i \in DOMAIN q : IsData(q[i], r) /\ q[i].data = n
    BY DEF Complete
  <1>2. i # 1
    BY <1>1, TailParts
  <1>3. i - 1 \in DOMAIN Tail(q) /\ Tail(q)[i - 1] = q[i]
    BY <1>2, TailParts
  <1> QED
    BY <1>1, <1>3

\* The first one in a complete channel is the next one.
LEMMA CompleteNext ==
  ASSUME NEW S, NEW q \in Seq(S), q # <<>>, NEW r, NEW passed, NEW first \in Nat,
         NEW last \in Nat, InTransit(q, r, passed, last), Complete(q, r, first, last),
         IsData(Head(q), r), first < Head(q).data
  PROVE  Head(q).data = first + 1 /\ Complete(Tail(q), r, first + 1, last)
  <1>0. Head(q) = q[1] /\ 1 \in DOMAIN q
    BY TailParts
  <1>1. Head(q).data \in 1 .. last
    BY TransitTaken
  <1>2. PICK i \in DOMAIN q : IsData(q[i], r) /\ q[i].data = first + 1
    BY <1>1 DEF Complete
  <1>3. i # 1 => Head(q).data < first + 1
    <2>1. i # 1 => 1 < i
      OBVIOUS
    <2> QED
      BY <2>1, <1>0, <1>2 DEF InTransit
  <1>4. Head(q).data = first + 1
    BY <1>0, <1>1, <1>2, <1>3
  <1>5. ASSUME NEW n \in (first + 1) + 1 .. last
        PROVE  \E k \in DOMAIN Tail(q) : IsData(Tail(q)[k], r) /\ Tail(q)[k].data = n
    <2>1. PICK k \in DOMAIN q : IsData(q[k], r) /\ q[k].data = n
      BY DEF Complete
    <2>2. k # 1
      BY <2>1, <1>0, <1>4
    <2>3. k - 1 \in DOMAIN Tail(q) /\ Tail(q)[k - 1] = q[k]
      BY <2>2, TailParts
    <2> QED
      BY <2>1, <2>3
  <1> QED
    BY <1>4, <1>5 DEF Complete

LEMMA CompleteSent ==
  ASSUME NEW S, NEW q \in Seq(S), NEW p \in S, NEW r, NEW first \in Nat,
         NEW last \in Nat, Complete(q, r, first, last), IsData(p, r), p.data = last + 1
  PROVE  Complete(Append(q, p), r, first, last + 1)
  <1> SUFFICES ASSUME NEW n \in first + 1 .. last + 1
               PROVE  \E i \in DOMAIN Append(q, p) :
                         IsData(Append(q, p)[i], r) /\ Append(q, p)[i].data = n
    BY DEF Complete
  <1>1. CASE n = last + 1
    BY <1>1, AppendParts
  <1>2. CASE n # last + 1
    <2>1. PICK i \in DOMAIN q : IsData(q[i], r) /\ q[i].data = n
      BY <1>2 DEF Complete
    <2> QED
      BY <2>1, AppendParts
  <1> QED
    BY <1>1, <1>2

LEMMA CompleteOther ==
  ASSUME NEW S, NEW q \in Seq(S), NEW p \in S, NEW r, NEW first \in Nat,
         NEW last \in Nat, Complete(q, r, first, last)
  PROVE  Complete(Append(q, p), r, first, last)
  BY AppendParts DEF Complete

\* What a step does to the channel to the client.
ToClientStep ==
    \/ UNCHANGED to_client
    \/ to_client' = <<>> /\ (~ session' \/ Reconnect)
    \/ /\ to_client # <<>> /\ to_client' = Tail(to_client) /\ setup = None
       /\ \/ Head(to_client).type = "Init" /\ setup' = Head(to_client).stream
          \/ Head(to_client).type = "Data" /\ ClientData
          \/ Head(to_client).type = "End"
    \/ \E r \in Streams : /\ SendInit(r) /\ accept' = [accept EXCEPT ![r] = "add"]
                          /\ to_client' = Append(to_client, Init_(r))
    \/ \E r \in Streams : /\ ReadRemote(r)
                          /\ to_client' = Append(to_client, Data(r, rread[r] + 1))
    \/ \E r \in Streams : /\ RemoteEof(r)
                          /\ to_client' = Append(to_client, End(r))

LEMMA ToClientSteps == [Next]_vars => ToClientStep
  <1> SUFFICES ASSUME [Next]_vars PROVE ToClientStep
    OBVIOUS
  <1> USE DEF ToClientStep
  <1>1. CASE ClientInit
    <2>1. to_client # <<>> /\ Head(to_client).type = "Init" /\ setup = None
      BY <1>1 DEF ClientInit, Receives, Arrives
    <2> QED
      BY <1>1, <2>1 DEF ClientInit, SessionEnds
  <1>2. CASE ClientInitRefused \/ ConnectionLost \/ Reconnect
    BY <1>2 DEF ClientInitRefused, ConnectionLost, Breaks, SessionEnds, Reconnect,
                Reconnecting, TakeOver, Enter, AddClient, chan_vars
  <1>3. CASE ClientData
    <2>1. to_client # <<>> /\ Head(to_client).type = "Data" /\ setup = None
      BY <1>3 DEF ClientData, Receives, Arrives
    <2>2. \/ to_client' = Tail(to_client)
          \/ to_client' = <<>> /\ ~ session'
      BY <1>3 DEF ClientData, HandleData, SessionEnds
    <2> QED
      BY <1>3, <2>1, <2>2
  <1>4. CASE ClientEnd
    BY <1>4 DEF ClientEnd, Receives, Arrives, HandleEnd
  <1>5. ASSUME NEW r \in Streams, SendInit(r) PROVE ToClientStep
    BY <1>5 DEF SendInit, SendToClient, SendToClientFails
  <1>6. ASSUME NEW r \in Streams, ReadRemote(r) PROVE ToClientStep
    <2>1. \/ UNCHANGED to_client
          \/ to_client' = Append(to_client, Data(r, rread[r] + 1))
      BY <1>6 DEF ReadRemote, SendToClient, SendToClientFails
    <2> QED
      BY <1>6, <2>1
  <1>7. ASSUME NEW r \in Streams, RemoteEof(r) PROVE ToClientStep
    <2>1. \/ UNCHANGED to_client
          \/ to_client' = Append(to_client, End(r))
      BY <1>7 DEF RemoteEof, SendToClient, SendToClientFails
    <2> QED
      BY <1>7, <2>1
  <1> QED
    BY <1>1, <1>2, <1>3, <1>4, <1>5, <1>6, <1>7, NextFrame DEF Frame

\* A stream is set up once, when its only Init arrives; what its queue has
\* closed it for is the last in it.
IsInit(p, r) == p.type = "Init" /\ p.stream = r
InitOnce ==
    \A r \in Streams :
       /\ \A i \in DOMAIN to_client : IsInit(to_client[i], r) =>
             /\ accept[r] \in {"add", "done"}
             /\ local_write[r] = "none" /\ setup # r
             /\ \A j \in DOMAIN to_client : IsInit(to_client[j], r) => i = j
       /\ setup = r => accept[r] \in {"add", "done"} /\ local_write[r] = "none"
       /\ local_write[r] # "none" => accept[r] \in {"add", "done"}
StoreOrder ==
    \A r \in Streams :
       /\ local_write[r] = "none" => /\ ~ locals[r] /\ "sleep" \notin closer[r]
                                     /\ queue[r] = <<>> /\ lgot[r] = <<>>
       /\ locals[r] => /\ "sleep" \notin closer[r]
                       /\ \A i \in DOMAIN queue[r] : queue[r][i] # Close

LEMMA NextInitOnce == TypeOK /\ InitOnce /\ [Next]_vars => InitOnce'
  <1> SUFFICES ASSUME TypeOK, InitOnce, [Next]_vars, NEW r \in Streams
        PROVE  /\ \A i \in DOMAIN to_client' : IsInit(to_client'[i], r) =>
                     /\ accept'[r] \in {"add", "done"}
                     /\ local_write'[r] = "none" /\ setup' # r
                     /\ \A j \in DOMAIN to_client' : IsInit(to_client'[j], r) => i = j
               /\ setup' = r => accept'[r] \in {"add", "done"} /\ local_write'[r] = "none"
               /\ local_write'[r] # "none" => accept'[r] \in {"add", "done"}
    BY DEF InitOnce
  <1>0. /\ accept \in [Streams -> {"none", "init", "add", "done"}]
        /\ local_write \in [Streams -> {"none", "running", "ended"}]
        /\ to_client \in Seq(Packet(Chunk))
        /\ setup = None => setup # r
    BY NoneAssumption DEF TypeOK, StoreTypeOK, TunnelTypeOK
  <1>a. accept[r] \in {"add", "done"} => accept'[r] \in {"add", "done"}
    <2>1. CASE UNCHANGED accept
      BY <2>1
    <2>2. CASE \E t \in Streams : Accept(t) \/ SendInit(t) \/ AddRemote(t)
      BY <1>0, <2>2 DEF Accept, SendInit, AddRemote
    <2> QED
      BY <2>1, <2>2, NextFrame DEF Frame
  <1>l. /\ local_write'[r] # "none" => local_write[r] # "none" \/ (StreamSetUp /\ setup = r)
        /\ setup = r /\ local_write[r] = "none" /\ local_write'[r] # "none" => StreamSetUp
    <2>1. CASE UNCHANGED local_write
      BY <2>1
    <2>2. CASE StreamSetUp
      BY <1>0, <2>2 DEF StreamSetUp, AddStream
    <2>3. CASE ClientEnd
      BY <2>3 DEF ClientEnd, HandleEnd
    <2>4. CASE \E t \in Streams : \/ Closer(t) \/ LocalReaderLeaves(t) \/ WriteLocal(t)
                                  \/ ShutdownLocal(t)
      BY <1>0, <2>4 DEF Closer, CloserRemoves, CloserCloses, LocalReaderLeaves, WriteLocal,
                        HasData, ShutdownLocal, QueueCloses
    <2> QED
      BY <2>1, <2>2, <2>3, <2>4, NextFrame DEF PipeFrame
  <1>u. setup = r /\ StreamSetUp => setup' # r
    BY <1>0, NoneAssumption DEF StreamSetUp
  <1>s. setup' = r => \/ setup = r
                      \/ /\ ClientInit /\ to_client # <<>> /\ IsInit(Head(to_client), r)
                         /\ to_client' = Tail(to_client)
                         /\ UNCHANGED <<accept, local_write>>
    <2>1. CASE ClientInit
      <3>1. Head(to_client).type = "Init" /\ to_client # <<>>
        BY <2>1 DEF ClientInit, Receives, Arrives
      <3>2. CASE locals[Head(to_client).stream]
        BY <2>1, <3>2 DEF ClientInit
      <3>3. CASE ~ locals[Head(to_client).stream]
        BY <2>1, <3>1, <3>3 DEF ClientInit, IsInit, server_vars
      <3> QED
        BY <3>2, <3>3
    <2>2. CASE StreamSetUp
      BY <2>2, NoneAssumption DEF StreamSetUp
    <2> QED
      BY <2>1, <2>2, NextFrame DEF PipeFrame
  \* A packet that was there stays the only one.
  <1>k. ASSUME \A i \in DOMAIN to_client' : IsInit(to_client'[i], r) =>
                  /\ \E k \in DOMAIN to_client : IsInit(to_client[k], r)
                  /\ \A j \in DOMAIN to_client' : IsInit(to_client'[j], r) => i = j,
               setup' = r => setup = r
        PROVE  \A i \in DOMAIN to_client' : IsInit(to_client'[i], r) =>
                  /\ accept'[r] \in {"add", "done"}
                  /\ local_write'[r] = "none" /\ setup' # r
                  /\ \A j \in DOMAIN to_client' : IsInit(to_client'[j], r) => i = j
    BY <1>k, <1>a, <1>l DEF InitOnce
  <1>1. \A i \in DOMAIN to_client' : IsInit(to_client'[i], r) =>
           /\ accept'[r] \in {"add", "done"}
           /\ local_write'[r] = "none" /\ setup' # r
           /\ \A j \in DOMAIN to_client' : IsInit(to_client'[j], r) => i = j
    <2>1. CASE UNCHANGED to_client
      <3>1. to_client # <<>> => Tail(to_client) # to_client
        BY <1>0
      <3> QED
        BY <2>1, <3>1, <1>k, <1>s DEF InitOnce
    <2>2. CASE to_client' = <<>>
      BY <2>2
    <2>3. CASE to_client # <<>> /\ to_client' = Tail(to_client)
      <3>1. \A i \in DOMAIN to_client' : /\ i \in Nat /\ 1 < i + 1 /\ i + 1 \in DOMAIN to_client
                                         /\ to_client'[i] = to_client[i + 1]
        BY <2>3, <1>0, TailParts
      <3>2. Head(to_client) = to_client[1] /\ 1 \in DOMAIN to_client
        BY <2>3, <1>0, TailParts
      <3>3. \A i \in DOMAIN to_client' : IsInit(to_client'[i], r) =>
               /\ \E k \in DOMAIN to_client : IsInit(to_client[k], r)
               /\ \A j \in DOMAIN to_client' : IsInit(to_client'[j], r) => i = j
        <4> SUFFICES ASSUME NEW i \in DOMAIN to_client', IsInit(to_client'[i], r)
                     PROVE  /\ \E k \in DOMAIN to_client : IsInit(to_client[k], r)
                            /\ \A j \in DOMAIN to_client' : IsInit(to_client'[j], r) => i = j
          OBVIOUS
        <4>1. \A j \in DOMAIN to_client' : IsInit(to_client'[j], r) => i + 1 = j + 1
          BY <3>1 DEF InitOnce
        <4> QED
          BY <3>1, <4>1
      <3>4. CASE IsInit(Head(to_client), r)
        <4>1. \A i \in DOMAIN to_client' : ~ IsInit(to_client'[i], r)
          <5> SUFFICES ASSUME NEW i \in DOMAIN to_client', IsInit(to_client'[i], r) PROVE FALSE
            OBVIOUS
          <5>1. i + 1 = 1
            BY <3>1, <3>2, <3>4 DEF InitOnce
          <5> QED
            BY <5>1, <3>1
        <4> QED
          BY <4>1
      <3>5. CASE ~ IsInit(Head(to_client), r)
        BY <3>3, <3>5, <1>k, <1>s
      <3> QED
        BY <3>4, <3>5
    <2>4. ASSUME NEW t \in Streams, NEW p \in Packet(Chunk), ~ IsInit(p, r),
                 to_client' = Append(to_client, p)
          PROVE  \A i \in DOMAIN to_client' : IsInit(to_client'[i], r) =>
                    /\ accept'[r] \in {"add", "done"}
                    /\ local_write'[r] = "none" /\ setup' # r
                    /\ \A j \in DOMAIN to_client' : IsInit(to_client'[j], r) => i = j
      <3>1. \A i \in DOMAIN to_client' : IsInit(to_client'[i], r) =>
               i \in DOMAIN to_client /\ to_client'[i] = to_client[i]
        BY <2>4, <1>0, AppendParts
      <3>2. setup' = r => setup = r
        <4>1. Append(to_client, p) # Tail(to_client) \/ to_client = <<>>
          BY <1>0
        <4> QED
          BY <4>1, <2>4, <1>s
      <3> QED
        BY <3>1, <3>2, <1>k DEF InitOnce
    <2>5. ASSUME NEW t \in Streams, SendInit(t), accept' = [accept EXCEPT ![t] = "add"],
                 to_client' = Append(to_client, Init_(t))
          PROVE  \A i \in DOMAIN to_client' : IsInit(to_client'[i], r) =>
                    /\ accept'[r] \in {"add", "done"}
                    /\ local_write'[r] = "none" /\ setup' # r
                    /\ \A j \in DOMAIN to_client' : IsInit(to_client'[j], r) => i = j
      <3>1. CASE t # r
        <4>1. ~ IsInit(Init_(t), r) /\ Init_(t) \in Packet(Chunk)
          BY <3>1, Packets DEF IsInit, Init_
        <4> QED
          BY <4>1, <2>4, <2>5
      <3>2. CASE t = r
        <4>1. accept[r] = "init" /\ UNCHANGED <<local_write, setup>>
          BY <2>5, <3>2 DEF SendInit, client_vars, store_vars
        <4>2. \A i \in DOMAIN to_client : ~ IsInit(to_client[i], r)
          BY <4>1 DEF InitOnce
        <4>3. local_write'[r] = "none" /\ setup' # r /\ accept'[r] = "add"
          BY <4>1, <3>2, <2>5, <1>0 DEF InitOnce
        <4>4. \A i \in DOMAIN to_client' : IsInit(to_client'[i], r) => i = Len(to_client) + 1
          BY <4>2, <2>5, <1>0, Packets, AppendParts
        <4> QED
          BY <4>3, <4>4
      <3> QED
        BY <3>1, <3>2
    <2>6. ASSUME NEW t \in Streams, ReadRemote(t),
                 to_client' = Append(to_client, Data(t, rread[t] + 1))
          PROVE  Data(t, rread[t] + 1) \in Packet(Chunk) /\ ~ IsInit(Data(t, rread[t] + 1), r)
      <3>1. rread[t] + 1 \in Chunk
        BY <2>6, NextChunk
      <3> QED
        BY <3>1, Packets DEF IsInit, Data
    <2>7. \A t \in Streams : End(t) \in Packet(Chunk) /\ ~ IsInit(End(t), r)
      BY Packets DEF IsInit, End
    <2> QED
      BY <2>1, <2>2, <2>3, <2>4, <2>5, <2>6, <2>7, ToClientSteps DEF ToClientStep
  <1>2. setup' = r => accept'[r] \in {"add", "done"} /\ local_write'[r] = "none"
    <2>1. CASE setup = r /\ setup' = r
      BY <2>1, <1>a, <1>l, <1>u DEF InitOnce
    <2>2. CASE /\ to_client # <<>> /\ IsInit(Head(to_client), r)
               /\ UNCHANGED <<accept, local_write>>
      <3>1. Head(to_client) = to_client[1] /\ 1 \in DOMAIN to_client
        BY <2>2, <1>0, TailParts
      <3> QED
        BY <2>2, <3>1 DEF InitOnce
    <2> QED
      BY <2>1, <2>2, <1>s
  <1>3. local_write'[r] # "none" => accept'[r] \in {"add", "done"}
    BY <1>a, <1>l DEF InitOnce
  <1> QED
    BY <1>1, <1>2, <1>3

\* The numbers in what a socket has got and in the queue for it: they grow, and
\* none is smaller than its place.
Numbers(q) == {q[i] : i \in DOMAIN q} \ {Close}
Aligned(got, q) ==
    /\ \A i \in DOMAIN got : got[i] >= i
    /\ \A j \in DOMAIN q : q[j] # Close =>
          /\ q[j] >= Len(got) + j
          /\ \A i \in DOMAIN got : got[i] < q[j]
          /\ \A i \in DOMAIN q : i < j /\ q[i] # Close => q[i] < q[j]

\* Without a gap, each is its place.
Exact(got, q) == \A j \in DOMAIN q : q[j] # Close => q[j] = Len(got) + j

LEMMA NoneIsClose == Close \notin Chunk
  BY CloseAssumption DEF Chunk

LEMMA AlignedTaken ==
  ASSUME NEW got \in Seq(Chunk), NEW q \in Seq(Chunk \union {Close}), NEW d \in Chunk,
         Aligned(got, q), \A i \in DOMAIN q : q[i] # Close,
         \A x \in Numbers(got) \union Numbers(q) : x < d
  PROVE  /\ Aligned(got, Append(q, d))
         /\ Numbers(Append(q, d)) = Numbers(q) \union {d}
         /\ Len(got) + Len(q) < d
  <1> DEFINE z == Append(q, d)
  <1>1. \A i \in DOMAIN z : \/ i \in DOMAIN q /\ i < Len(q) + 1 /\ z[i] = q[i]
                            \/ i = Len(q) + 1 /\ z[i] = d
    BY AppendParts
  <1>2. \A i \in DOMAIN q : i \in DOMAIN z /\ z[i] = q[i]
    BY AppendParts
  <1>3. Len(q) + 1 \in DOMAIN z /\ z[Len(q) + 1] = d /\ d # Close
    BY AppendParts, NoneIsClose
  <1>4. /\ \A i \in DOMAIN got : got[i] \in Chunk /\ got[i] < d
        /\ \A i \in DOMAIN q : q[i] \in Chunk /\ q[i] < d
    BY NoneIsClose DEF Numbers
  <1>5. Len(got) + Len(q) < d
    <2>1. CASE q # <<>>
      <3>1. Len(q) \in DOMAIN q
        BY <2>1
      <3>2. q[Len(q)] \in Nat /\ q[Len(q)] >= Len(got) + Len(q) /\ q[Len(q)] < d
        BY <3>1, <1>4 DEF Aligned, Chunk
      <3> QED
        BY <3>2 DEF Chunk
    <2>2. CASE q = <<>> /\ got # <<>>
      <3>1. Len(got) \in DOMAIN got
        BY <2>2
      <3>2. got[Len(got)] \in Nat /\ got[Len(got)] >= Len(got) /\ got[Len(got)] < d
        BY <3>1, <1>4 DEF Aligned, Chunk
      <3> QED
        BY <2>2, <3>2 DEF Chunk
    <2>3. CASE q = <<>> /\ got = <<>>
      BY <2>3 DEF Chunk
    <2> QED
      BY <2>1, <2>2, <2>3
  <1>6. Numbers(z) = Numbers(q) \union {d}
    BY <1>1, <1>2, <1>3 DEF Numbers
  <1>7. ASSUME NEW j \in DOMAIN z
        PROVE  /\ z[j] >= Len(got) + j
               /\ \A i \in DOMAIN got : got[i] < z[j]
               /\ \A i \in DOMAIN z : i < j => z[i] < z[j]
    <2>1. CASE j \in DOMAIN q /\ j < Len(q) + 1 /\ z[j] = q[j]
      <3>1. \A i \in DOMAIN z : i < j => i \in DOMAIN q /\ z[i] = q[i]
        BY <2>1, <1>1
      <3> QED
        BY <2>1, <3>1 DEF Aligned
    <2>2. CASE j = Len(q) + 1 /\ z[j] = d
      <3>1. d >= Len(got) + j
        BY <2>2, <1>5 DEF Chunk
      <3>2. \A i \in DOMAIN z : i < j => i \in DOMAIN q /\ z[i] = q[i]
        BY <2>2, <1>1
      <3> QED
        BY <2>2, <3>1, <3>2, <1>4
    <2> QED
      BY <1>1, <2>1, <2>2
  <1>8. Aligned(got, z)
    BY <1>7 DEF Aligned
  <1> QED
    BY <1>5, <1>6, <1>8

LEMMA AlignedClosed ==
  ASSUME NEW got \in Seq(Chunk), NEW q \in Seq(Chunk \union {Close})
  PROVE  /\ Aligned(got, q) => Aligned(got, Append(q, Close))
         /\ Exact(got, q) => Exact(got, Append(q, Close))
         /\ Numbers(Append(q, Close)) = Numbers(q)
  <1> DEFINE z == Append(q, Close)
  <1>1. \A i \in DOMAIN z : z[i] # Close => i \in DOMAIN q /\ z[i] = q[i]
    BY AppendParts
  <1>2. \A i \in DOMAIN q : i \in DOMAIN z /\ z[i] = q[i]
    BY AppendParts
  <1>3. Numbers(z) = Numbers(q)
    BY <1>1, <1>2 DEF Numbers
  <1>4. Aligned(got, q) => Aligned(got, z)
    BY <1>1 DEF Aligned
  <1> QED
    BY <1>1, <1>3, <1>4 DEF Exact

LEMMA AlignedWritten ==
  ASSUME NEW got \in Seq(Chunk), NEW q \in Seq(Chunk \union {Close}), Aligned(got, q),
         q # <<>>, Head(q) # Close
  PROVE  /\ Aligned(got, Tail(q)) /\ Aligned(Append(got, Head(q)), Tail(q))
         /\ Numbers(Append(got, Head(q))) = Numbers(got) \union {Head(q)}
         /\ Numbers(Tail(q)) \subseteq Numbers(q)
         /\ Head(q) \in Numbers(q) /\ Head(q) \in Chunk
         /\ Len(got) + 1 <= Head(q) /\ \A i \in DOMAIN got : got[i] < Head(q)
  <1> DEFINE n == Head(q)
             z == Append(got, n)
  <1>1. n = q[1] /\ 1 \in DOMAIN q
    BY TailParts
  <1>2. n \in Chunk /\ n \in Numbers(q)
    BY <1>1 DEF Numbers
  <1>3. Len(got) + 1 <= n /\ \A i \in DOMAIN got : got[i] < n
    BY <1>1 DEF Aligned
  <1>4. \A i \in DOMAIN Tail(q) : /\ i \in Nat /\ 1 < i + 1
                                  /\ i + 1 \in DOMAIN q /\ Tail(q)[i] = q[i + 1]
    BY TailParts
  <1>5. \A i \in DOMAIN z : i \in Nat /\ \/ i \in DOMAIN got /\ z[i] = got[i]
                                         \/ i = Len(got) + 1 /\ z[i] = n
    BY <1>2, AppendParts
  <1>6. /\ \A i \in DOMAIN got : i \in DOMAIN z /\ z[i] = got[i]
        /\ Len(got) + 1 \in DOMAIN z /\ z[Len(got) + 1] = n /\ Len(z) = Len(got) + 1
    BY <1>2, AppendParts
  <1>7. Numbers(z) = Numbers(got) \union {n}
    BY <1>5, <1>6 DEF Numbers
  <1>8. Numbers(Tail(q)) \subseteq Numbers(q)
    BY <1>4 DEF Numbers
  <1>9. \A i \in DOMAIN z : z[i] >= i
    BY <1>3, <1>5 DEF Aligned
  <1>10. ASSUME NEW j \in DOMAIN Tail(q), Tail(q)[j] # Close
         PROVE  /\ Tail(q)[j] >= Len(got) + 1 + j
                /\ n < Tail(q)[j]
                /\ \A i \in DOMAIN got : got[i] < Tail(q)[j]
                /\ \A i \in DOMAIN Tail(q) :
                      i < j /\ Tail(q)[i] # Close => Tail(q)[i] < Tail(q)[j]
    <2>1. /\ q[j + 1] >= Len(got) + (j + 1)
          /\ \A i \in DOMAIN got : got[i] < q[j + 1]
          /\ \A i \in DOMAIN q : i < j + 1 /\ q[i] # Close => q[i] < q[j + 1]
      BY <1>4, <1>10 DEF Aligned
    <2>2. q[j + 1] \in Nat
      BY <1>4, <1>10 DEF Chunk
    <2> QED
      BY <2>1, <2>2, <1>1, <1>4, <1>10
  <1>11. \A j \in DOMAIN Tail(q) : Tail(q)[j] # Close => Tail(q)[j] \in Nat
    BY <1>4 DEF Chunk
  <1>12. Aligned(got, Tail(q))
    <2>1. \A i \in DOMAIN got : got[i] >= i
      BY DEF Aligned
    <2> QED
      BY <2>1, <1>4, <1>10, <1>11 DEF Aligned
  <1>13. Aligned(z, Tail(q))
    BY <1>4, <1>5, <1>6, <1>9, <1>10 DEF Aligned
  <1> QED
    BY <1>2, <1>3, <1>7, <1>8, <1>12, <1>13

LEMMA ExactTaken ==
  ASSUME NEW got \in Seq(Chunk), NEW q \in Seq(Chunk \union {Close}), NEW d \in Chunk,
         Exact(got, q), d = Len(got) + Len(q) + 1
  PROVE  Exact(got, Append(q, d))
  <1> DEFINE z == Append(q, d)
  <1>1. \A j \in DOMAIN z : \/ j \in DOMAIN q /\ z[j] = q[j]
                            \/ j = Len(q) + 1 /\ z[j] = d
    BY AppendParts
  <1>2. \A j \in DOMAIN q : q[j] # Close => q[j] = Len(got) + j
    BY DEF Exact
  <1>3. Len(got) \in Nat /\ Len(q) \in Nat /\ \A j \in DOMAIN q : j \in Nat
    OBVIOUS
  <1> HIDE DEF z
  <1>4. ASSUME NEW j \in DOMAIN z, z[j] # Close PROVE z[j] = Len(got) + j
    BY <1>1, <1>2, <1>3, <1>4
  <1> QED
    BY <1>4 DEF Exact, z

LEMMA ExactWritten ==
  ASSUME NEW got \in Seq(Chunk), NEW q \in Seq(Chunk \union {Close}), Exact(got, q),
         q # <<>>, Head(q) # Close
  PROVE  Head(q) = Len(got) + 1 /\ Exact(Append(got, Head(q)), Tail(q))
  <1>1. Head(q) = q[1] /\ 1 \in DOMAIN q
    BY TailParts
  <1>2. Head(q) \in Chunk
    BY <1>1
  <1>3. Len(Append(got, Head(q))) = Len(got) + 1
    BY <1>2
  <1>4. \A i \in DOMAIN Tail(q) : /\ i \in Nat /\ i + 1 \in DOMAIN q
                                  /\ Tail(q)[i] = q[i + 1]
    BY TailParts
  <1> QED
    BY <1>1, <1>3, <1>4 DEF Exact

LEMMA TransitWeaker ==
  ASSUME NEW chan, NEW r, NEW passed, NEW last \in Nat, InTransit(chan, r, passed, last),
         NEW fewer \in SUBSET passed
  PROVE  InTransit(chan, r, fewer, last) /\ InTransit(chan, r, passed, last + 1)
  BY DEF InTransit

\* What a step does to the entry of a stream and to its forwarding task.
LEMMA StoreSteps ==
  ASSUME TypeOK, [Next]_vars, NEW r \in Streams
  PROVE  /\ local_write[r] # "none" => local_write'[r] # "none"
         /\ local_write[r] = "none" =>
               \/ UNCHANGED <<local_write[r], locals[r]>> \/ ~ locals'[r]
               \/ StreamSetUp /\ setup = r /\ local_write'[r] = "running"
         /\ locals'[r] /\ ~ locals[r] =>
               StreamSetUp /\ setup = r /\ local_write'[r] = "running"
         /\ local_write'[r] = "running" => \/ local_write[r] = "running"
                                           \/ StreamSetUp /\ setup = r
         /\ "sleep" \in closer'[r] /\ "sleep" \notin closer[r] => locals[r] /\ ~ locals'[r]
  <1>0. /\ local_write \in [Streams -> {"none", "running", "ended"}]
        /\ locals \in [Streams -> BOOLEAN]
        /\ closer \in [Streams -> SUBSET {"remove", "sleep"}]
    BY DEF TypeOK, StoreTypeOK
  <1>1. CASE UNCHANGED <<locals, local_write, closer>>
    BY <1>1
  <1>2. CASE StreamSetUp
    BY <1>0, <1>2 DEF StreamSetUp, AddStream
  <1>3. CASE ClientEnd
    <2>1. UNCHANGED <<locals, local_write>>
      BY <1>3 DEF ClientEnd, HandleEnd
    <2>2. "sleep" \in closer'[r] => "sleep" \in closer[r]
      BY <1>0, <1>3 DEF ClientEnd, HandleEnd
    <2> QED
      BY <2>1, <2>2
  <1>4. ASSUME NEW t \in Streams, Closer(t)
        PROVE  /\ UNCHANGED local_write
               /\ locals'[r] => locals[r]
               /\ "sleep" \in closer'[r] /\ "sleep" \notin closer[r] => locals[r] /\ ~ locals'[r]
    BY <1>0, <1>4 DEF Closer, CloserRemoves, CloserCloses
  <1>5. ASSUME NEW t \in Streams, LocalReaderLeaves(t)
        PROVE  UNCHANGED <<local_write, closer>> /\ (locals'[r] => locals[r])
    BY <1>0, <1>5 DEF LocalReaderLeaves
  <1>6. ASSUME NEW t \in Streams, WriteLocal(t) \/ ShutdownLocal(t)
        PROVE  /\ UNCHANGED <<locals, closer>>
               /\ \/ local_write'[r] = local_write[r]
                  \/ local_write[r] = "running" /\ local_write'[r] = "ended"
    BY <1>0, <1>6 DEF WriteLocal, HasData, ShutdownLocal, QueueCloses
  <1> QED
    BY <1>0, <1>1, <1>2, <1>3, <1>4, <1>5, <1>6, NextFrame DEF PipeFrame

\* What a step does to the queue of a stream and to what its socket has got.
Queued(r) ==
    /\ ClientData /\ session /\ setup = None
    /\ to_client # <<>> /\ IsData(Head(to_client), r)
    /\ locals[r] /\ local_write[r] = "running"
    /\ queue'[r] = Append(queue[r], Head(to_client).data)
    /\ to_client' = Tail(to_client)
    /\ UNCHANGED <<lgot, rread, rsent, locals, local_write, session>>
Closed(r) ==
    /\ "sleep" \in closer[r]
    /\ queue'[r] = Append(queue[r], Close)
    /\ UNCHANGED <<to_client, lgot, rread, rsent, local_write, locals, session>>
WrittenOut(r) ==
    /\ WriteLocal(r) /\ local_write[r] = "running"
    /\ queue[r] # <<>> /\ Head(queue[r]) # Close
    /\ queue'[r] = Tail(queue[r])
    /\ UNCHANGED <<to_client, rread, rsent, locals, session>>
    /\ \/ lgot'[r] = Append(lgot[r], Head(queue[r])) /\ UNCHANGED local_write
       \/ UNCHANGED lgot /\ local_write'[r] = "ended"

LEMMA QueueSteps ==
  ASSUME TypeOK, [Next]_vars, NEW r \in Streams
  PROVE  \/ UNCHANGED <<queue[r], lgot[r]>>
         \/ Queued(r) \/ Closed(r) \/ WrittenOut(r)
  <1>0. /\ queue \in [Streams -> Seq(Chunk \union {Close})]
        /\ lgot \in [Streams -> Seq(Chunk)]
        /\ local_write \in [Streams -> {"none", "running", "ended"}]
    BY DEF TypeOK, StoreTypeOK
  <1>1. CASE UNCHANGED <<queue, lgot>>
    BY <1>1
  <1>2. CASE ClientData
    <2>1. /\ session /\ setup = None /\ to_client # <<>> /\ Head(to_client).type = "Data"
          /\ UNCHANGED <<lgot, rread, rsent, locals, local_write>>
      BY <1>2 DEF ClientData, Receives, Arrives, HandleData, remote_vars, local_vars
    <2>2. CASE UNCHANGED queue
      BY <2>1, <2>2
    <2>3. CASE LET s == Head(to_client).stream
               IN /\ locals[s] /\ local_write[s] = "running"
                  /\ queue' = [queue EXCEPT ![s] = Append(@, Head(to_client).data)]
                  /\ to_client' = Tail(to_client)
                  /\ UNCHANGED session
      <3>1. CASE Head(to_client).stream = r
        BY <1>0, <1>2, <2>1, <2>3, <3>1 DEF Queued, IsData
      <3>2. CASE Head(to_client).stream # r
        BY <1>0, <2>1, <2>3, <3>2
      <3> QED
        BY <3>1, <3>2
    <2> QED
      BY <1>2, <2>2, <2>3 DEF ClientData, HandleData
  <1>3. ASSUME NEW t \in Streams, Closer(t)
        PROVE  UNCHANGED <<queue[r], lgot[r]>> \/ Closed(r)
    <2>1. UNCHANGED <<to_client, lgot, rread, rsent, session>>
      BY <1>3 DEF Closer, tunnel_vars, chan_vars, remote_vars, local_vars
    <2>2. CASE CloserRemoves(t)
      BY <2>1, <2>2 DEF CloserRemoves
    <2>3. CASE CloserCloses(t)
      BY <1>0, <2>1, <2>3 DEF CloserCloses, Closed
    <2> QED
      BY <1>3, <2>2, <2>3 DEF Closer
  <1>4. ASSUME NEW t \in Streams, WriteLocal(t)
        PROVE  UNCHANGED <<queue[r], lgot[r]>> \/ WrittenOut(r)
    <2>1. /\ UNCHANGED <<to_client, rread, rsent, locals, session>>
          /\ local_write[t] = "running" /\ queue[t] # <<>> /\ Head(queue[t]) # Close
          /\ queue' = [queue EXCEPT ![t] = Tail(@)]
          /\ \/ lgot' = [lgot EXCEPT ![t] = Append(@, Head(queue[t]))] /\ UNCHANGED local_write
             \/ /\ local_write' = [local_write EXCEPT ![t] = "ended"]
                /\ UNCHANGED lgot
      BY <1>4 DEF WriteLocal, HasData, Rest, tunnel_vars, chan_vars, remote_vars
    <2>2. CASE t = r
      BY <1>0, <1>4, <2>1, <2>2 DEF WrittenOut
    <2>3. CASE t # r
      BY <1>0, <2>1, <2>3
    <2> QED
      BY <2>2, <2>3
  <1> QED
    BY <1>1, <1>2, <1>3, <1>4, NextFrame DEF PipeFrame

LocalOrder ==
    \A r \in Streams :
       /\ InTransit(to_client, r, Numbers(lgot[r]) \union Numbers(queue[r]), rread[r])
       /\ \A x \in Numbers(lgot[r]) \union Numbers(queue[r]) : x <= rread[r]
       /\ rread[r] <= rsent[r]
       /\ Aligned(lgot[r], queue[r])

LEMMA PipeTypes ==
  ASSUME TypeOK, NEW r \in Streams
  PROVE  /\ to_client \in Seq(Packet(Chunk)) /\ to_server \in Channels
         /\ queue[r] \in Seq(Chunk \union {Close})
         /\ lgot[r] \in Seq(Chunk) /\ rgot[r] \in Seq(Chunk)
         /\ rread[r] \in Nat /\ rsent[r] \in Nat /\ rread[r] <= MaxChunks
         /\ lread[r] \in Nat /\ lsent[r] \in Nat /\ lread[r] <= MaxChunks
         /\ Numbers(lgot[r]) \in SUBSET Nat /\ Numbers(queue[r]) \in SUBSET Nat
         /\ Numbers(rgot[r]) \in SUBSET Nat
         /\ \A n \in 1 .. rread[r] : n \in Chunk
         /\ \A n \in 1 .. lread[r] : n \in Chunk
  <1>1. /\ to_client \in Seq(Packet(Chunk)) /\ to_server \in Channels
        /\ queue[r] \in Seq(Chunk \union {Close})
        /\ lgot[r] \in Seq(Chunk) /\ rgot[r] \in Seq(Chunk)
    BY DEF TypeOK, StoreTypeOK, TunnelTypeOK, Channels
  <1>2. /\ rread[r] \in 0 .. MaxChunks /\ rsent[r] \in 0 .. MaxChunks
        /\ lread[r] \in 0 .. MaxChunks /\ lsent[r] \in 0 .. MaxChunks
    BY DEF TypeOK
  <1>3. /\ Numbers(lgot[r]) \in SUBSET Nat /\ Numbers(queue[r]) \in SUBSET Nat
        /\ Numbers(rgot[r]) \in SUBSET Nat
    <2>1. ASSUME NEW q \in Seq(Chunk \union {Close}) PROVE Numbers(q) \in SUBSET Nat
      BY DEF Numbers, Chunk
    <2>2. lgot[r] \in Seq(Chunk \union {Close}) /\ rgot[r] \in Seq(Chunk \union {Close})
      BY <1>1
    <2> QED
      BY <1>1, <2>1, <2>2
  <1>4. MaxChunks \in Nat /\ Chunk = 1 .. MaxChunks
    BY ChunksAssumption DEF Chunk
  <1>5. /\ rread[r] \in Nat /\ rsent[r] \in Nat /\ rread[r] <= MaxChunks
        /\ lread[r] \in Nat /\ lsent[r] \in Nat /\ lread[r] <= MaxChunks
    BY <1>2, <1>4
  <1>6. /\ \A n \in 1 .. rread[r] : n \in Chunk
        /\ \A n \in 1 .. lread[r] : n \in Chunk
    BY <1>4, <1>5
  <1> QED
    BY <1>1, <1>3, <1>5, <1>6

LEMMA NextStoreOrder ==
  TypeOK /\ InitOnce /\ StoreOrder /\ LocalOrder /\ [Next]_vars => StoreOrder'
  <1> SUFFICES ASSUME TypeOK, InitOnce, StoreOrder, LocalOrder, [Next]_vars, NEW r \in Streams
        PROVE  /\ local_write'[r] = "none" => /\ ~ locals'[r] /\ "sleep" \notin closer'[r]
                                              /\ queue'[r] = <<>> /\ lgot'[r] = <<>>
               /\ locals'[r] => /\ "sleep" \notin closer'[r]
                                /\ \A i \in DOMAIN queue'[r] : queue'[r][i] # Close
    BY DEF StoreOrder
  <1>1. local_write[r] = "none" => UNCHANGED <<queue[r], lgot[r]>>
    BY QueueSteps DEF StoreOrder, Queued, Closed, WrittenOut
  <1>2. ASSUME local_write'[r] = "none"
        PROVE  /\ ~ locals'[r] /\ "sleep" \notin closer'[r]
               /\ queue'[r] = <<>> /\ lgot'[r] = <<>>
    <2>1. local_write[r] = "none"
      BY <1>2, StoreSteps
    <2> QED
      BY <2>1, <1>1, <1>2, StoreSteps DEF StoreOrder
  <1>3. ASSUME locals'[r], locals[r]
        PROVE  /\ "sleep" \notin closer'[r]
               /\ \A i \in DOMAIN queue'[r] : queue'[r][i] # Close
    <2>1. "sleep" \notin closer[r] /\ \A i \in DOMAIN queue[r] : queue[r][i] # Close
      BY <1>3 DEF StoreOrder
    <2>2. "sleep" \notin closer'[r]
      BY <1>3, <2>1, StoreSteps
    <2>3. CASE Queued(r)
      <3>1. Head(to_client).data \in 1 .. rread[r]
        BY <2>3, PipeTypes, TransitTaken DEF LocalOrder, Queued
      <3>2. Head(to_client).data \in Chunk /\ Head(to_client).data # Close
        BY <3>1, PipeTypes, NoneIsClose
      <3> QED
        BY <2>1, <2>2, <2>3, <3>2, PipeTypes, AppendParts DEF Queued
    <2>4. CASE WrittenOut(r)
      BY <2>1, <2>2, <2>4, PipeTypes, TailParts DEF WrittenOut
    <2> QED
      BY <2>1, <2>2, <2>3, <2>4, QueueSteps DEF Closed
  <1>4. ASSUME locals'[r], ~ locals[r]
        PROVE  /\ "sleep" \notin closer'[r]
               /\ \A i \in DOMAIN queue'[r] : queue'[r][i] # Close
    <2>1. setup = r
      BY <1>4, StoreSteps
    <2>2. local_write[r] = "none"
      BY <2>1 DEF InitOnce
    <2>3. "sleep" \notin closer'[r]
      BY <1>4, <2>2, StoreSteps DEF StoreOrder
    <2> QED
      BY <2>2, <2>3, <1>1 DEF StoreOrder
  <1> QED
    BY <1>2, <1>3, <1>4

LEMMA ReadSteps ==
  ASSUME TypeOK, [Next]_vars, NEW r \in Streams
  PROVE  /\ \/ rread'[r] = rread[r]
            \/ ReadRemote(r) /\ rread'[r] = rread[r] + 1 /\ rread[r] < rsent[r]
         /\ rsent'[r] >= rsent[r]
         /\ rread[r] <= rsent[r] => rread'[r] <= rsent'[r]
  <1>0. /\ rread \in [Streams -> 0 .. MaxChunks] /\ rsent \in [Streams -> 0 .. MaxChunks]
        /\ MaxChunks \in Nat
    BY ChunksAssumption DEF TypeOK
  <1>1. ASSUME NEW t \in Streams, ReadRemote(t)
        PROVE  /\ UNCHANGED rsent
               /\ rread' = [rread EXCEPT ![t] = @ + 1] /\ rread[t] < rsent[t]
    BY <1>1 DEF ReadRemote
  <1>2. ASSUME NEW t \in Streams, RemoteSends(t)
        PROVE  UNCHANGED rread /\ rsent' = [rsent EXCEPT ![t] = @ + 1]
    BY <1>2 DEF RemoteSends
  <1>3. CASE UNCHANGED rread
    <2>1. rsent'[r] >= rsent[r]
      BY <1>0, <1>2, NextFrame DEF PipeFrame
    <2> QED
      BY <1>0, <1>3, <2>1, <1>1, <1>2, NextFrame DEF PipeFrame
  <1>4. CASE \E t \in Streams : ReadRemote(t)
    BY <1>0, <1>1, <1>4
  <1> QED
    BY <1>3, <1>4, NextFrame DEF PipeFrame

\* What the channel to the client does to the data in it.
LEMMA ClientTransit ==
  ASSUME TypeOK, [Next]_vars, NEW r \in Streams, NEW passed \in SUBSET Nat,
         InTransit(to_client, r, passed, rread[r]), \A x \in passed : x <= rread[r]
  PROVE  InTransit(to_client', r, passed, rread'[r])
  <1>0. /\ to_client \in Seq(Packet(Chunk)) /\ rread[r] \in Nat
        /\ rread \in [Streams -> 0 .. MaxChunks]
    BY PipeTypes DEF TypeOK
  <1>1. rread'[r] = rread[r] \/ rread'[r] = rread[r] + 1
    BY ReadSteps
  <1>2. CASE UNCHANGED to_client
    BY <1>0, <1>1, <1>2, TransitWeaker
  <1>3. CASE to_client' = <<>>
    BY <1>3 DEF InTransit
  <1>4. CASE to_client # <<>> /\ to_client' = Tail(to_client)
    <2>1. InTransit(to_client', r, passed, rread[r])
      BY <1>0, <1>4, TransitTail
    <2> QED
      BY <2>1, <1>0, <1>1, TransitWeaker
  <1>5. ASSUME NEW t \in Streams, SendInit(t), to_client' = Append(to_client, Init_(t))
        PROVE  InTransit(to_client', r, passed, rread'[r])
    <2>1. ~ IsData(Init_(t), r) /\ Init_(t) \in Packet(Chunk)
      BY Packets DEF IsData, Init_
    <2>2. UNCHANGED rread
      BY <1>5 DEF SendInit, remote_vars
    <2> QED
      BY <1>0, <1>5, <2>1, <2>2, TransitOther
  <1>6. ASSUME NEW t \in Streams, ReadRemote(t),
               to_client' = Append(to_client, Data(t, rread[t] + 1))
        PROVE  InTransit(to_client', r, passed, rread'[r])
    <2>1. rread[t] + 1 \in Chunk
      BY <1>6, NextChunk
    <2>2. Data(t, rread[t] + 1) \in Packet(Chunk)
      BY <2>1, Packets
    <2>3. rread' = [rread EXCEPT ![t] = @ + 1]
      BY <1>6 DEF ReadRemote
    <2>4. CASE t = r
      <3>1. /\ IsData(Data(t, rread[t] + 1), r)
            /\ Data(t, rread[t] + 1).data = rread[r] + 1
        BY <2>4 DEF IsData, Data
      <3>2. rread'[r] = rread[r] + 1
        BY <1>0, <2>3, <2>4
      <3> QED
        BY <1>0, <1>6, <2>2, <3>1, <3>2, TransitSent
    <2>5. CASE t # r
      <3>1. ~ IsData(Data(t, rread[t] + 1), r)
        BY <2>5 DEF IsData, Data
      <3>2. rread'[r] = rread[r]
        BY <1>0, <2>3, <2>5
      <3> QED
        BY <1>0, <1>6, <2>2, <3>1, <3>2, TransitOther
    <2> QED
      BY <2>4, <2>5
  <1>7. ASSUME NEW t \in Streams, RemoteEof(t), to_client' = Append(to_client, End(t))
        PROVE  InTransit(to_client', r, passed, rread'[r])
    <2>1. ~ IsData(End(t), r) /\ End(t) \in Packet(Chunk)
      BY Packets DEF IsData, End
    <2>2. UNCHANGED rread
      BY <1>7 DEF RemoteEof, remote_vars
    <2> QED
      BY <1>0, <1>7, <2>1, <2>2, TransitOther
  <1> QED
    BY <1>2, <1>3, <1>4, <1>5, <1>6, <1>7, ToClientSteps DEF ToClientStep

LEMMA NextLocalOrder ==
  TypeOK /\ StoreOrder /\ LocalOrder /\ [Next]_vars => LocalOrder'
  <1> SUFFICES ASSUME TypeOK, StoreOrder, LocalOrder, [Next]_vars, NEW r \in Streams
        PROVE  /\ InTransit(to_client', r, Numbers(lgot'[r]) \union Numbers(queue'[r]),
                            rread'[r])
               /\ \A x \in Numbers(lgot'[r]) \union Numbers(queue'[r]) : x <= rread'[r]
               /\ rread'[r] <= rsent'[r]
               /\ Aligned(lgot'[r], queue'[r])
    BY DEF LocalOrder
  <1> DEFINE P == Numbers(lgot[r]) \union Numbers(queue[r])
  <1>0. /\ InTransit(to_client, r, P, rread[r]) /\ \A x \in P : x <= rread[r]
        /\ rread[r] <= rsent[r] /\ Aligned(lgot[r], queue[r])
    BY DEF LocalOrder
  <1>1. /\ P \in SUBSET Nat /\ rread[r] \in Nat /\ rsent[r] \in Nat
        /\ queue[r] \in Seq(Chunk \union {Close}) /\ lgot[r] \in Seq(Chunk)
        /\ to_client \in Seq(Packet(Chunk))
    BY PipeTypes
  <1>2. rread'[r] \in Nat /\ rread[r] <= rread'[r] /\ rread'[r] <= rsent'[r]
    BY <1>0, <1>1, ReadSteps
  <1>3. InTransit(to_client', r, P, rread'[r]) /\ \A x \in P : x <= rread'[r]
    <2>1. InTransit(to_client', r, P, rread'[r])
      BY <1>0, <1>1, ClientTransit
    <2> QED
      BY <2>1, <1>0, <1>1, <1>2
  <1>4. CASE UNCHANGED <<queue[r], lgot[r]>>
    BY <1>0, <1>2, <1>3, <1>4
  <1>5. CASE Queued(r)
    <2> DEFINE d == Head(to_client).data
    <2>1. d \in 1 .. rread[r] /\ \A x \in P : x < d
      BY <1>0, <1>1, <1>5, TransitTaken DEF Queued
    <2>2. d \in Chunk /\ \A i \in DOMAIN queue[r] : queue[r][i] # Close
      BY <2>1, <1>5, PipeTypes DEF StoreOrder, Queued
    <2>3. /\ Aligned(lgot[r], Append(queue[r], d))
          /\ Numbers(Append(queue[r], d)) = Numbers(queue[r]) \union {d}
      BY <1>0, <1>1, <2>1, <2>2, AlignedTaken
    <2>4. InTransit(to_client', r, P \union {d}, rread'[r])
      BY <1>0, <1>1, <1>5, TransitTaken DEF Queued
    <2>5. queue'[r] = Append(queue[r], d) /\ lgot'[r] = lgot[r] /\ rread'[r] = rread[r]
      BY <1>5 DEF Queued
    <2>6. Numbers(lgot'[r]) \union Numbers(queue'[r]) = P \union {d}
      BY <2>3, <2>5
    <2> QED
      <3>1. InTransit(to_client', r, Numbers(lgot'[r]) \union Numbers(queue'[r]), rread'[r])
        BY <2>4, <2>6
      <3>2. \A x \in P \union {d} : x <= rread'[r]
        BY <1>1, <1>3, <2>1, <2>5
      <3>3. Aligned(lgot'[r], queue'[r])
        BY <2>3, <2>5
      <3> QED
        BY <1>2, <2>6, <3>1, <3>2, <3>3
  <1>6. CASE Closed(r)
    <2>1. /\ Aligned(lgot'[r], queue'[r])
          /\ Numbers(lgot'[r]) \union Numbers(queue'[r]) = P
      BY <1>0, <1>1, <1>6, AlignedClosed DEF Closed
    <2> QED
      BY <1>2, <1>3, <2>1
  <1>7. CASE WrittenOut(r)
    <2>1. /\ Aligned(lgot'[r], queue'[r])
          /\ Numbers(lgot'[r]) \union Numbers(queue'[r]) \in SUBSET P
      <3>1. /\ queue[r] # <<>> /\ Head(queue[r]) # Close /\ queue'[r] = Tail(queue[r])
            /\ lgot'[r] = Append(lgot[r], Head(queue[r])) \/ lgot'[r] = lgot[r]
        BY <1>7 DEF WrittenOut
      <3>2. /\ Aligned(lgot[r], Tail(queue[r]))
            /\ Aligned(Append(lgot[r], Head(queue[r])), Tail(queue[r]))
            /\ Numbers(Append(lgot[r], Head(queue[r]))) = Numbers(lgot[r]) \union {Head(queue[r])}
            /\ Numbers(Tail(queue[r])) \subseteq Numbers(queue[r])
            /\ Head(queue[r]) \in Numbers(queue[r])
        BY <1>0, <1>1, <3>1, AlignedWritten
      <3>3. CASE lgot'[r] = lgot[r]
        BY <3>1, <3>2, <3>3
      <3>4. CASE lgot'[r] = Append(lgot[r], Head(queue[r]))
        <4>1. Aligned(lgot'[r], queue'[r])
          BY <3>1, <3>2, <3>4
        <4>2. /\ Numbers(lgot'[r]) = Numbers(lgot[r]) \union {Head(queue[r])}
              /\ Numbers(queue'[r]) \subseteq Numbers(queue[r])
          BY <3>1, <3>2, <3>4
        <4> QED
          BY <3>2, <4>1, <4>2
      <3> QED
        BY <3>1, <3>3, <3>4
    <2>2. InTransit(to_client', r, Numbers(lgot'[r]) \union Numbers(queue'[r]), rread'[r])
      BY <1>2, <1>3, <2>1, TransitWeaker
    <2> QED
      BY <1>2, <1>3, <2>1, <2>2
  <1> QED
    BY <1>4, <1>5, <1>6, <1>7, QueueSteps

\* Up to the first reconnect there is one websocket, and while the session
\* lasts it is up.
SessionServed ==
    /\ loops \subseteq 0 .. reconnects
    /\ reconnects = 0 =>
          slot = 0 /\ ~ entering /\ (session => connected /\ 0 \in alive)

LEMMA SessionSteps ==
  ASSUME TypeOK, [Next]_vars
  PROVE  session' => session \/ Reconnect
  BY NextFrame DEF PipeFrame, ClientInit, ClientInitRefused, ClientData, HandleData,
                   SessionEnds, ConnectionLost, Breaks

LEMMA ReconnectSteps ==
  ASSUME TypeOK, SessionServed, [Next]_vars
  PROVE  /\ reconnects \in Nat /\ reconnects' \in Nat /\ reconnects <= reconnects'
         /\ Reconnect => reconnects' > 0
  <1>0. reconnects \in Nat
    BY DEF TypeOK, StoreTypeOK, TunnelTypeOK, WebSocket
  <1>1. CASE ~ Reconnect
    BY <1>0, <1>1, NextFrame DEF PipeFrame
  <1>2. CASE Reconnect
    <2>1. CASE TakeOver
      BY <1>0, <2>1 DEF TakeOver
    <2>2. CASE Enter
      BY <1>0, <2>2 DEF Enter, InHandshake, SessionServed
    <2>3. CASE AddClient
      BY <1>0, <2>3 DEF AddClient, SessionServed
    <2> QED
      BY <1>2, <2>1, <2>2, <2>3 DEF Reconnect, Reconnecting
  <1> QED
    BY <1>1, <1>2

LEMMA NextSessionServed == TypeOK /\ SessionServed /\ [Next]_vars => SessionServed'
  <1> SUFFICES ASSUME TypeOK, SessionServed, [Next]_vars PROVE SessionServed'
    OBVIOUS
  <1>0. /\ reconnects \in Nat /\ reconnects' \in Nat /\ reconnects <= reconnects'
        /\ Reconnect => reconnects' > 0
    BY ReconnectSteps
  <1>1. loops' \subseteq 0 .. reconnects'
    <2>0. loops \subseteq 0 .. reconnects'
      BY <1>0 DEF SessionServed
    <2>1. CASE UNCHANGED loops \/ ConnectionLost
      BY <2>0, <2>1 DEF ConnectionLost, Breaks
    <2>2. ASSUME NEW w \in WebSocket, ServerLoopEnds(w) PROVE loops' \subseteq 0 .. reconnects'
      BY <2>0, <2>2 DEF ServerLoopEnds, LoopEnds
    <2>3. CASE Reconnect
      <3>1. CASE TakeOver
        <4>1. reconnects' = reconnects + 1
          BY <3>1 DEF TakeOver
        <4>2. PICK on \in SUBSET loops : loops' = on \union {reconnects + 1}
          BY <3>1 DEF TakeOver
        <4>3. reconnects + 1 \in 0 .. reconnects'
          BY <1>0, <4>1
        <4> QED
          BY <2>0, <4>2, <4>3
      <3>2. CASE Enter \/ AddClient
        BY <2>0, <3>2 DEF Enter, AddClient
      <3> QED
        BY <2>3, <3>1, <3>2 DEF Reconnect, Reconnecting
    <2> QED
      BY <2>1, <2>2, <2>3, NextFrame DEF PipeFrame
  <1>2. ASSUME reconnects' = 0
        PROVE  slot' = 0 /\ ~ entering' /\ (session' => connected' /\ 0 \in alive')
    <2>1. reconnects = 0 /\ ~ Reconnect
      BY <1>0, <1>2
    <2>2. slot' = 0 /\ ~ entering'
      BY <2>1, NextFrame DEF PipeFrame, SessionServed
    <2>3. ASSUME session' PROVE connected' /\ 0 \in alive'
      <3>1. session /\ connected /\ 0 \in alive
        BY <2>1, <2>3, SessionSteps DEF SessionServed
      <3>2. \A r \in Streams : SendInit(r) \/ ReadRemote(r) \/ RemoteEof(r) => connected'
        BY <2>1, <3>1 DEF SendInit, ReadRemote, RemoteEof, SendToClient, SendToClientFails
      <3>3. \A w \in WebSocket : ~ ServerLoopEnds(w)
        <4>1. \A w \in loops : w = 0
          BY <2>1 DEF SessionServed
        <4> QED
          BY <2>1, <3>1, <4>1 DEF ServerLoopEnds, LoopEnds
      <3>4. connected'
        BY <2>1, <3>1, <3>2, <3>3, NextFrame DEF PipeFrame
      <3>5. ConnectionLost => 0 \in alive'
        BY <2>1, <2>3, <3>1 DEF ConnectionLost, Breaks, SessionEnds
      <3>6. 0 \in alive'
        BY <2>1, <3>1, <3>3, <3>5, NextFrame DEF PipeFrame
      <3> QED
        BY <3>4, <3>6
    <2> QED
      BY <2>2, <2>3
  <1> QED
    BY <1>1, <1>2 DEF SessionServed

LEMMA LossSteps ==
  ASSUME TypeOK, SessionServed, [Next]_vars, NEW r \in Streams
  PROVE  /\ Lossy[r] \in BOOLEAN /\ Lossy'[r] \in BOOLEAN
         /\ Lossy[r] => Lossy'[r]
         /\ ~ Lossy'[r] => reconnects = 0 /\ ~ Reconnect
         /\ (ReadRemote(r) \/ RemoteEof(r)) /\ accept[r] = "init" => Lossy'[r]
  <1>0. raced \in [Streams -> BOOLEAN]
    BY DEF TypeOK
  <1>1. raced[r] => raced'[r]
    BY <1>0, NextFrame DEF Frame, ServerReceives, AddRemote, ReadRemote, RemoteEof,
                           ReaderLeaves, Overtakes
  <1>2. /\ reconnects \in Nat /\ reconnects' \in Nat /\ reconnects <= reconnects'
        /\ Reconnect => reconnects' > 0
    BY ReconnectSteps
  <1>3. (ReadRemote(r) \/ RemoteEof(r)) /\ accept[r] = "init" => raced'[r]
    BY <1>0 DEF ReadRemote, RemoteEof, Overtakes
  <1>4. Lossy[r] = (raced[r] \/ reconnects > 0) /\ Lossy'[r] = (raced'[r] \/ reconnects' > 0)
    BY DEF Lossy
  <1>5. Lossy[r] => Lossy'[r]
    BY <1>0, <1>1, <1>2, <1>4
  <1>6. ASSUME ~ Lossy'[r] PROVE reconnects = 0 /\ ~ Reconnect
    <2>1. ~ (reconnects' > 0)
      BY <1>4, <1>6
    <2> QED
      BY <1>2, <2>1
  <1> QED
    BY <1>3, <1>4, <1>5, <1>6

\* Before a stream is set up, the first that comes for it is its Init, which is
\* on its way as soon as it was sent.
InitAhead ==
    \A r \in Streams : ~ Lossy[r] /\ local_write[r] = "none" /\ setup # r =>
       /\ \A i \in DOMAIN to_client : to_client[i].stream = r =>
             \E j \in 1 .. i : IsInit(to_client[j], r)
       /\ session /\ accept[r] \in {"add", "done"} =>
             \E j \in DOMAIN to_client : IsInit(to_client[j], r)

LEMMA NextInitAhead ==
  /\ TypeOK /\ Known /\ InitOnce /\ SessionServed /\ InitAhead /\ [Next]_vars
  => InitAhead'
  <1> SUFFICES ASSUME TypeOK, Known, InitOnce, SessionServed, InitAhead, [Next]_vars,
                      NEW r \in Streams, ~ Lossy'[r], local_write'[r] = "none", setup' # r
        PROVE  /\ \A i \in DOMAIN to_client' : to_client'[i].stream = r =>
                     \E j \in 1 .. i : IsInit(to_client'[j], r)
               /\ session' /\ accept'[r] \in {"add", "done"} =>
                     \E j \in DOMAIN to_client' : IsInit(to_client'[j], r)
    BY DEF InitAhead
  <1> DEFINE First(c) == \A i \in DOMAIN c : c[i].stream = r =>
                            \E j \in 1 .. i : IsInit(c[j], r)
             There(c) == \E j \in DOMAIN c : IsInit(c[j], r)
  <1>0. /\ to_client \in Seq(Packet(Chunk))
        /\ accept \in [Streams -> {"none", "init", "add", "done"}]
        /\ rread \in [Streams -> 0 .. MaxChunks]
    BY DEF TypeOK, StoreTypeOK, TunnelTypeOK
  <1>1. local_write[r] = "none" /\ setup # r
    <2>1. local_write[r] = "none" /\ ~ (StreamSetUp /\ setup = r)
      <3>1. StreamSetUp /\ setup = r => local_write'[r] # "none"
        BY DEF StreamSetUp, AddStream, TypeOK, StoreTypeOK
      <3> QED
        BY <3>1, StoreSteps
    <2>2. ClientInit => setup = None
      BY DEF ClientInit, Receives
    <2> QED
      BY <2>1, <2>2, NoneAssumption, NextFrame DEF PipeFrame
  <1>2. ~ Lossy[r] /\ ~ Reconnect /\ reconnects = 0
    BY LossSteps
  <1>3. First(to_client) /\ (session /\ accept[r] \in {"add", "done"} => There(to_client))
    BY <1>1, <1>2 DEF InitAhead
  <1>4. session' => session /\ connected /\ reconnects \in alive
    BY <1>2, SessionSteps DEF SessionServed
  \* A step that sends no Init for the stream.
  <1>5. accept'[r] \in {"add", "done"} => accept[r] \in {"add", "done"} \/ SendInit(r)
    BY <1>0, NextFrame DEF Frame, Accept, SendInit, AddRemote
  <1>6. session' /\ SendInit(r) => to_client' = Append(to_client, Init_(r))
    BY <1>4 DEF SendInit, SendToClient, SendToClientFails
  <1>7. ASSUME NEW p \in Packet(Chunk), to_client' = Append(to_client, p)
        PROVE  /\ There(to_client) \/ IsInit(p, r) => There(to_client')
               /\ p.stream # r \/ IsInit(p, r) \/ There(to_client) => First(to_client')
    <2>1. /\ \A i \in DOMAIN to_client : i \in DOMAIN to_client' /\ to_client'[i] = to_client[i]
          /\ Len(to_client) + 1 \in DOMAIN to_client' /\ to_client'[Len(to_client) + 1] = p
          /\ \A i \in DOMAIN to_client' : \/ i \in DOMAIN to_client /\ i < Len(to_client) + 1
                                          \/ i = Len(to_client) + 1
      BY <1>7, <1>0, AppendParts
    <2>2. There(to_client) \/ IsInit(p, r) => There(to_client')
      BY <2>1
    <2>3. ASSUME p.stream # r \/ IsInit(p, r) \/ There(to_client),
                 NEW i \in DOMAIN to_client', to_client'[i].stream = r
          PROVE  \E j \in 1 .. i : IsInit(to_client'[j], r)
      <3>1. CASE i \in DOMAIN to_client /\ i < Len(to_client) + 1
        <4>1. PICK j \in 1 .. i : IsInit(to_client[j], r)
          BY <1>3, <2>1, <2>3, <3>1
        <4>2. j \in DOMAIN to_client
          BY <1>0, <3>1
        <4> QED
          BY <4>1, <4>2, <2>1
      <3>2. CASE i = Len(to_client) + 1
        <4>1. CASE IsInit(p, r)
          BY <1>0, <2>1, <3>2, <4>1
        <4>2. CASE There(to_client)
          BY <1>0, <2>1, <3>2, <4>2
        <4> QED
          BY <2>1, <2>3, <3>2, <4>1, <4>2
      <3> QED
        BY <2>1, <3>1, <3>2
    <2> QED
      BY <2>2, <2>3
  <1>8. CASE UNCHANGED to_client
    <2>1. Append(to_client, Init_(r)) # to_client
      <3>1. Len(Append(to_client, Init_(r))) = Len(to_client) + 1
        BY <1>0, Packets, AppendParts
      <3> QED
        BY <1>0, <3>1
    <2> QED
      BY <1>3, <1>4, <1>5, <1>6, <1>8, <2>1
  <1>9. CASE to_client' = <<>> /\ (~ session' \/ Reconnect)
    BY <1>2, <1>9
  <1>10. CASE /\ to_client # <<>> /\ to_client' = Tail(to_client) /\ setup = None
              /\ \/ Head(to_client).type = "Init" /\ setup' = Head(to_client).stream
                 \/ Head(to_client).type = "Data" /\ ClientData
                 \/ Head(to_client).type = "End"
    <2>1. /\ Head(to_client) = to_client[1] /\ 1 \in DOMAIN to_client
          /\ \A i \in DOMAIN to_client' : /\ i \in Nat /\ 1 < i + 1 /\ i + 1 \in DOMAIN to_client
                                          /\ to_client'[i] = to_client[i + 1]
          /\ \A i \in DOMAIN to_client : i # 1 => /\ i - 1 \in DOMAIN to_client'
                                                  /\ to_client'[i - 1] = to_client[i]
      BY <1>0, <1>10, TailParts
    <2>2. Head(to_client).stream # r
      <3>1. ASSUME Head(to_client).stream = r PROVE IsInit(Head(to_client), r)
        BY <1>3, <2>1, <3>1
      <3> QED
        BY <1>10, <3>1 DEF IsInit
    <2>3. There(to_client) => There(to_client')
      BY <2>1, <2>2 DEF IsInit
    <2>4. ASSUME NEW i \in DOMAIN to_client', to_client'[i].stream = r
          PROVE  \E j \in 1 .. i : IsInit(to_client'[j], r)
      <3>1. PICK j \in 1 .. i + 1 : IsInit(to_client[j], r)
        BY <1>3, <2>1, <2>4
      <3>2. j # 1 /\ j \in DOMAIN to_client
        BY <1>0, <2>1, <2>2, <3>1 DEF IsInit
      <3> QED
        BY <2>1, <3>1, <3>2
    <2>5. ~ SendInit(r) \/ ~ session'
      <3>1. Append(to_client, Init_(r)) # Tail(to_client)
        <4>1. /\ Len(Append(to_client, Init_(r))) = Len(to_client) + 1
              /\ Len(Tail(to_client)) = Len(to_client) - 1
              /\ Len(to_client) \in Nat
          BY <1>0, <1>10, Packets, AppendParts
        <4>2. Len(Append(to_client, Init_(r))) # Len(Tail(to_client))
          BY <4>1
        <4> QED
          BY <4>2, Zenon
      <3> QED
        BY <1>6, <1>10, <3>1
    <2> QED
      BY <1>3, <1>4, <1>5, <2>3, <2>4, <2>5
  <1>11. ASSUME NEW t \in Streams, SendInit(t), to_client' = Append(to_client, Init_(t))
         PROVE  First(to_client') /\ (session' /\ accept'[r] \in {"add", "done"}
                                         => There(to_client'))
    <2>1. Init_(t) \in Packet(Chunk) /\ (IsInit(Init_(t), r) <=> t = r)
          /\ Init_(t).stream = t
      BY Packets DEF IsInit, Init_
    <2>2. accept'[r] \in {"add", "done"} => accept[r] \in {"add", "done"} \/ t = r
      BY <1>0, <1>11 DEF SendInit
    <2> QED
      BY <1>3, <1>4, <1>7, <1>11, <2>1, <2>2
  <1>12. ASSUME NEW t \in Streams, NEW p \in Packet(Chunk),
                ReadRemote(t) \/ RemoteEof(t), p.stream = t,
                to_client' = Append(to_client, p)
         PROVE  First(to_client') /\ (session' /\ accept'[r] \in {"add", "done"}
                                         => There(to_client'))
    <2>1. UNCHANGED accept /\ reader[t] = "reading"
      BY <1>12 DEF ReadRemote, RemoteEof
    <2>4. ASSUME ~ session PROVE UNCHANGED to_client
      <3>1. ~ InHandshake
        BY <1>2 DEF InHandshake, SessionServed
      <3> QED
        BY <1>12, <2>4, <3>1 DEF ReadRemote, RemoteEof, SendToClient, SendToClientFails
    <2>5. CASE ~ session
      BY <1>8, <2>4, <2>5
    <2>2. CASE session /\ t = r
      <3>1. accept[r] \in {"add", "done"}
        BY <1>0, <1>12, <2>1, <2>2, LossSteps DEF Known, Opened
      <3> QED
        BY <1>3, <1>7, <1>12, <2>1, <2>2, <3>1
    <2>3. CASE session /\ t # r
      BY <1>3, <1>4, <1>7, <1>12, <2>1, <2>3
    <2> QED
      BY <2>2, <2>3, <2>5
  <1>13. ASSUME NEW t \in Streams, ReadRemote(t)
         PROVE  /\ Data(t, rread[t] + 1) \in Packet(Chunk)
                /\ Data(t, rread[t] + 1).stream = t
    <2>1. rread[t] + 1 \in Chunk
      BY <1>13, NextChunk
    <2> QED
      BY <2>1, Packets DEF Data
  <1>14. \A t \in Streams : End(t) \in Packet(Chunk) /\ End(t).stream = t
    BY Packets DEF End
  <1> QED
    BY <1>8, <1>9, <1>10, <1>11, <1>12, <1>13, <1>14, ToClientSteps DEF ToClientStep

\* A stream that nothing has been lost of: while it takes data, all that its
\* socket has not got and its queue does not have is in the channel.
Takes(r) == local_write[r] = "none" \/ (local_write[r] = "running" /\ locals[r])
LocalExact ==
    \A r \in Streams : ~ Lossy[r] =>
       /\ session /\ Takes(r) =>
             Complete(to_client, r, Len(lgot[r]) + Len(queue[r]), rread[r])
       /\ local_write[r] = "running" => Exact(lgot[r], queue[r])

LocalInv == /\ IInv /\ InitOnce /\ StoreOrder /\ LocalOrder
            /\ SessionServed /\ InitAhead /\ LocalExact

LEMMA Lengths ==
  ASSUME NEW S, NEW p \in Seq(S), NEW R, NEW q \in Seq(R)
  PROVE  Len(p) + Len(q) \in Nat
  OBVIOUS

LEMMA NextLocalExact == LocalInv /\ [Next]_vars => LocalExact'
  <1> SUFFICES ASSUME LocalInv, [Next]_vars, NEW r \in Streams, ~ Lossy'[r]
        PROVE  /\ session' /\ Takes(r)' =>
                     Complete(to_client', r, Len(lgot'[r]) + Len(queue'[r]), rread'[r])
               /\ local_write'[r] = "running" => Exact(lgot'[r], queue'[r])
    BY DEF LocalExact
  <1> DEFINE first == Len(lgot[r]) + Len(queue[r])
  <1>i. /\ TypeOK /\ Known /\ InitOnce /\ StoreOrder /\ LocalOrder
        /\ SessionServed /\ InitAhead /\ LocalExact
    BY DEF LocalInv, IInv
  <1>0. /\ to_client \in Seq(Packet(Chunk)) /\ rread[r] \in Nat /\ first \in Nat
        /\ queue[r] \in Seq(Chunk \union {Close}) /\ lgot[r] \in Seq(Chunk)
        /\ rread \in [Streams -> 0 .. MaxChunks]
    <2>0. TypeOK
      BY <1>i
    <2>1. rread \in [Streams -> 0 .. MaxChunks]
      BY <2>0 DEF TypeOK
    <2>2. /\ to_client \in Seq(Packet(Chunk)) /\ rread[r] \in Nat
          /\ queue[r] \in Seq(Chunk \union {Close}) /\ lgot[r] \in Seq(Chunk)
      BY <2>0, PipeTypes
    <2>3. lgot[r] \in Seq(Chunk)
      BY <2>2
    <2>4. queue[r] \in Seq(Chunk \union {Close})
      BY <2>2
    <2>5. first \in Nat
      BY <2>3, <2>4, Lengths
    <2> QED
      BY <2>1, <2>2, <2>5
  <1>1. ~ Lossy[r] /\ ~ Reconnect /\ reconnects = 0
    BY <1>i, LossSteps
  <1>2. session' => session /\ connected /\ reconnects \in alive
    BY <1>1, <1>i, SessionSteps DEF SessionServed
  <1>3. Takes(r)' => Takes(r)
    BY <1>i, StoreSteps DEF Takes, InitOnce
  <1>4. session /\ Takes(r) => Complete(to_client, r, first, rread[r])
    BY <1>i, <1>1 DEF LocalExact
  <1>5. local_write[r] = "running" => Exact(lgot[r], queue[r])
    BY <1>i, <1>1 DEF LocalExact
  <1>6. local_write'[r] = "running" /\ local_write[r] # "running" =>
           UNCHANGED <<queue[r], lgot[r]>> /\ queue[r] = <<>>
    <2> SUFFICES ASSUME local_write'[r] = "running", local_write[r] # "running"
                 PROVE  UNCHANGED <<queue[r], lgot[r]>> /\ queue[r] = <<>>
      OBVIOUS
    <2>1. local_write[r] = "none"
      BY <1>i, StoreSteps DEF InitOnce
    <2>2. queue[r] = <<>> /\ "sleep" \notin closer[r]
      BY <1>i, <2>1 DEF StoreOrder
    <2> QED
      BY <1>i, <2>1, <2>2, QueueSteps DEF Queued, Closed, WrittenOut
  <1>7. session' /\ ReadRemote(r) => Len(to_client') = Len(to_client) + 1
    <2>1. session' /\ ReadRemote(r) => to_client' = Append(to_client, Data(r, rread[r] + 1))
      BY <1>2 DEF ReadRemote, SendToClient, SendToClientFails
    <2>2. ReadRemote(r) => rread[r] + 1 \in Chunk
      BY <1>i, NextChunk
    <2> QED
      BY <1>0, <2>1, <2>2, Packets, AppendParts
  <1>8. CASE UNCHANGED <<queue[r], lgot[r]>>
    <2>1. local_write'[r] = "running" => Exact(lgot'[r], queue'[r])
      <3>1. Exact(lgot[r], <<>>)
        BY DEF Exact
      <3> QED
        BY <1>5, <1>6, <1>8, <3>1
    <2>2. ASSUME session', Takes(r)' PROVE Complete(to_client', r, first, rread'[r])
      <3>0. session /\ connected /\ Takes(r) /\ Complete(to_client, r, first, rread[r])
        BY <1>2, <1>3, <1>4, <2>2
      <3>1. ASSUME NEW p \in Packet(Chunk), to_client' = Append(to_client, p),
                   rread'[r] = rread[r]
            PROVE  Complete(to_client', r, first, rread'[r])
        BY <1>0, <3>0, <3>1, CompleteOther
      <3>2. CASE UNCHANGED to_client
        <4>1. ~ ReadRemote(r)
          BY <1>0, <1>7, <2>2, <3>2
        <4>2. rread'[r] = rread[r]
          BY <1>i, <4>1, ReadSteps
        <4> QED
          BY <3>0, <3>2, <4>2
      <3>3. CASE to_client' = <<>> /\ (~ session' \/ Reconnect)
        BY <1>1, <2>2, <3>3
      <3>4. CASE /\ to_client # <<>> /\ to_client' = Tail(to_client) /\ setup = None
                 /\ \/ Head(to_client).type = "Init" /\ setup' = Head(to_client).stream
                    \/ Head(to_client).type = "Data" /\ ClientData
                    \/ Head(to_client).type = "End"
        <4>1. rread'[r] = rread[r]
          <5>1. ~ ReadRemote(r)
            BY <1>0, <1>7, <2>2, <3>4
          <5> QED
            BY <1>i, <5>1, ReadSteps
        <4>2. ~ IsData(Head(to_client), r)
          <5> SUFFICES ASSUME IsData(Head(to_client), r) PROVE FALSE
            OBVIOUS
          <5>1. ClientData
            BY <3>4 DEF IsData
          <5>2. local_write[r] = "none" => FALSE
            <6>1. to_client[1] = Head(to_client) /\ 1 \in DOMAIN to_client
              BY <1>0, <3>4, TailParts
            <6>2. local_write[r] = "none" => \E j \in 1 .. 1 : IsInit(to_client[j], r)
              BY <1>i, <1>1, <3>4, <6>1, NoneAssumption DEF InitAhead, IsData
            <6> QED
              BY <6>1, <6>2 DEF IsInit, IsData
          <5>3. locals[r] /\ local_write[r] = "running"
            BY <3>0, <5>2 DEF Takes
          <5>4. queue' = [queue EXCEPT ![r] = Append(@, Head(to_client).data)]
            BY <2>2, <5>1, <5>3 DEF ClientData, HandleData, IsData, SessionEnds
          <5>5. Head(to_client).data \in Chunk \union {Close}
            BY <1>0, <3>4, TailParts, PacketParts
          <5>6. Len(queue'[r]) = Len(queue[r]) + 1 /\ Len(queue[r]) \in Nat
            <6>1. queue \in [Streams -> Seq(Chunk \union {Close})]
              BY <1>i DEF TypeOK, StoreTypeOK
            <6> QED
              BY <6>1, <5>4, <5>5, <1>0
          <5> QED
            BY <5>6, <1>8
        <4> QED
          BY <1>0, <3>0, <3>4, <4>1, <4>2, CompleteTail
      <3>5. ASSUME NEW t \in Streams, SendInit(t), to_client' = Append(to_client, Init_(t))
            PROVE  Complete(to_client', r, first, rread'[r])
        BY <3>1, <3>5, Packets DEF SendInit, remote_vars
      <3>6. ASSUME NEW t \in Streams, RemoteEof(t), to_client' = Append(to_client, End(t))
            PROVE  Complete(to_client', r, first, rread'[r])
        BY <3>1, <3>6, Packets DEF RemoteEof, remote_vars
      <3>7. ASSUME NEW t \in Streams, ReadRemote(t),
                   to_client' = Append(to_client, Data(t, rread[t] + 1))
            PROVE  Complete(to_client', r, first, rread'[r])
        <4>1. rread[t] + 1 \in Chunk /\ rread' = [rread EXCEPT ![t] = @ + 1]
          BY <1>i, <3>7, NextChunk
        <4>2. Data(t, rread[t] + 1) \in Packet(Chunk)
          BY <4>1, Packets
        <4>3. CASE t # r
          BY <1>0, <3>1, <3>7, <4>1, <4>2, <4>3
        <4>4. CASE t = r
          <5>1. /\ IsData(Data(r, rread[r] + 1), r)
                /\ Data(r, rread[r] + 1).data = rread[r] + 1
            BY DEF IsData, Data
          <5>2. rread'[r] = rread[r] + 1
            BY <1>0, <4>1, <4>4
          <5> QED
            BY <1>0, <3>0, <3>7, <4>2, <4>4, <5>1, <5>2, CompleteSent
        <4> QED
          BY <4>3, <4>4
      <3> QED
        BY <3>2, <3>3, <3>4, <3>5, <3>6, <3>7, ToClientSteps DEF ToClientStep
    <2> QED
      BY <1>8, <2>1, <2>2
  <1>9. CASE Queued(r)
    <2> DEFINE d == Head(to_client).data
               P == Numbers(lgot[r]) \union Numbers(queue[r])
    <2>0. /\ to_client # <<>> /\ IsData(Head(to_client), r)
          /\ queue'[r] = Append(queue[r], d) /\ lgot'[r] = lgot[r]
          /\ rread'[r] = rread[r] /\ to_client' = Tail(to_client)
          /\ local_write[r] = "running" /\ session /\ Takes(r)
      BY <1>9 DEF Queued, Takes
    <2>1. /\ InTransit(to_client, r, P, rread[r]) /\ P \in SUBSET Nat
          /\ Aligned(lgot[r], queue[r])
      BY <1>i, PipeTypes DEF LocalOrder
    <2>2. d \in 1 .. rread[r] /\ \A x \in P : x < d
      BY <1>0, <2>0, <2>1, TransitTaken
    <2>3. d \in Chunk /\ \A i \in DOMAIN queue[r] : queue[r][i] # Close
      BY <1>i, <1>9, <2>2, PipeTypes DEF StoreOrder, Queued
    <2>4. first < d
      BY <1>0, <2>1, <2>2, <2>3, AlignedTaken
    <2>5. d = first + 1 /\ Complete(Tail(to_client), r, first + 1, rread[r])
      BY <1>0, <1>4, <2>0, <2>1, <2>4, CompleteNext
    <2>6. Exact(lgot[r], Append(queue[r], d))
      BY <1>0, <1>5, <2>0, <2>3, <2>5, ExactTaken
    <2>7. Len(lgot'[r]) + Len(queue'[r]) = first + 1
      <3> DEFINE g == Len(lgot[r])
                 q == Len(queue[r])
                 h == Len(lgot'[r])
                 t == Len(queue'[r])
      <3>1. g \in Nat /\ q \in Nat /\ h = g
        BY <1>0, <2>0
      <3>2. t = q + 1
        BY <1>0, <2>0, <2>3
      <3> HIDE DEF g, q, h, t
      <3>3. h + t = (g + q) + 1
        BY <3>1, <3>2
      <3> QED
        BY <3>3 DEF g, q, h, t
    <2> QED
      BY <2>0, <2>5, <2>6, <2>7
  <1>10. CASE Closed(r)
    <2>1. ~ Takes(r)
      BY <1>i, <1>10 DEF Closed, Takes, StoreOrder
    <2>2. Exact(lgot[r], queue[r]) => Exact(lgot'[r], queue'[r])
      BY <1>0, <1>10, AlignedClosed DEF Closed
    <2>3. local_write'[r] = local_write[r]
      BY <1>10 DEF Closed
    <2> QED
      BY <1>3, <1>5, <2>1, <2>2, <2>3
  <1>11. CASE WrittenOut(r)
    <2>0. /\ local_write[r] = "running" /\ queue[r] # <<>> /\ Head(queue[r]) # Close
          /\ queue'[r] = Tail(queue[r])
          /\ UNCHANGED <<to_client, rread, locals, session>>
      BY <1>11 DEF WrittenOut
    <2>1. CASE local_write'[r] = "ended"
      BY <2>1 DEF Takes
    <2>2. CASE lgot'[r] = Append(lgot[r], Head(queue[r])) /\ UNCHANGED local_write
      <3>1. Aligned(lgot[r], queue[r])
        BY <1>i DEF LocalOrder
      <3>2. Head(queue[r]) \in Chunk
        BY <1>0, <2>0, <3>1, AlignedWritten
      <3>3. Exact(lgot'[r], queue'[r])
        BY <1>0, <1>5, <2>0, <2>2, ExactWritten
      <3>4. Len(lgot'[r]) + Len(queue'[r]) = first
        <4> DEFINE g == Len(lgot[r])
                   q == Len(queue[r])
                   h == Len(lgot'[r])
                   t == Len(queue'[r])
        <4>1. t = q - 1 /\ q \in Nat
          <5>1. queue[r] # <<>> /\ queue'[r] = Tail(queue[r])
            BY <2>0
          <5> QED
            BY <1>0, <5>1
        <4>2. h = g + 1 /\ g \in Nat
          BY <1>0, <2>2, <3>2
        <4> HIDE DEF g, q, h, t
        <4>3. h + t = g + q
          BY <4>1, <4>2
        <4> QED
          BY <4>3 DEF g, q, h, t
      <3>5. Takes(r)' => Takes(r)
        BY <1>3
      <3> QED
        BY <1>4, <2>0, <3>3, <3>4, <3>5
    <2> QED
      BY <1>11, <2>1, <2>2 DEF WrittenOut
  <1> QED
    BY <1>8, <1>9, <1>10, <1>11, <1>i, QueueSteps

\* The same in the other direction.  What a step does to the channels:
ToServerStep ==
    \/ /\ \A w \in WebSocket : to_server'[w] = to_server[w] \/ to_server'[w] = <<>>
       /\ 0 \in alive' /\ ~ Reconnect => to_server'[0] = to_server[0]
       /\ UNCHANGED lread \/ slot \notin alive
    \/ \E w \in WebSocket : /\ ServerReceives(w) /\ UNCHANGED lread
                            /\ to_server[w] # <<>>
                            /\ to_server' = [to_server EXCEPT ![w] = Tail(@)]
    \/ \E r \in Streams : /\ UNCHANGED lread /\ slot \in alive
                          /\ to_server' = [to_server EXCEPT ![slot] = Append(@, Refused(r))]
    \/ \E r \in Streams : /\ ReadLocal(r) /\ slot \in alive
                          /\ to_server' = [to_server EXCEPT
                                              ![slot] = Append(@, Data(r, lread[r] + 1))]

LEMMA Zero == 0 \in WebSocket
  BY ReconnectsAssumption DEF WebSocket

LEMMA ToServerSteps == TypeOK /\ [Next]_vars => ToServerStep
  <1> SUFFICES ASSUME TypeOK, [Next]_vars PROVE ToServerStep
    OBVIOUS
  <1>h. to_client # <<>> => Head(to_client).stream \in Streams
    BY Taken, PacketParts
  <1>t. to_server \in Channels
    BY DEF TypeOK, StoreTypeOK, TunnelTypeOK, Channels
  <1>1. ASSUME NEW w \in WebSocket, ServerReceives(w) PROVE ToServerStep
    <2>1. to_server[w] # <<>> /\ to_server' = [to_server EXCEPT ![w] = Tail(@)]
      BY <1>1, TakenFrom DEF ServerReceives
    <2>2. UNCHANGED lread
      BY <1>1 DEF ServerReceives, local_vars
    <2> QED
      BY <1>1, <2>1, <2>2 DEF ToServerStep
  <1>2. ASSUME NEW r \in Streams, ReadLocal(r) PROVE ToServerStep
    <2>1. CASE slot \in alive
      BY <1>2, <2>1 DEF ReadLocal, SendToServer, SendToServerFails, ToServerStep
    <2>2. CASE slot \notin alive
      <3>1. UNCHANGED to_server
        BY <1>2, <2>2 DEF ReadLocal, SendToServer, SendToServerFails
      <3> QED
        BY <2>2, <3>1 DEF ToServerStep
    <2> QED
      BY <2>1, <2>2
  <1>3. CASE UNCHANGED to_server /\ UNCHANGED lread
    BY <1>3 DEF ToServerStep
  <1>4. ASSUME ClientInitRefused \/ ClientData, UNCHANGED lread PROVE ToServerStep
    <2>1. /\ to_client # <<>>
          /\ UNCHANGED to_server \/ SendToServer(Refused(Head(to_client).stream))
      BY <1>4 DEF ClientInitRefused, ClientData, HandleData, Receives, Arrives,
                  SendToServerFails
    <2>2. CASE SendToServer(Refused(Head(to_client).stream)) /\ slot \in alive
      BY <1>4, <1>h, <2>1, <2>2 DEF SendToServer, ToServerStep
    <2>3. CASE SendToServer(Refused(Head(to_client).stream)) /\ slot \notin alive
      BY <1>3, <1>4, <2>3 DEF SendToServer
    <2> QED
      BY <1>3, <1>4, <2>1, <2>2, <2>3
  <1>5. ASSUME NEW w \in WebSocket, ServerLoopEnds(w), UNCHANGED lread PROVE ToServerStep
    <2>1. /\ to_server' = [to_server EXCEPT ![w] = <<>>]
          /\ w \notin alive'
      BY <1>5 DEF ServerLoopEnds, LoopEnds
    <2>2. \A v \in WebSocket : to_server'[v] = to_server[v] \/ to_server'[v] = <<>>
      BY <1>t, <2>1 DEF Channels
    <2>3. 0 \in alive' => to_server'[0] = to_server[0]
      BY <1>t, <2>1, Zero DEF Channels
    <2> QED
      BY <1>5, <2>2, <2>3 DEF ToServerStep
  <1>6. ASSUME Reconnect, UNCHANGED lread PROVE ToServerStep
    <2>1. \A v \in WebSocket : to_server'[v] = to_server[v] \/ to_server'[v] = <<>>
      BY <1>6 DEF Reconnect, Reconnecting, TakeOver, Enter, AddClient, chan_vars
    <2> QED
      BY <1>6, <2>1 DEF ToServerStep
  <1>7. UNCHANGED lread \/ \E r \in Streams : ReadLocal(r)
    BY NextFrame DEF PipeFrame
  <1> QED
    BY <1>1, <1>2, <1>3, <1>4, <1>5, <1>6, <1>7, NextFrame DEF Frame

\* What a remote user gets of a packet, and the registration of the stream.
LEMMA RemoteSteps ==
  ASSUME TypeOK, Known, NEW w \in WebSocket, ServerReceives(w), NEW r \in Streams
  PROVE  \/ UNCHANGED rgot[r] /\ ~ IsData(Head(to_server[w]), r)
         \/ /\ IsData(Head(to_server[w]), r) /\ streams[r] = "enabled"
            /\ rgot'[r] = Append(rgot[r], Head(to_server[w]).data)
         \/ /\ IsData(Head(to_server[w]), r)
            /\ streams'[r] # "enabled" /\ UNCHANGED rgot[r]
            /\ accept'[r] = "done" \/ raced'[r]
  <1>0. /\ rgot \in [Streams -> Seq(Chunk)]
        /\ streams \in [Streams -> {"absent", "enabled", "disabled"}]
        /\ accept \in [Streams -> {"none", "init", "add", "done"}]
        /\ raced \in [Streams -> BOOLEAN]
    BY DEF TypeOK
  <1> DEFINE p == Head(to_server[w])
             s == p.stream
  <1>1. /\ p \in Packet(Chunk) /\ 1 \in DOMAIN to_server[w] /\ to_server[w][1] = p
        /\ ServerData(p) \/ ServerRefused(p)
        /\ raced' = [raced EXCEPT ![s] = @ \/ accept[s] \in {"init", "add"}]
        /\ UNCHANGED accept
    BY TakenFrom DEF ServerReceives, Overtakes
  <1> HIDE DEF p
  <1>2. s \in Streams /\ accept[s] # "none"
    <2>1. s \in Streams
      BY <1>1, PacketParts
    <2>2. Opened(to_server[w][1].stream)
      BY <1>1 DEF Known
    <2> QED
      BY <1>1, <2>1, <2>2 DEF Opened
  <1>3. CASE ServerRefused(p)
    BY <1>3 DEF ServerRefused, IsData, p
  <1>4. CASE ServerData(p) /\ s # r
    BY <1>0, <1>2, <1>4 DEF ServerData, IsData, p
  <1>5. CASE ServerData(p) /\ s = r
    <2>1. IsData(p, r)
      BY <1>5 DEF ServerData, IsData
    <2>2. CASE streams[r] = "enabled" /\ rgot' = [rgot EXCEPT ![r] = Append(@, p.data)]
      BY <1>0, <2>1, <2>2 DEF p
    <2>3. CASE streams' = Disabled(r) /\ UNCHANGED rgot
      <3>1. streams'[r] # "enabled"
        BY <1>0, <2>3 DEF Disabled
      <3>2. accept'[r] = "done" \/ raced'[r]
        BY <1>0, <1>1, <1>2, <1>5
      <3> QED
        BY <2>1, <2>3, <3>1, <3>2 DEF p
    <2> QED
      BY <1>5, <2>2, <2>3 DEF ServerData
  <1> QED
    BY <1>1, <1>3, <1>4, <1>5

LEMMA LocalReadSteps ==
  ASSUME TypeOK, [Next]_vars, NEW r \in Streams
  PROVE  /\ \/ lread'[r] = lread[r]
            \/ ReadLocal(r) /\ lread'[r] = lread[r] + 1
         /\ lread[r] <= lsent[r] => lread'[r] <= lsent'[r]
  <1>0. /\ lread \in [Streams -> 0 .. MaxChunks] /\ lsent \in [Streams -> 0 .. MaxChunks]
        /\ MaxChunks \in Nat
    BY ChunksAssumption DEF TypeOK
  <1>1. ASSUME NEW t \in Streams, ReadLocal(t)
        PROVE  /\ UNCHANGED lsent
               /\ lread' = [lread EXCEPT ![t] = @ + 1] /\ lread[t] < lsent[t]
    BY <1>1 DEF ReadLocal, LocalSaid
  <1>2. ASSUME NEW t \in Streams, LocalSends(t)
        PROVE  UNCHANGED lread /\ lsent' = [lsent EXCEPT ![t] = @ + 1]
    BY <1>2 DEF LocalSends
  <1>3. CASE UNCHANGED lread
    <2>1. lsent'[r] >= lsent[r]
      BY <1>0, <1>1, <1>2, NextFrame DEF PipeFrame
    <2>2. lread'[r] = lread[r] /\ lread[r] \in Nat /\ lsent[r] \in Nat
      BY <1>0, <1>3
    <2>3. lsent'[r] \in Nat
      BY <1>0, <1>2, NextFrame DEF PipeFrame, ReadLocal, LocalSends
    <2> QED
      BY <2>1, <2>2, <2>3
  <1>4. CASE \E t \in Streams : ReadLocal(t)
    BY <1>0, <1>1, <1>4
  <1> QED
    BY <1>3, <1>4, NextFrame DEF PipeFrame

\* The numbers of a stream's data in a channel.
Carried(chan, r) == {chan[i].data : i \in {j \in DOMAIN chan : IsData(chan[j], r)}}

LEMMA CarriedLess ==
  ASSUME NEW S, NEW q \in Seq(S), q # <<>>, NEW r
  PROVE  /\ Carried(Tail(q), r) \subseteq Carried(q, r)
         /\ IsData(Head(q), r) => Head(q).data \in Carried(q, r)
         /\ \A last \in Nat : InTransit(q, r, {}, last) /\ IsData(Head(q), r)
               => Head(q).data \notin Carried(Tail(q), r)
  <1>1. /\ Head(q) = q[1] /\ 1 \in DOMAIN q
        /\ \A i \in DOMAIN Tail(q) : /\ i \in Nat /\ 1 < i + 1
                                     /\ i + 1 \in DOMAIN q /\ Tail(q)[i] = q[i + 1]
    BY TailParts
  <1>2. Carried(Tail(q), r) \subseteq Carried(q, r)
    BY <1>1 DEF Carried
  <1>3. IsData(Head(q), r) => Head(q).data \in Carried(q, r)
    BY <1>1 DEF Carried
  <1>4. ASSUME NEW last \in Nat, InTransit(q, r, {}, last), IsData(Head(q), r),
               Head(q).data \in Carried(Tail(q), r)
        PROVE  FALSE
    <2>1. PICK i \in DOMAIN Tail(q) : IsData(Tail(q)[i], r) /\ Tail(q)[i].data = Head(q).data
      BY <1>4 DEF Carried
    <2>2. q[1].data < q[i + 1].data /\ q[1].data \in Nat
      BY <1>1, <1>4, <2>1 DEF InTransit
    <2> QED
      BY <1>1, <2>1, <2>2
  <1> QED
    BY <1>2, <1>3, <1>4

LEMMA CarriedMore ==
  ASSUME NEW S, NEW q \in Seq(S), NEW p \in S, NEW r
  PROVE  /\ Carried(Append(q, p), r) \subseteq Carried(q, r) \union {p.data}
         /\ ~ IsData(p, r) => Carried(Append(q, p), r) \subseteq Carried(q, r)
  BY AppendParts DEF Carried

\* What is read of the service is in order on each websocket, and nothing of it
\* is twice on its way or on its way and at the user.  Up to the first
\* reconnect the user's socket gets it in order.
InOneChannel(r) ==
    \A w \in WebSocket :
       /\ InTransit(to_server[w], r, {}, lread[r])
       /\ Carried(to_server[w], r) \intersect Numbers(rgot[r]) = {}
       /\ \A v \in WebSocket : v # w =>
             Carried(to_server[w], r) \intersect Carried(to_server[v], r) = {}
RemoteOrder ==
    \A r \in Streams :
       /\ InOneChannel(r)
       /\ \A x \in Numbers(rgot[r]) : x <= lread[r]
       /\ lread[r] <= lsent[r]
       /\ reconnects = 0 => /\ InTransit(to_server[0], r, Numbers(rgot[r]), lread[r])
                            /\ Aligned(rgot[r], <<>>)

\* While a stream that nothing has been lost of may get data, all that was sent
\* is in the channel, up to the last before the websocket went.
MayGet(r) == streams[r] = "enabled" \/ accept[r] # "done"
RemoteExact ==
    \A r \in Streams : ~ Lossy[r] /\ MayGet(r) =>
       \E m \in 0 .. lread[r] :
          /\ 0 \in alive => m = lread[r]
          /\ InTransit(to_server[0], r, Numbers(rgot[r]), m)
          /\ Complete(to_server[0], r, Len(rgot[r]), m)

\* The next chunk of a stream.
LEMMA AlignedGot ==
  ASSUME NEW got \in Seq(Chunk), NEW d \in Chunk, Aligned(got, <<>>),
         \A x \in Numbers(got) : x < d
  PROVE  /\ Aligned(Append(got, d), <<>>) /\ Len(got) < d
         /\ Numbers(Append(got, d)) = Numbers(got) \union {d}
         /\ \A i \in DOMAIN got : got[i] < d
  <1> DEFINE z == Append(got, d)
  <1>1. \A i \in DOMAIN z : \/ i \in DOMAIN got /\ i < Len(got) + 1 /\ z[i] = got[i]
                            \/ i = Len(got) + 1 /\ z[i] = d
    BY AppendParts
  <1>2. \A i \in DOMAIN got : i \in DOMAIN z /\ z[i] = got[i]
    BY AppendParts
  <1>3. Len(got) + 1 \in DOMAIN z /\ z[Len(got) + 1] = d
    BY AppendParts
  <1>4. d \in Nat /\ Len(got) \in Nat /\ \A i \in DOMAIN got : got[i] \in Chunk /\ got[i] \in Nat
    BY ChunksAssumption DEF Chunk
  <1>5. \A i \in DOMAIN got : got[i] < d
    BY <1>4, NoneIsClose DEF Numbers
  <1>6. Len(got) < d
    <2>1. CASE Len(got) = 0
      BY <1>4, <2>1, ChunksAssumption DEF Chunk
    <2>2. CASE Len(got) # 0
      <3>1. Len(got) \in DOMAIN got
        BY <1>4, <2>2
      <3>2. got[Len(got)] >= Len(got)
        BY <3>1 DEF Aligned
      <3> QED
        BY <1>4, <1>5, <3>1, <3>2
    <2> QED
      BY <2>1, <2>2
  <1>7. \A i \in DOMAIN z : z[i] >= i
    BY <1>1, <1>4, <1>6 DEF Aligned
  <1>8. Aligned(z, <<>>)
    BY <1>7 DEF Aligned
  <1>9. Numbers(z) = Numbers(got) \union {d}
    BY <1>1, <1>2, <1>3, NoneIsClose DEF Numbers
  <1> QED
    BY <1>5, <1>6, <1>8, <1>9

\* What a channel to the server does to the data in it.
LEMMA ServerTransit ==
  ASSUME TypeOK, [Next]_vars, NEW r \in Streams, NEW w \in WebSocket,
         NEW passed \in SUBSET Nat,
         InTransit(to_server[w], r, passed, lread[r]), \A x \in passed : x <= lread[r]
  PROVE  InTransit(to_server'[w], r, passed, lread'[r])
  <1>0. /\ to_server \in Channels /\ to_server[w] \in Seq(Packet(Chunk)) /\ lread[r] \in Nat
        /\ lread \in [Streams -> 0 .. MaxChunks]
    BY PipeTypes DEF TypeOK, Channels
  <1>1. lread'[r] = lread[r] \/ lread'[r] = lread[r] + 1
    BY LocalReadSteps
  <1>2. CASE to_server'[w] = to_server[w]
    BY <1>0, <1>1, <1>2, TransitWeaker
  <1>3. CASE to_server'[w] = <<>>
    BY <1>3 DEF InTransit
  <1>4. ASSUME NEW v \in WebSocket, to_server[v] # <<>>,
               to_server' = [to_server EXCEPT ![v] = Tail(@)]
        PROVE  InTransit(to_server'[w], r, passed, lread'[r])
    <2>1. CASE v = w
      <3>1. to_server[w] # <<>> /\ to_server'[w] = Tail(to_server[w])
        BY <1>0, <1>4, <2>1 DEF Channels
      <3>2. InTransit(to_server'[w], r, passed, lread[r])
        BY <1>0, <3>1, TransitTail
      <3> QED
        BY <3>2, <1>0, <1>1, TransitWeaker
    <2>2. CASE v # w
      BY <1>0, <1>2, <1>4, <2>2 DEF Channels
    <2> QED
      BY <2>1, <2>2
  <1>5. ASSUME NEW t \in Streams, UNCHANGED lread,
               to_server' = [to_server EXCEPT ![slot] = Append(@, Refused(t))]
        PROVE  InTransit(to_server'[w], r, passed, lread'[r])
    <2>1. ~ IsData(Refused(t), r) /\ Refused(t) \in Packet(Chunk)
      BY Packets DEF IsData, Refused
    <2>2. \/ to_server'[w] = to_server[w]
          \/ to_server'[w] = Append(to_server[w], Refused(t))
      BY <1>0, <1>5 DEF Channels
    <2> QED
      BY <1>0, <1>2, <1>5, <2>1, <2>2, TransitOther
  <1>6. ASSUME NEW t \in Streams, ReadLocal(t),
               to_server' = [to_server EXCEPT ![slot] = Append(@, Data(t, lread[t] + 1))]
        PROVE  InTransit(to_server'[w], r, passed, lread'[r])
    <2>1. lread[t] + 1 \in Chunk
      BY <1>6, NextChunk
    <2>2. Data(t, lread[t] + 1) \in Packet(Chunk)
      BY <2>1, Packets
    <2>3. lread' = [lread EXCEPT ![t] = @ + 1]
      BY <1>6 DEF ReadLocal
    <2>6. \/ to_server'[w] = to_server[w]
          \/ to_server'[w] = Append(to_server[w], Data(t, lread[t] + 1))
      BY <1>0, <1>6 DEF Channels
    <2>4. CASE t = r
      <3>1. /\ IsData(Data(t, lread[t] + 1), r)
            /\ Data(t, lread[t] + 1).data = lread[r] + 1
        BY <2>4 DEF IsData, Data
      <3>2. lread'[r] = lread[r] + 1
        BY <1>0, <2>3, <2>4
      <3> QED
        BY <1>0, <1>2, <2>2, <2>6, <3>1, <3>2, TransitSent
    <2>5. CASE t # r
      <3>1. ~ IsData(Data(t, lread[t] + 1), r)
        BY <2>5 DEF IsData, Data
      <3>2. lread'[r] = lread[r]
        BY <1>0, <2>3, <2>5
      <3> QED
        BY <1>0, <1>2, <2>2, <2>6, <3>1, <3>2, TransitOther
    <2> QED
      BY <2>4, <2>5
  <1> QED
    BY <1>2, <1>3, <1>4, <1>5, <1>6, ToServerSteps DEF ToServerStep

\* A read loop of the server takes a packet and changes nothing else of this.
LEMMA Receiving ==
  ASSUME TypeOK, NEW w \in WebSocket, ServerReceives(w)
  PROVE  /\ to_server[w] # <<>> /\ w \in loops
         /\ to_server' = [to_server EXCEPT ![w] = Tail(@)]
         /\ to_server'[w] = Tail(to_server[w])
         /\ \A v \in WebSocket : v # w => to_server'[v] = to_server[v]
         /\ UNCHANGED <<lread, lsent, tunnel_vars, accept>>
  <1>1. UNCHANGED <<lread, lsent, tunnel_vars, accept>> /\ TakeFrom(w)
    BY DEF ServerReceives, local_vars
  <1>2. to_server \in Channels
    BY DEF TypeOK, StoreTypeOK, TunnelTypeOK, Channels
  <1> QED
    BY <1>1, <1>2, TakenFrom DEF Channels

\* The numbers on their way: those that were, and the next one.
LEMMA CarriedSteps ==
  ASSUME TypeOK, [Next]_vars, NEW r \in Streams, \A w \in WebSocket : ~ ServerReceives(w)
  PROVE  /\ \A w \in WebSocket :
               \/ Carried(to_server'[w], r) \subseteq Carried(to_server[w], r)
               \/ /\ w = slot /\ lread'[r] = lread[r] + 1
                  /\ Carried(to_server'[w], r) \subseteq
                        Carried(to_server[w], r) \union {lread[r] + 1}
  <1> SUFFICES ASSUME NEW w \in WebSocket
               PROVE  \/ Carried(to_server'[w], r) \subseteq Carried(to_server[w], r)
                      \/ /\ w = slot /\ lread'[r] = lread[r] + 1
                         /\ Carried(to_server'[w], r) \subseteq
                               Carried(to_server[w], r) \union {lread[r] + 1}
    OBVIOUS
  <1>0. /\ to_server \in Channels /\ to_server[w] \in Seq(Packet(Chunk))
        /\ lread \in [Streams -> 0 .. MaxChunks]
    BY PipeTypes DEF TypeOK, Channels
  <1>1. CASE to_server'[w] = to_server[w] \/ to_server'[w] = <<>>
    BY <1>1 DEF Carried
  <1>2. ASSUME NEW p \in Packet(Chunk), to_server'[w] = Append(to_server[w], p),
               ~ IsData(p, r)
        PROVE  Carried(to_server'[w], r) \subseteq Carried(to_server[w], r)
    BY <1>0, <1>2, CarriedMore
  <1>3. ASSUME NEW t \in Streams,
               to_server' = [to_server EXCEPT ![slot] = Append(@, Refused(t))]
        PROVE  Carried(to_server'[w], r) \subseteq Carried(to_server[w], r)
    <2>1. ~ IsData(Refused(t), r) /\ Refused(t) \in Packet(Chunk)
      BY Packets DEF IsData, Refused
    <2>2. \/ to_server'[w] = to_server[w]
          \/ to_server'[w] = Append(to_server[w], Refused(t))
      BY <1>0, <1>3 DEF Channels
    <2> QED
      BY <1>2, <2>1, <2>2
  <1>4. ASSUME NEW t \in Streams, ReadLocal(t),
               to_server' = [to_server EXCEPT ![slot] = Append(@, Data(t, lread[t] + 1))]
        PROVE  \/ Carried(to_server'[w], r) \subseteq Carried(to_server[w], r)
               \/ /\ w = slot /\ lread'[r] = lread[r] + 1
                  /\ Carried(to_server'[w], r) \subseteq
                        Carried(to_server[w], r) \union {lread[r] + 1}
    <2> DEFINE p == Data(t, lread[t] + 1)
    <2>1. p \in Packet(Chunk)
      BY <1>4, NextChunk, Packets
    <2>2. to_server'[w] = to_server[w] \/ (w = slot /\ to_server'[w] = Append(to_server[w], p))
      BY <1>0, <1>4 DEF Channels
    <2>3. CASE t # r
      <3>1. ~ IsData(p, r)
        BY <2>3 DEF IsData, Data
      <3> QED
        BY <1>2, <2>1, <2>2, <3>1
    <2>4. CASE t = r
      <3>1. p.data = lread[r] + 1
        BY <2>4 DEF Data
      <3>2. lread'[r] = lread[r] + 1
        BY <1>0, <1>4, <2>4 DEF ReadLocal
      <3>3. CASE to_server'[w] = to_server[w]
        BY <3>3
      <3>4. CASE w = slot /\ to_server'[w] = Append(to_server[w], p)
        <4>1. Carried(Append(to_server[w], p), r) \subseteq Carried(to_server[w], r) \union {p.data}
          BY <1>0, <2>1, CarriedMore
        <4> HIDE DEF p
        <4> QED
          BY <3>1, <3>2, <3>4, <4>1
      <3> QED
        BY <2>2, <3>3, <3>4
    <2> QED
      BY <2>3, <2>4
  <1> QED
    BY <1>1, <1>3, <1>4, ToServerSteps DEF ToServerStep

LEMMA NextRemoteOrder ==
  TypeOK /\ Known /\ SessionServed /\ RemoteOrder /\ [Next]_vars => RemoteOrder'
  <1> SUFFICES ASSUME TypeOK, Known, SessionServed, RemoteOrder, [Next]_vars, NEW r \in Streams
        PROVE  /\ InOneChannel(r)'
               /\ \A x \in Numbers(rgot'[r]) : x <= lread'[r]
               /\ lread'[r] <= lsent'[r]
               /\ reconnects' = 0 => /\ InTransit(to_server'[0], r, Numbers(rgot'[r]), lread'[r])
                                     /\ Aligned(rgot'[r], <<>>)
    BY DEF RemoteOrder
  <1> DEFINE P == Numbers(rgot[r])
  <1>0. /\ \A w \in WebSocket :
              /\ InTransit(to_server[w], r, {}, lread[r])
              /\ Carried(to_server[w], r) \intersect P = {}
              /\ \A v \in WebSocket : v # w =>
                    Carried(to_server[w], r) \intersect Carried(to_server[v], r) = {}
        /\ \A x \in P : x <= lread[r]
        /\ lread[r] <= lsent[r]
        /\ reconnects = 0 => InTransit(to_server[0], r, P, lread[r]) /\ Aligned(rgot[r], <<>>)
    BY DEF RemoteOrder, InOneChannel
  <1>1. /\ P \in SUBSET Nat /\ lread[r] \in Nat /\ lsent[r] \in Nat
        /\ rgot[r] \in Seq(Chunk) /\ to_server \in Channels
        /\ \A w \in WebSocket : to_server[w] \in Seq(Packet(Chunk))
    BY PipeTypes DEF Channels
  <1>2. lread'[r] \in Nat /\ lread[r] <= lread'[r] /\ lread'[r] <= lsent'[r]
    BY <1>0, <1>1, LocalReadSteps
  <1>3. \A w \in WebSocket : InTransit(to_server'[w], r, {}, lread'[r])
    BY <1>0, ServerTransit
  <1>4. reconnects' = 0 => reconnects = 0
    BY ReconnectSteps
  <1>5. ASSUME UNCHANGED rgot[r], reconnects = 0
        PROVE  InTransit(to_server'[0], r, Numbers(rgot'[r]), lread'[r]) /\ Aligned(rgot'[r], <<>>)
    <2>1. InTransit(to_server'[0], r, P, lread'[r])
      BY <1>0, <1>1, <1>5, ServerTransit, Zero
    <2> QED
      BY <1>0, <1>5, <2>1
  <1>6. CASE \A w \in WebSocket : ~ ServerReceives(w)
    <2>1. UNCHANGED rgot[r]
      BY <1>6, NextFrame DEF PipeFrame
    <2>2. \A w \in WebSocket : \A x \in Carried(to_server[w], r) : x <= lread[r]
      BY <1>0 DEF InTransit, Carried
    <2>3. \A w \in WebSocket :
             \/ Carried(to_server'[w], r) \subseteq Carried(to_server[w], r)
             \/ /\ w = slot /\ lread'[r] = lread[r] + 1
                /\ Carried(to_server'[w], r) \subseteq
                      Carried(to_server[w], r) \union {lread[r] + 1}
      BY <1>6, CarriedSteps
    <2>4. /\ \A w \in WebSocket : lread[r] + 1 \notin Carried(to_server[w], r)
          /\ lread[r] + 1 \notin P
      BY <1>0, <1>1, <2>2
    <2>5. ASSUME NEW w \in WebSocket
          PROVE  /\ Carried(to_server'[w], r) \intersect P = {}
                 /\ \A v \in WebSocket : v # w =>
                      Carried(to_server'[w], r) \intersect Carried(to_server'[v], r) = {}
      <3>1. ASSUME NEW x \in Carried(to_server'[w], r), NEW v \in WebSocket, v # w,
                   x \in Carried(to_server'[v], r)
            PROVE  FALSE
        <4>1. x \in Carried(to_server[w], r) \/ (w = slot /\ x = lread[r] + 1)
          BY <2>3, <3>1
        <4>2. x \in Carried(to_server[v], r) \/ (v = slot /\ x = lread[r] + 1)
          BY <2>3, <3>1
        <4> QED
          BY <1>0, <2>4, <3>1, <4>1, <4>2
      <3>2. ASSUME NEW x \in Carried(to_server'[w], r), x \in P PROVE FALSE
        <4>1. x \in Carried(to_server[w], r) \/ x = lread[r] + 1
          BY <2>3, <3>2
        <4> QED
          BY <1>0, <2>4, <3>2, <4>1
      <3> QED
        BY <3>1, <3>2
    <2>6. InOneChannel(r)'
      BY <1>3, <2>1, <2>5 DEF InOneChannel
    <2>7. \A x \in Numbers(rgot'[r]) : x <= lread'[r]
      BY <1>0, <1>1, <1>2, <2>1
    <2> QED
      BY <1>2, <1>4, <1>5, <2>1, <2>6, <2>7
  <1>7. ASSUME NEW w \in WebSocket, ServerReceives(w)
        PROVE  /\ InOneChannel(r)'
               /\ \A x \in Numbers(rgot'[r]) : x <= lread'[r]
               /\ reconnects' = 0 => /\ InTransit(to_server'[0], r, Numbers(rgot'[r]), lread'[r])
                                     /\ Aligned(rgot'[r], <<>>)
    <2> DEFINE c == to_server[w]
               d == Head(c).data
    <2>1. /\ c # <<>> /\ to_server'[w] = Tail(c)
          /\ \A v \in WebSocket : v # w => to_server'[v] = to_server[v]
          /\ lread'[r] = lread[r] /\ w \in loops
      BY <1>7, Receiving
    <2>2. /\ c \in Seq(Packet(Chunk)) /\ InTransit(c, r, {}, lread[r])
      BY <1>0, <1>1
    <2>3. /\ Carried(Tail(c), r) \subseteq Carried(c, r)
          /\ IsData(Head(c), r) => d \in Carried(c, r) /\ d \notin Carried(Tail(c), r)
      BY <1>1, <2>1, <2>2, CarriedLess
    <2>4. /\ \A v \in WebSocket : Carried(to_server'[v], r) \subseteq Carried(to_server[v], r)
          /\ IsData(Head(c), r) => \A v \in WebSocket : d \notin Carried(to_server'[v], r)
      BY <1>0, <2>1, <2>3
    <2>5. CASE UNCHANGED rgot[r]
      <3>1. InOneChannel(r)'
        BY <1>0, <1>3, <2>4, <2>5 DEF InOneChannel
      <3> QED
        BY <1>0, <1>4, <1>5, <2>1, <2>5, <3>1
    <2>6. CASE IsData(Head(c), r) /\ rgot'[r] = Append(rgot[r], d)
      <3>1. d \in 1 .. lread[r] /\ d \in Chunk
        <4>1. d \in 1 .. lread[r]
          BY <1>1, <2>1, <2>2, <2>6, TransitTaken
        <4> QED
          BY <4>1, PipeTypes
      <3>2. Numbers(rgot'[r]) \subseteq P \union {d}
        BY <1>1, <2>6, <3>1, AppendParts DEF Numbers
      <3>3. \A v \in WebSocket : Carried(to_server'[v], r) \intersect Numbers(rgot'[r]) = {}
        BY <1>0, <2>4, <2>6, <3>2
      <3>4. InOneChannel(r)'
        BY <1>0, <1>3, <2>4, <3>3 DEF InOneChannel
      <3>5. \A x \in Numbers(rgot'[r]) : x <= lread'[r]
        BY <1>0, <1>1, <2>1, <3>1, <3>2
      <3>6. ASSUME reconnects = 0
            PROVE  /\ InTransit(to_server'[0], r, Numbers(rgot'[r]), lread'[r])
                   /\ Aligned(rgot'[r], <<>>)
        <4>1. w = 0
          <5>1. w \in 0 .. reconnects
            BY <2>1 DEF SessionServed
          <5> QED
            BY <3>6, <5>1
        <4>2. InTransit(c, r, P, lread[r]) /\ Aligned(rgot[r], <<>>)
          BY <1>0, <3>6, <4>1
        <4>3. (\A x \in P : x < d) /\ InTransit(Tail(c), r, P \union {d}, lread[r])
          BY <1>1, <2>1, <2>2, <2>6, <4>2, TransitTaken
        <4>4. /\ Aligned(Append(rgot[r], d), <<>>)
              /\ Numbers(Append(rgot[r], d)) = P \union {d}
          BY <1>1, <3>1, <4>2, <4>3, AlignedGot
        <4> QED
          BY <2>1, <2>6, <4>1, <4>3, <4>4
      <3> QED
        BY <1>4, <3>4, <3>5, <3>6
    <2> QED
      BY <1>7, <2>5, <2>6, RemoteSteps
  <1> QED
    BY <1>2, <1>6, <1>7

\* A stream that may get no more data does not start to get some.
LEMMA MayGetSteps ==
  ASSUME TypeOK, [Next]_vars, NEW r \in Streams
  PROVE  /\ accept'[r] # "done" => accept[r] # "done"
         /\ streams'[r] = "enabled" => streams[r] = "enabled" \/ accept[r] # "done"
  <1>0. /\ streams \in [Streams -> {"absent", "enabled", "disabled"}]
        /\ accept \in [Streams -> {"none", "init", "add", "done"}]
    BY DEF TypeOK
  <1>1. accept'[r] # "done" => accept[r] # "done"
    BY <1>0, NextFrame DEF Frame, Accept, SendInit, AddRemote
  <1>2. CASE UNCHANGED <<streams, refused, raced>>
    BY <1>1, <1>2
  <1>3. ASSUME NEW w \in WebSocket, ServerReceives(w)
        PROVE  streams'[r] = "enabled" => streams[r] = "enabled"
    BY <1>0, <1>3 DEF ServerReceives, ServerData, ServerRefused, Disabled
  <1>4. ASSUME NEW t \in Streams, AddRemote(t)
        PROVE  streams'[r] = "enabled" => streams[r] = "enabled" \/ accept[r] # "done"
    BY <1>0, <1>4 DEF AddRemote
  <1>5. ASSUME NEW t \in Streams, ReadRemote(t) \/ RemoteEof(t) \/ ReaderLeaves(t)
        PROVE  streams'[r] = "enabled" => streams[r] = "enabled"
    BY <1>0, <1>5 DEF ReadRemote, RemoteEof, ReaderLeaves, Disabled
  <1> QED
    BY <1>1, <1>2, <1>3, <1>4, <1>5, NextFrame DEF Frame

LEMMA NextRemoteExact ==
  TypeOK /\ Known /\ SessionServed /\ RemoteOrder /\ RemoteExact /\ [Next]_vars => RemoteExact'
  <1> SUFFICES ASSUME TypeOK, Known, SessionServed, RemoteOrder, RemoteExact, [Next]_vars,
                      NEW r \in Streams, ~ Lossy'[r],
                      streams'[r] = "enabled" \/ accept'[r] # "done"
        PROVE  \E m \in 0 .. lread'[r] :
                  /\ 0 \in alive' => m = lread'[r]
                  /\ InTransit(to_server'[0], r, Numbers(rgot'[r]), m)
                  /\ Complete(to_server'[0], r, Len(rgot'[r]), m)
    BY DEF RemoteExact, MayGet
  <1>0. /\ to_server \in Channels /\ to_server[0] \in Seq(Packet(Chunk)) /\ lread[r] \in Nat
        /\ rgot[r] \in Seq(Chunk) /\ Numbers(rgot[r]) \in SUBSET Nat /\ Len(rgot[r]) \in Nat
        /\ lread \in [Streams -> 0 .. MaxChunks]
    <2>1. lread \in [Streams -> 0 .. MaxChunks]
      BY DEF TypeOK
    <2>2. /\ to_server \in Channels /\ lread[r] \in Nat
          /\ rgot[r] \in Seq(Chunk) /\ Numbers(rgot[r]) \in SUBSET Nat
      BY PipeTypes
    <2> QED
      BY <2>1, <2>2, Zero DEF Channels
  <1>1. ~ Lossy[r] /\ ~ Reconnect /\ reconnects = 0 /\ slot = 0
    BY LossSteps DEF SessionServed
  <1>2. MayGet(r)
    BY MayGetSteps DEF MayGet
  <1>3. PICK m \in 0 .. lread[r] :
           /\ 0 \in alive => m = lread[r]
           /\ InTransit(to_server[0], r, Numbers(rgot[r]), m)
           /\ Complete(to_server[0], r, Len(rgot[r]), m)
    BY <1>1, <1>2 DEF RemoteExact
  <1>4. m \in Nat
    BY <1>0, <1>3
  <1>5. 0 \in alive' => 0 \in alive
    BY <1>1, NextFrame DEF PipeFrame, ConnectionLost, Breaks, ServerLoopEnds, LoopEnds
  <1>6. (\A x \in Numbers(rgot[r]) : x <= lread[r]) /\ Aligned(rgot[r], <<>>)
    BY <1>1 DEF RemoteOrder
  <1> DEFINE Goal == \E n \in 0 .. lread'[r] :
                        /\ 0 \in alive' => n = lread'[r]
                        /\ InTransit(to_server'[0], r, Numbers(rgot'[r]), n)
                        /\ Complete(to_server'[0], r, Len(rgot'[r]), n)
  <1>7. ASSUME lread'[r] = lread[r], rgot'[r] = rgot[r],
               InTransit(to_server'[0], r, Numbers(rgot[r]), m),
               Complete(to_server'[0], r, Len(rgot[r]), m)
        PROVE  Goal
    <2>1. /\ m \in 0 .. lread'[r] /\ (0 \in alive' => m = lread'[r])
          /\ InTransit(to_server'[0], r, Numbers(rgot'[r]), m)
          /\ Complete(to_server'[0], r, Len(rgot'[r]), m)
      BY <1>3, <1>5, <1>7
    <2> QED
      BY <2>1
  <1>8. ASSUME NEW w \in WebSocket, ServerReceives(w) PROVE Goal
    <2> DEFINE c == to_server[0]
    <2>r. w \in loops /\ lread'[r] = lread[r] /\ to_server[w] # <<>>
          /\ to_server'[w] = Tail(to_server[w]) /\ UNCHANGED alive
      BY <1>8, Receiving DEF tunnel_vars, ws_vars
    <2>w. w = 0
      <3>1. w \in 0 .. reconnects
        BY <2>r DEF SessionServed
      <3> QED
        BY <1>1, <3>1
    <2>0. c # <<>> /\ to_server'[0] = Tail(c) /\ lread'[r] = lread[r]
      BY <2>r, <2>w
    <2>1. CASE UNCHANGED rgot[r] /\ ~ IsData(Head(c), r)
      <3>1. InTransit(to_server'[0], r, Numbers(rgot[r]), m)
        BY <1>0, <1>3, <1>4, <2>0, TransitTail
      <3>2. Complete(to_server'[0], r, Len(rgot[r]), m)
        BY <1>0, <1>3, <1>4, <2>0, <2>1, CompleteTail
      <3> QED
        BY <1>7, <2>0, <2>1, <3>1, <3>2
    <2>2. CASE IsData(Head(c), r) /\ rgot'[r] = Append(rgot[r], Head(c).data)
      <3> DEFINE d == Head(c).data
      <3>1. /\ d \in 1 .. m /\ (\A x \in Numbers(rgot[r]) : x < d)
            /\ InTransit(Tail(c), r, Numbers(rgot[r]) \union {d}, m)
        BY <1>0, <1>3, <1>4, <2>0, <2>2, TransitTaken
      <3>2. d \in 1 .. lread[r]
        BY <1>0, <1>3, <3>1
      <3>3. d \in Chunk
        BY <3>2, PipeTypes
      <3>5. /\ Len(rgot[r]) < d
            /\ Numbers(Append(rgot[r], d)) = Numbers(rgot[r]) \union {d}
        BY <1>0, <1>6, <3>1, <3>3, AlignedGot
      <3>6. Complete(Tail(c), r, Len(rgot[r]) + 1, m)
        BY <1>0, <1>3, <1>4, <2>0, <2>2, <3>5, CompleteNext
      <3>7. Numbers(rgot'[r]) = Numbers(rgot[r]) \union {d}
        BY <2>2, <3>5
      <3>8. Len(rgot'[r]) = Len(rgot[r]) + 1
        <4>1. Len(Append(rgot[r], d)) = Len(rgot[r]) + 1
          BY <1>0, <3>3
        <4> QED
          BY <2>2, <4>1
      <3>9. InTransit(to_server'[0], r, Numbers(rgot'[r]), m)
        BY <2>0, <3>1, <3>7
      <3>10. Complete(to_server'[0], r, Len(rgot'[r]), m)
        BY <2>0, <3>6, <3>8
      <3>11. m \in 0 .. lread'[r] /\ (0 \in alive' => m = lread'[r])
        BY <1>3, <1>5, <2>0
      <3> QED
        BY <3>9, <3>10, <3>11
    <2>3. ASSUME streams'[r] # "enabled", accept'[r] = "done" \/ raced'[r] PROVE FALSE
      <3>1. raced'[r]
        BY <2>3
      <3>2. Lossy'[r] = (raced'[r] \/ reconnects' > 0)
        BY DEF Lossy
      <3> QED
        BY <3>1, <3>2
    <2> QED
      BY <1>8, <2>w, <2>0, <2>1, <2>2, <2>3, RemoteSteps
  <1>9. CASE \A w \in WebSocket : ~ ServerReceives(w)
    <2>0. rgot'[r] = rgot[r]
      BY <1>9, NextFrame DEF PipeFrame
    <2>1. CASE to_server'[0] = to_server[0] /\ (UNCHANGED lread \/ slot \notin alive)
      <3>1. lread[r] <= lread'[r] /\ lread'[r] \in Nat
        BY <1>0, LocalReadSteps
      <3>2. m \in 0 .. lread'[r]
        BY <1>0, <1>3, <3>1
      <3>3. 0 \in alive' => m = lread'[r]
        BY <1>1, <1>3, <1>5, <2>1
      <3> QED
        BY <1>3, <2>0, <2>1, <3>2, <3>3
    <2>4. CASE to_server'[0] = <<>> /\ 0 \notin alive'
      <3> DEFINE n == Len(rgot[r])
      <3>1. n <= lread[r]
        <4>1. CASE n = 0
          BY <1>0, <4>1
        <4>2. CASE n # 0
          <5>1. n \in DOMAIN rgot[r]
            BY <1>0, <4>2
          <5>2. rgot[r][n] \in Chunk /\ rgot[r][n] >= n
            BY <1>0, <1>6, <5>1 DEF Aligned
          <5>3. rgot[r][n] <= lread[r]
            BY <1>6, <5>1, <5>2, NoneIsClose DEF Numbers
          <5>4. rgot[r][n] \in Nat
            BY <5>2 DEF Chunk
          <5> QED
            BY <1>0, <5>2, <5>3, <5>4
        <4> QED
          BY <4>1, <4>2
      <3>2. lread[r] <= lread'[r] /\ lread'[r] \in Nat
        BY <1>0, LocalReadSteps
      <3>3. n \in 0 .. lread'[r]
        BY <1>0, <3>1, <3>2
      <3>4. InTransit(<<>>, r, Numbers(rgot[r]), n) /\ Complete(<<>>, r, n, n)
        BY <1>0 DEF InTransit, Complete
      <3> QED
        BY <2>0, <2>4, <3>3, <3>4
    <2>2. ASSUME NEW t \in Streams, UNCHANGED lread,
                 to_server' = [to_server EXCEPT ![slot] = Append(@, Refused(t))]
          PROVE  Goal
      <3>0. to_server'[0] = Append(to_server[0], Refused(t))
        BY <1>0, <1>1, <2>2, Zero DEF Channels
      <3>1. ~ IsData(Refused(t), r) /\ Refused(t) \in Packet(Chunk)
        BY Packets DEF IsData, Refused
      <3>2. InTransit(to_server'[0], r, Numbers(rgot[r]), m)
        BY <1>0, <1>3, <1>4, <3>0, <3>1, TransitOther
      <3>3. Complete(to_server'[0], r, Len(rgot[r]), m)
        BY <1>0, <1>3, <1>4, <3>0, <3>1, CompleteOther
      <3> QED
        BY <1>7, <2>0, <2>2, <3>2, <3>3
    <2>3. ASSUME NEW t \in Streams, ReadLocal(t), slot \in alive,
                 to_server' = [to_server EXCEPT ![slot] = Append(@, Data(t, lread[t] + 1))]
          PROVE  Goal
      <3>0. m = lread[r] /\ to_server'[0] = Append(to_server[0], Data(t, lread[t] + 1))
        BY <1>0, <1>1, <1>3, <2>3, Zero DEF Channels
      <3>1. lread[t] + 1 \in Chunk
        BY <2>3, NextChunk
      <3>2. Data(t, lread[t] + 1) \in Packet(Chunk)
        BY <3>1, Packets
      <3>3. lread' = [lread EXCEPT ![t] = @ + 1]
        BY <2>3 DEF ReadLocal
      <3>4. CASE t # r
        <4>1. ~ IsData(Data(t, lread[t] + 1), r)
          BY <3>4 DEF IsData, Data
        <4>2. lread'[r] = lread[r]
          BY <1>0, <3>3, <3>4
        <4>3. InTransit(to_server'[0], r, Numbers(rgot[r]), m)
          BY <1>0, <1>3, <1>4, <3>0, <3>2, <4>1, TransitOther
        <4>4. Complete(to_server'[0], r, Len(rgot[r]), m)
          BY <1>0, <1>3, <1>4, <3>0, <3>2, <4>1, CompleteOther
        <4> QED
          BY <1>7, <2>0, <4>2, <4>3, <4>4
      <3>5. CASE t = r
        <4>1. /\ IsData(Data(t, lread[t] + 1), r)
              /\ Data(t, lread[t] + 1).data = m + 1
          BY <3>0, <3>5 DEF IsData, Data
        <4>2. lread'[r] = m + 1
          BY <1>0, <3>0, <3>3, <3>5
        <4>3. \A x \in Numbers(rgot[r]) : x <= m
          BY <1>6, <3>0
        <4>4. InTransit(to_server'[0], r, Numbers(rgot[r]), m + 1)
          BY <1>0, <1>3, <1>4, <3>0, <3>2, <4>1, <4>3, TransitSent
        <4>5. Complete(to_server'[0], r, Len(rgot[r]), m + 1)
          BY <1>0, <1>3, <1>4, <3>0, <3>2, <4>1, CompleteSent
        <4>6. /\ m + 1 \in 0 .. lread'[r] /\ (0 \in alive' => m + 1 = lread'[r])
              /\ InTransit(to_server'[0], r, Numbers(rgot'[r]), m + 1)
              /\ Complete(to_server'[0], r, Len(rgot'[r]), m + 1)
          BY <1>4, <2>0, <4>2, <4>4, <4>5
        <4> QED
          BY <4>6
      <3> QED
        BY <3>4, <3>5
    <2>5. CASE /\ \A w \in WebSocket : to_server'[w] = to_server[w] \/ to_server'[w] = <<>>
               /\ 0 \in alive' => to_server'[0] = to_server[0]
               /\ UNCHANGED lread \/ slot \notin alive
      BY <2>1, <2>4, <2>5, Zero
    <2> QED
      BY <1>1, <1>9, <2>5, <2>2, <2>3, ToServerSteps DEF ToServerStep
  <1> QED
    BY <1>8, <1>9

PipesInv == LocalInv /\ RemoteOrder /\ RemoteExact

LEMMA InitPipesInv == Init => PipesInv
  <1> SUFFICES ASSUME Init PROVE PipesInv
    OBVIOUS
  <1>1. /\ to_client = <<>> /\ session = TRUE /\ connected = TRUE /\ entering = FALSE
        /\ slot = 0 /\ reconnects = 0 /\ alive = {0} /\ loops = {0}
        /\ to_server = [w \in WebSocket |-> <<>>]
        /\ setup = None
        /\ accept = [r \in Streams |-> "none"]
        /\ streams = [r \in Streams |-> "absent"]
        /\ locals = [r \in Streams |-> FALSE] /\ local_write = [r \in Streams |-> "none"]
        /\ queue = [r \in Streams |-> <<>>] /\ closer = [r \in Streams |-> {}]
        /\ rsent = [r \in Streams |-> 0] /\ rread = [r \in Streams |-> 0]
        /\ lsent = [r \in Streams |-> 0] /\ lread = [r \in Streams |-> 0]
        /\ lgot = [r \in Streams |-> <<>>] /\ rgot = [r \in Streams |-> <<>>]
    BY DEF Init, StoreInit, TunnelInit
  <1>2. Numbers(<<>>) = {} /\ Aligned(<<>>, <<>>)
    BY DEF Numbers, Aligned
  <1>3. \A r \in Streams, n \in Nat : /\ InTransit(<<>>, r, {}, n)
                                      /\ Complete(<<>>, r, 0, 0)
                                      /\ Carried(<<>>, r) = {}
    BY DEF InTransit, Complete, Carried
  <1>4. InitOnce
    BY <1>1, NoneAssumption DEF InitOnce
  <1>5. StoreOrder
    BY <1>1 DEF StoreOrder
  <1>6. ASSUME NEW r \in Streams
        PROVE  /\ InTransit(to_client, r, Numbers(lgot[r]) \union Numbers(queue[r]), rread[r])
               /\ (\A x \in Numbers(lgot[r]) \union Numbers(queue[r]) : x <= rread[r])
               /\ rread[r] <= rsent[r] /\ Aligned(lgot[r], queue[r])
               /\ InOneChannel(r)
               /\ InTransit(to_server[0], r, Numbers(rgot[r]), lread[r])
               /\ (\A x \in Numbers(rgot[r]) : x <= lread[r])
               /\ lread[r] <= lsent[r] /\ Aligned(rgot[r], <<>>)
               /\ Complete(to_server[0], r, Len(rgot[r]), lread[r])
               /\ lread[r] \in 0 .. lread[r]
    <2>1. /\ to_client = <<>> /\ to_server[0] = <<>>
          /\ \A w \in WebSocket : to_server[w] = <<>>
          /\ lgot[r] = <<>> /\ queue[r] = <<>> /\ rgot[r] = <<>> /\ Len(rgot[r]) = 0
          /\ rread[r] = 0 /\ rsent[r] = 0 /\ lread[r] = 0 /\ lsent[r] = 0
      BY <1>1, Zero
    <2>2. /\ Numbers(lgot[r]) = {} /\ Numbers(queue[r]) = {} /\ Numbers(rgot[r]) = {}
          /\ Aligned(lgot[r], queue[r]) /\ Aligned(rgot[r], <<>>)
      BY <1>2, <2>1
    <2>3. InTransit(<<>>, r, {}, 0) /\ Complete(<<>>, r, 0, 0) /\ Carried(<<>>, r) = {}
      BY <1>3
    <2>4. /\ InTransit(to_client, r, Numbers(lgot[r]) \union Numbers(queue[r]), rread[r])
          /\ InTransit(to_server[0], r, Numbers(rgot[r]), lread[r])
          /\ Complete(to_server[0], r, Len(rgot[r]), lread[r])
      BY <2>1, <2>2, <2>3
    <2>5. InOneChannel(r)
      BY <2>1, <2>2, <2>3 DEF InOneChannel
    <2> QED
      BY <2>1, <2>2, <2>4, <2>5
  <1>11. LocalOrder
    BY <1>6 DEF LocalOrder
  <1>7. SessionServed /\ InitAhead
    BY <1>1 DEF SessionServed, InitAhead
  <1>8. LocalExact
    BY <1>1, <1>3 DEF LocalExact
  <1>9. RemoteOrder
    BY <1>6 DEF RemoteOrder
  <1>10. RemoteExact
    BY <1>6 DEF RemoteExact
  <1> QED
    BY <1>4, <1>5, <1>11, <1>7, <1>8, <1>9, <1>10, InitIInv DEF PipesInv, LocalInv

LEMMA NextPipesInv == PipesInv /\ [Next]_vars => PipesInv'
  <1> SUFFICES ASSUME PipesInv, [Next]_vars PROVE PipesInv'
    OBVIOUS
  <1>0. /\ IInv /\ InitOnce /\ StoreOrder /\ LocalOrder /\ SessionServed /\ InitAhead
        /\ LocalExact /\ RemoteOrder /\ RemoteExact
    BY DEF PipesInv, LocalInv
  <1>1. TypeOK /\ Known
    BY <1>0 DEF IInv
  <1>2. IInv' /\ InitOnce' /\ StoreOrder' /\ LocalOrder'
    BY <1>0, <1>1, NextIInv, NextInitOnce, NextStoreOrder, NextLocalOrder
  <1>3. SessionServed' /\ InitAhead'
    BY <1>0, <1>1, NextSessionServed, NextInitAhead
  <1>4. LocalExact'
    BY <1>0, NextLocalExact DEF LocalInv
  <1>5. RemoteOrder' /\ RemoteExact'
    BY <1>0, <1>1, NextRemoteOrder, NextRemoteExact
  <1> QED
    BY <1>2, <1>3, <1>4, <1>5 DEF PipesInv, LocalInv

\* Both pipes lose only more, and the one to the user shuffles from the first
\* reconnect on.
LEMMA MoreLoss ==
  ASSUME TypeOK, SessionServed, [Next]_vars
  PROVE  /\ Lossy' \in [Streams -> BOOLEAN]
         /\ \A s \in Streams : Lossy[s] => Lossy'[s]
         /\ reconnects > 0 => reconnects' > 0
  <1>1. Lossy' = [s \in Streams |-> raced'[s] \/ reconnects' > 0]
    BY DEF Lossy
  <1>2. \A s \in Streams : Lossy'[s] \in BOOLEAN /\ (Lossy[s] => Lossy'[s])
    BY LossSteps
  <1>3. reconnects > 0 => reconnects' > 0
    BY ReconnectSteps
  <1> QED
    BY <1>1, <1>2, <1>3

LEMMA LocalPipeStep == PipesInv /\ [Next]_vars => ToLocal!PipeNext
  <1> SUFFICES ASSUME PipesInv, [Next]_vars PROVE ToLocal!PipeNext
    OBVIOUS
  <1>0. TypeOK /\ SessionServed /\ LocalOrder /\ LocalExact
    BY DEF PipesInv, LocalInv, IInv
  <1>1. ToLocal!LossGrows
    BY <1>0, MoreLoss DEF ToLocal!LossGrows
  <1>2. CASE UNCHANGED <<rsent, lgot>>
    BY <1>1, <1>2 DEF ToLocal!PipeNext
  <1>3. ASSUME NEW r \in Streams, RemoteSends(r) PROVE ToLocal!PipeNext
    <2>1. rsent' = [rsent EXCEPT ![r] = @ + 1] /\ UNCHANGED lgot
      BY <1>3 DEF RemoteSends, local_vars
    <2> QED
      BY <1>1, <2>1 DEF ToLocal!PipeNext, ToLocal!Send
  <1>4. ASSUME NEW r \in Streams, WriteLocal(r), lgot' # lgot PROVE ToLocal!PipeNext
    <2> DEFINE n == Head(queue[r])
    <2>1. /\ lgot' = [lgot EXCEPT ![r] = Append(@, n)] /\ UNCHANGED rsent
          /\ local_write[r] = "running" /\ queue[r] # <<>> /\ n # Close
      BY <1>4 DEF WriteLocal, HasData, remote_vars
    <2>2. /\ queue[r] \in Seq(Chunk \union {Close}) /\ lgot[r] \in Seq(Chunk)
          /\ rread[r] \in Nat /\ rsent[r] \in Nat
      BY <1>0, PipeTypes
    <2>3. /\ Aligned(lgot[r], queue[r]) /\ rread[r] <= rsent[r]
          /\ \A x \in Numbers(queue[r]) : x <= rread[r]
      BY <1>0 DEF LocalOrder
    <2>4. /\ Len(lgot[r]) + 1 <= n /\ n \in Numbers(queue[r]) /\ n \in Chunk
          /\ \A i \in DOMAIN lgot[r] : lgot[r][i] < n
      BY <2>1, <2>2, <2>3, AlignedWritten
    <2>5. n \in 1 .. rsent[r] /\ \A i \in DOMAIN lgot[r] : lgot[r][i] # n
      <3>1. n <= rread[r] /\ n \in Nat /\ n >= 1
        BY <2>3, <2>4, ChunksAssumption DEF Chunk
      <3>2. n \in 1 .. rsent[r]
        BY <2>2, <2>3, <3>1
      <3>3. \A i \in DOMAIN lgot[r] : lgot[r][i] # n
        <4>1. \A i \in DOMAIN lgot[r] : lgot[r][i] \in Chunk
          BY <2>2
        <4>2. \A x \in Chunk : x < n => x # n
          BY <3>1 DEF Chunk
        <4> QED
          BY <2>4, <4>1, <4>2
      <3> QED
        BY <3>2, <3>3
    <2>6. Lossy'[r] \/ n = Len(lgot[r]) + 1
      <3>1. CASE Lossy'[r]
        BY <3>1
      <3>2. CASE ~ Lossy'[r]
        <4>1. ~ Lossy[r]
          BY <1>0, <3>2, LossSteps
        <4>2. Exact(lgot[r], queue[r])
          BY <1>0, <2>1, <4>1 DEF LocalExact
        <4> QED
          BY <2>1, <2>2, <4>2, ExactWritten
      <3> QED
        BY <3>1, <3>2
    <2>7. ToLocal!Deliver(r)
      BY <2>1, <2>4, <2>5, <2>6 DEF ToLocal!Deliver
    <2> QED
      BY <1>1, <2>7 DEF ToLocal!PipeNext
  <1>5. \A r \in Streams : Closer(r) => UNCHANGED lgot
    BY DEF Closer, local_vars
  <1>6. ClientData => UNCHANGED lgot
    BY DEF ClientData, local_vars
  <1> QED
    <2>1. UNCHANGED lgot \/ \E r \in Streams : WriteLocal(r)
      BY <1>5, <1>6, NextFrame DEF PipeFrame
    <2>2. UNCHANGED rsent \/ \E r \in Streams : RemoteSends(r)
      BY NextFrame DEF PipeFrame
    <2> QED
      BY <1>2, <1>3, <1>4, <2>1, <2>2

LEMMA RemotePipeStep == PipesInv /\ [Next]_vars => ToRemote!PipeNext
  <1> SUFFICES ASSUME PipesInv, [Next]_vars PROVE ToRemote!PipeNext
    OBVIOUS
  <1>0. TypeOK /\ Known /\ SessionServed /\ RemoteOrder /\ RemoteExact
    BY DEF PipesInv, LocalInv, IInv
  <1>1. ToRemote!LossGrows
    BY <1>0, MoreLoss DEF ToRemote!LossGrows
  <1>2. CASE UNCHANGED <<lsent, rgot>>
    BY <1>1, <1>2 DEF ToRemote!PipeNext
  <1>3. ASSUME NEW r \in Streams, LocalSends(r) PROVE ToRemote!PipeNext
    <2>1. lsent' = [lsent EXCEPT ![r] = @ + 1] /\ UNCHANGED rgot
      BY <1>3 DEF LocalSends, remote_vars
    <2> QED
      BY <1>1, <2>1 DEF ToRemote!PipeNext, ToRemote!Send
  <1>4. ASSUME NEW w \in WebSocket, ServerReceives(w), rgot' # rgot PROVE ToRemote!PipeNext
    <2> DEFINE c == to_server[w]
               r == Head(c).stream
               d == Head(c).data
    <2>1. c # <<>> /\ w \in loops /\ UNCHANGED <<lread, lsent>>
          /\ UNCHANGED <<reconnects, alive>>
      BY <1>0, <1>4, Receiving DEF tunnel_vars, ws_vars
    <2>2. /\ IsData(Head(c), r) /\ streams[r] = "enabled"
          /\ rgot' = [rgot EXCEPT ![r] = Append(@, d)]
      BY <1>4 DEF ServerReceives, ServerData, ServerRefused, IsData
    <2>3. r \in Streams
      BY <1>0, <2>1, Taken, PacketParts
    <2>4. /\ c \in Seq(Packet(Chunk)) /\ rgot[r] \in Seq(Chunk)
          /\ lread[r] \in Nat /\ lsent[r] \in Nat /\ Len(rgot[r]) \in Nat
      BY <1>0, <2>3, PipeTypes DEF Channels
    <2>5. /\ InTransit(c, r, {}, lread[r]) /\ Carried(c, r) \intersect Numbers(rgot[r]) = {}
          /\ lread[r] <= lsent[r]
      BY <1>0, <2>3 DEF RemoteOrder, InOneChannel
    <2>6. d \in 1 .. lread[r] /\ d \in Carried(c, r)
      BY <2>1, <2>2, <2>4, <2>5, TransitTaken, CarriedLess
    <2>7. d \in Chunk
      BY <1>0, <2>3, <2>6, PipeTypes
    <2>8. d \in 1 .. lsent[r] /\ \A i \in DOMAIN rgot[r] : rgot[r][i] # d
      <3>1. d \in 1 .. lsent[r]
        BY <2>4, <2>5, <2>6
      <3>2. d \notin Numbers(rgot[r]) /\ d # Close
        BY <2>5, <2>6, <2>7, NoneIsClose
      <3> QED
        BY <3>1, <3>2 DEF Numbers
    <2>9. ASSUME reconnects = 0
          PROVE  /\ w = 0 /\ Len(rgot[r]) < d /\ \A i \in DOMAIN rgot[r] : rgot[r][i] < d
      <3>1. w \in 0 .. reconnects
        BY <1>0, <2>1 DEF SessionServed
      <3>2. w = 0
        BY <2>9, <3>1
      <3>3. InTransit(c, r, Numbers(rgot[r]), lread[r]) /\ Aligned(rgot[r], <<>>)
        BY <1>0, <2>3, <2>9, <3>2 DEF RemoteOrder
      <3>4. \A x \in Numbers(rgot[r]) : x < d
        BY <2>1, <2>2, <2>4, <3>3, TransitTaken
      <3> QED
        BY <2>4, <2>7, <3>2, <3>3, <3>4, AlignedGot
    <2>10. Lossy'[r] \/ d = Len(rgot[r]) + 1
      <3>1. CASE Lossy'[r]
        BY <3>1
      <3>2. CASE ~ Lossy'[r]
        <4>1. ~ Lossy[r] /\ MayGet(r) /\ reconnects = 0
          BY <1>0, <2>2, <2>3, <3>2, LossSteps DEF MayGet
        <4>2. PICK m \in 0 .. lread[r] : /\ InTransit(to_server[0], r, Numbers(rgot[r]), m)
                                         /\ Complete(to_server[0], r, Len(rgot[r]), m)
          BY <1>0, <2>3, <4>1 DEF RemoteExact
        <4>3. m \in Nat
          BY <2>4, <4>2
        <4>4. InTransit(c, r, Numbers(rgot[r]), m) /\ Complete(c, r, Len(rgot[r]), m)
          BY <2>9, <4>1, <4>2
        <4> QED
          BY <2>1, <2>2, <2>4, <2>9, <4>1, <4>3, <4>4, CompleteNext
      <3> QED
        BY <3>1, <3>2
    <2>11. reconnects' > 0 \/ \A i \in DOMAIN rgot[r] : rgot[r][i] < d
      <3>1. reconnects \in Nat /\ UNCHANGED reconnects
        BY <1>0, <2>1, ReconnectSteps
      <3> QED
        BY <2>9, <3>1
    <2>12. ToRemote!Deliver(r)
      BY <2>1, <2>2, <2>3, <2>8, <2>10, <2>11 DEF ToRemote!Deliver
    <2> QED
      BY <1>1, <2>3, <2>12 DEF ToRemote!PipeNext
  <1> QED
    <2>1. UNCHANGED rgot \/ \E w \in WebSocket : ServerReceives(w)
      BY NextFrame DEF PipeFrame
    <2>2. UNCHANGED lsent \/ \E r \in Streams : LocalSends(r)
      BY NextFrame DEF PipeFrame
    <2> QED
      BY <1>2, <1>3, <1>4, <2>1, <2>2

------------------------------------------------------------------------------
\* Types; in particular a chunk that is written to a user or a service is one
\* that the other end has sent (tcp.rs:149, local/tcp.rs:85).
THEOREM TypeCorrect == SafetySpec => []TypeOK
  <1>1. IInv => TypeOK
    BY DEF IInv
  <1> QED
    BY InitIInv, NextIInv, <1>1, PTL DEF SafetySpec

\* ownserver_lib/src/lib.rs:104: Refused closes the remote stream, whatever the
\* tasks of the server do, unless it overtook the registration (tcp.rs:82).
THEOREM RefusedClosesAlways == SafetySpec => []RefusedCloses
  <1>1. IInv => RefusedCloses
    BY DEF IInv, RefusedLate, RefusedCloses
  <1> QED
    BY InitIInv, NextIInv, <1>1, PTL DEF SafetySpec

\* README.md:127: in each direction a TCP stream is a pipe, with the websockets
\* of the client and the read loops of the server side by side (client.rs:52).
\* What the one end sends the other gets once, without a gap unless the stream
\* was raced or the tunnel has been replaced, and in order, towards the remote
\* user up to the first reconnect.
THEOREM PipesImplemented == SafetySpec => TwoPipes
  <1>1. Init => ToLocal!PipeInit /\ ToRemote!PipeInit
    <2> SUFFICES ASSUME Init PROVE ToLocal!PipeInit /\ ToRemote!PipeInit
      OBVIOUS
    <2>1. raced = [r \in Streams |-> FALSE] /\ ~ (reconnects > 0)
      BY DEF Init, StoreInit, TunnelInit
    <2>2. /\ Lossy = [r \in Streams |-> FALSE]
          /\ [r \in Streams |-> reconnects > 0] = [r \in Streams |-> FALSE]
      <3>1. (reconnects > 0) = FALSE
        BY <2>1
      <3>2. \A r \in Streams : (raced[r] \/ reconnects > 0) = FALSE
        BY <2>1
      <3> QED
        BY <3>1, <3>2 DEF Lossy
    <2>3. ToLocal!PipeInit
      BY <2>2 DEF Init, ToLocal!PipeInit
    <2>4. ToRemote!PipeInit
      BY <2>2 DEF Init, ToRemote!PipeInit
    <2> QED
      BY <2>3, <2>4
  <1>2. PipesInv /\ [Next]_vars => [ToLocal!PipeNext]_ToLocal!pipe_vars
    BY LocalPipeStep
  <1>3. PipesInv /\ [Next]_vars => [ToRemote!PipeNext]_ToRemote!pipe_vars
    BY RemotePipeStep
  <1> QED
    BY InitPipesInv, NextPipesInv, <1>1, <1>2, <1>3, PTL
       DEF SafetySpec, TwoPipes, ToLocal!PipeSpec, ToRemote!PipeSpec
------------------------------------------------------------------------------
(* What the tunnel has from being two pipes (StreamPipeProofs). *)

LocalPipe == INSTANCE StreamPipeProofs
             WITH sent <- rsent, got <- lgot, lossy <- Lossy,
                  shuffles <- [r \in Streams |-> FALSE]
RemotePipe == INSTANCE StreamPipeProofs
              WITH sent <- lsent, got <- rgot, lossy <- Lossy,
                   shuffles <- [r \in Streams |-> reconnects > 0]

LEMMA LocalPipeInv ==
  /\ ToLocal!PipeInit => LocalPipe!PipeInv
  /\ LocalPipe!PipeInv /\ [ToLocal!PipeNext]_ToLocal!pipe_vars => LocalPipe!PipeInv'
  /\ LocalPipe!PipeInv => /\ ToLocal!InOrder /\ ToLocal!Once
                          /\ ToLocal!OnlySent /\ ToLocal!NoGap
  <1>1. ToLocal!PipeInit => LocalPipe!PipeInit
    BY DEF ToLocal!PipeInit, LocalPipe!PipeInit
  <1>2. [ToLocal!PipeNext]_ToLocal!pipe_vars => [LocalPipe!PipeNext]_LocalPipe!pipe_vars
    BY DEF ToLocal!PipeNext, ToLocal!pipe_vars, ToLocal!LossGrows, ToLocal!Send,
       ToLocal!Deliver, LocalPipe!PipeNext, LocalPipe!pipe_vars, LocalPipe!LossGrows,
       LocalPipe!Send, LocalPipe!Deliver
  <1>3. LocalPipe!PipeInv => /\ ToLocal!InOrder /\ ToLocal!Once
                             /\ ToLocal!OnlySent /\ ToLocal!NoGap
    BY DEF LocalPipe!PipeInv, LocalPipe!InOrder, LocalPipe!Once, LocalPipe!OnlySent,
       LocalPipe!NoGap, ToLocal!InOrder, ToLocal!Once, ToLocal!OnlySent, ToLocal!NoGap
  <1> QED
    BY <1>1, <1>2, <1>3, LocalPipe!InitPipe, LocalPipe!NextPipe

LEMMA RemotePipeInv ==
  /\ ToRemote!PipeInit => RemotePipe!PipeInv
  /\ RemotePipe!PipeInv /\ [ToRemote!PipeNext]_ToRemote!pipe_vars => RemotePipe!PipeInv'
  /\ RemotePipe!PipeInv => /\ ToRemote!InOrder /\ ToRemote!Once
                           /\ ToRemote!OnlySent /\ ToRemote!NoGap
  <1>1. ToRemote!PipeInit => RemotePipe!PipeInit
    BY DEF ToRemote!PipeInit, RemotePipe!PipeInit
  <1>2. [ToRemote!PipeNext]_ToRemote!pipe_vars => [RemotePipe!PipeNext]_RemotePipe!pipe_vars
    BY DEF ToRemote!PipeNext, ToRemote!pipe_vars, ToRemote!LossGrows, ToRemote!Send,
       ToRemote!Deliver, RemotePipe!PipeNext, RemotePipe!pipe_vars, RemotePipe!LossGrows,
       RemotePipe!Send, RemotePipe!Deliver
  <1>3. RemotePipe!PipeInv => /\ ToRemote!InOrder /\ ToRemote!Once
                              /\ ToRemote!OnlySent /\ ToRemote!NoGap
    BY DEF RemotePipe!PipeInv, RemotePipe!InOrder, RemotePipe!Once, RemotePipe!OnlySent,
       RemotePipe!NoGap, ToRemote!InOrder, ToRemote!Once, ToRemote!OnlySent, ToRemote!NoGap
  <1> QED
    BY <1>1, <1>2, <1>3, RemotePipe!InitPipe, RemotePipe!NextPipe

\* What arrives at the service and at the remote user was sent at the other end
\* and arrives once, in that order except to the user after a reconnect, and it
\* is all of it up to there while the stream was not raced and the tunnel not
\* replaced.
Transparent ==
  /\ ToLocal!InOrder /\ ToLocal!Once /\ ToLocal!OnlySent /\ ToLocal!NoGap
  /\ ToRemote!InOrder /\ ToRemote!Once /\ ToRemote!OnlySent /\ ToRemote!NoGap

\* README.md:127, as a promise to the two ends: however the tasks interleave
\* and the tunnel breaks, nothing is doubled or made up, and nothing reordered
\* but by the read loop of a websocket that was replaced (client.rs:52).
THEOREM TunnelIsTransparent == SafetySpec => []Transparent
  BY PipesImplemented, LocalPipeInv, RemotePipeInv, PTL
     DEF TwoPipes, Transparent, ToLocal!PipeSpec, ToRemote!PipeSpec
==============================================================================
