--------------------------- MODULE UdpTunnelProofs ---------------------------
(***************************************************************************)
(* Type correctness of UdpTunnel and its safety invariants, for any number *)
(* of peers, endpoints and streams: who gets a datagram, in which order,   *)
(* how many streams a peer has, and what Refused does to them.             *)
(*                                                                         *)
(* UInv: there is a stream left for each listener that has to make one, an *)
(* opening listener's stream is its own and not in the store, and what is  *)
(* on the way fits its stream.  Mapped and Order are proved on top of it.  *)
(***************************************************************************)
EXTENDS UdpTunnel, FiniteSetTheorems, SequenceTheorems, TLAPS

LEMMA Counts ==
  /\ MaxDatagrams \in Nat /\ Streams = 1 .. MaxDatagrams /\ NoStream \notin Streams
  /\ Other \notin Streams /\ Other # NoStream /\ Shared \subseteq Peers
  BY StreamsAssumption, OtherAssumption, FS_CardinalityType DEF MaxDatagrams, NoStream

LEMMA TailParts ==
  ASSUME NEW S, NEW q \in Seq(S), q # <<>>
  PROVE  /\ Tail(q) \in Seq(S) /\ Head(q) = q[1] /\ 1 \in DOMAIN q /\ Head(q) \in S
         /\ \A i \in DOMAIN Tail(q) : /\ i \in Nat /\ 1 < i + 1
                                      /\ i + 1 \in DOMAIN q /\ Tail(q)[i] = q[i + 1]
  OBVIOUS

LEMMA AppendParts ==
  ASSUME NEW S, NEW q \in Seq(S), NEW p \in S
  PROVE  /\ Append(q, p) \in Seq(S)
         /\ \A i \in DOMAIN q : i \in DOMAIN Append(q, p) /\ Append(q, p)[i] = q[i]
         /\ \A i \in DOMAIN Append(q, p) :
               \/ i \in DOMAIN q /\ i < Len(q) + 1 /\ Append(q, p)[i] = q[i]
               \/ i = Len(q) + 1 /\ Append(q, p)[i] = p
  OBVIOUS

\* What a sequence holds.  (Delivered(s) is that of lgot[s].)
Values(q) == {q[i] : i \in DOMAIN q}

LEMMA ValuesParts ==
  ASSUME NEW S, NEW q \in Seq(S)
  PROVE  /\ Values(q) \subseteq S
         /\ q # <<>> => Head(q) \in Values(q) /\ Values(Tail(q)) \subseteq Values(q)
         /\ \A x \in S : Values(Append(q, x)) = Values(q) \union {x}
         /\ q # <<>> <=> Values(q) # {}
  <1>1. Values(q) \subseteq S
    BY DEF Values
  <1>2. q # <<>> => Head(q) \in Values(q) /\ Values(Tail(q)) \subseteq Values(q)
    BY TailParts DEF Values
  <1>3. ASSUME NEW x \in S PROVE Values(Append(q, x)) = Values(q) \union {x}
    <2>1. Len(q) + 1 \in DOMAIN Append(q, x) /\ Append(q, x)[Len(q) + 1] = x
      OBVIOUS
    <2> QED
      BY <2>1, AppendParts DEF Values
  <1>4. q # <<>> <=> Values(q) # {}
    BY TailParts DEF Values
  <1> QED
    BY <1>1, <1>2, <1>3, <1>4

\* info as the sequence that it is.
LEMMA InfoGrows ==
  ASSUME NEW S, NEW n \in Nat, NEW f \in [1 .. n -> S], NEW x \in S
  PROVE  /\ Append(f, x) \in [1 .. n + 1 -> S]
         /\ Append(f, x)[n + 1] = x
         /\ \A i \in 1 .. n : Append(f, x)[i] = f[i]
  <1>1. f \in Seq(S)
    BY SeqDef
  <1>2. Len(f) = n
    <2>1. DOMAIN f = 1 .. n /\ DOMAIN f = 1 .. Len(f) /\ Len(f) \in Nat
      BY <1>1, LenProperties
    <2>2. ASSUME NEW a \in Nat, NEW b \in Nat, 1 .. a = 1 .. b PROVE a <= b
      <3>1. a \in 1 .. b \/ a = 0
        BY <2>2
      <3> QED
        BY <3>1
    <2> DEFINE m == Len(f)
    <2>3. m \in Nat /\ 1 .. n = 1 .. m
      BY <2>1
    <2> HIDE DEF m
    <2>4. n <= m /\ m <= n
      BY <2>2, <2>3
    <2>5. m = n
      BY <2>3, <2>4
    <2> QED
      BY <2>5 DEF m
  <1>3. /\ Append(f, x) \in Seq(S) /\ Len(Append(f, x)) = n + 1
        /\ \A i \in 1 .. n : Append(f, x)[i] = f[i]
        /\ Append(f, x)[n + 1] = x
    BY <1>1, <1>2, AppendProperties
  <1>4. Append(f, x) \in [1 .. n + 1 -> S]
    BY <1>3, LenProperties
  <1> QED
    BY <1>3, <1>4

Payload == Datagram \union Reply
LEMMA Packets ==
  /\ \A s \in Streams : /\ Init_(s) \in Packet(Payload) /\ End(s) \in Packet(Payload)
                        /\ Refused(s) \in Packet(Payload)
  /\ \A s \in Streams, x \in Payload : Data(s, x) \in Packet(Payload)
  /\ \A p \in Packet(Payload) : p.stream \in Streams /\ p.data \in Payload \union {Close}
  BY DEF Packet, Init_, End, Refused, Data

Channels == [WebSocket -> Seq(Packet(Payload))]

LEMMA TypeParts ==
  ASSUME TypeOK
  PROVE  /\ to_client \in Seq(Packet(Payload)) /\ to_server \in Channels
         /\ queue \in [Streams -> Seq(Payload \union {Close})]
         /\ lgot \in [Streams -> Seq(Datagram)]
         /\ to_client # <<>> => Head(to_client) \in Packet(Payload)
         /\ slot \in WebSocket
         /\ \A w \in WebSocket : to_server[w] # <<>> => Head(to_server[w]) \in Packet(Payload)
  <1>1. /\ to_client \in Seq(Packet(Payload)) /\ to_server \in Channels
        /\ queue \in [Streams -> Seq(Payload \union {Close})]
        /\ lgot \in [Streams -> Seq(Datagram)]
        /\ slot \in WebSocket
    BY DEF TypeOK, StoreTypeOK, TunnelTypeOK, Payload, Channels
  <1>2. \A w \in WebSocket : to_server[w] \in Seq(Packet(Payload))
    BY <1>1 DEF Channels
  <1> QED
    BY <1>1, <1>2, TailParts
------------------------------------------------------------------------------
\* Who may write what: each part of the state with the actions that change it.
Others == \E p \in Shared : OthersAdd(p) \/ OthersRefuse(p)
Frame ==
    /\ \/ UNCHANGED server_vars
       \/ \E w \in WebSocket : ServerReceives(w)
       \/ \E e \in Endpoints : \/ Recv(e) \/ FindStream(e) \/ SendInit(e)
                               \/ AddRemote(e) \/ Forward(e)
       \/ Others
    /\ \/ UNCHANGED to_server
       \/ ClientData \/ Reconnect
       \/ \E w \in WebSocket : ServerReceives(w) \/ ServerLoopEnds(w)
       \/ \E s \in Streams : ReadReply(s)
    /\ \/ UNCHANGED to_client
       \/ ClientInit \/ ClientInitFails \/ ClientData \/ ClientEnd
       \/ ConnectionLost \/ Reconnect
       \/ \E e \in Endpoints : SendInit(e) \/ Forward(e)
    /\ \/ UNCHANGED <<queue, lgot, closer>>
       \/ ClientData \/ ClientEnd
       \/ \E s \in Streams : Closer(s) \/ SendLocal(s) \/ SendLocalFails(s)
    /\ \/ UNCHANGED <<locals, local_write, local_read>>
       \/ ClientInit
       \/ \E s \in Streams : \/ Closer(s) \/ SendLocalFails(s) \/ StopForwarding(s)
                             \/ ReadReply(s) \/ ReadError(s) \/ LocalReaderLeaves(s)
    /\ \/ UNCHANGED <<unreachable, replies>>
       \/ \E s \in Streams : \/ SendLocal(s) \/ SendLocalFails(s) \/ ReadReply(s)
                             \/ ReadError(s)
    /\ \/ UNCHANGED tunnel_vars
       \/ ClientInitFails \/ ClientData \/ ConnectionLost \/ Reconnect
       \/ \E w \in WebSocket : ServerLoopEnds(w)
       \/ \E e \in Endpoints : SendInit(e) \/ Forward(e)

LEMMA NextFrame == [Next]_vars => Frame
  <1> SUFFICES ASSUME [Next]_vars PROVE Frame
    OBVIOUS
  <1> USE DEF Frame, Others, tunnel_vars, ws_vars, chan_vars, server_vars, listener_vars,
              remote_vars, client_vars, store_vars, local_vars
  <1>1. ASSUME NEW e \in Endpoints, Recv(e) PROVE Frame
    BY <1>1 DEF Recv
  <1>2. ASSUME NEW e \in Endpoints, FindStream(e) PROVE Frame
    BY <1>2 DEF FindStream
  <1>3. ASSUME NEW e \in Endpoints, SendInit(e) PROVE Frame
    BY <1>3 DEF SendInit
  <1>4. ASSUME NEW e \in Endpoints, AddRemote(e) PROVE Frame
    BY <1>4 DEF AddRemote
  <1>5. ASSUME NEW e \in Endpoints, Forward(e) PROVE Frame
    BY <1>5 DEF Forward
  <1>6. CASE Others
    BY <1>6 DEF OthersAdd, OthersRefuse
  <1>7. ASSUME NEW s \in Streams, Closer(s) PROVE Frame
    BY <1>7 DEF Closer
  <1>8. ASSUME NEW s \in Streams, SendLocal(s) PROVE Frame
    BY <1>8 DEF SendLocal
  <1>9. ASSUME NEW s \in Streams, SendLocalFails(s) PROVE Frame
    BY <1>9 DEF SendLocalFails
  <1>10. ASSUME NEW s \in Streams, StopForwarding(s) PROVE Frame
    BY <1>10 DEF StopForwarding, QueueCloses
  <1>11. ASSUME NEW s \in Streams, ReadReply(s) PROVE Frame
    BY <1>11 DEF ReadReply
  <1>12. ASSUME NEW s \in Streams, ReadError(s) PROVE Frame
    BY <1>12 DEF ReadError
  <1>13. ASSUME NEW s \in Streams, LocalReaderLeaves(s) PROVE Frame
    BY <1>13 DEF LocalReaderLeaves
  <1>14. ASSUME NEW w \in WebSocket, ServerReceives(w) PROVE Frame
    BY <1>14 DEF ServerReceives
  <1>15. ASSUME NEW w \in WebSocket, ServerLoopEnds(w) PROVE Frame
    BY <1>15 DEF ServerLoopEnds, LoopEnds
  <1>16. CASE ClientInit
    BY <1>16 DEF ClientInit, AddStream
  <1>17. CASE ClientInitFails
    BY <1>17 DEF ClientInitFails
  <1>18. CASE ClientData
    BY <1>18 DEF ClientData, HandleData
  <1>19. CASE ClientEnd
    BY <1>19 DEF ClientEnd, HandleEnd
  <1>20. CASE ConnectionLost
    BY <1>20 DEF ConnectionLost, Breaks
  <1>21. CASE Reconnect
    BY <1>21 DEF Reconnect
  <1>22. CASE UNCHANGED vars
    BY <1>22 DEF vars
  <1> HIDE DEF Frame, Others
  <1> QED
    BY <1>1, <1>2, <1>3, <1>4, <1>5, <1>6, <1>7, <1>8, <1>9, <1>10, <1>11, <1>12, <1>13,
       <1>14, <1>15, <1>16, <1>17, <1>18, <1>19, <1>20, <1>21, <1>22
       DEF Next, Others, Listener, LocalWriter, LocalReader, ClientLoop
------------------------------------------------------------------------------
(* The inductive invariant. *)

\* Where a listener has a datagram in its hands; where it has made a stream
\* that the map does not have yet;
\* where it has one to send to.
Busy(e) == listener[e] \in {"find", "init", "add", "send"}
Opening(e) == listener[e] \in {"init", "add"}
Sending(e) == listener[e] = "send" /\ sid[e] # Other

\* Each stream was made for a datagram, and each that is looked up may need one.
Finding == {e \in Endpoints : listener[e] = "find"}
Counted == IsFiniteSet(Finding) /\ opened + Cardinality(Finding) <= received

ListenerInv ==
    \A e \in Endpoints :
       /\ dgram[e].n \in 0 .. received
       /\ Busy(e) => /\ dgram[e] \in Datagram /\ dgram[e].endpoint = e
                     /\ <<dgram[e].peer, e>> \in Routes
       /\ Opening(e) \/ Sending(e) =>
             sid[e] \in 1 .. opened /\ info[sid[e]][1] = dgram[e].peer
       /\ Opening(e) => streams[sid[e]] = "absent"
       /\ Sending(e) =>
             /\ streams[sid[e]] # "absent"
             /\ refused_at[sid[e]] # 0 => dgram[e].n <= refused_at[sid[e]]
Distinct ==
    \A e, f \in Endpoints : Opening(e) /\ Opening(f) /\ sid[e] = sid[f] => e = f

StreamInv ==
    /\ \A s \in Streams : streams[s] # "absent" => s \in 1 .. opened
    /\ \A s \in Streams : refused_at[s] # 0 => streams[s] = "disabled"
    /\ \A s \in 1 .. opened : info[s] \in Routes
    /\ \A p \in Peers : addrs_map[p] \in Streams =>
          streams[addrs_map[p]] # "absent" /\ info[addrs_map[p]][1] = p

\* What a stream may carry.
Fits(s, d) ==
    /\ d \in Datagram /\ <<d.peer, d.endpoint>> \in Routes
    /\ streams[s] # "absent" /\ d.peer = info[s][1]
    /\ d.n <= received
    /\ Busy(d.endpoint) => d.n < dgram[d.endpoint].n
    /\ refused_at[s] # 0 => d.n <= refused_at[s]

\* A packet for the client is one for a stream that may carry it.
Rightful(p) == /\ p.type = "Data" => Fits(p.stream, p.data)
               /\ p.type = "End" => streams[p.stream] # "absent"

\* What is on its way belongs to a stream of the map and fits it.
InUse ==
    /\ \A p \in Values(to_client) : Rightful(p)
    /\ \A w \in WebSocket : \A p \in Values(to_server[w]) : streams[p.stream] # "absent"
    /\ \A s \in Streams :
          /\ \A d \in Values(queue[s]) \ {Close} : Fits(s, d)
          /\ \A d \in Delivered(s) : Fits(s, d)
          /\ queue[s] # <<>> \/ closer[s] # {} => streams[s] # "absent"

UInv == TypeOK /\ Counted /\ ListenerInv /\ Distinct /\ StreamInv /\ InUse

\* A listener that looks for a stream may still make one.
LEMMA Room ==
  ASSUME TypeOK, Counted, NEW e \in Endpoints, listener[e] = "find"
  PROVE  /\ opened + 1 \in Streams /\ opened + 1 <= received
         /\ opened \in Nat /\ received \in Nat
  <1>1. e \in Finding /\ IsFiniteSet(Finding) /\ opened + Cardinality(Finding) <= received
    BY DEF Finding, Counted
  <1>2. Cardinality(Finding) \in Nat /\ Cardinality(Finding) # 0
    BY <1>1, FS_CardinalityType, FS_EmptySet
  <1>3. opened \in Nat /\ received \in Nat /\ received <= MaxDatagrams
    BY Counts DEF TypeOK
  <1> QED
    BY <1>1, <1>2, <1>3, Counts

LEMMA OpenedStreams ==
  ASSUME TypeOK
  PROVE  /\ 1 .. opened \subseteq Streams /\ opened + 1 \notin 1 .. opened
         /\ opened \in Nat /\ received \in Nat
  BY Counts DEF TypeOK

LEMMA NextListenerTypes ==
  ASSUME UInv, [Next]_vars
  PROVE  /\ listener' \in [Endpoints -> {"recv", "find", "init", "add", "send", "stopped"}]
         /\ dgram' \in [Endpoints -> Datagram \union {NoDatagram}]
         /\ sid' \in [Endpoints -> Streams \union {Other, NoStream}]
         /\ received' \in 0 .. MaxDatagrams /\ opened' \in 0 .. received'
         /\ info' \in [1 .. opened' -> Peers \X Endpoints]
  <1>0. TypeOK /\ Counted /\ ListenerInv
    BY DEF UInv
  <1>1. /\ listener \in [Endpoints -> {"recv", "find", "init", "add", "send", "stopped"}]
        /\ dgram \in [Endpoints -> Datagram \union {NoDatagram}]
        /\ sid \in [Endpoints -> Streams \union {Other, NoStream}]
        /\ received \in 0 .. MaxDatagrams /\ opened \in 0 .. received
        /\ info \in [1 .. opened -> Peers \X Endpoints]
        /\ addrs_map \in [Peers -> Streams \union {Other, NoStream}]
        /\ MaxDatagrams \in Nat
    BY <1>0, Counts DEF TypeOK
  <1>2. CASE UNCHANGED listener_vars
    BY <1>1, <1>2 DEF listener_vars
  <1>3. ASSUME NEW e \in Endpoints, Recv(e)
        PROVE  /\ UNCHANGED <<sid, opened, info>> /\ received' = received + 1
               /\ received' \in 0 .. MaxDatagrams
               /\ listener' = [listener EXCEPT ![e] = "find"]
               /\ dgram' \in [Endpoints -> Datagram \union {NoDatagram}]
    <2>1. /\ UNCHANGED <<sid, opened, info>> /\ received' = received + 1
          /\ listener' = [listener EXCEPT ![e] = "find"] /\ received < MaxDatagrams
      BY <1>3 DEF Recv, To
    <2>2. PICK p \in Peers, empty \in BOOLEAN :
             dgram' = [dgram EXCEPT ![e] = [peer |-> p, endpoint |-> e, n |-> received + 1,
                                            empty |-> empty]]
      BY <1>3 DEF Recv
    <2>3. received + 1 \in 1 .. MaxDatagrams
      BY <1>1, <2>1
    <2>4. [peer |-> p, endpoint |-> e, n |-> received + 1, empty |-> empty] \in Datagram
      BY <2>3 DEF Datagram
    <2> QED
      BY <1>1, <2>1, <2>2, <2>3, <2>4
  <1>4. ASSUME NEW e \in Endpoints, FindStream(e)
        PROVE  /\ UNCHANGED <<dgram, received>>
               /\ listener' = [listener EXCEPT ![e] = "send"]
                  \/ listener' = [listener EXCEPT ![e] = "init"]
               /\ sid' \in [Endpoints -> Streams \union {Other, NoStream}]
               /\ opened' \in 0 .. received
               /\ info' \in [1 .. opened' -> Peers \X Endpoints]
    <2>1. listener[e] = "find" /\ UNCHANGED <<dgram, received>>
      BY <1>4 DEF FindStream
    <2>2. dgram[e] \in Datagram
      BY <1>0, <2>1 DEF ListenerInv, Busy
    <2>3. dgram[e].peer \in Peers
      BY <2>2 DEF Datagram
    <2>4. opened + 1 \in Streams /\ opened + 1 <= received /\ opened \in Nat /\ received \in Nat
      BY <1>0, <2>1, Room
    <2>5. CASE /\ sid' = [sid EXCEPT ![e] = addrs_map[dgram[e].peer]]
               /\ listener' = [listener EXCEPT ![e] = "send"] /\ UNCHANGED <<opened, info>>
      BY <1>1, <2>1, <2>3, <2>5
    <2>6. CASE /\ sid' = [sid EXCEPT ![e] = opened + 1] /\ opened' = opened + 1
               /\ info' = Append(info, <<dgram[e].peer, e>>)
               /\ listener' = [listener EXCEPT ![e] = "init"]
      <3>1. Append(info, <<dgram[e].peer, e>>) \in [1 .. opened + 1 -> Peers \X Endpoints]
        BY <1>1, <2>3, <2>4, InfoGrows
      <3>2. sid' \in [Endpoints -> Streams \union {Other, NoStream}]
        BY <1>1, <2>4, <2>6
      <3>3. opened' \in 0 .. received
        BY <2>4, <2>6
      <3> QED
        BY <2>1, <2>6, <3>1, <3>2, <3>3
    <2> QED
      BY <1>4, <2>5, <2>6 DEF FindStream, To
  <1>5. ASSUME NEW e \in Endpoints, SendInit(e) \/ AddRemote(e) \/ Forward(e)
        PROVE  /\ UNCHANGED <<received, opened, info>>
               /\ UNCHANGED dgram \/ dgram' = [dgram EXCEPT ![e] = NoDatagram]
               /\ UNCHANGED sid \/ sid' = [sid EXCEPT ![e] = NoStream]
               /\ \E x \in {"add", "stopped", "send", "recv"} :
                     listener' = [listener EXCEPT ![e] = x]
    BY <1>5 DEF SendInit, AddRemote, Forward, To
  <1>6. (\E w \in WebSocket : ServerReceives(w)) \/ Others => UNCHANGED listener_vars
    BY DEF ServerReceives, Others, OthersAdd, OthersRefuse
  <1>7. CASE \E e \in Endpoints : Recv(e)
    <2>1. PICK e \in Endpoints : Recv(e)
      BY <1>7
    <2>2. opened' \in 0 .. received'
      BY <1>1, <1>3, <2>1
    <2>3. info' \in [1 .. opened' -> Peers \X Endpoints]
      BY <1>1, <1>3, <2>1
    <2> QED
      BY <1>1, <1>3, <2>1, <2>2, <2>3
  <1>8. CASE \E e \in Endpoints : FindStream(e)
    BY <1>1, <1>4, <1>8
  <1>9. CASE \E e \in Endpoints : SendInit(e) \/ AddRemote(e) \/ Forward(e)
    BY <1>1, <1>5, <1>9
  <1> QED
    BY <1>2, <1>6, <1>7, <1>8, <1>9, NextFrame DEF Frame, server_vars

LEMMA NextStoreTypes ==
  ASSUME UInv, [Next]_vars
  PROVE  /\ streams' \in [Streams -> {"absent", "enabled", "disabled"}]
         /\ addrs_map' \in [Peers -> Streams \union {Other, NoStream}]
         /\ refused_at' \in [Streams -> 0 .. received']
  <1>0. TypeOK /\ ListenerInv
    BY DEF UInv
  <1>1. /\ streams \in [Streams -> {"absent", "enabled", "disabled"}]
        /\ addrs_map \in [Peers -> Streams \union {Other, NoStream}]
        /\ refused_at \in [Streams -> 0 .. received]
        /\ received \in Nat /\ opened \in 0 .. received /\ received <= MaxDatagrams
        /\ sid \in [Endpoints -> Streams \union {Other, NoStream}]
    BY <1>0, Counts DEF TypeOK
  <1>2. ASSUME NEW e \in Endpoints, AddRemote(e)
        PROVE  /\ streams' \in [Streams -> {"absent", "enabled", "disabled"}]
               /\ addrs_map' \in [Peers -> Streams \union {Other, NoStream}]
               /\ UNCHANGED <<refused_at, received>>
    BY <1>1, <1>2 DEF AddRemote
  <1>3. ASSUME NEW w \in WebSocket, ServerReceives(w)
        PROVE  /\ streams' \in [Streams -> {"absent", "enabled", "disabled"}]
               /\ refused_at' \in [Streams -> 0 .. received]
               /\ UNCHANGED <<addrs_map, received>>
    <2>1. /\ UNCHANGED <<addrs_map, received>>
          /\ streams' \in [Streams -> {"absent", "enabled", "disabled"}]
      BY <1>1, <1>3 DEF ServerReceives, ServerData, ServerRefused, Disabled, listener_vars
    <2>2. refused_at' \in [Streams -> 0 .. received]
      BY <1>1, <1>3 DEF ServerReceives, ServerData, ServerRefused
    <2> QED
      BY <1>1, <2>1, <2>2
  <1>4. ASSUME NEW e \in Endpoints, Recv(e)
        PROVE  UNCHANGED <<streams, addrs_map, refused_at>> /\ received' = received + 1
    BY <1>4 DEF Recv, remote_vars
  <1>5. ASSUME NEW e \in Endpoints, FindStream(e) \/ SendInit(e) \/ Forward(e)
        PROVE  UNCHANGED <<streams, addrs_map, refused_at, received>>
    BY <1>5 DEF FindStream, SendInit, Forward, remote_vars
  <1>6. CASE UNCHANGED server_vars
    BY <1>1, <1>6 DEF server_vars, listener_vars, remote_vars
  <1>7. CASE \E e \in Endpoints : Recv(e)
    BY <1>1, <1>4, <1>7
  <1>8. ASSUME NEW p \in Shared, OthersAdd(p) \/ OthersRefuse(p)
        PROVE  /\ streams' \in [Streams -> {"absent", "enabled", "disabled"}]
               /\ addrs_map' \in [Peers -> Streams \union {Other, NoStream}]
               /\ UNCHANGED <<refused_at, received>>
    BY <1>1, <1>8, Counts DEF OthersAdd, OthersRefuse, Disabled, listener_vars
  <1> QED
    BY <1>1, <1>2, <1>3, <1>5, <1>6, <1>7, <1>8, NextFrame DEF Frame, Others

\* The channels, whoever writes to them.
LEMMA Written ==
  ASSUME TypeOK, NEW p \in Packet(Payload)
  PROVE  /\ SendToClient(p) => to_client' \in Seq(Packet(Payload))
         /\ SendToServer(p) => to_server' \in Channels
  <1>1. /\ to_client \in Seq(Packet(Payload)) /\ to_server \in Channels
        /\ slot \in WebSocket
    BY TypeParts
  <1>2. Append(to_client, p) \in Seq(Packet(Payload))
    BY <1>1
  <1>3. [to_server EXCEPT ![slot] = Append(@, p)] \in Channels
    <2>1. Append(to_server[slot], p) \in Seq(Packet(Payload))
      BY <1>1 DEF Channels
    <2> QED
      BY <1>1, <2>1 DEF Channels
  <1> QED
    BY <1>1, <1>2, <1>3 DEF SendToClient, SendToServer

\* The packet that a loop of the server takes.
LEMMA TakenFrom ==
  ASSUME TypeOK, NEW w \in WebSocket, TakeFrom(w)
  PROVE  /\ to_server[w] # <<>>
         /\ to_server' = [to_server EXCEPT ![w] = Tail(@)]
         /\ to_server' \in Channels
         /\ Head(to_server[w]) \in Packet(Payload) /\ Head(to_server[w]) \in Values(to_server[w])
  <1>1. to_server \in Channels
    BY TypeParts
  <1>2. to_server[w] # <<>> /\ to_server' = [to_server EXCEPT ![w] = Tail(@)]
    BY DEF TakeFrom
  <1>3. to_server[w] \in Seq(Packet(Payload))
    BY <1>1 DEF Channels
  <1>4. /\ Tail(to_server[w]) \in Seq(Packet(Payload)) /\ Head(to_server[w]) \in Packet(Payload)
        /\ Head(to_server[w]) \in Values(to_server[w])
    BY <1>2, <1>3, TailParts, ValuesParts
  <1> QED
    BY <1>1, <1>2, <1>4 DEF Channels

\* The websockets come and go.
LEMMA TunnelSteps ==
  ASSUME TunnelTypeOK(Packet(Payload)),
         \/ \E w \in WebSocket : Breaks(w) \/ LoopEnds(w)
         \/ Reconnecting
  PROVE  TunnelTypeOK(Packet(Payload))'
  <1>0. /\ connected \in BOOLEAN /\ session \in BOOLEAN /\ entering \in BOOLEAN
        /\ slot \in WebSocket /\ reconnects \in WebSocket
        /\ alive \subseteq WebSocket /\ loops \subseteq WebSocket
        /\ to_client \in Seq(Packet(Payload)) /\ to_server \in Channels
    BY DEF TunnelTypeOK, Channels
  <1>1. <<>> \in Seq(Packet(Payload))
    OBVIOUS
  <1>2. ASSUME NEW w \in WebSocket, Breaks(w) PROVE TunnelTypeOK(Packet(Payload))'
    BY <1>0, <1>1, <1>2 DEF Breaks, SessionEnds, TunnelTypeOK, Channels
  <1>3. ASSUME NEW w \in WebSocket, LoopEnds(w) PROVE TunnelTypeOK(Packet(Payload))'
    BY <1>0, <1>1, <1>3 DEF LoopEnds, TunnelTypeOK, Channels
  <1>4. CASE TakeOver
    <2>1. reconnects' = reconnects + 1 /\ reconnects + 1 \in WebSocket
      BY <1>0, <1>4, ReconnectsAssumption DEF TakeOver, WebSocket
    <2>2. PICK on \in SUBSET loops :
             /\ loops' = on \union {reconnects + 1}
             /\ alive' = (alive \intersect on) \union {reconnects + 1}
             /\ to_server' = [w \in WebSocket |->
                                IF w \in on THEN to_server[w] ELSE <<>>]
      BY <1>4 DEF TakeOver
    <2>3. to_server' \in Channels
      BY <1>0, <1>1, <2>2 DEF Channels
    <2> QED
      BY <1>0, <1>1, <1>4, <2>1, <2>2, <2>3 DEF TakeOver, TunnelTypeOK, Channels
  <1>5. CASE Enter
    BY <1>0, <1>5 DEF Enter, chan_vars, TunnelTypeOK, Channels
  <1>6. CASE AddClient
    BY <1>0, <1>6 DEF AddClient, chan_vars, TunnelTypeOK, Channels
  <1> QED
    BY <1>2, <1>3, <1>4, <1>5, <1>6 DEF Reconnecting

LEMMA NextChannelTypes ==
  ASSUME UInv, [Next]_vars
  PROVE  TunnelTypeOK(Packet(Payload))'
  <1> USE DEF TunnelTypeOK, Channels
  <1>0. TypeOK /\ ListenerInv /\ TunnelTypeOK(Packet(Payload))
    BY DEF UInv, TypeOK, StoreTypeOK, Payload
  <1>1. /\ to_client # <<>> => /\ Tail(to_client) \in Seq(Packet(Payload))
                               /\ Head(to_client).stream \in Streams
        /\ <<>> \in Seq(Packet(Payload))
    BY <1>0, TypeParts, TailParts, Packets
  <1>2. CASE UNCHANGED <<tunnel_vars, chan_vars>>
    BY <1>0, <1>2 DEF tunnel_vars, ws_vars, chan_vars
  <1>3. ASSUME NEW w \in WebSocket, ServerReceives(w) PROVE TunnelTypeOK(Packet(Payload))'
    <2>1. to_server' \in Channels
      BY <1>0, <1>3, TakenFrom DEF ServerReceives
    <2> QED
      BY <1>0, <1>3, <2>1 DEF ServerReceives, tunnel_vars, ws_vars
  <1>4. ASSUME NEW e \in Endpoints, SendInit(e) PROVE TunnelTypeOK(Packet(Payload))'
    <2>1. sid[e] \in Streams
      BY <1>0, <1>4, OpenedStreams DEF SendInit, ListenerInv, Opening
    <2>2. to_client' \in Seq(Packet(Payload)) /\ connected' \in BOOLEAN
      BY <1>0, <1>4, <2>1, Packets, Written DEF SendInit, SendToClientFails, SendToClient
    <2> QED
      BY <1>0, <1>4, <2>2 DEF SendInit, ws_vars
  <1>5. ASSUME NEW e \in Endpoints, Forward(e) PROVE TunnelTypeOK(Packet(Payload))'
    <2>1. \/ /\ Sending(e)
             /\ SendToClient(End(sid[e])) \/ SendToClient(Data(sid[e], dgram[e]))
          \/ UNCHANGED to_client /\ connected' \in BOOLEAN
      BY <1>0, <1>5 DEF Forward, SendToClientFails, Sending
    <2>2. Sending(e) => sid[e] \in Streams /\ dgram[e] \in Payload
      BY <1>0, OpenedStreams DEF ListenerInv, Busy, Sending, Payload
    <2>3. Sending(e) =>
             End(sid[e]) \in Packet(Payload) /\ Data(sid[e], dgram[e]) \in Packet(Payload)
      BY <2>2, Packets
    <2>4. \A p : SendToClient(p) => connected' = connected
      BY DEF SendToClient
    <2>5. to_client' \in Seq(Packet(Payload)) /\ connected' \in BOOLEAN
      BY <1>0, <2>1, <2>3, <2>4, Written
    <2> QED
      BY <1>0, <1>5, <2>5 DEF Forward, ws_vars
  <1>6. ASSUME NEW s \in Streams, ReadReply(s) PROVE TunnelTypeOK(Packet(Payload))'
    <2>1. replies + 1 \in 1 .. MaxReplies
      BY <1>0, <1>6, RepliesAssumption DEF ReadReply, TypeOK
    <2>2. Data(s, [n |-> replies + 1]) \in Packet(Payload)
      BY <2>1, Packets DEF Reply, Payload
    <2>3. to_server' \in Channels
      BY <1>0, <1>6, <2>2, Written DEF ReadReply
    <2> QED
      BY <1>0, <1>6, <2>3 DEF ReadReply, tunnel_vars, ws_vars
  <1>7. CASE ClientData
    <2>1. to_client # <<>> /\ Refused(Head(to_client).stream) \in Packet(Payload)
      BY <1>1, <1>7, Packets DEF ClientData, Arrives
    <2>2. /\ to_client' = Tail(to_client) \/ SessionEnds
          /\ UNCHANGED to_server \/ SendToServer(Refused(Head(to_client).stream))
          /\ UNCHANGED session \/ SessionEnds
          /\ UNCHANGED <<connected, ws_vars>>
      BY <1>7 DEF ClientData, HandleData, SendToServerFails
    <2>3. to_server' \in Channels
      BY <1>0, <2>1, <2>2, Written
    <2> QED
      BY <1>0, <1>1, <2>1, <2>2, <2>3 DEF SessionEnds, ws_vars
  <1>8. CASE ClientInit \/ ClientEnd
    BY <1>0, <1>1, <1>8 DEF ClientInit, ClientEnd, Arrives, HandleEnd, tunnel_vars, ws_vars
  <1>9. CASE ClientInitFails
    BY <1>0, <1>1, <1>9 DEF ClientInitFails, SessionEnds, ws_vars
  <1>10. CASE \/ ConnectionLost \/ Reconnect
              \/ \E w \in WebSocket : ServerLoopEnds(w)
    <2>1. \/ \E w \in WebSocket : Breaks(w) \/ LoopEnds(w)
          \/ Reconnecting
      BY <1>10 DEF ConnectionLost, Reconnect, ServerLoopEnds
    <2> QED
      BY <1>0, <2>1, TunnelSteps
  <1> HIDE DEF TunnelTypeOK, Channels
  <1> QED
    BY <1>2, <1>3, <1>4, <1>5, <1>6, <1>7, <1>8, <1>9, <1>10, NextFrame DEF Frame, chan_vars

LEMMA NextClientTypes ==
  ASSUME UInv, [Next]_vars
  PROVE  /\ locals' \in [Streams -> BOOLEAN]
         /\ local_write' \in [Streams -> {"none", "running", "ended"}]
         /\ local_read' \in [Streams -> {"none", "reading", "leaving", "ended"}]
         /\ closer' \in [Streams -> SUBSET {"remove", "sleep"}]
         /\ queue' \in [Streams -> Seq(Payload \union {Close})]
         /\ lgot' \in [Streams -> Seq(Datagram)]
  <1>0. TypeOK /\ InUse
    BY DEF UInv
  <1>1. /\ locals \in [Streams -> BOOLEAN]
        /\ local_write \in [Streams -> {"none", "running", "ended"}]
        /\ local_read \in [Streams -> {"none", "reading", "leaving", "ended"}]
        /\ closer \in [Streams -> SUBSET {"remove", "sleep"}]
        /\ queue \in [Streams -> Seq(Payload \union {Close})]
        /\ lgot \in [Streams -> Seq(Datagram)]
    BY <1>0, TypeParts DEF TypeOK, StoreTypeOK
  <1>2. to_client # <<>> => /\ Head(to_client).stream \in Streams
                            /\ Head(to_client).data \in Payload \union {Close}
    BY <1>0, TypeParts, Packets
  <1>3. ASSUME NEW s \in Streams, NEW x \in Payload \union {Close}
        PROVE  Append(queue[s], x) \in Seq(Payload \union {Close})
    BY <1>1
  <1>4. ASSUME NEW s \in Streams, HasData(s)
        PROVE  /\ Rest(queue[s]) \in Seq(Payload \union {Close})
               /\ Append(lgot[s], Head(queue[s])) \in Seq(Datagram)
    <2>1. queue[s] # <<>> /\ Head(queue[s]) # Close /\ queue[s] \in Seq(Payload \union {Close})
      BY <1>1, <1>4 DEF HasData
    <2>2. Tail(queue[s]) \in Seq(Payload \union {Close})
      BY <2>1, TailParts
    <2>3. Head(queue[s]) \in Values(queue[s])
      BY <2>1, ValuesParts
    <2>4. Head(queue[s]) \in Datagram
      BY <1>0, <2>1, <2>3 DEF InUse, Fits
    <2> QED
      BY <1>1, <2>2, <2>4 DEF Rest
  <1>5. CASE ClientInit
    BY <1>1, <1>2, <1>5 DEF ClientInit, Arrives, AddStream
  <1>6. CASE ClientData
    <2>1. /\ to_client # <<>>
          /\ \/ UNCHANGED queue
             \/ queue' = [queue EXCEPT ![Head(to_client).stream] = Append(@, Head(to_client).data)]
          /\ UNCHANGED <<lgot, closer>>
      BY <1>6 DEF ClientData, Arrives, HandleData, local_vars
    <2>2. UNCHANGED <<locals, local_write, local_read>>
      BY <1>6 DEF ClientData, HandleData, local_vars
    <2>3. queue' \in [Streams -> Seq(Payload \union {Close})]
      <3>1. CASE UNCHANGED queue
        BY <1>1, <3>1
      <3>2. CASE queue' = [queue EXCEPT ![Head(to_client).stream] =
                              Append(@, Head(to_client).data)]
        <4>1. /\ Head(to_client).stream \in Streams
              /\ Append(queue[Head(to_client).stream], Head(to_client).data)
                    \in Seq(Payload \union {Close})
          BY <1>2, <1>3, <2>1
        <4> QED
          BY <1>1, <3>2, <4>1
      <3> QED
        BY <2>1, <3>1, <3>2
    <2> QED
      BY <1>1, <2>1, <2>2, <2>3
  <1>7. CASE ClientEnd
    BY <1>1, <1>2, <1>7 DEF ClientEnd, Arrives, HandleEnd, local_vars
  <1>8. ASSUME NEW s \in Streams, Closer(s)
        PROVE  /\ UNCHANGED <<lgot, local_write, local_read>>
               /\ locals' \in [Streams -> BOOLEAN]
               /\ closer' \in [Streams -> SUBSET {"remove", "sleep"}]
               /\ queue' \in [Streams -> Seq(Payload \union {Close})]
    <2>1. /\ UNCHANGED <<lgot, local_write, local_read>>
          /\ UNCHANGED queue
             \/ queue' = [queue EXCEPT ![s] = IF local_write[s] = "running" THEN Append(@, Close) ELSE @]
      BY <1>8 DEF Closer, CloserRemoves, CloserCloses, local_vars
    <2>2. queue' \in [Streams -> Seq(Payload \union {Close})]
      <3>1. Append(queue[s], Close) \in Seq(Payload \union {Close})
        BY <1>3
      <3> QED
        BY <1>1, <2>1, <3>1
    <2>3. locals' \in [Streams -> BOOLEAN]
      BY <1>1, <1>8 DEF Closer, CloserRemoves, CloserCloses
    <2>4. (closer[s] \ {"remove"}) \union {x \in {"sleep"} : locals[s]} \in SUBSET {"remove", "sleep"}
          /\ closer[s] \ {"sleep"} \in SUBSET {"remove", "sleep"}
      BY <1>1
    <2>5. closer' \in [Streams -> SUBSET {"remove", "sleep"}]
      <3>1. \/ closer' = [closer EXCEPT ![s] = (@ \ {"remove"})
                                                \union {x \in {"sleep"} : locals[s]}]
            \/ closer' = [closer EXCEPT ![s] = @ \ {"sleep"}]
        BY <1>8 DEF Closer, CloserRemoves, CloserCloses
      <3> QED
        BY <1>1, <2>4, <3>1
    <2> QED
      BY <2>1, <2>2, <2>3, <2>5
  <1>9. ASSUME NEW s \in Streams, SendLocal(s) \/ SendLocalFails(s)
        PROVE  /\ UNCHANGED <<locals, local_read, closer>>
               /\ local_write' \in [Streams -> {"none", "running", "ended"}]
               /\ queue' \in [Streams -> Seq(Payload \union {Close})]
               /\ lgot' \in [Streams -> Seq(Datagram)]
    <2>1. /\ HasData(s) /\ queue' = [queue EXCEPT ![s] = Rest(@)]
          /\ UNCHANGED lgot \/ lgot' = [lgot EXCEPT ![s] = Append(@, Head(queue[s]))]
          /\ UNCHANGED local_write \/ local_write' = [local_write EXCEPT ![s] = "ended"]
          /\ UNCHANGED <<locals, local_read, closer>>
      BY <1>9 DEF SendLocal, SendLocalFails
    <2>2. /\ Rest(queue[s]) \in Seq(Payload \union {Close})
          /\ Append(lgot[s], Head(queue[s])) \in Seq(Datagram)
      BY <1>4, <2>1
    <2>3. queue' \in [Streams -> Seq(Payload \union {Close})]
      BY <1>1, <2>1, <2>2
    <2>4. lgot' \in [Streams -> Seq(Datagram)]
      BY <1>1, <2>1, <2>2
    <2>5. local_write' \in [Streams -> {"none", "running", "ended"}]
      BY <1>1, <2>1
    <2> QED
      BY <2>1, <2>3, <2>4, <2>5
  <1>10. ASSUME NEW s \in Streams,
                \/ StopForwarding(s) \/ ReadReply(s) \/ ReadError(s) \/ LocalReaderLeaves(s)
         PROVE  /\ locals' \in [Streams -> BOOLEAN]
                /\ local_write' \in [Streams -> {"none", "running", "ended"}]
                /\ local_read' \in [Streams -> {"none", "reading", "leaving", "ended"}]
    BY <1>1, <1>10 DEF StopForwarding, QueueCloses, ReadReply, ReadError, LocalReaderLeaves,
                       store_vars, local_vars
  <1>11. /\ queue' \in [Streams -> Seq(Payload \union {Close})]
         /\ lgot' \in [Streams -> Seq(Datagram)]
         /\ closer' \in [Streams -> SUBSET {"remove", "sleep"}]
    BY <1>1, <1>6, <1>7, <1>8, <1>9, NextFrame DEF Frame
  <1>12. /\ locals' \in [Streams -> BOOLEAN]
         /\ local_write' \in [Streams -> {"none", "running", "ended"}]
         /\ local_read' \in [Streams -> {"none", "reading", "leaving", "ended"}]
    BY <1>1, <1>5, <1>8, <1>9, <1>10, NextFrame DEF Frame
  <1> QED
    BY <1>11, <1>12

LEMMA NextServiceTypes ==
  ASSUME UInv, [Next]_vars
  PROVE  unreachable' \in [Streams -> BOOLEAN] /\ replies' \in 0 .. MaxReplies
  <1>1. /\ unreachable \in [Streams -> BOOLEAN]
        /\ replies \in 0 .. MaxReplies /\ MaxReplies \in Nat
    BY RepliesAssumption DEF UInv, TypeOK
  <1>2. ASSUME NEW s \in Streams, SendLocal(s)
        PROVE  UNCHANGED replies /\ unreachable' \in [Streams -> BOOLEAN]
    BY <1>1, <1>2 DEF SendLocal
  <1>3. ASSUME NEW s \in Streams, SendLocalFails(s) \/ ReadReply(s) \/ ReadError(s)
        PROVE  unreachable' \in [Streams -> BOOLEAN] /\ replies' \in 0 .. MaxReplies
    <2>1. unreachable' \in [Streams -> BOOLEAN]
      BY <1>1, <1>3 DEF SendLocalFails, ReadReply, ReadError
    <2>2. UNCHANGED replies \/ (replies' = replies + 1 /\ replies < MaxReplies)
      BY <1>3 DEF SendLocalFails, ReadReply, ReadError
    <2>3. replies' \in 0 .. MaxReplies
      BY <1>1, <2>2
    <2> QED
      BY <2>1, <2>3
  <1> QED
    BY <1>1, <1>2, <1>3, NextFrame DEF Frame

LEMMA NextTypes == UInv /\ [Next]_vars => TypeOK'
  <1> SUFFICES ASSUME UInv, [Next]_vars PROVE TypeOK'
    OBVIOUS
  <1>1. TunnelTypeOK(Packet(Payload))'
    BY NextChannelTypes
  <1>2. StoreTypeOK(Payload)'
    BY <1>1, NextClientTypes DEF StoreTypeOK
  <1> QED
    BY <1>2, NextListenerTypes, NextStoreTypes, NextClientTypes, NextServiceTypes
       DEF TypeOK, Payload

\* What a step does to the numbers, the streams and what was refused.
LEMMA InfoSteps ==
  ASSUME UInv, [Next]_vars
  PROVE  /\ opened' \in Nat /\ received' \in Nat
         /\ opened <= opened' /\ received <= received'
         /\ \A s \in 1 .. opened : s \in 1 .. opened' /\ info'[s] = info[s]
  <1>0. TypeOK
    BY DEF UInv
  <1>1. /\ opened \in Nat /\ received \in Nat
        /\ info \in [1 .. opened -> Peers \X Endpoints]
    BY <1>0, OpenedStreams DEF TypeOK
  <1>2. ASSUME NEW e \in Endpoints, FindStream(e)
        PROVE  /\ received' = received /\ (opened' = opened \/ opened' = opened + 1)
               /\ \A s \in 1 .. opened : info'[s] = info[s]
    <2>1. /\ listener[e] = "find" /\ received' = received
          /\ \/ UNCHANGED <<opened, info>>
             \/ opened' = opened + 1 /\ info' = Append(info, <<dgram[e].peer, e>>)
      BY <1>2 DEF FindStream
    <2>2. dgram[e].peer \in Peers
      BY <2>1 DEF UInv, ListenerInv, Busy, Datagram
    <2>3. \A s \in 1 .. opened : Append(info, <<dgram[e].peer, e>>)[s] = info[s]
      BY <1>1, <2>2, InfoGrows
    <2> QED
      BY <2>1, <2>3
  <1>3. ASSUME NEW e \in Endpoints, Recv(e)
        PROVE  UNCHANGED <<opened, info>> /\ received' = received + 1
    BY <1>3 DEF Recv
  <1>4. ASSUME NEW e \in Endpoints, SendInit(e) \/ AddRemote(e) \/ Forward(e)
        PROVE  UNCHANGED <<opened, info, received>>
    BY <1>4 DEF SendInit, AddRemote, Forward
  <1>5. (\E w \in WebSocket : ServerReceives(w)) \/ Others \/ UNCHANGED server_vars
           => UNCHANGED <<opened, info, received>>
    BY DEF ServerReceives, Others, OthersAdd, OthersRefuse, server_vars, listener_vars
  <1> QED
    BY <1>1, <1>2, <1>3, <1>4, <1>5, NextFrame DEF Frame

LEMMA StreamSteps ==
  ASSUME UInv, [Next]_vars, NEW s \in Streams
  PROVE  /\ streams[s] # "absent" => streams'[s] # "absent"
         /\ streams[s] # "enabled" /\ streams'[s] = "enabled" => streams[s] = "absent"
         /\ streams[s] = "absent" =>
               \/ streams'[s] = "absent"
               \/ \E e \in Endpoints : AddRemote(e) /\ s = sid[e]
         /\ \/ refused_at'[s] = refused_at[s]
            \/ /\ refused_at'[s] = received /\ streams'[s] = "disabled"
               /\ UNCHANGED <<listener, dgram, sid>>
         /\ streams[s] = "disabled" => streams'[s] = "disabled"
  <1>0. TypeOK /\ InUse /\ ListenerInv
    BY DEF UInv
  <1>1. /\ streams \in [Streams -> {"absent", "enabled", "disabled"}]
        /\ refused_at \in [Streams -> 0 .. received]
    BY <1>0 DEF TypeOK
  <1>2. ASSUME NEW e \in Endpoints, AddRemote(e)
        PROVE  /\ UNCHANGED refused_at /\ streams[sid[e]] = "absent"
               /\ streams' = [streams EXCEPT ![sid[e]] = "enabled"]
    BY <1>0, <1>2 DEF AddRemote, ListenerInv, Opening
  <1>3. ASSUME NEW w \in WebSocket, ServerReceives(w)
        PROVE  /\ streams[s] # "absent" => streams'[s] # "absent"
               /\ streams'[s] = "enabled" => streams[s] = "enabled"
               /\ streams[s] = "absent" => streams'[s] = "absent"
               /\ \/ refused_at'[s] = refused_at[s]
                  \/ /\ refused_at'[s] = received /\ streams'[s] = "disabled"
                     /\ UNCHANGED <<listener, dgram, sid>>
               /\ streams[s] = "disabled" => streams'[s] = "disabled"
    <2> DEFINE t == Head(to_server[w]).stream
    <2>1. /\ TakeFrom(w) /\ UNCHANGED <<listener, dgram, sid>>
          /\ \/ UNCHANGED streams \/ streams' = Disabled(t)
          /\ \/ UNCHANGED refused_at
             \/ /\ refused_at' = [refused_at EXCEPT ![t] = received]
                /\ streams' = Disabled(t)
      BY <1>3 DEF ServerReceives, ServerData, ServerRefused, listener_vars
    <2>2. t \in Streams /\ streams[t] # "absent"
      <3>1. Head(to_server[w]) \in Packet(Payload) /\ Head(to_server[w]) \in Values(to_server[w])
        BY <1>0, <2>1, TakenFrom
      <3> QED
        BY <1>0, <3>1, Packets DEF InUse
    <2> QED
      BY <1>1, <2>1, <2>2 DEF Disabled
  <1>4. ASSUME NEW e \in Endpoints, Recv(e) \/ FindStream(e) \/ SendInit(e) \/ Forward(e)
        PROVE  UNCHANGED <<streams, refused_at>>
    BY <1>4 DEF Recv, FindStream, SendInit, Forward, remote_vars
  <1>5. CASE UNCHANGED server_vars
    BY <1>5 DEF server_vars, remote_vars
  <1>6. CASE Others
    <2>1. UNCHANGED refused_at /\ (UNCHANGED streams \/ \E t \in Streams : streams' = Disabled(t))
      BY <1>6 DEF Others, OthersAdd, OthersRefuse
    <2> QED
      BY <1>1, <2>1 DEF Disabled
  <1> QED
    BY <1>1, <1>2, <1>3, <1>4, <1>5, <1>6, NextFrame DEF Frame

\* One step, one listener.
LEMMA OneListener ==
  ASSUME UInv, [Next]_vars, NEW e \in Endpoints, NEW f \in Endpoints, e # f,
         Recv(e) \/ FindStream(e) \/ SendInit(e) \/ AddRemote(e) \/ Forward(e)
  PROVE  UNCHANGED <<listener[f], dgram[f], sid[f]>>
  <1>0. /\ listener \in [Endpoints -> {"recv", "find", "init", "add", "send", "stopped"}]
        /\ dgram \in [Endpoints -> Datagram \union {NoDatagram}]
        /\ sid \in [Endpoints -> Streams \union {Other, NoStream}]
    BY DEF UInv, TypeOK
  <1>1. \E x : listener' = [listener EXCEPT ![e] = x]
    BY DEF Recv, FindStream, SendInit, AddRemote, Forward, To
  <1>2. UNCHANGED dgram \/ \E x : dgram' = [dgram EXCEPT ![e] = x]
    BY DEF Recv, FindStream, SendInit, AddRemote, Forward
  <1>3. UNCHANGED sid \/ \E x : sid' = [sid EXCEPT ![e] = x]
    BY DEF Recv, FindStream, SendInit, AddRemote, Forward
  <1> QED
    BY <1>0, <1>1, <1>2, <1>3

\* What a step does to a listener.
ListenerStep(e) ==
    \/ UNCHANGED <<listener[e], dgram[e], sid[e]>> /\ ~ Recv(e) /\ ~ FindStream(e)
    \/ /\ Recv(e) /\ listener[e] = "recv" /\ listener'[e] = "find" /\ UNCHANGED sid[e]
       /\ dgram'[e] \in Datagram /\ dgram'[e].endpoint = e
       /\ <<dgram'[e].peer, e>> \in Routes
       /\ dgram'[e].n = received + 1 /\ received' = received + 1
    \/ /\ FindStream(e) /\ listener[e] = "find" /\ UNCHANGED dgram[e]
       /\ Known(dgram[e].peer) \/ addrs_map[dgram[e].peer] = Other
       /\ listener'[e] = "send" /\ sid'[e] = addrs_map[dgram[e].peer]
    \/ /\ FindStream(e) /\ listener[e] = "find" /\ UNCHANGED dgram[e]
       /\ ~ Known(dgram[e].peer) /\ listener'[e] = "init" /\ sid'[e] = opened + 1
       /\ opened' = opened + 1 /\ info' = Append(info, <<dgram[e].peer, e>>)
    \/ /\ SendInit(e) /\ listener[e] = "init" /\ listener'[e] \in {"add", "stopped"}
       /\ UNCHANGED <<dgram[e], sid[e]>>
    \/ /\ AddRemote(e) /\ listener[e] = "add" /\ listener'[e] = "send"
       /\ UNCHANGED <<dgram[e], sid[e]>>
    \/ /\ Forward(e) /\ listener[e] = "send" /\ listener'[e] = "recv"
       /\ dgram'[e] = NoDatagram

LEMMA ListenerSteps ==
  ASSUME UInv, [Next]_vars, NEW e \in Endpoints
  PROVE  ListenerStep(e)
  <1>0. /\ TypeOK
        /\ listener \in [Endpoints -> {"recv", "find", "init", "add", "send", "stopped"}]
        /\ dgram \in [Endpoints -> Datagram \union {NoDatagram}]
        /\ sid \in [Endpoints -> Streams \union {Other, NoStream}]
        /\ received \in Nat /\ MaxDatagrams \in Nat
    BY Counts, OpenedStreams DEF UInv, TypeOK
  <1>1. ASSUME NEW f \in Endpoints, f # e,
               Recv(f) \/ FindStream(f) \/ SendInit(f) \/ AddRemote(f) \/ Forward(f)
        PROVE  UNCHANGED <<listener[e], dgram[e], sid[e]>>
    BY <1>1, OneListener
  <1>8. /\ Recv(e) => listener[e] = "recv" /\ listener'[e] = "find"
        /\ FindStream(e) => listener[e] = "find" /\ listener'[e] \in {"send", "init"}
    BY <1>0 DEF Recv, FindStream, To
  <1>2. CASE Recv(e)
    <2>1. PICK p \in Peers, empty \in BOOLEAN :
             /\ <<p, e>> \in Routes
             /\ dgram' = [dgram EXCEPT ![e] = [peer |-> p, endpoint |-> e, n |-> received + 1,
                                               empty |-> empty]]
      BY <1>2 DEF Recv
    <2>2. dgram'[e] = [peer |-> p, endpoint |-> e, n |-> received + 1, empty |-> empty]
      BY <1>0, <2>1
    <2>3. received + 1 \in 1 .. MaxDatagrams
      BY <1>0, <1>2 DEF Recv, TypeOK
    <2>4. dgram'[e] \in Datagram
      BY <2>2, <2>3 DEF Datagram
    <2>5. /\ listener[e] = "recv" /\ listener'[e] = "find" /\ UNCHANGED sid[e]
          /\ received' = received + 1
      BY <1>0, <1>2 DEF Recv, To
    <2> QED
      BY <1>2, <2>1, <2>2, <2>4, <2>5 DEF ListenerStep
  <1>3. CASE FindStream(e)
    <2>1. listener[e] = "find" /\ UNCHANGED dgram[e]
      BY <1>3 DEF FindStream
    <2>2. \/ /\ Known(dgram[e].peer) \/ addrs_map[dgram[e].peer] = Other
             /\ sid' = [sid EXCEPT ![e] = addrs_map[dgram[e].peer]]
             /\ listener' = [listener EXCEPT ![e] = "send"]
          \/ /\ ~ Known(dgram[e].peer) /\ sid' = [sid EXCEPT ![e] = opened + 1]
             /\ opened' = opened + 1 /\ info' = Append(info, <<dgram[e].peer, e>>)
             /\ listener' = [listener EXCEPT ![e] = "init"]
      BY <1>3 DEF FindStream, To
    <2> QED
      BY <1>0, <1>3, <2>1, <2>2 DEF ListenerStep
  <1>4. CASE SendInit(e)
    BY <1>0, <1>4 DEF SendInit, To, ListenerStep
  <1>5. CASE AddRemote(e)
    BY <1>0, <1>5 DEF AddRemote, To, ListenerStep
  <1>6. CASE Forward(e)
    BY <1>0, <1>6 DEF Forward, To, ListenerStep
  <1>7. CASE \/ \E w \in WebSocket : ServerReceives(w)
             \/ Others \/ UNCHANGED server_vars
    <2>1. UNCHANGED <<listener, dgram, sid>>
      BY <1>7 DEF ServerReceives, Others, OthersAdd, OthersRefuse, server_vars, listener_vars
    <2> QED
      BY <1>8, <2>1 DEF ListenerStep
  <1> QED
    BY <1>1, <1>2, <1>3, <1>4, <1>5, <1>6, <1>7, <1>8, NextFrame DEF Frame, ListenerStep

LEMMA NextListenerInv == UInv /\ [Next]_vars => ListenerInv'
  <1> SUFFICES ASSUME UInv, [Next]_vars, NEW e \in Endpoints
        PROVE  /\ dgram'[e].n \in 0 .. received'
               /\ Busy(e)' => /\ dgram'[e] \in Datagram /\ dgram'[e].endpoint = e
                              /\ <<dgram'[e].peer, e>> \in Routes
               /\ Opening(e)' \/ Sending(e)' =>
                     sid'[e] \in 1 .. opened' /\ info'[sid'[e]][1] = dgram'[e].peer
               /\ Opening(e)' => streams'[sid'[e]] = "absent"
               /\ Sending(e)' =>
                     /\ streams'[sid'[e]] # "absent"
                     /\ refused_at'[sid'[e]] # 0 => dgram'[e].n <= refused_at'[sid'[e]]
    BY DEF ListenerInv
  <1> USE DEF Busy, Opening, Sending
  <1>0. /\ TypeOK /\ Counted /\ Distinct /\ StreamInv
        /\ opened \in Nat /\ received \in Nat /\ 1 .. opened \subseteq Streams
    BY OpenedStreams DEF UInv
  <1>1. /\ dgram[e].n \in 0 .. received
        /\ Busy(e) => /\ dgram[e] \in Datagram /\ dgram[e].endpoint = e
                      /\ <<dgram[e].peer, e>> \in Routes
        /\ Opening(e) \/ Sending(e) =>
              sid[e] \in 1 .. opened /\ info[sid[e]][1] = dgram[e].peer
        /\ Opening(e) => streams[sid[e]] = "absent"
        /\ Sending(e) =>
              /\ streams[sid[e]] # "absent"
              /\ refused_at[sid[e]] # 0 => dgram[e].n <= refused_at[sid[e]]
    BY DEF UInv, ListenerInv
  <1>2. /\ received <= received' /\ received' \in Nat
        /\ \A s \in 1 .. opened : s \in 1 .. opened' /\ info'[s] = info[s]
    BY InfoSteps
  <1>3. CASE UNCHANGED <<dgram[e], sid[e]>> /\ (UNCHANGED listener[e] \/ SendInit(e))
    <2>1. \/ UNCHANGED listener[e]
          \/ listener[e] = "init" /\ listener'[e] \in {"add", "stopped"}
      BY <1>3, ListenerSteps DEF ListenerStep, SendInit
    <2>2. dgram'[e].n \in 0 .. received'
      BY <1>0, <1>1, <1>2, <1>3
    <2>3. Busy(e)' => /\ dgram'[e] \in Datagram /\ dgram'[e].endpoint = e
                      /\ <<dgram'[e].peer, e>> \in Routes
      BY <1>1, <1>3, <2>1
    <2>4. Opening(e)' \/ Sending(e)' =>
             sid'[e] \in 1 .. opened' /\ info'[sid'[e]][1] = dgram'[e].peer
      BY <1>1, <1>2, <1>3, <2>1
    <2>5. Opening(e)' => streams'[sid'[e]] = "absent"
      <3> SUFFICES ASSUME Opening(e)', streams'[sid[e]] # "absent" PROVE FALSE
        BY <1>3
      <3>1. Opening(e) /\ sid[e] \in Streams /\ streams[sid[e]] = "absent"
        BY <1>0, <1>1, <2>1
      <3>2. PICK f \in Endpoints : AddRemote(f) /\ sid[e] = sid[f]
        BY <3>1, StreamSteps
      <3>3. listener[f] = "add"
        BY <3>2 DEF AddRemote
      <3>4. f = e
        BY <1>0, <3>1, <3>2, <3>3 DEF Distinct
      <3>5. listener'[e] = "send"
        BY <1>0, <3>2, <3>4 DEF AddRemote, To, TypeOK
      <3> QED
        BY <3>5
    <2>6. Sending(e)' =>
             /\ streams'[sid'[e]] # "absent"
             /\ refused_at'[sid'[e]] # 0 => dgram'[e].n <= refused_at'[sid'[e]]
      <3> SUFFICES ASSUME Sending(e)'
            PROVE  /\ streams'[sid[e]] # "absent"
                   /\ refused_at'[sid[e]] # 0 => dgram[e].n <= refused_at'[sid[e]]
        BY <1>3
      <3>1. Sending(e) /\ sid[e] \in Streams
        BY <1>0, <1>1, <1>3, <2>1
      <3>2. refused_at'[sid[e]] = refused_at[sid[e]] \/ refused_at'[sid[e]] = received
        BY <3>1, StreamSteps
      <3> QED
        BY <1>0, <1>1, <3>1, <3>2, StreamSteps
    <2> QED
      BY <2>2, <2>3, <2>4, <2>5, <2>6
  <1>4. CASE /\ Recv(e) /\ listener[e] = "recv" /\ listener'[e] = "find" /\ UNCHANGED sid[e]
             /\ dgram'[e] \in Datagram /\ dgram'[e].endpoint = e
             /\ <<dgram'[e].peer, e>> \in Routes
             /\ dgram'[e].n = received + 1 /\ received' = received + 1
    BY <1>0, <1>4
  <1>5. CASE FindStream(e) /\ listener[e] = "find" /\ UNCHANGED dgram[e]
    <2> DEFINE p == dgram[e].peer
    <2>1. dgram[e] \in Datagram /\ p \in Peers
      BY <1>1, <1>5 DEF Datagram
    <2>2. UNCHANGED <<streams, refused_at, received>>
      BY <1>5 DEF FindStream, remote_vars
    <2>5. CASE addrs_map[p] = Other /\ listener'[e] = "send" /\ sid'[e] = addrs_map[p]
      BY <1>0, <1>1, <1>2, <1>5, <2>5
    <2>3. CASE Known(p) /\ listener'[e] = "send" /\ sid'[e] = addrs_map[p]
      <3>1. sid'[e] \in Streams /\ streams[sid'[e]] = "enabled"
        BY <2>3 DEF Known
      <3>3. sid'[e] \in 1 .. opened /\ info[sid'[e]][1] = p /\ refused_at[sid'[e]] = 0
        BY <1>0, <2>1, <2>3, <3>1 DEF StreamInv
      <3> QED
        BY <1>1, <1>2, <1>5, <2>1, <2>2, <2>3, <3>1, <3>3
    <2>4. CASE /\ listener'[e] = "init" /\ sid'[e] = opened + 1
               /\ opened' = opened + 1 /\ info' = Append(info, <<p, e>>)
      <3>1. opened + 1 \in Streams /\ opened + 1 \notin 1 .. opened
        BY <1>0, <1>5, Room
      <3>2. streams[opened + 1] = "absent"
        BY <1>0, <3>1 DEF StreamInv
      <3>3. info'[opened + 1] = <<p, e>>
        <4>1. info \in [1 .. opened -> Peers \X Endpoints]
          BY <1>0 DEF TypeOK
        <4> QED
          BY <1>0, <2>1, <2>4, <4>1, InfoGrows
      <3>4. sid'[e] \in 1 .. opened' /\ info'[sid'[e]][1] = p
        <4>1. opened + 1 \in 1 .. opened + 1
          BY <1>0
        <4>2. <<p, e>>[1] = p
          OBVIOUS
        <4> QED
          BY <2>4, <3>3, <4>1, <4>2
      <3>5. streams'[sid'[e]] = "absent"
        BY <2>2, <2>4, <3>2
      <3>6. dgram'[e].n \in 0 .. received'
        BY <1>0, <1>1, <1>2, <1>5
      <3> QED
        BY <1>1, <1>5, <2>4, <3>4, <3>5, <3>6
    <2> QED
      BY <1>5, <2>3, <2>4, <2>5, ListenerSteps DEF ListenerStep
  <1>6. CASE /\ AddRemote(e) /\ listener[e] = "add" /\ listener'[e] = "send"
             /\ UNCHANGED <<dgram[e], sid[e]>>
    <2>1. sid[e] \in Streams /\ streams[sid[e]] = "absent"
      BY <1>0, <1>1, <1>6
    <2>2. streams'[sid[e]] = "enabled" /\ UNCHANGED refused_at
      BY <1>0, <1>6, <2>1 DEF AddRemote, TypeOK
    <2>3. refused_at[sid[e]] = 0
      BY <1>0, <2>1 DEF StreamInv
    <2>4. dgram'[e].n \in 0 .. received'
      BY <1>0, <1>1, <1>2, <1>6
    <2>5. sid'[e] \in 1 .. opened' /\ info'[sid'[e]][1] = dgram'[e].peer
      BY <1>1, <1>2, <1>6
    <2>6. streams'[sid'[e]] # "absent" /\ refused_at'[sid'[e]] = 0
      BY <1>6, <2>2, <2>3
    <2> QED
      BY <1>1, <1>6, <2>4, <2>5, <2>6
  <1>7. CASE listener'[e] = "recv" /\ dgram'[e] = NoDatagram
    BY <1>2, <1>7 DEF NoDatagram
  <1> QED
    BY <1>3, <1>4, <1>5, <1>6, <1>7, ListenerSteps DEF ListenerStep

LEMMA NextDistinct == UInv /\ [Next]_vars => Distinct'
  <1> SUFFICES ASSUME UInv, [Next]_vars, NEW e \in Endpoints, NEW f \in Endpoints,
                      Opening(e)', Opening(f)', sid'[e] = sid'[f], e # f
        PROVE  FALSE
    BY DEF Distinct
  <1> USE DEF Opening
  <1>0. /\ Distinct /\ ListenerInv /\ opened \in Nat /\ opened + 1 \notin 1 .. opened
    BY OpenedStreams DEF UInv
  <1>1. ASSUME NEW g \in Endpoints, Opening(g)'
        PROVE  \/ Opening(g) /\ UNCHANGED sid[g]
               \/ FindStream(g) /\ sid'[g] = opened + 1
    BY <1>1, ListenerSteps DEF ListenerStep
  <1>2. \A g \in Endpoints : Opening(g) => sid[g] \in 1 .. opened
    BY <1>0 DEF ListenerInv
  <1>3. CASE Opening(e) /\ UNCHANGED sid[e] /\ Opening(f) /\ UNCHANGED sid[f]
    BY <1>0, <1>3 DEF Distinct
  <1>4. CASE FindStream(e) /\ sid'[e] = opened + 1
    <2>1. UNCHANGED <<listener[f], sid[f]>>
      BY <1>4, OneListener
    <2> QED
      BY <1>0, <1>2, <1>4, <2>1
  <1>5. CASE FindStream(f) /\ sid'[f] = opened + 1
    <2>1. UNCHANGED <<listener[e], sid[e]>>
      BY <1>5, OneListener
    <2> QED
      BY <1>0, <1>2, <1>5, <2>1
  <1> QED
    BY <1>1, <1>3, <1>4, <1>5

LEMMA NextStreamInv == UInv /\ [Next]_vars => StreamInv'
  <1> SUFFICES ASSUME UInv, [Next]_vars PROVE StreamInv'
    OBVIOUS
  <1>0. /\ TypeOK /\ Counted /\ StreamInv /\ ListenerInv
        /\ opened \in Nat /\ received \in Nat /\ 1 .. opened \subseteq Streams
        /\ streams \in [Streams -> {"absent", "enabled", "disabled"}]
        /\ addrs_map \in [Peers -> Streams \union {Other, NoStream}]
    BY OpenedStreams DEF UInv, TypeOK
  <1>1. \A s \in 1 .. opened : s \in 1 .. opened' /\ info'[s] = info[s]
    BY InfoSteps
  <1>2. ASSUME NEW e \in Endpoints, AddRemote(e)
        PROVE  /\ sid[e] \in 1 .. opened /\ info[sid[e]][1] = dgram[e].peer
               /\ dgram[e].peer \in Peers
               /\ streams' = [streams EXCEPT ![sid[e]] = "enabled"]
               /\ addrs_map' = [addrs_map EXCEPT ![dgram[e].peer] = sid[e]]
    <2>1. /\ listener[e] = "add"
          /\ streams' = [streams EXCEPT ![sid[e]] = "enabled"]
          /\ addrs_map' = [addrs_map EXCEPT ![dgram[e].peer] = sid[e]]
      BY <1>2 DEF AddRemote
    <2>2. /\ sid[e] \in 1 .. opened /\ info[sid[e]][1] = dgram[e].peer
          /\ dgram[e] \in Datagram
      BY <1>0, <2>1 DEF ListenerInv, Opening, Busy
    <2> QED
      BY <2>1, <2>2 DEF Datagram
  <1>3. ASSUME NEW s \in Streams, streams'[s] # "absent" PROVE s \in 1 .. opened'
    <2>1. CASE streams[s] # "absent"
      BY <1>0, <1>1, <2>1 DEF StreamInv
    <2>2. CASE streams[s] = "absent"
      <3>1. PICK e \in Endpoints : AddRemote(e) /\ s = sid[e]
        BY <1>3, <2>2, StreamSteps
      <3> QED
        BY <1>1, <1>2, <3>1
    <2> QED
      BY <2>1, <2>2
  <1>4. ASSUME NEW s \in Streams, refused_at'[s] # 0 PROVE streams'[s] = "disabled"
    <2>1. CASE refused_at'[s] = refused_at[s]
      <3>1. streams[s] = "disabled"
        BY <1>0, <1>4, <2>1 DEF StreamInv
      <3> QED
        BY <3>1, StreamSteps
    <2> QED
      BY <2>1, StreamSteps
  <1>5. ASSUME NEW s \in 1 .. opened' PROVE info'[s] \in Routes
    <2>1. CASE s \in 1 .. opened
      BY <1>0, <1>1, <2>1 DEF StreamInv
    <2>2. CASE s \notin 1 .. opened
      <3>1. opened' # opened
        BY <1>5, <2>2
      <3>2. PICK e \in Endpoints : FindStream(e)
        BY <3>1, NextFrame DEF Frame, server_vars, listener_vars, ServerReceives, Others, OthersAdd,
           OthersRefuse, Recv, SendInit, AddRemote, Forward
      <3>3. /\ listener[e] = "find" /\ opened' = opened + 1
            /\ info' = Append(info, <<dgram[e].peer, e>>)
        BY <3>1, <3>2 DEF FindStream
      <3>4. <<dgram[e].peer, e>> \in Routes /\ dgram[e].peer \in Peers
        BY <1>0, <3>3 DEF ListenerInv, Busy, Datagram
      <3>5. info'[opened + 1] = <<dgram[e].peer, e>>
        <4>1. info \in [1 .. opened -> Peers \X Endpoints]
          BY <1>0 DEF TypeOK
        <4> QED
          BY <1>0, <3>3, <3>4, <4>1, InfoGrows
      <3>6. s = opened + 1
        BY <1>0, <1>5, <2>2, <3>3
      <3> QED
        BY <3>4, <3>5, <3>6
    <2> QED
      BY <2>1, <2>2
  <1>6. ASSUME NEW p \in Peers, addrs_map'[p] \in Streams
        PROVE  streams'[addrs_map'[p]] # "absent" /\ info'[addrs_map'[p]][1] = p
    <2>1. CASE addrs_map'[p] = addrs_map[p]
      <3>1. /\ addrs_map[p] \in Streams /\ streams[addrs_map[p]] # "absent"
            /\ info[addrs_map[p]][1] = p
        BY <1>0, <1>6, <2>1 DEF StreamInv
      <3>2. addrs_map[p] \in 1 .. opened
        BY <1>0, <3>1 DEF StreamInv
      <3> QED
        BY <1>1, <2>1, <3>1, <3>2, StreamSteps
    <2>2. CASE addrs_map'[p] # addrs_map[p]
      <3>0. ~ Others
        BY <1>0, <1>6, <2>2, Counts DEF Others, OthersAdd, OthersRefuse
      <3>1. PICK e \in Endpoints : AddRemote(e)
        BY <2>2, <3>0, NextFrame DEF Frame, server_vars, remote_vars, ServerReceives, Recv, SendInit,
           FindStream, Forward
      <3>2. p = dgram[e].peer /\ addrs_map'[p] = sid[e]
        BY <1>0, <1>2, <2>2, <3>1
      <3>3. streams'[sid[e]] = "enabled"
        BY <1>0, <1>2, <3>1
      <3> QED
        BY <1>1, <1>2, <3>1, <3>2, <3>3
    <2> QED
      BY <2>1, <2>2
  <1> QED
    BY <1>3, <1>4, <1>5, <1>6 DEF StreamInv

LEMMA NextCounted == UInv /\ [Next]_vars => Counted'
  <1> SUFFICES ASSUME UInv, [Next]_vars PROVE Counted'
    OBVIOUS
  <1> DEFINE F == {e \in Endpoints : listener'[e] = "find"}
  <1> SUFFICES IsFiniteSet(F) /\ opened' + Cardinality(F) <= received'
    BY DEF Counted, Finding
  <1>0. /\ IsFiniteSet(Finding) /\ opened + Cardinality(Finding) <= received
        /\ Cardinality(Finding) \in Nat /\ opened \in Nat /\ received \in Nat
    BY OpenedStreams, FS_CardinalityType DEF UInv, Counted
  <1>1. CASE \E e \in Endpoints : Recv(e)
    <2>1. PICK e \in Endpoints : Recv(e)
      BY <1>1
    <2>2. /\ listener[e] = "recv" /\ listener'[e] = "find"
          /\ received' = received + 1 /\ opened' = opened
      BY <2>1, ListenerSteps DEF ListenerStep, Recv, FindStream
    <2>3. \A f \in Endpoints : f # e => listener'[f] = listener[f]
      BY <2>1, OneListener
    <2>4. F = Finding \union {e} /\ e \notin Finding
      BY <2>2, <2>3 DEF Finding
    <2>5. IsFiniteSet(F) /\ Cardinality(F) = Cardinality(Finding) + 1
      BY <1>0, <2>4, FS_AddElement
    <2> QED
      BY <1>0, <2>2, <2>5
  <1>2. CASE \E e \in Endpoints : FindStream(e)
    <2>1. PICK e \in Endpoints : FindStream(e)
      BY <1>2
    <2>2. /\ listener[e] = "find" /\ listener'[e] # "find"
          /\ received' = received /\ (opened' = opened \/ opened' = opened + 1)
      BY <2>1, ListenerSteps DEF ListenerStep, Recv, FindStream
    <2>3. \A f \in Endpoints : f # e => listener'[f] = listener[f]
      BY <2>1, OneListener
    <2>4. F = Finding \ {e} /\ e \in Finding
      BY <2>2, <2>3 DEF Finding
    <2>5. IsFiniteSet(F) /\ Cardinality(F) = Cardinality(Finding) - 1
      BY <1>0, <2>4, FS_RemoveElement
    <2> QED
      BY <1>0, <2>2, <2>5
  <1>3. CASE ~ (\E e \in Endpoints : Recv(e) \/ FindStream(e))
    <2>1. \A e \in Endpoints : listener'[e] = "find" <=> listener[e] = "find"
      BY <1>3, ListenerSteps DEF ListenerStep
    <2>2. F = Finding
      BY <2>1 DEF Finding
    <2>3. opened' = opened /\ received' = received
      BY <1>3, NextFrame DEF Frame, server_vars, listener_vars, ServerReceives, Others, OthersAdd,
         OthersRefuse, SendInit, AddRemote, Forward
    <2> QED
      BY <1>0, <2>2, <2>3
  <1> QED
    BY <1>1, <1>2, <1>3

\* What a stream carries it may go on carrying.
LEMMA FitsKept ==
  ASSUME UInv, [Next]_vars, NEW s \in Streams, NEW d, Fits(s, d)
  PROVE  Fits(s, d)'
  <1> DEFINE e == d.endpoint
  <1>0. /\ TypeOK /\ ListenerInv /\ StreamInv /\ opened \in Nat /\ received \in Nat
        /\ \A t \in Streams : refused_at[t] \in Nat
    BY OpenedStreams DEF UInv, TypeOK
  <1>1. /\ d \in Datagram /\ <<d.peer, d.endpoint>> \in Routes
        /\ streams[s] # "absent" /\ d.peer = info[s][1]
        /\ d.n <= received /\ (Busy(e) => d.n < dgram[e].n)
        /\ refused_at[s] # 0 => d.n <= refused_at[s]
    BY DEF Fits
  <1>2. e \in Endpoints /\ d.n \in Nat
    BY <1>1, Counts DEF Datagram
  <1>3. dgram[e].n \in 0 .. received
    BY <1>0, <1>2 DEF ListenerInv
  <1>4. streams'[s] # "absent"
    BY <1>1, StreamSteps
  <1>5. d.peer = info'[s][1]
    <2>1. s \in 1 .. opened
      BY <1>0, <1>1 DEF StreamInv
    <2> QED
      BY <1>1, <2>1, InfoSteps
  <1>6. Busy(e)' => d.n < dgram'[e].n
    <2>1. CASE UNCHANGED dgram[e]
      <3>0. dgram'[e].n # received + 1
        BY <1>0, <1>3, <2>1
      <3>1. Busy(e)' => Busy(e)
        BY <1>2, <3>0, ListenerSteps DEF ListenerStep, Busy
      <3> QED
        BY <1>1, <2>1, <3>1
    <2>2. CASE dgram'[e].n = received + 1
      BY <1>0, <1>1, <1>2, <1>3, <2>2
    <2>3. CASE listener'[e] = "recv"
      BY <2>3 DEF Busy
    <2> QED
      BY <1>2, <2>1, <2>2, <2>3, ListenerSteps DEF ListenerStep
  <1>7. refused_at'[s] # 0 => d.n <= refused_at'[s]
    <2>1. refused_at'[s] = refused_at[s] \/ refused_at'[s] = received
      BY StreamSteps
    <2> QED
      BY <1>0, <1>1, <1>2, <1>3, <2>1
  <1>8. d.n <= received'
    BY <1>0, <1>1, <1>2, InfoSteps
  <1> QED
    BY <1>1, <1>4, <1>5, <1>6, <1>7, <1>8 DEF Fits

\* What a step does to the channel to the client.
Forwards(e) == Forward(e) /\ sid[e] # Other
ToClientStep ==
    \/ UNCHANGED to_client
    \/ to_client' = <<>>
    \/ to_client # <<>> /\ to_client' = Tail(to_client)
    \/ \E e \in Endpoints : SendInit(e) /\ to_client' = Append(to_client, Init_(sid[e]))
    \/ \E e \in Endpoints : Forwards(e) /\ to_client' = Append(to_client, End(sid[e]))
    \/ \E e \in Endpoints : Forwards(e) /\ to_client' = Append(to_client, Data(sid[e], dgram[e]))

LEMMA ToClientSteps == [Next]_vars => ToClientStep
  <1> SUFFICES ASSUME [Next]_vars PROVE ToClientStep
    OBVIOUS
  <1> USE DEF ToClientStep
  <1>1. CASE ClientInit \/ ClientEnd
    BY <1>1 DEF ClientInit, ClientEnd, Arrives, HandleEnd
  <1>2. CASE ClientData
    BY <1>2 DEF ClientData, Arrives, HandleData, SessionEnds
  <1>3. CASE ClientInitFails \/ ConnectionLost \/ Reconnect
    BY <1>3 DEF ClientInitFails, ConnectionLost, Breaks, Reconnect, Reconnecting, TakeOver, Enter,
                AddClient, SessionEnds, chan_vars
  <1>4. ASSUME NEW e \in Endpoints, SendInit(e) PROVE ToClientStep
    BY <1>4 DEF SendInit, SendToClient, SendToClientFails
  <1>5. ASSUME NEW e \in Endpoints, Forward(e) PROVE ToClientStep
    <2>1. \/ UNCHANGED to_client
          \/ /\ sid[e] # Other
             /\ \/ to_client' = Append(to_client, End(sid[e]))
                \/ to_client' = Append(to_client, Data(sid[e], dgram[e]))
      BY <1>5 DEF Forward, SendToClient, SendToClientFails
    <2> QED
      BY <1>5, <2>1 DEF Forwards
  <1> QED
    BY <1>1, <1>2, <1>3, <1>4, <1>5, NextFrame DEF Frame

\* What a step does to the queue of a stream and to what its socket has got.
QueueStep(s) ==
    \/ UNCHANGED <<queue[s], lgot[s]>>
    \/ /\ to_client # <<>> /\ Head(to_client).type = "Data" /\ Head(to_client).stream = s
       /\ to_client' = Tail(to_client) /\ UNCHANGED lgot[s]
       /\ queue'[s] = Append(queue[s], Head(to_client).data)
    \/ /\ "sleep" \in closer[s] /\ UNCHANGED <<to_client, lgot[s]>>
       /\ queue'[s] = Append(queue[s], Close)
    \/ /\ queue[s] # <<>> /\ Head(queue[s]) # Close /\ queue'[s] = Tail(queue[s])
       /\ UNCHANGED to_client
       /\ UNCHANGED lgot[s] \/ lgot'[s] = Append(lgot[s], Head(queue[s]))

LEMMA QueueSteps ==
  ASSUME TypeOK, [Next]_vars, NEW s \in Streams
  PROVE  QueueStep(s)
  <1> USE DEF QueueStep
  <1>0. /\ queue \in [Streams -> Seq(Payload \union {Close})]
        /\ lgot \in [Streams -> Seq(Datagram)]
    BY TypeParts
  <1>1. CASE UNCHANGED <<queue, lgot, closer>>
    BY <1>1
  <1>2. CASE ClientEnd
    BY <1>2 DEF ClientEnd, HandleEnd, local_vars
  <1>3. CASE ClientData
    <2>1. /\ to_client # <<>> /\ Head(to_client).type = "Data" /\ UNCHANGED lgot
          /\ \/ UNCHANGED queue
             \/ /\ queue' = [queue EXCEPT ![Head(to_client).stream] = Append(@, Head(to_client).data)]
                /\ to_client' = Tail(to_client)
      BY <1>3 DEF ClientData, Arrives, HandleData, local_vars
    <2>2. CASE UNCHANGED queue
      BY <2>1, <2>2
    <2>3. CASE Head(to_client).stream = s /\ to_client' = Tail(to_client)
               /\ queue' = [queue EXCEPT ![s] = Append(@, Head(to_client).data)]
      BY <1>0, <2>1, <2>3
    <2>4. CASE Head(to_client).stream # s
      BY <1>0, <2>1, <2>4
    <2> QED
      BY <2>1, <2>2, <2>3, <2>4
  <1>4. ASSUME NEW t \in Streams, Closer(t) PROVE QueueStep(s)
    <2>1. /\ UNCHANGED <<to_client, lgot>>
          /\ \/ UNCHANGED queue
             \/ "sleep" \in closer[t] /\ queue' = [queue EXCEPT ![t] = Append(@, Close)]
      <3>1. UNCHANGED <<to_client, lgot>>
        BY <1>4 DEF Closer, chan_vars, local_vars
      <3>2. CASE CloserRemoves(t)
        BY <3>1, <3>2 DEF CloserRemoves
      <3>3. CASE CloserCloses(t)
        <4>1. CASE local_write[t] = "running"
          BY <3>1, <3>3, <4>1 DEF CloserCloses
        <4>2. CASE local_write[t] # "running"
          <5>1. queue' = [queue EXCEPT ![t] = @]
            BY <3>3, <4>2 DEF CloserCloses
          <5>2. queue' = queue
            BY <1>0, <5>1
          <5> QED
            BY <3>1, <5>2
        <4> QED
          BY <4>1, <4>2
      <3> QED
        BY <1>4, <3>2, <3>3 DEF Closer
    <2> QED
      BY <1>0, <2>1
  <1>5. ASSUME NEW t \in Streams, SendLocal(t) \/ SendLocalFails(t) PROVE QueueStep(s)
    <2>1. /\ queue[t] # <<>> /\ Head(queue[t]) # Close /\ UNCHANGED to_client
          /\ queue' = [queue EXCEPT ![t] = Tail(@)]
          /\ UNCHANGED lgot \/ lgot' = [lgot EXCEPT ![t] = Append(@, Head(queue[t]))]
      BY <1>5 DEF SendLocal, SendLocalFails, HasData, Rest, chan_vars
    <2>2. CASE t = s
      BY <1>0, <2>1, <2>2
    <2>3. CASE t # s
      BY <1>0, <2>1, <2>3
    <2> QED
      BY <2>2, <2>3
  <1> QED
    BY <1>1, <1>2, <1>3, <1>4, <1>5, NextFrame DEF Frame

LEMMA CloserSteps ==
  ASSUME TypeOK, [Next]_vars, NEW s \in Streams, closer'[s] # {}
  PROVE  \/ closer[s] # {}
         \/ to_client # <<>> /\ Head(to_client).type = "End" /\ Head(to_client).stream = s
  <1>0. closer \in [Streams -> SUBSET {"remove", "sleep"}]
    BY DEF TypeOK, StoreTypeOK
  <1>1. CASE ClientEnd
    BY <1>0, <1>1 DEF ClientEnd, Arrives, HandleEnd
  <1>2. ASSUME NEW t \in Streams, Closer(t) PROVE closer[s] # {}
    BY <1>0, <1>2 DEF Closer, CloserRemoves, CloserCloses
  <1>3. ASSUME NEW t \in Streams, SendLocal(t) \/ SendLocalFails(t) PROVE closer[s] # {}
    BY <1>3 DEF SendLocal, SendLocalFails
  <1>4. CASE ClientData
    BY <1>4 DEF ClientData, HandleData
  <1> QED
    BY <1>1, <1>2, <1>3, <1>4, NextFrame DEF Frame

\* What a step does to a channel to the server.
LEMMA ToServerSteps ==
  ASSUME TypeOK, [Next]_vars, NEW w \in WebSocket
  PROVE  \/ UNCHANGED to_server[w]
         \/ to_server'[w] = <<>>
         \/ to_server[w] # <<>> /\ to_server'[w] = Tail(to_server[w])
         \/ /\ to_client # <<>> /\ Head(to_client).type = "Data"
            /\ to_server'[w] = Append(to_server[w], Refused(Head(to_client).stream))
         \/ \E s \in Streams :
               /\ lgot[s] # <<>>
               /\ \E x \in Payload : to_server'[w] = Append(to_server[w], Data(s, x))
  <1>0. to_server \in Channels /\ slot \in WebSocket
    BY TypeParts
  <1>1. ASSUME NEW v \in WebSocket, ServerReceives(v)
        PROVE  \/ UNCHANGED to_server[w]
               \/ to_server[w] # <<>> /\ to_server'[w] = Tail(to_server[w])
    BY <1>0, <1>1 DEF ServerReceives, TakeFrom, Channels
  <1>2. ASSUME NEW p, SendToServer(p)
        PROVE  UNCHANGED to_server[w] \/ to_server'[w] = Append(to_server[w], p)
    BY <1>0, <1>2 DEF SendToServer, Channels
  <1>3. CASE ClientData
    <2>1. /\ to_client # <<>> /\ Head(to_client).type = "Data"
          /\ UNCHANGED to_server \/ SendToServer(Refused(Head(to_client).stream))
      BY <1>3 DEF ClientData, Arrives, HandleData, SendToServerFails
    <2> QED
      BY <1>2, <2>1
  <1>4. CASE Reconnect
    <2>1. UNCHANGED to_server
          \/ \E on : to_server' = [v \in WebSocket |-> IF v \in on THEN to_server[v] ELSE <<>>]
      BY <1>4 DEF Reconnect, Reconnecting, TakeOver, Enter, AddClient, chan_vars
    <2> QED
      BY <1>0, <2>1
  <1>5. ASSUME NEW s \in Streams, ReadReply(s)
        PROVE  /\ lgot[s] # <<>>
               /\ \/ UNCHANGED to_server
                  \/ \E x \in Payload : SendToServer(Data(s, x))
    <2>1. replies + 1 \in 1 .. MaxReplies
      BY <1>5, RepliesAssumption DEF ReadReply, TypeOK
    <2>2. [n |-> replies + 1] \in Payload
      BY <2>1 DEF Reply, Payload
    <2> QED
      BY <1>5, <2>2 DEF ReadReply
  <1>6. ASSUME NEW s \in Streams, ReadReply(s)
        PROVE  /\ lgot[s] # <<>>
               /\ \/ UNCHANGED to_server[w]
                  \/ \E x \in Payload : to_server'[w] = Append(to_server[w], Data(s, x))
    BY <1>2, <1>5, <1>6
  <1>7. ASSUME NEW v \in WebSocket, ServerLoopEnds(v)
        PROVE  UNCHANGED to_server[w] \/ to_server'[w] = <<>>
    BY <1>0, <1>7 DEF ServerLoopEnds, LoopEnds, Channels
  <1> QED
    BY <1>1, <1>3, <1>4, <1>6, <1>7, NextFrame DEF Frame

\* What a listener forwards fits the stream it has found.
LEMMA Forwarded ==
  ASSUME UInv, [Next]_vars, NEW e \in Endpoints, Forwards(e),
         NEW s, NEW d, s = sid[e], d = dgram[e]
  PROVE  s \in Streams /\ d \in Datagram /\ streams'[s] # "absent" /\ Fits(s, d)'
  <1>0. /\ TypeOK /\ ListenerInv /\ StreamInv /\ opened \in Nat
        /\ 1 .. opened \subseteq Streams
    BY OpenedStreams DEF UInv
  <1>1. /\ Sending(e) /\ UNCHANGED <<received, opened, info>>
        /\ UNCHANGED <<streams, addrs_map, refused_at>>
        /\ listener[e] = "send" /\ listener'[e] = "recv"
    BY <1>0 DEF Forwards, Forward, Sending, To, remote_vars, TypeOK
  <1>2. /\ d \in Datagram /\ d.n \in 0 .. received /\ d.endpoint = e /\ <<d.peer, e>> \in Routes
        /\ s \in 1 .. opened /\ info[s][1] = d.peer /\ streams[s] # "absent"
        /\ refused_at[s] # 0 => d.n <= refused_at[s]
    BY <1>0, <1>1 DEF ListenerInv, Busy
  <1>4. d.n <= received' /\ ~ Busy(d.endpoint)'
    BY <1>1, <1>2 DEF Busy
  <1>5. s \in Streams
    BY <1>0, <1>2
  <1> QED
    BY <1>1, <1>2, <1>4, <1>5 DEF Fits

LEMMA RightfulKept ==
  ASSUME UInv, [Next]_vars, NEW p \in Packet(Payload), Rightful(p)
  PROVE  Rightful(p)'
  <1>1. p.stream \in Streams
    BY Packets
  <1>2. p.type = "Data" => Fits(p.stream, p.data)'
    BY <1>1, FitsKept DEF Rightful
  <1>3. p.type = "End" => streams'[p.stream] # "absent"
    BY <1>1, StreamSteps DEF Rightful
  <1> QED
    BY <1>2, <1>3 DEF Rightful

LEMMA NextInUse == UInv /\ [Next]_vars => InUse'
  <1> SUFFICES ASSUME UInv, [Next]_vars PROVE InUse'
    OBVIOUS
  <1>0. /\ TypeOK /\ InUse
        /\ to_client \in Seq(Packet(Payload))
        /\ queue \in [Streams -> Seq(Payload \union {Close})]
        /\ lgot \in [Streams -> Seq(Datagram)]
        /\ Values(to_client) \subseteq Packet(Payload)
        /\ \A w \in WebSocket : /\ to_server[w] \in Seq(Packet(Payload))
                               /\ Values(to_server[w]) \subseteq Packet(Payload)
    BY TypeParts, ValuesParts DEF UInv, Channels
  <1>1. /\ \A p \in Values(to_client) : Rightful(p)
        /\ \A w \in WebSocket : \A p \in Values(to_server[w]) : streams[p.stream] # "absent"
        /\ \A s \in Streams :
              /\ \A d \in Values(queue[s]) \ {Close} : Fits(s, d)
              /\ \A d \in Delivered(s) : Fits(s, d)
              /\ queue[s] # <<>> \/ closer[s] # {} => streams[s] # "absent"
    BY <1>0 DEF InUse
  <1>2. to_client # <<>> => /\ Head(to_client) \in Values(to_client)
                            /\ Head(to_client).stream \in Streams
                            /\ Head(to_client).data \in Payload \union {Close}
    BY <1>0, ValuesParts, Packets
  <1>3. ASSUME NEW p \in Values(to_client') PROVE Rightful(p)'
    <2>1. CASE p \in Values(to_client)
      BY <1>0, <1>1, <2>1, RightfulKept
    <2>2. CASE p \notin Values(to_client)
      <3>1. ASSUME NEW x \in Packet(Payload), to_client' = Append(to_client, x) PROVE p = x
        BY <1>0, <1>3, <2>2, <3>1, ValuesParts
      <3>2. CASE UNCHANGED to_client
        BY <1>3, <2>2, <3>2
      <3>3. CASE to_client' = <<>>
        BY <1>3, <3>3 DEF Values
      <3>4. CASE to_client # <<>> /\ to_client' = Tail(to_client)
        BY <1>0, <1>3, <2>2, <3>4, ValuesParts
      <3>5. ASSUME NEW e \in Endpoints, SendInit(e), to_client' = Append(to_client, Init_(sid[e]))
            PROVE  Rightful(p)'
        <4>1. sid[e] \in Streams
          BY <3>5, OpenedStreams DEF SendInit, UInv, ListenerInv, Opening
        <4>2. p.type = "Init"
          BY <3>1, <3>5, <4>1, Packets DEF Init_
        <4> QED
          BY <4>2 DEF Rightful
      <3>6. ASSUME NEW e \in Endpoints, Forwards(e), to_client' = Append(to_client, End(sid[e]))
            PROVE  Rightful(p)'
        <4>1. sid[e] \in Streams /\ streams'[sid[e]] # "absent"
          BY <3>6, Forwarded
        <4>2. p.type = "End" /\ p.stream = sid[e]
          BY <3>1, <3>6, <4>1, Packets DEF End
        <4> QED
          BY <4>1, <4>2 DEF Rightful
      <3>7. ASSUME NEW e \in Endpoints, Forwards(e),
                   to_client' = Append(to_client, Data(sid[e], dgram[e]))
            PROVE  Rightful(p)'
        <4>1. sid[e] \in Streams /\ dgram[e] \in Payload
          BY <3>7, Forwarded DEF Payload
        <4>2. p.type = "Data" /\ p.stream = sid[e] /\ p.data = dgram[e]
          BY <3>1, <3>7, <4>1, Packets DEF Data
        <4>3. Fits(p.stream, p.data)'
          BY <3>7, <4>2, Forwarded
        <4> QED
          BY <4>2, <4>3 DEF Rightful
      <3> QED
        BY <3>2, <3>3, <3>4, <3>5, <3>6, <3>7, ToClientSteps DEF ToClientStep
    <2> QED
      BY <2>1, <2>2
  <1>4. ASSUME NEW w \in WebSocket, NEW p \in Values(to_server'[w]) PROVE streams'[p.stream] # "absent"
    <2>1. CASE p \in Values(to_server[w])
      <3>1. p \in Packet(Payload)
        BY <1>0, <2>1, ValuesParts
      <3>2. p.stream \in Streams
        BY <3>1, Packets
      <3>3. streams[p.stream] # "absent"
        BY <1>1, <2>1
      <3> QED
        BY <3>2, <3>3, StreamSteps
    <2>2. CASE p \notin Values(to_server[w])
      <3>1. ASSUME NEW x \in Packet(Payload), to_server'[w] = Append(to_server[w], x) PROVE p = x
        BY <1>0, <1>4, <2>2, <3>1, ValuesParts
      <3>2. CASE UNCHANGED to_server[w]
        BY <1>4, <2>2, <3>2
      <3>3. CASE to_server'[w] = <<>>
        BY <1>4, <3>3 DEF Values
      <3>4. CASE to_server[w] # <<>> /\ to_server'[w] = Tail(to_server[w])
        BY <1>0, <1>4, <2>2, <3>4, ValuesParts
      <3>5. CASE /\ to_client # <<>> /\ Head(to_client).type = "Data"
                 /\ to_server'[w] = Append(to_server[w], Refused(Head(to_client).stream))
        <4>1. streams[Head(to_client).stream] # "absent" /\ Head(to_client).stream \in Streams
          BY <1>1, <1>2, <3>5 DEF Rightful, Fits
        <4>2. p.stream = Head(to_client).stream
          BY <3>1, <3>5, <4>1, Packets DEF Refused
        <4> QED
          BY <4>1, <4>2, StreamSteps
      <3>6. ASSUME NEW s \in Streams, lgot[s] # <<>>, NEW x \in Payload,
                   to_server'[w] = Append(to_server[w], Data(s, x))
            PROVE  streams'[p.stream] # "absent"
        <4>1. \E d : d \in Delivered(s)
          BY <1>0, <3>6, ValuesParts DEF Values, Delivered
        <4>2. streams[s] # "absent"
          BY <1>1, <4>1 DEF Fits
        <4>3. p.stream = s
          BY <3>1, <3>6, Packets DEF Data
        <4> QED
          BY <4>2, <4>3, StreamSteps
      <3> QED
        BY <1>0, <3>2, <3>3, <3>4, <3>5, <3>6, ToServerSteps
    <2> QED
      BY <2>1, <2>2
  <1>5. ASSUME NEW s \in Streams
        PROVE  /\ \A d \in Values(queue'[s]) \ {Close} : Fits(s, d)'
               /\ \A d \in Delivered(s)' : Fits(s, d)'
               /\ queue'[s] # <<>> => streams'[s] # "absent"
    <2>0. /\ queue[s] \in Seq(Payload \union {Close}) /\ lgot[s] \in Seq(Datagram)
          /\ \A d \in Values(queue[s]) \ {Close} : Fits(s, d)'
          /\ \A d \in Values(lgot[s]) : Fits(s, d)'
          /\ queue[s] # <<>> => streams'[s] # "absent"
      BY <1>0, <1>1, FitsKept, StreamSteps DEF Delivered, Values
    <2>1. CASE UNCHANGED <<queue[s], lgot[s]>>
      BY <2>0, <2>1 DEF Delivered, Values
    <2>2. CASE /\ to_client # <<>> /\ Head(to_client).type = "Data"
               /\ Head(to_client).stream = s /\ UNCHANGED lgot[s]
               /\ queue'[s] = Append(queue[s], Head(to_client).data)
      <3> DEFINE x == Head(to_client).data
      <3>1. Fits(s, x) /\ x \in Payload \union {Close}
        BY <1>1, <1>2, <2>2 DEF Rightful
      <3>2. ASSUME NEW d, d = x PROVE Fits(s, d)' /\ streams'[s] # "absent"
        BY <3>1, <3>2, FitsKept, StreamSteps DEF Fits
      <3>3. Values(queue'[s]) = Values(queue[s]) \union {x}
        BY <2>0, <2>2, <3>1, ValuesParts
      <3>4. Delivered(s)' = Values(lgot[s])
        BY <2>2 DEF Delivered, Values
      <3> HIDE DEF x
      <3> QED
        BY <2>0, <3>2, <3>3, <3>4
    <2>3. CASE "sleep" \in closer[s] /\ UNCHANGED lgot[s] /\ queue'[s] = Append(queue[s], Close)
      <3>1. streams'[s] # "absent"
        BY <1>1, <2>3, StreamSteps
      <3>2. Values(queue'[s]) = Values(queue[s]) \union {Close}
        BY <2>0, <2>3, ValuesParts
      <3>3. Delivered(s)' = Values(lgot[s])
        BY <2>3 DEF Delivered, Values
      <3> QED
        BY <2>0, <3>1, <3>2, <3>3
    <2>4. CASE /\ queue[s] # <<>> /\ Head(queue[s]) # Close /\ queue'[s] = Tail(queue[s])
               /\ UNCHANGED lgot[s] \/ lgot'[s] = Append(lgot[s], Head(queue[s]))
      <3>1. Values(queue'[s]) \subseteq Values(queue[s]) /\ Head(queue[s]) \in Values(queue[s])
        BY <2>0, <2>4, ValuesParts
      <3>2. Head(queue[s]) \in Datagram
        BY <1>1, <2>4, <3>1 DEF Fits
      <3>3. Delivered(s)' \subseteq Values(lgot[s]) \union {Head(queue[s])}
        <4>1. Delivered(s)' = Values(lgot'[s])
          BY DEF Delivered, Values
        <4>2. Values(Append(lgot[s], Head(queue[s]))) = Values(lgot[s]) \union {Head(queue[s])}
          BY <2>0, <3>2, ValuesParts
        <4> QED
          BY <2>4, <4>1, <4>2
      <3> QED
        BY <2>0, <2>4, <3>1, <3>3
    <2> QED
      BY <1>0, <2>1, <2>2, <2>3, <2>4, QueueSteps DEF QueueStep
  <1>6. ASSUME NEW s \in Streams, closer'[s] # {} PROVE streams'[s] # "absent"
    <2>1. streams[s] # "absent"
      BY <1>0, <1>1, <1>2, <1>6, CloserSteps DEF Rightful
    <2> QED
      BY <2>1, StreamSteps
  <1>7. /\ \A p \in Values(to_client') : Rightful(p)'
        /\ \A w \in WebSocket : \A p \in Values(to_server'[w]) : streams'[p.stream] # "absent"
        /\ \A s \in Streams :
              /\ \A d \in Values(queue'[s]) \ {Close} : Fits(s, d)'
              /\ \A d \in Delivered(s)' : Fits(s, d)'
              /\ queue'[s] # <<>> \/ closer'[s] # {} => streams'[s] # "absent"
    BY <1>3, <1>4, <1>5, <1>6
  <1> QED
    BY <1>7 DEF InUse

LEMMA InitUInv == Init => UInv
  <1> SUFFICES ASSUME Init PROVE UInv
    OBVIOUS
  <1> USE DEF Init, StoreInit, TunnelInit
  <1>1. TypeOK
    <2>1. <<>> \in [1 .. 0 -> Peers \X Endpoints]
      OBVIOUS
    <2>2. /\ MaxDatagrams \in Nat /\ MaxReplies \in Nat
          /\ NoDatagram \in Datagram \union {NoDatagram}
      BY Counts, RepliesAssumption
    <2>3. /\ refused_at \in [Streams -> 0 .. received]
          /\ opened \in 0 .. received /\ received \in 0 .. MaxDatagrams /\ replies \in 0 .. MaxReplies
          /\ info \in [1 .. opened -> Peers \X Endpoints]
      BY <2>1, <2>2
    <2>4. StoreTypeOK(Datagram \union Reply)
      <3>1. \A S : <<>> \in Seq(S)
        OBVIOUS
      <3>2. TunnelTypeOK(Packet(Datagram \union Reply))
        <4>1. 0 \in WebSocket
          BY ReconnectsAssumption DEF WebSocket
        <4>2. to_server \in [WebSocket -> Seq(Packet(Datagram \union Reply))]
          BY <3>1
        <4> QED
          BY <3>1, <4>1, <4>2 DEF TunnelTypeOK
      <3>3. queue \in [Streams -> Seq((Datagram \union Reply) \union {Close})]
        BY <3>1
      <3> QED
        BY <3>2, <3>3 DEF StoreTypeOK
    <2> QED
      BY <2>2, <2>3, <2>4 DEF TypeOK
  <1>2. Counted
    <2>1. Finding = {}
      BY DEF Finding
    <2> QED
      BY <2>1, FS_EmptySet DEF Counted
  <1>3. ListenerInv
    BY DEF ListenerInv, Busy, Opening, Sending, NoDatagram
  <1>4. Distinct
    BY DEF Distinct, Opening
  <1>5. StreamInv
    BY Counts DEF StreamInv
  <1>6. InUse
    BY DEF InUse, Values, Delivered
  <1> QED
    BY <1>1, <1>2, <1>3, <1>4, <1>5, <1>6 DEF UInv

LEMMA NextUInv == UInv /\ [Next]_vars => UInv'
  <1> SUFFICES ASSUME UInv, [Next]_vars PROVE UInv'
    OBVIOUS
  <1> QED
    BY NextTypes, NextCounted, NextListenerInv, NextDistinct, NextStreamInv, NextInUse DEF UInv

LEMMA Always == SafetySpec => []UInv
  BY InitUInv, NextUInv, PTL DEF SafetySpec

\* Every variable keeps to its type.
THEOREM TypeCorrect == SafetySpec => []TypeOK
  <1>1. UInv => TypeOK
    BY DEF UInv
  <1> QED
    BY <1>1, Always, PTL

\* ownserver_lib/src/lib.rs:104: a stream the client has refused is not open any
\* more, also when the listener that made it has just added it to the store.
THEOREM RefusedIsClosed == SafetySpec => []RefusedCloses
  <1>1. UInv => RefusedCloses
    BY DEF UInv, StreamInv, RefusedCloses
  <1> QED
    BY <1>1, Always, PTL

\* Nothing that is received after that goes to the stream, though a listener may
\* have looked the stream up before the Refused was handled.
THEOREM RefusedStaysLeft == SafetySpec => []RefusedIsLeft
  <1>1. UInv => RefusedIsLeft
    <2> SUFFICES ASSUME UInv, NEW s \in Streams, refused_at[s] # 0
                 PROVE  /\ \A d \in Delivered(s) : d.n <= refused_at[s]
                        /\ \A i \in DOMAIN to_client :
                              /\ to_client[i].stream = s /\ to_client[i].type = "Data"
                              => to_client[i].data.n <= refused_at[s]
      BY DEF RefusedIsLeft
    <2>1. \A i \in DOMAIN to_client : Rightful(to_client[i])
      BY DEF UInv, InUse, Values
    <2> QED
      BY <2>1 DEF UInv, InUse, Rightful, Fits
  <1> QED
    BY <1>1, Always, PTL

\* What a service reads on a stream comes from the peer of the stream, and was
\* sent to the service when that peer sends to one endpoint only.
THEOREM FaithfulAreReached == SafetySpec => []FaithfulReachTheirs
  <1>1. UInv => FaithfulReachTheirs
    <2> SUFFICES ASSUME UInv, NEW s \in 1 .. opened, NEW d \in Delivered(s)
                 PROVE  /\ d.peer = info[s][1]
                        /\ Faithful(info[s][1]) => d.endpoint = info[s][2]
      BY DEF FaithfulReachTheirs
    <2>1. s \in Streams
      BY OpenedStreams DEF UInv
    <2>2. Fits(s, d) /\ info[s] \in Routes
      BY <2>1 DEF UInv, InUse, StreamInv
    <2>3. /\ d.peer = info[s][1] /\ <<d.peer, d.endpoint>> \in Routes
          /\ d.endpoint \in Endpoints
      BY <2>2 DEF Fits, Datagram
    <2>4. info[s] = <<info[s][1], info[s][2]>> /\ info[s][2] \in Endpoints
      BY <2>2, RoutesAssumption
    <2> QED
      BY <2>2, <2>3, <2>4 DEF Faithful
  <1> QED
    BY <1>1, Always, PTL
------------------------------------------------------------------------------
(* One stream at a time. *)

\* The map leads to the open stream of a peer that sends to one endpoint only,
\* and while a listener makes one for it, it has none.
Mapped ==
    /\ \A s \in Streams : streams[s] = "enabled" /\ Faithful(info[s][1])
          => addrs_map[info[s][1]] = s
    /\ \A e \in Endpoints : Opening(e) /\ Faithful(dgram[e].peer)
          => ~ Known(dgram[e].peer)

LEMMA InitMapped == Init => Mapped
  BY DEF Init, Mapped, Opening

LEMMA NextMapped == UInv /\ Mapped /\ [Next]_vars => Mapped'
  <1> SUFFICES ASSUME UInv, Mapped, [Next]_vars PROVE Mapped'
    OBVIOUS
  <1>0. /\ TypeOK /\ ListenerInv /\ StreamInv /\ 1 .. opened \subseteq Streams
        /\ streams \in [Streams -> {"absent", "enabled", "disabled"}]
        /\ addrs_map \in [Peers -> Streams \union {Other, NoStream}]
    BY OpenedStreams DEF UInv, TypeOK
  <1>1. ASSUME NEW f \in Endpoints, AddRemote(f)
        PROVE  /\ Opening(f) /\ listener'[f] = "send"
               /\ sid[f] \in 1 .. opened /\ info[sid[f]][1] = dgram[f].peer
               /\ streams[sid[f]] = "absent" /\ dgram[f].peer \in Peers
               /\ <<dgram[f].peer, f>> \in Routes
               /\ streams' = [streams EXCEPT ![sid[f]] = "enabled"]
               /\ addrs_map' = [addrs_map EXCEPT ![dgram[f].peer] = sid[f]]
    <2>1. listener[f] = "add" /\ listener'[f] = "send"
      BY <1>0, <1>1 DEF AddRemote, To, TypeOK
    <2>2. dgram[f] \in Datagram /\ Opening(f)
      BY <1>0, <2>1 DEF ListenerInv, Busy, Opening
    <2>3. dgram[f].peer \in Peers
      BY <2>2 DEF Datagram
    <2> QED
      BY <1>0, <1>1, <2>1, <2>2, <2>3 DEF ListenerInv, Busy, AddRemote
  \* The map changes for the peer of a listener that adds a stream, or one that
  \* others have the address of.
  <1>2. ASSUME NEW p \in Peers, Faithful(p), addrs_map'[p] # addrs_map[p]
        PROVE  \E f \in Endpoints : AddRemote(f) /\ dgram[f].peer = p
    <2>0. ~ Others
      BY <1>0, <1>2 DEF Others, OthersAdd, OthersRefuse, Faithful
    <2>1. PICK f \in Endpoints : AddRemote(f)
      BY <1>2, <2>0, NextFrame DEF Frame, server_vars, remote_vars, ServerReceives, Recv, SendInit,
         FindStream, Forward
    <2>2. addrs_map' = [addrs_map EXCEPT ![dgram[f].peer] = sid[f]]
      BY <2>1, <1>1
    <2>3. dgram[f].peer = p
      BY <1>0, <1>2, <2>2
    <2> QED
      BY <2>1, <2>3
  <1>3. ASSUME NEW s \in Streams, streams'[s] = "enabled", streams[s] # "enabled"
        PROVE  \E f \in Endpoints : AddRemote(f) /\ s = sid[f]
    <2>1. streams[s] = "absent"
      BY <1>0, <1>3, StreamSteps
    <2> QED
      BY <1>3, <2>1, StreamSteps
  <1>4. ASSUME NEW s \in Streams, streams'[s] = "enabled", Faithful(info'[s][1])
        PROVE  addrs_map'[info'[s][1]] = s
    <2>1. CASE streams[s] = "enabled"
      <3>1. s \in 1 .. opened /\ info'[s] = info[s]
        BY <1>0, <2>1, InfoSteps DEF StreamInv
      <3>2. addrs_map[info[s][1]] = s /\ info[s][1] \in Peers
        BY <1>0, <1>4, <2>1, <3>1, RoutesAssumption DEF Mapped, StreamInv
      <3>3. Known(info[s][1])
        BY <2>1, <3>2 DEF Known
      <3>4. ASSUME NEW f \in Endpoints, AddRemote(f), dgram[f].peer = info[s][1] PROVE FALSE
        <4>1. Opening(f) /\ Faithful(dgram[f].peer) /\ Known(dgram[f].peer)
          BY <1>1, <1>4, <3>1, <3>3, <3>4
        <4> QED
          BY <4>1 DEF Mapped
      <3> QED
        BY <1>2, <1>4, <3>1, <3>2, <3>4
    <2>2. CASE streams[s] # "enabled"
      <3>0. streams'[s] = "enabled"
        BY <1>4
      <3>1. PICK f \in Endpoints : AddRemote(f) /\ s = sid[f]
        BY <1>3, <2>2, <3>0
      <3>2. /\ s \in 1 .. opened /\ info[s][1] = dgram[f].peer /\ dgram[f].peer \in Peers
            /\ addrs_map' = [addrs_map EXCEPT ![dgram[f].peer] = s]
        BY <1>1, <3>1
      <3>3. info'[s][1] = dgram[f].peer /\ addrs_map'[dgram[f].peer] = s
        BY <1>0, <3>2, InfoSteps
      <3> QED
        BY <3>3
    <2> QED
      BY <2>1, <2>2
  <1>5. ASSUME NEW e \in Endpoints, Opening(e)', NEW p, p = dgram'[e].peer, Faithful(p)
        PROVE  ~ Known(p)'
    <2>1. /\ p = dgram[e].peer /\ Busy(e) /\ ~ Known(p) /\ listener'[e] # "send"
      <3>1. listener'[e] \in {"init", "add"}
        BY <1>5 DEF Opening
      <3> QED
        BY <1>5, <3>1, ListenerSteps DEF ListenerStep, Mapped, Opening, Busy
    <2>2. <<p, e>> \in Routes /\ p \in Peers
      BY <1>0, <2>1, RoutesAssumption DEF ListenerInv
    <2>3. ASSUME NEW f \in Endpoints, AddRemote(f), dgram[f].peer = p PROVE FALSE
      <3>1. f = e
        BY <1>1, <1>5, <2>2, <2>3 DEF Faithful
      <3> QED
        BY <1>1, <2>1, <2>3, <3>1
    <2>4. addrs_map'[p] = addrs_map[p]
      BY <1>2, <1>5, <2>2, <2>3
    <2>5. ASSUME addrs_map[p] \in Streams, streams'[addrs_map[p]] = "enabled" PROVE FALSE
      <3>1. addrs_map[p] \in Streams /\ streams[addrs_map[p]] = "disabled"
        BY <1>0, <2>1, <2>2, <2>5 DEF Known, StreamInv
      <3> QED
        BY <2>5, <3>1, StreamSteps
    <2> QED
      BY <2>4, <2>5 DEF Known
  <1> QED
    BY <1>4, <1>5 DEF Mapped

\* A peer that sends to one endpoint only has one stream at a time, though
\* streams come and go and the map keeps the old entries.
THEOREM OneStream == SafetySpec => []OneStreamAtATime
  <1>1. UInv /\ Mapped => OneStreamAtATime
    <2> SUFFICES ASSUME UInv, Mapped, NEW s \in 1 .. opened, NEW t \in 1 .. opened,
                        info[s] = info[t], Faithful(info[s][1]),
                        streams[s] = "enabled", streams[t] = "enabled"
                 PROVE  s = t
      BY DEF OneStreamAtATime
    <2>1. s \in Streams /\ t \in Streams
      BY OpenedStreams DEF UInv
    <2> QED
      BY <2>1 DEF Mapped
  <1> QED
    BY <1>1, InitMapped, NextMapped, Always, PTL DEF SafetySpec
------------------------------------------------------------------------------
(* Order. *)

\* Each before each later one, by the relation R.
Sorted(q, R) == \A i, j \in DOMAIN q : i < j => <<q[i], q[j]>> \in R

LEMMA SortedTail ==
  ASSUME NEW S, NEW R, NEW q \in Seq(S), q # <<>>, Sorted(q, R)
  PROVE  Sorted(Tail(q), R) /\ \A y \in Values(Tail(q)) : <<Head(q), y>> \in R
  <1>1. ASSUME NEW i \in DOMAIN Tail(q), NEW j \in DOMAIN Tail(q), i < j
        PROVE  <<Tail(q)[i], Tail(q)[j]>> \in R
    <2>1. /\ i + 1 \in DOMAIN q /\ j + 1 \in DOMAIN q /\ i \in Nat /\ j \in Nat
          /\ Tail(q)[i] = q[i + 1] /\ Tail(q)[j] = q[j + 1]
      BY TailParts
    <2>2. i + 1 < j + 1
      BY <1>1, <2>1
    <2> QED
      BY <2>1, <2>2 DEF Sorted
  <1>2. ASSUME NEW y \in Values(Tail(q)) PROVE <<Head(q), y>> \in R
    <2>1. PICK j \in DOMAIN Tail(q) : y = Tail(q)[j]
      BY DEF Values
    <2>2. /\ 1 < j + 1 /\ j + 1 \in DOMAIN q /\ Tail(q)[j] = q[j + 1]
          /\ 1 \in DOMAIN q /\ Head(q) = q[1]
      BY TailParts
    <2> QED
      BY <2>1, <2>2 DEF Sorted
  <1> QED
    BY <1>1, <1>2 DEF Sorted

LEMMA SortedAppend ==
  ASSUME NEW S, NEW R, NEW q \in Seq(S), NEW x \in S, Sorted(q, R),
         \A y \in Values(q) : <<y, x>> \in R
  PROVE  Sorted(Append(q, x), R)
  <1> SUFFICES ASSUME NEW i \in DOMAIN Append(q, x), NEW j \in DOMAIN Append(q, x), i < j
               PROVE  <<Append(q, x)[i], Append(q, x)[j]>> \in R
    BY DEF Sorted
  <1> DEFINE n == Len(q) + 1
  <1>1. /\ (i \in DOMAIN q /\ i < n /\ Append(q, x)[i] = q[i]) \/ i = n
        /\ \/ j \in DOMAIN q /\ j < n /\ Append(q, x)[j] = q[j]
           \/ j = n /\ Append(q, x)[j] = x
    BY AppendParts
  <1>2. n \in Nat /\ DOMAIN q \subseteq Nat
    OBVIOUS
  <1> HIDE DEF n
  <1>3. i \in DOMAIN q /\ Append(q, x)[i] = q[i]
    BY <1>1, <1>2
  <1> QED
    BY <1>1, <1>3 DEF Sorted, Values

\* One datagram before another: earlier received if it is of the same endpoint.
Turns ==
    {xy \in (Payload \union {Close}) \X (Payload \union {Close}) :
        /\ xy[1] # Close /\ xy[2] # Close
        /\ xy[1].endpoint = xy[2].endpoint
        => xy[1].n < xy[2].n}
PacketTurns ==
    {pq \in Packet(Payload) \X Packet(Payload) :
        pq[1].type = "Data" /\ pq[2].type = "Data" => <<pq[1].data, pq[2].data>> \in Turns}

\* From the channel through the queue to the socket nothing overtakes.
Order ==
    /\ Sorted(to_client, PacketTurns)
    /\ \A s \in Streams :
          /\ Sorted(queue[s], Turns) /\ Sorted(lgot[s], Turns) /\ Close \notin Values(lgot[s])
          /\ \A x \in Values(lgot[s]), y \in Values(queue[s]) : <<x, y>> \in Turns
          /\ \A x \in Values(lgot[s]) \union Values(queue[s]), p \in Values(to_client) :
                p.type = "Data" => <<x, p.data>> \in Turns

LEMMA InitOrder == Init => Order
  BY DEF Init, StoreInit, TunnelInit, Order, Sorted, Values

\* What a listener has in its hands comes after all that is on its way.
LEMMA Latest ==
  ASSUME UInv, NEW e \in Endpoints, listener[e] = "send",
         NEW s, NEW x \in Payload \union {Close}, x = Close \/ Fits(s, x)
  PROVE  <<x, dgram[e]>> \in Turns
  <1>1. dgram[e] \in Payload /\ dgram[e].endpoint = e /\ Busy(e)
    BY DEF UInv, ListenerInv, Busy, Payload
  <1>2. x # Close /\ x.endpoint = e => x.n < dgram[e].n
    BY <1>1 DEF Fits
  <1> QED
    BY <1>1, <1>2 DEF Turns

LEMMA NextOrder == UInv /\ Order /\ [Next]_vars => Order'
  <1> SUFFICES ASSUME UInv, Order, [Next]_vars PROVE Order'
    OBVIOUS
  <1>0. /\ TypeOK /\ InUse
        /\ to_client \in Seq(Packet(Payload)) /\ Values(to_client) \subseteq Packet(Payload)
        /\ \A s \in Streams :
              /\ queue[s] \in Seq(Payload \union {Close})
              /\ lgot[s] \in Seq(Payload \union {Close})
              /\ Values(queue[s]) \subseteq Payload \union {Close}
              /\ Values(lgot[s]) \subseteq Payload \union {Close}
    <2>1. Datagram \subseteq Payload \union {Close}
      BY DEF Payload
    <2>2. \A q \in Seq(Datagram) : q \in Seq(Payload \union {Close})
      BY <2>1
    <2> QED
      BY <2>2, TypeParts, ValuesParts DEF UInv
  <1>1. /\ Sorted(to_client, PacketTurns)
        /\ \A s \in Streams :
              /\ Sorted(queue[s], Turns) /\ Sorted(lgot[s], Turns)
              /\ Close \notin Values(lgot[s])
              /\ \A x \in Values(lgot[s]), y \in Values(queue[s]) : <<x, y>> \in Turns
              /\ \A x \in Values(lgot[s]) \union Values(queue[s]), p \in Values(to_client) :
                    p.type = "Data" => <<x, p.data>> \in Turns
    BY DEF Order
  <1>2. \A x \in Payload \union {Close} : <<x, Close>> \in Turns
    BY DEF Turns
  \* What comes into the channel is not Data, or what a listener has.
  <1>3. \/ UNCHANGED to_client
        \/ to_client' = <<>>
        \/ to_client # <<>> /\ to_client' = Tail(to_client)
        \/ \E p \in Packet(Payload) :
              /\ to_client' = Append(to_client, p)
              /\ p.type = "Data" => \E e \in Endpoints : listener[e] = "send" /\ p.data = dgram[e]
    <2>1. ASSUME NEW e \in Endpoints, SendInit(e)
          PROVE  Init_(sid[e]) \in Packet(Payload) /\ Init_(sid[e]).type = "Init"
      <3>1. sid[e] \in Streams
        BY <2>1, OpenedStreams DEF SendInit, UInv, ListenerInv, Opening
      <3> QED
        BY <3>1, Packets DEF Init_
    <2>2. ASSUME NEW e \in Endpoints, Forwards(e)
          PROVE  /\ End(sid[e]) \in Packet(Payload) /\ End(sid[e]).type = "End"
                 /\ Data(sid[e], dgram[e]) \in Packet(Payload)
                 /\ Data(sid[e], dgram[e]).data = dgram[e] /\ listener[e] = "send"
      <3>1. sid[e] \in Streams /\ dgram[e] \in Payload
        BY <2>2, Forwarded DEF Payload
      <3> QED
        BY <2>2, <3>1, Packets DEF End, Data, Forwards, Forward
    <2>3. ASSUME NEW e \in Endpoints, SendInit(e), to_client' = Append(to_client, Init_(sid[e]))
          PROVE  \E p \in Packet(Payload) : /\ to_client' = Append(to_client, p)
                                            /\ p.type # "Data"
      BY <2>1, <2>3
    <2>4. ASSUME NEW e \in Endpoints, Forwards(e), to_client' = Append(to_client, End(sid[e]))
          PROVE  \E p \in Packet(Payload) : /\ to_client' = Append(to_client, p)
                                            /\ p.type # "Data"
      BY <2>2, <2>4
    <2>5. ASSUME NEW e \in Endpoints, Forwards(e),
                 to_client' = Append(to_client, Data(sid[e], dgram[e]))
          PROVE  \E p \in Packet(Payload) :
                    /\ to_client' = Append(to_client, p)
                    /\ listener[e] = "send" /\ p.data = dgram[e]
      BY <2>2, <2>5
    <2> QED
      BY <2>3, <2>4, <2>5, ToClientSteps DEF ToClientStep
  <1>4. Sorted(to_client', PacketTurns)
    <2>1. CASE UNCHANGED to_client
      BY <1>1, <2>1
    <2>2. CASE to_client' = <<>>
      BY <2>2 DEF Sorted
    <2>3. CASE to_client # <<>> /\ to_client' = Tail(to_client)
      BY <1>0, <1>1, <2>3, SortedTail
    <2>4. ASSUME NEW p \in Packet(Payload), to_client' = Append(to_client, p),
                 p.type = "Data" => \E e \in Endpoints : listener[e] = "send" /\ p.data = dgram[e]
          PROVE  Sorted(to_client', PacketTurns)
      <3>1. ASSUME NEW y \in Values(to_client) PROVE <<y, p>> \in PacketTurns
        <4>1. y \in Packet(Payload) /\ y.data \in Payload \union {Close}
          BY <1>0, Packets
        <4>2. y.type = "Data" => Fits(y.stream, y.data)
          BY <1>0 DEF InUse, Rightful
        <4>3. y.type = "Data" /\ p.type = "Data" => <<y.data, p.data>> \in Turns
          BY <2>4, <4>1, <4>2, Latest
        <4> QED
          BY <4>1, <4>3 DEF PacketTurns
      <3> QED
        BY <1>0, <1>1, <2>4, <3>1, SortedAppend
    <2> QED
      BY <1>3, <2>1, <2>2, <2>3, <2>4
  <1>5. ASSUME NEW s \in Streams, NEW x \in Values(lgot[s]) \union Values(queue[s]),
               NEW p \in Values(to_client'), p.type = "Data"
        PROVE  <<x, p.data>> \in Turns
    <2>1. CASE p \in Values(to_client)
      BY <1>1, <1>5, <2>1
    <2>2. CASE p \notin Values(to_client)
      <3>1. \E e \in Endpoints : listener[e] = "send" /\ p.data = dgram[e]
        <4>1. to_client' # <<>>
          BY <1>5 DEF Values
        <4>2. ~ (to_client # <<>> /\ to_client' = Tail(to_client)) /\ to_client' # to_client
          BY <1>0, <1>5, <2>2, ValuesParts
        <4>3. PICK y \in Packet(Payload) :
                 /\ to_client' = Append(to_client, y)
                 /\ y.type = "Data" => \E e \in Endpoints : listener[e] = "send" /\ y.data = dgram[e]
          BY <1>3, <4>1, <4>2
        <4>4. p = y
          BY <1>0, <1>5, <2>2, <4>3, ValuesParts
        <4> QED
          BY <1>5, <4>3, <4>4
      <3>2. x \in Payload \union {Close} /\ (x = Close \/ Fits(s, x))
        <4>1. CASE x \in Values(lgot[s])
          BY <1>0, <4>1 DEF InUse, Delivered, Values
        <4>2. CASE x \in Values(queue[s])
          BY <1>0, <4>2 DEF InUse
        <4> QED
          BY <4>1, <4>2
      <3> QED
        BY <3>1, <3>2, Latest
    <2> QED
      BY <2>1, <2>2
  <1>6. ASSUME NEW s \in Streams
        PROVE  /\ Sorted(queue'[s], Turns) /\ Sorted(lgot'[s], Turns)
               /\ Close \notin Values(lgot'[s])
               /\ \A x \in Values(lgot'[s]), y \in Values(queue'[s]) : <<x, y>> \in Turns
               /\ \A x \in Values(lgot'[s]) \union Values(queue'[s]), p \in Values(to_client') :
                     p.type = "Data" => <<x, p.data>> \in Turns
    <2>0. /\ queue[s] \in Seq(Payload \union {Close}) /\ lgot[s] \in Seq(Payload \union {Close})
          /\ Sorted(queue[s], Turns) /\ Sorted(lgot[s], Turns) /\ Close \notin Values(lgot[s])
          /\ \A x \in Values(lgot[s]), y \in Values(queue[s]) : <<x, y>> \in Turns
          /\ \A x \in Values(lgot[s]) \union Values(queue[s]), p \in Values(to_client') :
                p.type = "Data" => <<x, p.data>> \in Turns
          /\ Values(queue[s]) \subseteq Payload \union {Close}
          /\ Values(lgot[s]) \subseteq Payload \union {Close}
      BY <1>0, <1>1, <1>5
    <2>1. CASE UNCHANGED <<queue[s], lgot[s]>>
      BY <2>0, <2>1
    <2>2. CASE /\ to_client # <<>> /\ Head(to_client).type = "Data"
               /\ to_client' = Tail(to_client) /\ UNCHANGED lgot[s]
               /\ queue'[s] = Append(queue[s], Head(to_client).data)
      <3> DEFINE x == Head(to_client).data
      <3>1. Head(to_client) \in Values(to_client) /\ x \in Payload \union {Close}
        BY <1>0, <2>2, ValuesParts, Packets
      <3>2. \A y \in Values(lgot[s]) \union Values(queue[s]) : <<y, x>> \in Turns
        BY <1>1, <2>2, <3>1
      <3>3. ASSUME NEW p \in Values(to_client'), p.type = "Data" PROVE <<x, p.data>> \in Turns
        <4>1. <<Head(to_client), p>> \in PacketTurns
          BY <1>0, <1>1, <2>2, <3>3, SortedTail
        <4> QED
          BY <2>2, <3>3, <4>1 DEF PacketTurns
      <3> HIDE DEF x
      <3>4. queue'[s] = Append(queue[s], x)
        BY <2>2 DEF x
      <3>5. Values(queue'[s]) = Values(queue[s]) \union {x}
        BY <2>0, <3>1, <3>4, ValuesParts
      <3>6. Sorted(queue'[s], Turns)
        BY <2>0, <3>1, <3>2, <3>4, SortedAppend
      <3> QED
        BY <2>0, <2>2, <3>2, <3>3, <3>5, <3>6
    <2>3. CASE UNCHANGED lgot[s] /\ queue'[s] = Append(queue[s], Close)
      <3>1. Values(queue'[s]) = Values(queue[s]) \union {Close}
        BY <2>0, <2>3, ValuesParts
      <3>2. Sorted(queue'[s], Turns)
        BY <1>2, <2>0, <2>3, SortedAppend
      <3>3. ASSUME NEW p \in Values(to_client'), p.type = "Data" PROVE <<Close, p.data>> \in Turns
        <4>1. p.data \in Payload \union {Close}
          <5>1. p \in Packet(Payload)
            <6>1. to_client' \in Seq(Packet(Payload))
              BY NextTypes DEF TypeOK, StoreTypeOK, TunnelTypeOK, Payload
            <6> QED
              BY <3>3, <6>1, ValuesParts
          <5> QED
            BY <5>1, Packets
        <4> QED
          BY <4>1 DEF Turns
      <3> QED
        BY <1>2, <2>0, <2>3, <3>1, <3>2, <3>3
    <2>4. CASE /\ queue[s] # <<>> /\ Head(queue[s]) # Close /\ queue'[s] = Tail(queue[s])
               /\ UNCHANGED lgot[s] \/ lgot'[s] = Append(lgot[s], Head(queue[s]))
      <3> DEFINE x == Head(queue[s])
      <3>1. /\ x \in Values(queue[s]) /\ x # Close /\ Values(queue'[s]) \subseteq Values(queue[s])
            /\ x \in Payload \union {Close}
        BY <2>0, <2>4, ValuesParts
      <3>2. Sorted(queue'[s], Turns) /\ \A y \in Values(queue'[s]) : <<x, y>> \in Turns
        BY <2>0, <2>4, SortedTail
      <3>3. UNCHANGED lgot[s] \/ lgot'[s] = Append(lgot[s], x)
        BY <2>4
      <3> HIDE DEF x
      <3>4. CASE UNCHANGED lgot[s]
        BY <2>0, <3>1, <3>2, <3>4
      <3>5. CASE lgot'[s] = Append(lgot[s], x)
        <4>1. Values(lgot'[s]) = Values(lgot[s]) \union {x}
          BY <2>0, <3>1, <3>5, ValuesParts
        <4>2. Sorted(lgot'[s], Turns)
          BY <2>0, <3>1, <3>5, SortedAppend
        <4> QED
          BY <2>0, <3>1, <3>2, <4>1, <4>2
      <3> QED
        BY <3>3, <3>4, <3>5
    <2> QED
      BY <1>0, <2>1, <2>2, <2>3, <2>4, QueueSteps DEF QueueStep
  <1> QED
    BY <1>4, <1>6 DEF Order

\* The datagrams of one endpoint and one stream reach the service in the order
\* of their receipt and once.
THEOREM OrderKept == SafetySpec => []InOrder
  <1>1. UInv /\ Order => InOrder
    <2> SUFFICES ASSUME UInv, Order, NEW s \in Streams,
                        NEW i \in DOMAIN lgot[s], NEW j \in DOMAIN lgot[s], i < j,
                        lgot[s][i].endpoint = lgot[s][j].endpoint
                 PROVE  lgot[s][i].n < lgot[s][j].n
      BY DEF InOrder
    <2>1. <<lgot[s][i], lgot[s][j]>> \in Turns
      BY DEF Order, Sorted
    <2>2. lgot[s][i] # Close /\ lgot[s][j] # Close
      BY DEF Order, Values
    <2> QED
      BY <2>1, <2>2 DEF Turns
  <1> QED
    BY <1>1, InitOrder, NextOrder, Always, PTL DEF SafetySpec
==============================================================================
