------------------------ MODULE ServerStreamsProofs ------------------------
(***************************************************************************)
(* Proofs about ServerStreams.  The composition implements ControlServer,  *)
(* so that what is proved of the server holds with its streams; streams    *)
(* and ports of a client are given up together; and a client that lives    *)
(* loses its streams to the cleanup in one case only, when it comes back   *)
(* between the scan and the removal.                                       *)
(***************************************************************************)
EXTENDS ServerStreams, ControlServerProofs

\* A client with a stream to cut has said hello, and the list of endpoints to
\* release is worked off before the next scan.
CutAreMade == \A c \in cut : handler[c] # "hello"
IdleIsEmpty == cleanup = "idle" => eids_to_remove = {}

\* A stream that was made has a client, and only such a stream has a reader.
Owned ==
    \A r \in Streams :
       /\ stream[r] # "none" => sclient[r] \in Conns
       /\ reader[r] # "none" => stream[r] # "none"

Typed == TypeOK /\ StreamsTypeOK /\ Owned

Accounted == PortsAccounted /\ CutAreMade /\ IdleIsEmpty /\ FreshHasNone

\* Where a client is whose streams the cleanup has cut: in the map with its
\* window over and its endpoints collected, gone, or back in between.
Leaving(c) == /\ cleanup = "retain"
              /\ clients[c] # None
              /\ CanCleanup(clients[c])
              /\ {c} \X endpoints[c] \subseteq eids_to_remove

CutLeave ==
    \A c \in cut : endpoints[c] = {} \/ c \in late \/ Leaving(c) \/ Gone(c)
------------------------------------------------------------------------------
\* A step of the composition is a step of the server or leaves it alone.
LEMMA StepIsServerStep ==
    ASSUME Typed, [StreamsNext]_all_vars
    PROVE  [Next]_vars
<1>1. CASE OtherStep
  BY <1>1 DEF OtherStep, Next, Cleanup
<1>2. CASE ScanCutsStreams \/ Sweep
  BY <1>2 DEF ScanCutsStreams, Sweep, Next, Cleanup
<1>3. ASSUME NEW c \in Conns, SendToClientFails(c)
      PROVE  [Next]_vars
  BY <1>3 DEF SendToClientFails, Next
<1>4. ASSUME NEW r \in Streams, \E x \in listeners : Accept(x, r)
      PROVE  [Next]_vars
  BY <1>4 DEF Accept
<1>5. ASSUME NEW r \in Streams, AcceptTask(r)
      PROVE  [Next]_vars
  <2>1. stream[r] = "made" => sclient[r] \in Conns
    BY DEF Typed, Owned
  <2> QED
    BY <1>3, <1>5, <2>1 DEF AcceptTask, InitSent, InitFails, AddRemote
<1>6. ASSUME NEW r \in Streams, ReaderTask(r) \/ ReadLoopDisables(r)
      PROVE  [Next]_vars
  BY <1>6 DEF ReaderTask, ReaderEnds, ReaderCancelled, ReadLoopDisables
<1>7. ASSUME NEW r \in Streams, RemoteLeaves(r) \/ ForwardFails(r)
      PROVE  [Next]_vars
  <2>1. sclient[r] \in Conns
    BY <1>7 DEF Typed, Owned, RemoteLeaves, ForwardFails
  <2> QED
    BY <1>3, <1>7, <2>1 DEF RemoteLeaves, ForwardFails, Next
<1>8. CASE UNCHANGED all_vars
  BY <1>8 DEF all_vars
<1> QED
  BY <1>1, <1>2, <1>4, <1>5, <1>6, <1>7, <1>8 DEF StreamsNext

LEMMA TypedInitially == StreamsInit => Typed
<1> SUFFICES ASSUME StreamsInit PROVE Typed
  OBVIOUS
<1>1. TypeOK
  BY TypeHoldsInitially DEF StreamsInit
<1>2. StreamsTypeOK /\ Owned
  BY DEF StreamsInit, StreamsTypeOK, Owned
<1> QED
  BY <1>1, <1>2 DEF Typed

\* Steps in which the streams change their state in the types.
LEMMA TypedIsKept ==
    ASSUME Typed, [StreamsNext]_all_vars
    PROVE  Typed'
<1>1. TypeOK'
  BY StepIsServerStep, TypeIsKept DEF Typed
<1> SUFFICES StreamsTypeOK' /\ Owned'
  BY <1>1 DEF Typed
<1> USE DEF Typed, StreamsTypeOK, Owned
<1>2. CASE OtherStep /\ UNCHANGED stream_vars
  BY <1>2 DEF stream_vars
<1>3. CASE ScanCutsStreams
  BY <1>3 DEF ScanCutsStreams, Disable, Expired
<1>4. CASE Sweep
  BY <1>4 DEF Sweep
<1>5. ASSUME NEW r \in Streams, NEW x \in listeners, Accept(x, r)
      PROVE  StreamsTypeOK' /\ Owned'
  <2>1. x[1] \in Conns
    BY DEF TypeOK
  <2> QED
    BY <1>5, <2>1 DEF Accept
<1>6. ASSUME NEW r \in Streams, AcceptTask(r)
      PROVE  StreamsTypeOK' /\ Owned'
  BY <1>6 DEF AcceptTask, InitSent, InitFails, AddRemote
<1>7. ASSUME NEW r \in Streams, ReaderEnds(r) \/ ReadLoopDisables(r)
      PROVE  StreamsTypeOK' /\ Owned'
  BY <1>7 DEF ReaderEnds, ReadLoopDisables, Disable
<1>8. ASSUME NEW r \in Streams,
             ReaderCancelled(r) \/ RemoteLeaves(r) \/ ForwardFails(r)
      PROVE  StreamsTypeOK' /\ Owned'
  BY <1>8 DEF ReaderCancelled, RemoteLeaves, ForwardFails
<1>9. CASE UNCHANGED all_vars
  BY <1>9 DEF all_vars, stream_vars
<1> QED
  BY <1>2, <1>3, <1>4, <1>5, <1>6, <1>7, <1>8, <1>9
     DEF StreamsNext, ReaderTask

\* Every variable of the streams stays in its type, and no stream has a
\* reader without a client to forward to.
THEOREM StreamsTypeCorrect == StreamsSafety => []StreamsTypeOK
<1>1. Typed => StreamsTypeOK
  BY DEF Typed
<1> QED
  BY <1>1, TypedInitially, TypedIsKept, PTL DEF StreamsSafety

LEMMA AlwaysTyped == StreamsSafety => []Typed
  BY TypedInitially, TypedIsKept, PTL DEF StreamsSafety

\* The server with its streams is still the server: whatever RemoteTcp tasks
\* do, the registry sees a step of ControlServer or none.
THEOREM StreamsImplementServer == StreamsSafety => SafetySpec
<1>1. StreamsInit => Init
  BY DEF StreamsInit
<1> QED
  BY <1>1, StepIsServerStep, AlwaysTyped, PTL DEF StreamsSafety, SafetySpec

LEMMA StreamsPlaced == StreamsSafety => []Placed
  BY StreamsImplementServer, AlwaysPlaced
------------------------------------------------------------------------------
\* The steps that touch the table, the endpoints, the cleanup or the cut.
LEMMA CutMoves ==
    ASSUME Typed, [StreamsNext]_all_vars
    PROVE  \/ ScanCutsStreams
           \/ /\ UNCHANGED cut
              /\ \/ CleanupRetain
                 \/ \E x \in eids_to_remove : CleanupRelease(x)
                 \/ CleanupDone
                 \/ \E s \in Conns, claims \in ClaimLists :
                       NewClient(s, claims)
                 \/ UNCHANGED <<alloc_vars, cleanup, eids_to_remove>>
<1> DEFINE Quiet == UNCHANGED <<alloc_vars, cleanup, eids_to_remove>>
<1> USE DEF cleanup_vars
<1>1. ASSUME NEW s \in Conns, NEW c \in Conns, Reconnect(s, c)
      PROVE  Quiet
  BY <1>1 DEF Reconnect
<1>2. ASSUME NEW s \in Conns, Handle(s)
      PROVE  Quiet
  BY <1>2 DEF Handle, DropOld, HelloFails, HelloSent, NotSuccess, AddClient,
              SpawnRemote
<1>3. ASSUME NEW s \in Conns, ReadLoop(s) \/ Disconnect(s) \/ WindowEnds(s)
      PROVE  Quiet
  BY <1>3 DEF ReadLoop, ReadLoopBreaks, ReadLoopEnds, Disconnect, WindowEnds
<1>4. ASSUME NEW c, SendPing(c) \/ SendFails(c)
      PROVE  Quiet
  BY <1>4 DEF SendPing, SendFails
<1>5. ASSUME NEW x \in listeners, ListenerStops(x)
      PROVE  Quiet
  BY <1>5 DEF ListenerStops
<1>6. ASSUME UNCHANGED vars
      PROVE  Quiet
  BY <1>6 DEF vars
<1>7. ASSUME NEW c, SendToClientFails(c)
      PROVE  Quiet
  BY <1>4, <1>6, <1>7 DEF SendToClientFails
<1> HIDE DEF Quiet
<1>8. CASE OtherStep /\ UNCHANGED stream_vars
  BY <1>1, <1>2, <1>3, <1>4, <1>5, <1>8 DEF OtherStep, Hello, stream_vars, Quiet
<1>9. CASE Sweep
  BY <1>9 DEF Sweep
<1>10. ASSUME NEW r \in Streams, NEW x \in listeners, Accept(x, r)
       PROVE  Quiet /\ UNCHANGED cut
  BY <1>6, <1>10 DEF Accept
<1>11. ASSUME NEW r \in Streams, AcceptTask(r)
       PROVE  Quiet /\ UNCHANGED cut
  BY <1>6, <1>7, <1>11 DEF AcceptTask, InitSent, InitFails, AddRemote
<1>12. ASSUME NEW r \in Streams, ReaderTask(r) \/ ReadLoopDisables(r)
       PROVE  Quiet /\ UNCHANGED cut
  BY <1>6, <1>12 DEF ReaderTask, ReaderEnds, ReaderCancelled, ReadLoopDisables
<1>13. ASSUME NEW r \in Streams, RemoteLeaves(r) \/ ForwardFails(r)
       PROVE  Quiet /\ UNCHANGED cut
  BY <1>4, <1>6, <1>7, <1>13 DEF RemoteLeaves, ForwardFails
<1>14. CASE UNCHANGED all_vars
  BY <1>6, <1>14 DEF all_vars, stream_vars, Quiet
<1> QED
  BY <1>8, <1>9, <1>10, <1>11, <1>12, <1>13, <1>14 DEF StreamsNext, Quiet

\* A port whose holder is c: the part of PortsAccounted about one port.
Holds(c, p) ==
    /\ p \in RemotePorts(endpoints[c])
    /\ \/ c \notin cut
       \/ \E x \in eids_to_remove : x[1] = c /\ x[2].remote_port = p

LEMMA AccountedIs ==
    PortsAccounted <=> \A p \in PortRange \ available_ports :
                          \E c \in Conns : Holds(c, p)
  BY DEF PortsAccounted, Holds

LEMMA AccountedInitially == StreamsInit => Accounted
<1> SUFFICES ASSUME StreamsInit PROVE Accounted
  OBVIOUS
<1>1. available_ports = PortRange /\ cut = {}
  BY DEF StreamsInit, Init
<1>2. IdleIsEmpty /\ FreshHasNone
  BY DEF StreamsInit, Init, IdleIsEmpty, FreshHasNone
<1> QED
  BY <1>1, <1>2 DEF Accounted, PortsAccounted, CutAreMade

\* The ports of a new client belong to it, and it has not been cut.
LEMMA NewClientIsAccounted ==
    ASSUME Typed, Accounted, UNCHANGED cut,
           NEW s \in Conns, NEW claims \in ClaimLists, NewClient(s, claims)
    PROVE  Accounted'
<1> USE DEF Typed, TypeOK, Accounted
<1>1. /\ handler[s] = "hello" /\ handler' = [handler EXCEPT ![s] = "send"]
      /\ UNCHANGED <<cleanup, eids_to_remove>>
  BY DEF NewClient, cleanup_vars
<1>2. CutAreMade' /\ IdleIsEmpty' /\ FreshHasNone'
  BY <1>1 DEF NewClient, alloc_vars, CutAreMade, IdleIsEmpty, FreshHasNone
<1>3. s \notin cut
  BY <1>1 DEF CutAreMade
<1>4. CASE ValidClaims(claims, available_ports)
  <2>1. PICK f \in Pairings(claims, available_ports) :
           /\ endpoints' = [endpoints EXCEPT ![s] = EndpointsOf(claims, f)]
           /\ available_ports' = available_ports \
                 {f[a] : a \in LocalPorts(claims)}
    BY <1>4 DEF NewClient
  <2> SUFFICES ASSUME NEW p \in PortRange \ available_ports'
               PROVE  \E c \in Conns : Holds(c, p)'
    BY <1>2 DEF PortsAccounted, Holds
  <2>2. CASE p \in available_ports
    <3>1. PICK i \in DOMAIN claims : p = f[claims[i].local_port]
      BY <2>1, <2>2 DEF LocalPorts
    <3> DEFINE e == [protocol    |-> claims[i].protocol,
                     local_port  |-> claims[i].local_port,
                     remote_port |-> f[claims[i].local_port]]
    <3>2. p \in RemotePorts(EndpointsOf(claims, f))
      <4>1. e \in EndpointsOf(claims, f) /\ e.remote_port = p
        BY <3>1 DEF EndpointsOf
      <4> QED
        BY <4>1 DEF RemotePorts
    <3>3. Holds(s, p)'
      BY <1>3, <2>1, <3>2 DEF Holds
    <3> QED
      BY <3>3
  <2>3. CASE p \notin available_ports
    <3>1. PICK c \in Conns : Holds(c, p)
      BY <2>3, AccountedIs
    <3>2. c # s
      BY <1>1, <3>1 DEF Holds, RemotePorts, FreshHasNone
    <3>3. Holds(c, p)'
      BY <1>1, <2>1, <3>1, <3>2 DEF Holds
    <3> QED
      BY <3>3
  <2> QED
    BY <2>2, <2>3
<1>5. CASE ~ ValidClaims(claims, available_ports)
  BY <1>1, <1>2, <1>5 DEF NewClient, alloc_vars, PortsAccounted
<1> QED
  BY <1>4, <1>5

\* A registered client has said hello.
LEMMA ExpiredSaidHello ==
    ASSUME Placed, NEW c \in Expired
    PROVE  handler[c] # "hello" /\ cid[c] = c
<1>1. c \in Conns /\ Live(c)
  BY DEF Expired, Live
<1>2. cid[c] = c
  BY <1>1, LiveIsMade
<1> QED
  BY <1>1, <1>2, NoneAssumption DEF Placed, HandlerSteps

\* Whatever the cleanup collects it holds until it is released.
LEMMA AccountedIsKept ==
    ASSUME Typed, Placed, Accounted, [StreamsNext]_all_vars
    PROVE  Accounted'
<1> USE DEF Accounted
<1>1. \A s \in Conns : handler'[s] = "hello" => handler[s] = "hello"
  BY StepIsServerStep, IdIsKept
<1>2. CASE ScanCutsStreams
  <2>1. /\ eids_to_remove = {} /\ cut' = cut \union Expired
        /\ eids_to_remove' = UNION {{c} \X endpoints[c] : c \in Expired}
        /\ cleanup' = "retain"
        /\ UNCHANGED <<available_ports, endpoints, handler>>
    BY <1>2 DEF ScanCutsStreams, CleanupScan, Expired, IdleIsEmpty,
                alloc_vars, handler_vars
  <2>2. ASSUME NEW c \in Conns, NEW p, Holds(c, p)
        PROVE  Holds(c, p)'
    <3>1. c \notin cut /\ p \in RemotePorts(endpoints[c])
      BY <2>1, <2>2 DEF Holds
    <3>2. PICK e \in endpoints[c] : e.remote_port = p
      BY <3>1 DEF RemotePorts
    <3>3. c \in Expired => <<c, e>> \in eids_to_remove'
      BY <2>1
    <3> QED
      BY <2>1, <3>1, <3>2, <3>3 DEF Holds
  <2>3. PortsAccounted'
    BY <2>1, <2>2, AccountedIs DEF PortsAccounted, Holds
  <2> QED
    BY <2>1, <2>3, ExpiredSaidHello DEF CutAreMade, IdleIsEmpty, FreshHasNone
<1>3. ASSUME UNCHANGED <<cut, available_ports, endpoints, eids_to_remove>>,
             cleanup' = "idle" => IdleIsEmpty'
      PROVE  Accounted'
  BY <1>1, <1>3 DEF PortsAccounted, CutAreMade, IdleIsEmpty, FreshHasNone,
                    Typed, StreamsTypeOK
<1>4. CASE CleanupRetain /\ UNCHANGED cut
  BY <1>3, <1>4 DEF CleanupRetain, alloc_vars
<1>5. ASSUME NEW x \in eids_to_remove, CleanupRelease(x), UNCHANGED cut
      PROVE  Accounted'
  <2>1. /\ eids_to_remove' = eids_to_remove \ {x}
        /\ available_ports' = available_ports \union {x[2].remote_port}
        /\ cleanup' = "release"
        /\ UNCHANGED <<endpoints, handler>>
    BY <1>5 DEF CleanupRelease, handler_vars
  <2>2. ASSUME NEW c \in Conns, NEW p, p # x[2].remote_port, Holds(c, p)
        PROVE  Holds(c, p)'
    BY <1>5, <2>1, <2>2 DEF Holds
  <2>3. PortsAccounted'
    BY <2>1, <2>2, AccountedIs DEF PortsAccounted, Holds
  <2> QED
    BY <1>5, <2>1, <2>3 DEF CutAreMade, IdleIsEmpty, FreshHasNone
<1>6. CASE CleanupDone /\ UNCHANGED cut
  BY <1>3, <1>6 DEF CleanupDone, alloc_vars, IdleIsEmpty
<1>7. ASSUME NEW s \in Conns, NEW claims \in ClaimLists,
             NewClient(s, claims), UNCHANGED cut
      PROVE  Accounted'
  BY <1>7, NewClientIsAccounted
<1>8. CASE UNCHANGED <<cut, alloc_vars, cleanup, eids_to_remove>>
  BY <1>3, <1>8 DEF alloc_vars, IdleIsEmpty
<1> QED
  BY <1>2, <1>4, <1>5, <1>6, <1>7, <1>8, CutMoves

\* Ports and streams are given up together: whenever reconnects come and
\* whatever is claimed, a port that is not available is about to be released
\* or belongs to a client whose streams the cleanup has not cut.
THEOREM PortsAreAccounted == StreamsSafety => []PortsAccounted
<1>1. Accounted => PortsAccounted
  BY DEF Accounted
<1> QED
  BY <1>1, AccountedInitially, AccountedIsKept, AlwaysTyped, StreamsPlaced,
     PTL DEF StreamsSafety
------------------------------------------------------------------------------
\* What stays in the map with its window over stays to be removed, unless a
\* reconnect takes it out: then it is late.
LEMMA LeavingIsKept ==
    ASSUME Placed, FreshHasNone, [Next]_vars, ~ CleanupRetain,
           cleanup' = "retain", eids_to_remove \subseteq eids_to_remove',
           NEW c \in Conns, endpoints[c] # {}, Leaving(c)
    PROVE  c \in late' \/ Leaving(c)'
<1>1. CASE \E s \in Conns : Reconnect(s, c)
  <2>1. PICK e \in endpoints[c] : <<c, e>> \in eids_to_remove
    BY DEF Leaving
  <2>2. c \in late'
    BY <1>1, <2>1, LateReconnect DEF Leaving
  <2> QED
    BY <2>2
<1>2. CASE ~ \E s \in Conns : Reconnect(s, c)
  <2>1. clients'[c] = clients[c] /\ CanCleanup(clients[c])'
    BY <1>2, ExpiredWaits DEF Leaving
  <2>2. clients'[c] # None
    BY <2>1 DEF Leaving
  <2>3. endpoints'[c] = endpoints[c]
    BY EndpointsStay
  <2> QED
    BY <2>1, <2>2, <2>3 DEF Leaving
<1> QED
  BY <1>1, <1>2

\* The scan cuts the streams of the clients whose endpoints it collects, and
\* retain removes them.
LEMMA CutLeaveIsKept ==
    ASSUME Typed, Placed, FreshHasNone, CutAreMade, CutLeave,
           [StreamsNext]_all_vars
    PROVE  CutLeave'
<1>1. [Next]_vars /\ cut \in SUBSET Conns
  BY StepIsServerStep DEF Typed, StreamsTypeOK
<1>2. \A c \in Conns : Gone(c) => Gone(c)'
  BY <1>1, GoneStaysGone
<1>3. late \subseteq late'
  BY <1>1, LateGrows
<1>4. CASE ScanCutsStreams
  <2>1. /\ cut' = cut \union Expired
        /\ cleanup = "idle" /\ cleanup' = "retain"
        /\ eids_to_remove' = UNION {{c} \X endpoints[c] : c \in Expired}
        /\ UNCHANGED <<clients, state, expired, endpoints>>
    BY <1>4 DEF ScanCutsStreams, CleanupScan, Expired, client_vars, alloc_vars
  <2>2. \A c \in Expired : clients'[c] # None /\ CanCleanup(clients[c])'
    BY <2>1 DEF Expired, CanCleanup
  <2>3. \A c \in Expired : {c} \X endpoints[c] \subseteq eids_to_remove'
    BY <2>1
  <2>4. \A c \in Expired : Leaving(c)'
    BY <2>1, <2>2, <2>3 DEF Leaving
  <2>5. \A c \in cut : endpoints[c] = {} \/ c \in late \/ Gone(c)
    BY <2>1 DEF CutLeave, Leaving
  <2> QED
    BY <1>1, <1>2, <1>3, <2>1, <2>4, <2>5 DEF CutLeave
<1>5. CASE CleanupRetain /\ UNCHANGED cut
  <2>1. /\ UNCHANGED <<handler, cid, endpoints>>
        /\ \A c \in Conns : clients[c] # None /\ CanCleanup(clients[c])
                            => clients'[c] = None
    BY <1>5 DEF CleanupRetain, handler_vars, alloc_vars
  <2>2. ASSUME NEW c \in Conns, Leaving(c)
        PROVE  Gone(c)'
    <3>1. Holders(c) = {} /\ cid[c] = c /\ clients'[c] = None
      BY <2>1, <2>2, LiveIsMade DEF Leaving, Live, Placed, OneHolder
    <3> QED
      BY <2>1, <3>1 DEF Gone, Live, Holders
  <2> QED
    BY <1>1, <1>2, <1>3, <1>5, <2>1, <2>2 DEF CutLeave
<1>6. ASSUME UNCHANGED cut, ~ CleanupRetain,
             cleanup # "retain" \/ /\ cleanup' = "retain"
                                   /\ UNCHANGED eids_to_remove,
             \A c \in cut : endpoints[c] = {} => endpoints'[c] = {}
      PROVE  CutLeave'
  <2> SUFFICES ASSUME NEW c \in cut, endpoints[c] # {}, c \notin late'
               PROVE  Leaving(c)' \/ Gone(c)'
    BY <1>6 DEF CutLeave
  <2>1. Leaving(c) \/ Gone(c)
    BY <1>3 DEF CutLeave
  <2>2. CASE Leaving(c)
    BY <1>1, <1>6, <2>2, LeavingIsKept DEF Leaving
  <2> QED
    BY <1>1, <1>2, <2>1, <2>2
<1>7. CASE UNCHANGED cut /\ \E x \in eids_to_remove : CleanupRelease(x)
  BY <1>6, <1>7 DEF CleanupRelease, CleanupRetain
<1>8. CASE UNCHANGED cut /\ CleanupDone
  BY <1>6, <1>8 DEF CleanupDone, CleanupRetain, alloc_vars
<1>9. ASSUME UNCHANGED cut, NEW s \in Conns, NEW claims \in ClaimLists,
             NewClient(s, claims)
      PROVE  CutLeave'
  <2>1. /\ UNCHANGED <<cleanup, eids_to_remove>>
        /\ \A c \in Conns : c # s => endpoints'[c] = endpoints[c]
        /\ handler[s] = "hello"
    BY <1>9 DEF NewClient, cleanup_vars, alloc_vars, Typed, TypeOK
  <2> QED
    BY <1>1, <1>6, <1>9, <2>1 DEF CutAreMade, CleanupRetain, NewClient
<1>10. CASE UNCHANGED <<cut, alloc_vars, cleanup, eids_to_remove>>
  BY <1>6, <1>10 DEF CleanupRetain, alloc_vars
<1> QED
  BY <1>4, <1>5, <1>7, <1>8, <1>9, <1>10, CutMoves

\* "if client does't reconnect within window, drop streams associated with
\* this client" (client.rs:34): in every order of scan, removal, handlers and
\* read loops, a client that loses its streams to the cleanup leaves, unless
\* it comes back between the scan and the removal.
THEOREM OnlyLeaversAreCut == StreamsSafety => []CutClientsLeave
<1>1. StreamsInit => CutLeave
  BY DEF StreamsInit, CutLeave
<1>2. CutLeave /\ Placed /\ Typed => CutClientsLeave
  <2> SUFFICES ASSUME CutLeave, Placed, Typed, NEW c \in cut,
                      endpoints[c] # {}, c \notin late
               PROVE  /\ Holders(c) = {}
                      /\ clients[c] # None
                            => cleanup = "retain" /\ CanCleanup(clients[c])
    BY DEF CutClientsLeave
  <2>1. c \in Conns /\ (Leaving(c) \/ Gone(c))
    BY DEF Typed, StreamsTypeOK, CutLeave
  <2> QED
    BY <2>1 DEF Leaving, Gone, Live, Placed, OneHolder
<1>3. Typed /\ Placed /\ Accounted /\ CutLeave /\ [StreamsNext]_all_vars
         => CutLeave'
  BY CutLeaveIsKept DEF Accounted
<1> QED
  BY <1>1, <1>2, <1>3, AccountedInitially, AccountedIsKept, AlwaysTyped,
     StreamsPlaced, PTL DEF StreamsSafety
==============================================================================
