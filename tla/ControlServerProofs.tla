------------------------- MODULE ControlServerProofs -------------------------
(***************************************************************************)
(* Proofs about ControlServer, for any number of connections, any port     *)
(* range and all claim lists.                                              *)
(*                                                                         *)
(* A client is in the map or in the hands of one handler, the map holds    *)
(* living objects, and a client that has left stays away, whenever         *)
(* reconnects come.  The invariant, Placed, says where each handler leaves *)
(* its object and its id.                                                  *)
(*                                                                         *)
(* Who may be called waiting: Loops says when a read loop ends.  When the  *)
(* listeners of a living client stop: Stopped.  Which ports clients may    *)
(* share: HeldPorts counts what living clients have and what cleanup has   *)
(* collected, and says it only of ports that were never freed in use.      *)
(***************************************************************************)
EXTENDS ControlServer, TLAPS

\* What the position of a handler says of its connection.
HandlerSteps ==
    \A s \in Conns :
       /\ handler[s] = "hello" => cid[s] = None
       /\ handler[s] \in {"drop", "add"} => cid[s] # None
       /\ handler[s] = "add" => state[s] \in {"Connected", "WaitReconnect"}
       /\ handler[s] = "drop" => /\ old[s] \in Conns
                                 /\ handler[old[s]] = "done"
                                 /\ cid[old[s]] = cid[s]

\* An id that somebody works for was made by the connection it is named for.
IdsAreMade == \A s \in Conns : cid[s] # None => cid[cid[s]] = cid[s]

\* An object in the map has a handler that is done with it.
Registered ==
    \A c \in Conns : clients[c] # None =>
       /\ handler[clients[c]] = "done"
       /\ cid[clients[c]] = c
       /\ state[clients[c]] \in {"Connected", "WaitReconnect"}

Placed == TypeOK /\ HandlerSteps /\ IdsAreMade /\ Registered /\ OneHolder

------------------------------------------------------------------------------
\* What a pairing grants is well formed.
LEMMA GrantedEndpoints ==
    ASSUME NEW claims \in ClaimLists, NEW P \in SUBSET PortRange,
           NEW f \in Pairings(claims, P)
    PROVE  EndpointsOf(claims, f) \subseteq Endpoint
<1> SUFFICES ASSUME NEW i \in DOMAIN claims
             PROVE  [protocol    |-> claims[i].protocol,
                     local_port  |-> claims[i].local_port,
                     remote_port |-> f[claims[i].local_port]] \in Endpoint
  BY DEF EndpointsOf
<1> DEFINE Claims == [local_port : Nat, protocol : Protocols,
                      remote_port : Nat]
<1>1. claims \in Seq(Claims)
  BY ClaimAssumption
<1>2. claims[i] \in Claims
  <2> HIDE DEF Claims
  <2>1. DOMAIN claims = 1 .. Len(claims)
    BY <1>1
  <2> QED
    BY <1>1, <2>1
<1>3. claims[i].local_port \in LocalPorts(claims)
  BY DEF LocalPorts
<1>4. f[claims[i].local_port] \in PortRange
  BY <1>3 DEF Pairings
<1> QED
  BY <1>2, <1>4 DEF Endpoint

LEMMA TypeHoldsInitially == Init => TypeOK
  BY DEF Init, TypeOK

\* Every action keeps the types.
LEMMA TypeIsKept == TypeOK /\ [Next]_vars => TypeOK'
<1> SUFFICES ASSUME TypeOK, [Next]_vars PROVE TypeOK'
  OBVIOUS
<1> USE DEF TypeOK, alloc_vars, handler_vars, client_vars, net_vars,
            cleanup_vars
<1>1. ASSUME NEW s \in Conns, NEW claims \in ClaimLists, NewClient(s, claims)
      PROVE  TypeOK'
  <2>1. CASE ValidClaims(claims, available_ports)
    <3>1. PICK f \in Pairings(claims, available_ports) :
             /\ endpoints' = [endpoints EXCEPT ![s] = EndpointsOf(claims, f)]
             /\ available_ports' = available_ports \
                   {f[a] : a \in LocalPorts(claims)}
      BY <1>1, <2>1 DEF NewClient
    <3>2. EndpointsOf(claims, f) \subseteq Endpoint
      BY GrantedEndpoints
    <3>3. /\ endpoints' \in [Conns -> SUBSET Endpoint]
          /\ available_ports' \in SUBSET PortRange
      BY <3>1, <3>2
    <3> QED
      BY <1>1, <2>1, <3>3 DEF NewClient
  <2>2. CASE ~ ValidClaims(claims, available_ports)
    BY <1>1, <2>2 DEF NewClient
  <2> QED
    BY <2>1, <2>2
<1>2. ASSUME NEW s \in Conns, NEW c \in Conns, Reconnect(s, c)
      PROVE  TypeOK'
  <2>1. late' \in SUBSET Conns
    BY <1>2 DEF Reconnect
  <2> QED
    BY <1>2, <2>1 DEF Reconnect, RemoveClient
<1>3. ASSUME NEW s \in Conns, DropOld(s)
      PROVE  TypeOK'
  BY <1>3 DEF DropOld, Drop
<1>4. ASSUME NEW s \in Conns, HelloFails(s) \/ HelloSent(s) \/ NotSuccess(s)
      PROVE  TypeOK'
  BY <1>4 DEF HelloFails, HelloSent, NotSuccess
<1>5. ASSUME NEW s \in Conns, AddClient(s)
      PROVE  TypeOK'
  BY <1>5 DEF AddClient, Drop
<1>6. ASSUME NEW s \in Conns, NEW e \in unspawned[s], SpawnRemote(s, e)
      PROVE  TypeOK'
  BY <1>6 DEF SpawnRemote
<1>7. ASSUME NEW s \in Conns, ReadLoop(s)
      PROVE  TypeOK'
  BY <1>7 DEF ReadLoop, ReadLoopBreaks, ReadLoopEnds, SetWaitReconnect
<1>8. ASSUME NEW s \in Conns, Disconnect(s) \/ WindowEnds(s)
      PROVE  TypeOK'
  BY <1>8 DEF Disconnect, WindowEnds
<1>9. ASSUME NEW c \in Conns, SendPing(c) \/ SendFails(c)
      PROVE  TypeOK'
  BY <1>9 DEF SendPing, SendFails, SetWaitReconnect
<1>10. ASSUME NEW x \in listeners, ListenerStops(x)
       PROVE  TypeOK'
  BY <1>10 DEF ListenerStops
<1>11. CASE CleanupScan
  BY <1>11 DEF CleanupScan
<1>12. CASE CleanupRetain
  BY <1>12 DEF CleanupRetain, Drop
<1>13. ASSUME NEW x \in eids_to_remove, CleanupRelease(x)
       PROVE  TypeOK'
  BY <1>13 DEF CleanupRelease, Endpoint
<1>14. CASE CleanupDone
  BY <1>14 DEF CleanupDone
<1>15. CASE UNCHANGED vars
  BY <1>15 DEF vars
<1> QED
  BY <1>1, <1>2, <1>3, <1>4, <1>5, <1>6, <1>7, <1>8, <1>9, <1>10, <1>11,
     <1>12, <1>13, <1>14, <1>15
     DEF Next, Hello, Handle, Cleanup

\* Every variable stays in its type, in particular the table in its range.
THEOREM TypeCorrect == SafetySpec => []TypeOK
  BY TypeHoldsInitially, TypeIsKept, PTL DEF SafetySpec
------------------------------------------------------------------------------
Places == <<clients, handler, cid, old, state>>

LEMMA PlacedInitially == Init => Placed
<1> SUFFICES ASSUME Init PROVE Placed
  OBVIOUS
<1>1. TypeOK
  BY TypeHoldsInitially
<1>2. HandlerSteps /\ IdsAreMade /\ Registered /\ OneHolder
  BY DEF Init, HandlerSteps, IdsAreMade, Registered, OneHolder, Holders
<1> QED
  BY <1>1, <1>2 DEF Placed

\* Steps that leave the places alone.
LEMMA PlacedIfUnchanged ==
    ASSUME Placed, TypeOK', UNCHANGED Places
    PROVE  Placed'
  BY DEF Places, Placed, HandlerSteps, IdsAreMade, Registered, OneHolder,
         Holders

\* A demotion to WaitReconnect leaves the placement alone.
LEMMA PlacedIfDemoted ==
    ASSUME Placed, TypeOK', NEW o, SetWaitReconnect(o),
           UNCHANGED <<clients, handler, cid, old>>
    PROVE  Placed'
<1>1. \A s \in Conns : state[s] \in {"Connected", "WaitReconnect"}
                         => state'[s] \in {"Connected", "WaitReconnect"}
  BY DEF Placed, TypeOK, SetWaitReconnect
<1> QED
  BY <1>1 DEF Placed, TypeOK, HandlerSteps, IdsAreMade, Registered, OneHolder,
              Holders

LEMMA NewClientKeepsPlaced ==
    ASSUME Placed, TypeOK', NEW s \in Conns, NEW claims \in ClaimLists,
           NewClient(s, claims)
    PROVE  Placed'
<1> USE DEF Placed
<1>1. handler[s] = "hello" /\ cid[s] = None
  BY DEF NewClient, HandlerSteps
<1>2. /\ handler' = [handler EXCEPT ![s] = "send"]
      /\ cid' = cid \/ cid' = [cid EXCEPT ![s] = s]
      /\ UNCHANGED <<clients, old, state>>
  BY DEF NewClient, client_vars
<1>3. \A t \in Conns : cid[t] # s
  BY <1>1, NoneAssumption DEF IdsAreMade
<1>4. clients[s] = None
  BY <1>3 DEF Registered, TypeOK
<1>5. \A t \in Conns : t # s => handler'[t] = handler[t] /\ cid'[t] = cid[t]
  BY <1>2 DEF TypeOK
<1>6. handler'[s] = "send" /\ cid'[s] \in {s, None}
  BY <1>1, <1>2 DEF TypeOK
<1>7. HandlerSteps'
  BY <1>1, <1>2, <1>5, <1>6 DEF HandlerSteps
<1>8. IdsAreMade'
  BY <1>1, <1>5, <1>6, NoneAssumption DEF IdsAreMade, TypeOK
<1>9. Registered'
  BY <1>1, <1>2, <1>5 DEF Registered, TypeOK
<1>10. OneHolder'
  BY <1>2, <1>3, <1>4, <1>5, <1>6, NoneAssumption DEF OneHolder, Holders
<1> QED
  BY <1>7, <1>8, <1>9, <1>10

LEMMA ReconnectKeepsPlaced ==
    ASSUME Placed, TypeOK', NEW s \in Conns, NEW c \in Conns,
           Reconnect(s, c)
    PROVE  Placed'
<1> USE DEF Placed
<1>1. handler[s] = "hello" /\ cid[s] = None
  BY DEF Reconnect, HandlerSteps
<1>2. CASE clients[c] = None
  <2>1. /\ handler' = [handler EXCEPT ![s] = "done"]
        /\ UNCHANGED <<clients, cid, old, state>>
    BY <1>2 DEF Reconnect, Found, client_vars
  <2> QED
    BY <1>1, <2>1 DEF TypeOK, HandlerSteps, IdsAreMade, Registered, OneHolder,
                      Holders
<1>3. CASE clients[c] # None
  <2>1. /\ handler' = [handler EXCEPT ![s] = "drop"]
        /\ clients' = [clients EXCEPT ![c] = None]
        /\ cid' = [cid EXCEPT ![s] = c]
        /\ old' = [old EXCEPT ![s] = clients[c]]
        /\ UNCHANGED state
    BY <1>3 DEF Reconnect, Found, RemoveClient, client_vars
  <2>2. /\ clients[c] \in Conns /\ cid[clients[c]] = c
        /\ handler[clients[c]] = "done"
        /\ cid[c] = c /\ s # c /\ s # clients[c]
    BY <1>1, <1>3, NoneAssumption DEF Registered, IdsAreMade, TypeOK
  <2>3. \A t \in Conns : t # s => /\ handler'[t] = handler[t]
                                  /\ cid'[t] = cid[t] /\ old'[t] = old[t]
    BY <2>1 DEF TypeOK
  <2>4. handler'[s] = "drop" /\ cid'[s] = c /\ old'[s] = clients[c]
    BY <2>1 DEF TypeOK
  <2>5. clients'[c] = None
        /\ \A d \in Conns : d # c => clients'[d] = clients[d]
    BY <2>1 DEF TypeOK
  <2>6. HandlerSteps'
    BY <1>1, <2>1, <2>2, <2>3, <2>4, NoneAssumption DEF HandlerSteps
  <2>7. IdsAreMade'
    BY <1>1, <2>2, <2>3, <2>4, NoneAssumption DEF IdsAreMade, TypeOK
  <2>8. Registered'
    BY <1>1, <2>1, <2>3, <2>5 DEF Registered, TypeOK
  <2>9. OneHolder'
    BY <1>1, <1>3, <2>3, <2>4, <2>5 DEF OneHolder, Holders
  <2> QED
    BY <2>6, <2>7, <2>8, <2>9
<1> QED
  BY <1>2, <1>3

\* Dropping objects that are not in the map and whose handlers are done.
LEMMA DropOldKeepsPlaced ==
    ASSUME Placed, TypeOK', NEW s \in Conns, DropOld(s)
    PROVE  Placed'
<1> USE DEF Placed
<1>1. /\ handler[s] = "drop" /\ cid[s] # None
      /\ old[s] \in Conns /\ handler[old[s]] = "done"
      /\ cid[old[s]] = cid[s]
  BY DEF DropOld, HandlerSteps
<1>2. /\ handler' = [handler EXCEPT ![s] = "send"]
      /\ old' = [old EXCEPT ![s] = None]
      /\ \A t \in Conns : t # old[s] => state'[t] = state[t]
      /\ UNCHANGED <<clients, cid>>
  BY DEF DropOld, Drop, TypeOK
<1>3. \A t \in Conns : t # s => handler'[t] = handler[t] /\ old'[t] = old[t]
  BY <1>2 DEF TypeOK
<1>4. handler'[s] = "send"
  BY <1>2 DEF TypeOK
<1>5. s \in Holders(cid[s]) /\ clients[cid[s]] = None
  BY <1>1 DEF OneHolder, Holders, TypeOK
<1>6. \A c \in Conns : clients[c] # old[s]
  BY <1>1, <1>5, NoneAssumption DEF Registered
<1>7. HandlerSteps'
  BY <1>1, <1>2, <1>3, <1>4 DEF HandlerSteps
<1>8. IdsAreMade'
  BY <1>2 DEF IdsAreMade
<1>9. Registered'
  BY <1>1, <1>2, <1>3, <1>6 DEF Registered, TypeOK
<1>10. OneHolder'
  BY <1>1, <1>2, <1>3, <1>4 DEF OneHolder, Holders
<1> QED
  BY <1>7, <1>8, <1>9, <1>10

LEMMA HelloKeepsPlaced ==
    ASSUME Placed, TypeOK', NEW s \in Conns,
           HelloFails(s) \/ HelloSent(s) \/ NotSuccess(s)
    PROVE  Placed'
<1> USE DEF Placed
<1>1. /\ handler[s] \in {"send", "unavailable"}
      /\ UNCHANGED <<clients, cid, old>>
  BY DEF HelloFails, HelloSent, NotSuccess, client_vars
<1>2. \A t \in Conns : t # s => handler'[t] = handler[t]
                                /\ state'[t] = state[t]
  BY DEF HelloFails, HelloSent, NotSuccess, client_vars, TypeOK
<1>3. \/ handler'[s] \in {"unavailable", "done"}
      \/ /\ handler[s] = "send" /\ handler'[s] = "add"
         /\ cid[s] # None /\ state'[s] = "Connected"
  BY DEF HelloFails, HelloSent, NotSuccess, TypeOK
<1>4. HandlerSteps'
  BY <1>1, <1>2, <1>3 DEF HandlerSteps
<1>5. IdsAreMade'
  BY <1>1 DEF IdsAreMade
<1>6. Registered'
  BY <1>1, <1>2 DEF Registered, TypeOK
<1>7. OneHolder'
  BY <1>1, <1>2, <1>3 DEF OneHolder, Holders
<1> QED
  BY <1>4, <1>5, <1>6, <1>7

\* add_client finds the place in the map empty, so it drops nothing.
LEMMA AddClientKeepsPlaced ==
    ASSUME Placed, TypeOK', NEW s \in Conns, AddClient(s)
    PROVE  Placed'
<1> USE DEF Placed
<1>1. /\ handler[s] = "add" /\ cid[s] # None
      /\ state[s] \in {"Connected", "WaitReconnect"}
  BY DEF AddClient, HandlerSteps
<1>2. s \in Holders(cid[s]) /\ clients[cid[s]] = None
  BY <1>1 DEF OneHolder, Holders, TypeOK
<1>3. \A t \in Conns : state'[t] = state[t]
  BY <1>2, NoneAssumption DEF AddClient, Drop, TypeOK
<1>4. /\ clients' = [clients EXCEPT ![cid[s]] = s]
      /\ handler' = [handler EXCEPT ![s] = "done"]
      /\ UNCHANGED <<cid, old>>
  BY DEF AddClient
<1>5. /\ handler'[s] = "done"
      /\ \A t \in Conns : t # s => handler'[t] = handler[t]
  BY <1>4 DEF TypeOK
<1>6. /\ clients'[cid[s]] = s
      /\ \A d \in Conns : d # cid[s] => clients'[d] = clients[d]
  BY <1>1, <1>4 DEF TypeOK
<1>7. HandlerSteps'
  BY <1>1, <1>3, <1>4, <1>5 DEF HandlerSteps
<1>8. IdsAreMade'
  BY <1>4 DEF IdsAreMade
<1>9. Registered'
  BY <1>1, <1>3, <1>4, <1>5, <1>6 DEF Registered, TypeOK
<1>10. OneHolder'
  BY <1>1, <1>2, <1>4, <1>5, <1>6 DEF OneHolder, Holders, TypeOK
<1> QED
  BY <1>7, <1>8, <1>9, <1>10

\* retain drops the objects it takes out of the map, and no others.
LEMMA RetainKeepsPlaced ==
    ASSUME Placed, TypeOK', CleanupRetain
    PROVE  Placed'
<1> USE DEF Placed
<1> DEFINE gone == {c \in Conns : clients[c] # None /\ CanCleanup(clients[c])}
<1>1. /\ clients' = [c \in Conns |-> IF c \in gone THEN None ELSE clients[c]]
      /\ state' = [s \in Conns |-> IF s \in {clients[c] : c \in gone}
                                   THEN "Dropped" ELSE state[s]]
      /\ UNCHANGED <<handler, cid, old>>
  BY DEF CleanupRetain, Drop, handler_vars
<1>2. \A c \in Conns : clients'[c] # None
                       => clients'[c] = clients[c] /\ c \notin gone
  BY <1>1
<1>3. \A c, d \in Conns : clients[c] # None /\ clients[c] = clients[d]
                          => c = d
  BY DEF Registered
<1>4. \A t \in Conns : handler[t] # "done" => state'[t] = state[t]
  BY <1>1 DEF Registered
<1>5. \A c \in Conns : clients'[c] # None
                       => state'[clients'[c]] = state[clients[c]]
  BY <1>1, <1>2, <1>3 DEF TypeOK
<1>6. HandlerSteps'
  BY <1>1, <1>4 DEF HandlerSteps
<1>7. IdsAreMade'
  BY <1>1 DEF IdsAreMade
<1>8. Registered'
  BY <1>1, <1>2, <1>5 DEF Registered
<1>9. OneHolder'
  BY <1>1, <1>2 DEF OneHolder, Holders
<1> QED
  BY <1>6, <1>7, <1>8, <1>9

LEMMA PlacedIsKept == Placed /\ [Next]_vars => Placed'
<1> SUFFICES ASSUME Placed, [Next]_vars PROVE Placed'
  OBVIOUS
<1>0. TypeOK'
  BY TypeIsKept DEF Placed
<1>1. ASSUME NEW s \in Conns, Hello(s)
      PROVE  Placed'
  BY <1>0, <1>1, NewClientKeepsPlaced, ReconnectKeepsPlaced DEF Hello
<1>2. ASSUME NEW s \in Conns, NEW e \in unspawned[s], SpawnRemote(s, e)
      PROVE  UNCHANGED Places
  BY <1>2 DEF SpawnRemote, Places, client_vars
<1>3. ASSUME NEW s \in Conns, Handle(s)
      PROVE  Placed'
  BY <1>0, <1>2, <1>3, DropOldKeepsPlaced, HelloKeepsPlaced,
     AddClientKeepsPlaced, PlacedIfUnchanged DEF Handle
<1>4. ASSUME NEW s \in Conns, ReadLoopBreaks(s) \/ Disconnect(s) \/ WindowEnds(s)
      PROVE  UNCHANGED Places
  BY <1>4 DEF ReadLoopBreaks, Disconnect, WindowEnds, Places, client_vars,
              handler_vars
<1>5. ASSUME NEW s \in Conns, ReadLoopEnds(s)
      PROVE  Placed'
  <2>1. CASE clients[cid[s]] = None
    <3>1. UNCHANGED Places
      BY <1>5, <2>1 DEF ReadLoopEnds, Places, handler_vars
    <3> QED
      BY <1>0, <3>1, PlacedIfUnchanged
  <2>2. CASE clients[cid[s]] # None
    <3>1. SetWaitReconnect(clients[cid[s]])
          /\ UNCHANGED <<clients, handler, cid, old>>
      BY <1>5, <2>2 DEF ReadLoopEnds, handler_vars
    <3> QED
      BY <1>0, <3>1, PlacedIfDemoted
  <2> QED
    BY <2>1, <2>2
<1>6. ASSUME NEW c \in Conns, SendFails(c)
      PROVE  Placed'
  <2>1. SetWaitReconnect(clients[c]) /\ UNCHANGED <<clients, handler, cid, old>>
    BY <1>6 DEF SendFails, handler_vars
  <2> QED
    BY <1>0, <2>1, PlacedIfDemoted
<1>7. ASSUME NEW c \in Conns, SendPing(c)
      PROVE  UNCHANGED Places
  BY <1>7 DEF SendPing, Places, client_vars, handler_vars
<1>8. ASSUME NEW x \in listeners, ListenerStops(x)
      PROVE  UNCHANGED Places
  BY <1>8 DEF ListenerStops, Places, client_vars, handler_vars
<1>9. CASE CleanupScan \/ CleanupDone
           \/ \E x \in eids_to_remove : CleanupRelease(x)
  <2>1. UNCHANGED Places
    BY <1>9 DEF CleanupScan, CleanupDone, CleanupRelease, Places,
                client_vars, handler_vars
  <2> QED
    BY <1>0, <2>1, PlacedIfUnchanged
<1>10. CASE CleanupRetain
  BY <1>0, <1>10, RetainKeepsPlaced
<1>11. CASE UNCHANGED vars
  <2>1. UNCHANGED Places
    BY <1>11 DEF vars, Places, client_vars, handler_vars
  <2> QED
    BY <1>0, <2>1, PlacedIfUnchanged
<1> QED
  BY <1>0, <1>1, <1>3, <1>4, <1>5, <1>6, <1>7, <1>8, <1>9, <1>10, <1>11,
     PlacedIfUnchanged
     DEF Next, ReadLoop, Cleanup

LEMMA AlwaysPlaced == SafetySpec => []Placed
  BY PlacedInitially, PlacedIsKept, PTL DEF SafetySpec

\* Racing reconnects, cleanup and failed handshakes never put a client into
\* the hands of two handlers, nor of a handler while it is in the map.
THEOREM OneHolderAlways == SafetySpec => []OneHolder
<1>1. Placed => OneHolder
  BY DEF Placed
<1> QED
  BY <1>1, AlwaysPlaced, PTL

\* The map never holds a dropped object, nor one of another client.
THEOREM RegisteredIsAliveAlways == SafetySpec => []RegisteredIsAlive
<1>1. Placed => RegisteredIsAlive
  BY DEF Placed, Registered, RegisteredIsAlive
<1> QED
  BY <1>1, AlwaysPlaced, PTL
------------------------------------------------------------------------------
\* The steps that move clients or ids, drop objects or end windows; all
\* others leave the map, the handlers, the ids and the tokens alone.
LEMMA Moves ==
    ASSUME [Next]_vars
    PROVE  \/ \E s \in Conns, claims \in ClaimLists : NewClient(s, claims)
           \/ \E s, c \in Conns : Reconnect(s, c)
           \/ \E s \in Conns : DropOld(s)
           \/ \E s \in Conns : HelloFails(s) \/ HelloSent(s) \/ NotSuccess(s)
           \/ \E s \in Conns : AddClient(s)
           \/ CleanupRetain
           \/ \E s \in Conns : WindowEnds(s)
           \/ UNCHANGED <<clients, handler, cid, old, expired, ct_child>>
<1> USE DEF handler_vars, client_vars
<1>1. ASSUME NEW s \in Conns, NEW e \in unspawned[s], SpawnRemote(s, e)
      PROVE  UNCHANGED <<clients, handler, cid, old, expired, ct_child>>
  BY <1>1 DEF SpawnRemote
<1>2. ASSUME NEW s \in Conns, ReadLoop(s) \/ Disconnect(s)
      PROVE  UNCHANGED <<clients, handler, cid, old, expired, ct_child>>
  BY <1>2 DEF ReadLoop, ReadLoopBreaks, ReadLoopEnds, Disconnect
<1>3. ASSUME NEW c \in Conns, SendPing(c) \/ SendFails(c)
      PROVE  UNCHANGED <<clients, handler, cid, old, expired, ct_child>>
  BY <1>3 DEF SendPing, SendFails
<1>4. ASSUME NEW x \in listeners, ListenerStops(x)
      PROVE  UNCHANGED <<clients, handler, cid, old, expired, ct_child>>
  BY <1>4 DEF ListenerStops
<1>5. ASSUME CleanupScan \/ CleanupDone
                \/ \E x \in eids_to_remove : CleanupRelease(x)
      PROVE  UNCHANGED <<clients, handler, cid, old, expired, ct_child>>
  BY <1>5 DEF CleanupScan, CleanupDone, CleanupRelease
<1>6. ASSUME UNCHANGED vars
      PROVE  UNCHANGED <<clients, handler, cid, old, expired, ct_child>>
  BY <1>6 DEF vars
<1> QED
  BY <1>1, <1>2, <1>3, <1>4, <1>5, <1>6 DEF Next, Hello, Handle, Cleanup

\* The id a connection works for is set once, by its hello.
LEMMA IdIsKept ==
    ASSUME Placed, [Next]_vars, NEW c \in Conns, handler[c] # "hello"
    PROVE  handler'[c] # "hello" /\ cid'[c] = cid[c]
<1> USE DEF Placed, TypeOK
<1>1. ASSUME NEW s \in Conns, NEW claims \in ClaimLists, NewClient(s, claims)
      PROVE  handler'[c] # "hello" /\ cid'[c] = cid[c]
  BY <1>1 DEF NewClient
<1>2. ASSUME NEW s \in Conns, NEW d \in Conns, Reconnect(s, d)
      PROVE  handler'[c] # "hello" /\ cid'[c] = cid[c]
  BY <1>2 DEF Reconnect
<1>3. ASSUME NEW s \in Conns, DropOld(s) \/ AddClient(s)
      PROVE  handler'[c] # "hello" /\ cid'[c] = cid[c]
  BY <1>3 DEF DropOld, AddClient
<1>4. ASSUME NEW s \in Conns, HelloFails(s) \/ HelloSent(s) \/ NotSuccess(s)
      PROVE  handler'[c] # "hello" /\ cid'[c] = cid[c]
  BY <1>4 DEF HelloFails, HelloSent, NotSuccess
<1>5. ASSUME CleanupRetain \/ \E s \in Conns : WindowEnds(s)
      PROVE  handler'[c] # "hello" /\ cid'[c] = cid[c]
  BY <1>5 DEF CleanupRetain, WindowEnds, handler_vars
<1> QED
  BY <1>1, <1>2, <1>3, <1>4, <1>5, Moves

\* A handler that is done stays done.
LEMMA DoneStaysDone ==
    ASSUME Placed, [Next]_vars, NEW c \in Conns, handler[c] = "done"
    PROVE  handler'[c] = "done"
<1> USE DEF Placed, TypeOK
<1>1. ASSUME NEW s \in Conns, NEW claims \in ClaimLists, NewClient(s, claims)
      PROVE  handler'[c] = "done"
  BY <1>1 DEF NewClient
<1>2. ASSUME NEW s \in Conns, NEW d \in Conns, Reconnect(s, d)
      PROVE  handler'[c] = "done"
  BY <1>2 DEF Reconnect
<1>3. ASSUME NEW s \in Conns, DropOld(s) \/ AddClient(s)
      PROVE  handler'[c] = "done"
  BY <1>3 DEF DropOld, AddClient
<1>4. ASSUME NEW s \in Conns, HelloFails(s) \/ HelloSent(s) \/ NotSuccess(s)
      PROVE  handler'[c] = "done"
  BY <1>4 DEF HelloFails, HelloSent, NotSuccess
<1>5. ASSUME CleanupRetain \/ \E s \in Conns : WindowEnds(s)
      PROVE  handler'[c] = "done"
  BY <1>5 DEF CleanupRetain, WindowEnds, handler_vars
<1> QED
  BY <1>1, <1>2, <1>3, <1>4, <1>5, Moves

\* A client comes to life by the NewClient hello of its own connection only.
LEMMA LifeBegins ==
    ASSUME Placed, [Next]_vars, NEW c \in Conns, Live(c)', ~ Live(c)
    PROVE  \E claims \in ClaimLists : NewClient(c, claims)
<1> USE DEF Placed, TypeOK, Live, Holders
<1> SUFFICES ASSUME \A claims \in ClaimLists : ~ NewClient(c, claims)
             PROVE  FALSE
  OBVIOUS
<1>1. ASSUME NEW s \in Conns, NEW claims \in ClaimLists, NewClient(s, claims)
      PROVE  FALSE
  <2>1. s # c
    BY <1>1
  <2>2. /\ UNCHANGED clients
        /\ handler' = [handler EXCEPT ![s] = "send"]
        /\ cid' = cid \/ cid' = [cid EXCEPT ![s] = s]
    BY <1>1 DEF NewClient
  <2>3. cid[s] = None
    BY <1>1 DEF NewClient, HandlerSteps
  <2> QED
    BY <2>1, <2>2, <2>3, NoneAssumption
<1>2. ASSUME NEW s \in Conns, NEW d \in Conns, Reconnect(s, d)
      PROVE  FALSE
  <2>1. CASE clients[d] = None
    BY <1>2, <2>1 DEF Reconnect, Found
  <2>2. CASE clients[d] # None
    <3>1. d # c
      BY <2>2
    <3> QED
      BY <1>2, <2>2, <3>1 DEF Reconnect, Found, RemoveClient
  <2> QED
    BY <2>1, <2>2
<1>3. ASSUME NEW s \in Conns, DropOld(s)
      PROVE  FALSE
  BY <1>3 DEF DropOld
<1>4. ASSUME NEW s \in Conns, HelloFails(s) \/ HelloSent(s) \/ NotSuccess(s)
      PROVE  FALSE
  BY <1>4 DEF HelloFails, HelloSent, NotSuccess
<1>5. ASSUME NEW s \in Conns, AddClient(s)
      PROVE  FALSE
  <2>1. cid[s] # c
    BY <1>5 DEF AddClient
  <2> QED
    BY <1>5, <2>1 DEF AddClient
<1>6. CASE CleanupRetain
  BY <1>6 DEF CleanupRetain, handler_vars
<1>7. CASE \E s \in Conns : WindowEnds(s)
  BY <1>7 DEF WindowEnds, handler_vars
<1>8. CASE UNCHANGED <<clients, handler, cid>>
  BY <1>8
<1> QED
  BY <1>1, <1>2, <1>3, <1>4, <1>5, <1>6, <1>7, <1>8, Moves

LEMMA GoneStaysGone ==
    ASSUME Placed, [Next]_vars, NEW c \in Conns, Gone(c)
    PROVE  Gone(c)'
<1>1. handler[c] # "hello"
  BY NoneAssumption DEF Gone, Placed, HandlerSteps
<1>2. cid'[c] = c
  BY <1>1, IdIsKept DEF Gone
<1>3. ~ \E claims \in ClaimLists : NewClient(c, claims)
  BY <1>1 DEF NewClient
<1>4. ~ Live(c)'
  BY <1>3, LifeBegins DEF Gone
<1> QED
  BY <1>2, <1>4 DEF Gone

\* A client that has left never comes back, however late a reconnect, a read
\* loop or a handler that works for it is.
THEOREM DepartedStayAway == SafetySpec => NoResurrection
<1>1. Placed /\ [Next]_vars => [\A c \in Conns : Gone(c) => Gone(c)']_vars
  BY GoneStaysGone
<1> QED
  BY <1>1, AlwaysPlaced, PTL DEF SafetySpec, NoResurrection
------------------------------------------------------------------------------
(* Who calls a client's websocket dead. *)

\* A read loop works for an id, and leaves when its object has been dropped or
\* its websocket is closed; an object that has been dropped stays dropped.
Loops ==
    \A s \in Conns :
       /\ read_loop[s] # "none" => cid[s] # None
       /\ read_loop[s] = "leaving" => ct_self[s] \/ ~ open[s]
       /\ ct_self[s] => state[s] = "Dropped" /\ handler[s] = "done"

LEMMA LoopsInitially == Init => Loops
  BY DEF Init, Loops

LEMMA LoopsAreKept == Placed /\ Loops /\ [Next]_vars => Loops'
<1> SUFFICES ASSUME Placed, Loops, [Next]_vars PROVE Loops'
  OBVIOUS
<1> USE DEF Placed, TypeOK, Loops, alloc_vars, handler_vars, client_vars,
            net_vars, cleanup_vars
<1>1. ASSUME NEW s \in Conns, NEW claims \in ClaimLists, NewClient(s, claims)
      PROVE  Loops'
  <2>1. /\ handler[s] = "hello" /\ cid[s] = None
        /\ handler' = [handler EXCEPT ![s] = "send"]
        /\ cid' = cid \/ cid' = [cid EXCEPT ![s] = s]
        /\ UNCHANGED <<state, ct_self, read_loop, open>>
    BY <1>1 DEF NewClient, HandlerSteps
  <2> QED
    BY <2>1
<1>2. ASSUME NEW s \in Conns, NEW c \in Conns, Reconnect(s, c)
      PROVE  Loops'
  <2>1. /\ handler[s] = "hello" /\ cid[s] = None
        /\ \E h \in {"drop", "done"} : handler' = [handler EXCEPT ![s] = h]
        /\ cid' = cid \/ cid' = [cid EXCEPT ![s] = c]
        /\ UNCHANGED <<state, ct_self, read_loop, open>>
    BY <1>2 DEF Reconnect, HandlerSteps
  <2> QED
    BY <2>1
<1>3. ASSUME NEW s \in Conns, DropOld(s)
      PROVE  Loops'
  <2>1. handler[s] = "drop" /\ handler[old[s]] = "done" /\ old[s] \in Conns
    BY <1>3 DEF DropOld, HandlerSteps
  <2> QED
    BY <1>3, <2>1 DEF DropOld, Drop
<1>4. ASSUME NEW s \in Conns, HelloFails(s) \/ HelloSent(s) \/ NotSuccess(s)
      PROVE  Loops'
  BY <1>4 DEF HelloFails, HelloSent, NotSuccess
<1>5. ASSUME NEW s \in Conns, AddClient(s)
      PROVE  Loops'
  <2>1. s \in Holders(cid[s]) /\ clients[cid[s]] = None
    BY <1>5 DEF AddClient, HandlerSteps, OneHolder, Holders
  <2>2. UNCHANGED <<state, ct_self, cid, read_loop, open>>
    BY <1>5, <2>1, NoneAssumption DEF AddClient, Drop
  <2>3. handler' = [handler EXCEPT ![s] = "done"]
    BY <1>5 DEF AddClient
  <2> QED
    BY <2>2, <2>3
<1>6. ASSUME NEW s \in Conns, NEW e \in unspawned[s], SpawnRemote(s, e)
      PROVE  Loops'
  BY <1>6 DEF SpawnRemote
<1>7. ASSUME NEW s \in Conns, ReadLoopBreaks(s)
      PROVE  Loops'
  BY <1>7 DEF ReadLoopBreaks, LoopIsOver
<1>8. ASSUME NEW s \in Conns, ReadLoopEnds(s)
      PROVE  Loops'
  BY <1>8 DEF ReadLoopEnds, SetWaitReconnect
<1>9. ASSUME NEW s \in Conns, Disconnect(s) \/ WindowEnds(s)
      PROVE  Loops'
  BY <1>9 DEF Disconnect, WindowEnds
<1>10. ASSUME NEW c \in Conns, SendPing(c) \/ SendFails(c)
       PROVE  Loops'
  BY <1>10 DEF SendPing, SendFails, SetWaitReconnect
<1>11. CASE CleanupRetain
  <2> DEFINE gone == {c \in Conns : clients[c] # None /\ CanCleanup(clients[c])}
  <2>1. /\ ct_self' = [s \in Conns |-> ct_self[s] \/ s \in {clients[c] : c \in gone}]
        /\ state' = [s \in Conns |-> IF s \in {clients[c] : c \in gone}
                                     THEN "Dropped" ELSE state[s]]
        /\ UNCHANGED <<handler, cid, read_loop, open>>
    BY <1>11 DEF CleanupRetain, Drop
  <2>2. \A c \in gone : handler[clients[c]] = "done"
    BY DEF Registered
  <2> QED
    BY <2>1, <2>2
<1>12. CASE \/ \E x \in listeners : ListenerStops(x)
            \/ CleanupScan \/ CleanupDone
            \/ \E x \in eids_to_remove : CleanupRelease(x)
  BY <1>12 DEF ListenerStops, CleanupScan, CleanupDone, CleanupRelease
<1>13. CASE UNCHANGED vars
  BY <1>13 DEF vars
<1> HIDE DEF Loops, Placed, TypeOK
<1> QED
  BY <1>1, <1>2, <1>3, <1>4, <1>5, <1>6, <1>7, <1>8, <1>9, <1>10, <1>11,
     <1>12, <1>13
     DEF Next, Hello, Handle, ReadLoop, Cleanup

\* Two places demote a client.
LEMMA Demotions ==
    ASSUME Placed, [Next]_vars, NEW s \in Conns,
           state[s] = "Connected", state'[s] = "WaitReconnect"
    PROVE  \/ \E t \in Conns : ReadLoopEnds(t) /\ clients[cid[t]] = s
           \/ \E c \in Conns : SendFails(c) /\ clients[c] = s
<1> USE DEF Placed, TypeOK, alloc_vars, handler_vars, client_vars, net_vars,
            cleanup_vars
<1>1. ASSUME NEW t \in Conns, Hello(t)
      PROVE  FALSE
  BY <1>1 DEF Hello, NewClient, Reconnect
<1>2. ASSUME NEW t \in Conns, DropOld(t) \/ AddClient(t)
      PROVE  FALSE
  BY <1>2 DEF DropOld, AddClient, Drop
<1>3. ASSUME NEW t \in Conns, HelloFails(t) \/ HelloSent(t) \/ NotSuccess(t)
      PROVE  FALSE
  BY <1>3 DEF HelloFails, HelloSent, NotSuccess
<1>4. ASSUME NEW t \in Conns, NEW e \in unspawned[t], SpawnRemote(t, e)
      PROVE  FALSE
  BY <1>4 DEF SpawnRemote
<1>5. ASSUME NEW t \in Conns, ReadLoopBreaks(t) \/ Disconnect(t) \/ WindowEnds(t)
      PROVE  FALSE
  BY <1>5 DEF ReadLoopBreaks, Disconnect, WindowEnds
<1>6. ASSUME NEW t \in Conns, ReadLoopEnds(t)
      PROVE  clients[cid[t]] = s
  BY <1>6 DEF ReadLoopEnds, SetWaitReconnect
<1>7. ASSUME NEW c \in Conns, SendFails(c)
      PROVE  clients[c] = s
  BY <1>7 DEF SendFails, SetWaitReconnect
<1>8. ASSUME NEW c \in Conns, SendPing(c)
      PROVE  FALSE
  BY <1>8 DEF SendPing
<1>9. CASE CleanupRetain
  BY <1>9 DEF CleanupRetain, Drop
<1>10. CASE \/ \E x \in listeners : ListenerStops(x)
            \/ CleanupScan \/ CleanupDone
            \/ \E x \in eids_to_remove : CleanupRelease(x)
  BY <1>10 DEF ListenerStops, CleanupScan, CleanupDone, CleanupRelease
<1>11. CASE UNCHANGED vars
  BY <1>11 DEF vars
<1> HIDE DEF Placed, TypeOK
<1> QED
  BY <1>1, <1>2, <1>3, <1>4, <1>5, <1>6, <1>7, <1>8, <1>9, <1>10, <1>11
     DEF Next, Handle, ReadLoop, Cleanup

\* A client is called waiting when its websocket is dead, or when it has been
\* taken over and the read loop of the other websocket reports its own end.
THEOREM OnlyDeadOrTakenOverWait == SafetySpec => DeadOrTakenOverWait
<1>1. Placed /\ Loops /\ [Next]_vars
         => [\A s \in Conns : state[s] = "Connected" /\ state'[s] = "WaitReconnect"
                                => ~ open[s] \/ TakenOver(cid[s])]_vars
  <2> SUFFICES ASSUME Placed, Loops, [Next]_vars, NEW s \in Conns,
                      state[s] = "Connected", state'[s] = "WaitReconnect", open[s]
               PROVE  TakenOver(cid[s])
    OBVIOUS
  <2>1. ~ \E c \in Conns : SendFails(c) /\ clients[c] = s
    BY DEF SendFails
  <2>2. PICK t \in Conns : ReadLoopEnds(t) /\ clients[cid[t]] = s
    BY <2>1, Demotions
  <2>3. read_loop[t] = "leaving"
    BY <2>2 DEF ReadLoopEnds
  <2>4. cid[t] # None /\ (ct_self[t] \/ ~ open[t])
    BY <2>3 DEF Loops
  <2>5. cid[s] = cid[t] /\ cid[s] \in Conns
    BY <2>2, <2>4, NoneAssumption DEF Placed, TypeOK, Registered
  <2>6. t # s
    BY <2>4 DEF Loops
  <2> QED
    BY <2>5, <2>6 DEF TakenOver
<1> QED
  BY <1>1, LoopsInitially, LoopsAreKept, AlwaysPlaced, PTL
     DEF SafetySpec, DeadOrTakenOverWait
------------------------------------------------------------------------------
(* Whose listeners are told to stop. *)

\* Of a client whose first websocket's window was over, and that is not there
\* or was taken over by then.
Stopped ==
    \A c \in Conns :
       ct_child[c] => /\ handler[c] # "hello"
                      /\ expired[c]
                      /\ Live(c) => TakenOver(c)

\* A living client has the id of the connection that made it.
LEMMA LiveIsMade ==
    ASSUME Placed, NEW c \in Conns, Live(c)
    PROVE  cid[c] = c
  BY NoneAssumption
     DEF Placed, TypeOK, Live, Holders, Registered, IdsAreMade

LEMMA StoppedInitially == Init => Stopped
  BY DEF Init, Stopped

LEMMA TakenOverStays ==
    ASSUME Placed, [Next]_vars, NEW c \in Conns, TakenOver(c)
    PROVE  TakenOver(c)'
<1>1. PICK s \in Conns : s # c /\ cid[s] = c
  BY DEF TakenOver
<1>2. handler[s] # "hello"
  BY <1>1, NoneAssumption DEF Placed, HandlerSteps
<1>3. cid'[s] = c
  BY <1>1, <1>2, IdIsKept
<1> QED
  BY <1>1, <1>3 DEF TakenOver

\* A window that is over stays so.
LEMMA ExpiredStays ==
    ASSUME Placed, [Next]_vars, NEW c \in Conns, expired[c]
    PROVE  expired'[c]
<1> USE DEF Placed, TypeOK
<1>1. ASSUME NEW s \in Conns, NEW claims \in ClaimLists, NewClient(s, claims)
      PROVE  expired'[c]
  BY <1>1 DEF NewClient, client_vars
<1>2. ASSUME NEW s \in Conns, NEW d \in Conns, Reconnect(s, d)
      PROVE  expired'[c]
  BY <1>2 DEF Reconnect, client_vars
<1>3. ASSUME NEW s \in Conns, DropOld(s) \/ AddClient(s)
      PROVE  expired'[c]
  BY <1>3 DEF DropOld, AddClient
<1>4. ASSUME NEW s \in Conns, HelloFails(s) \/ HelloSent(s) \/ NotSuccess(s)
      PROVE  expired'[c]
  BY <1>4 DEF HelloFails, HelloSent, NotSuccess, client_vars
<1>5. CASE CleanupRetain
  BY <1>5 DEF CleanupRetain
<1>6. ASSUME NEW s \in Conns, WindowEnds(s)
      PROVE  expired'[c]
  BY <1>6 DEF WindowEnds
<1> QED
  BY <1>1, <1>2, <1>3, <1>4, <1>5, <1>6, Moves

\* Drop cancels a listeners' token, of what cleanup removes or of what a
\* reconnect has taken out, if the window is over.
LEMMA StopsDropped ==
    ASSUME Placed, [Next]_vars, NEW c \in Conns, ct_child'[c], ~ ct_child[c]
    PROVE  /\ CanCleanup(c)
           /\ \/ CleanupRetain /\ \E d \in Conns : clients[d] = c
              \/ \E s \in Conns : DropOld(s) /\ old[s] = c
<1> USE DEF Placed, TypeOK
<1>1. ASSUME NEW s \in Conns, DropOld(s)
      PROVE  CanCleanup(c) /\ old[s] = c
  BY <1>1 DEF DropOld, Drop
<1>2. ASSUME NEW s \in Conns, AddClient(s)
      PROVE  FALSE
  <2>1. clients[cid[s]] = None
    BY <1>2 DEF AddClient, HandlerSteps, OneHolder, Holders
  <2> QED
    BY <1>2, <2>1, NoneAssumption DEF AddClient, Drop
<1>3. ASSUME NEW s \in Conns, NEW claims \in ClaimLists, NewClient(s, claims)
      PROVE  FALSE
  BY <1>3 DEF NewClient, client_vars
<1>4. ASSUME NEW s \in Conns, NEW d \in Conns, Reconnect(s, d)
      PROVE  FALSE
  BY <1>4 DEF Reconnect, client_vars
<1>5. ASSUME NEW s \in Conns, HelloFails(s) \/ HelloSent(s) \/ NotSuccess(s)
      PROVE  FALSE
  BY <1>5 DEF HelloFails, HelloSent, NotSuccess, client_vars
<1>6. ASSUME NEW s \in Conns, WindowEnds(s)
      PROVE  FALSE
  BY <1>6 DEF WindowEnds
<1>7. ASSUME CleanupRetain
      PROVE  \E d \in Conns : clients[d] = c /\ CanCleanup(c)
  BY <1>7 DEF CleanupRetain, Drop
<1> QED
  BY <1>1, <1>2, <1>3, <1>4, <1>5, <1>6, <1>7, Moves

LEMMA StoppedIsKept ==
    ASSUME Placed, Stopped, [Next]_vars
    PROVE  Stopped'
<1> SUFFICES ASSUME NEW c \in Conns, ct_child'[c]
             PROVE  /\ handler'[c] # "hello" /\ expired'[c]
                    /\ Live(c)' => TakenOver(c)'
  BY DEF Stopped
<1>1. CASE ct_child[c]
  <2>1. handler[c] # "hello" /\ expired[c] /\ (Live(c) => TakenOver(c))
    BY <1>1, Zenon DEF Stopped
  <2>2. Live(c)' => Live(c)
    BY <2>1, LifeBegins DEF NewClient
  <2> QED
    BY <2>1, <2>2, IdIsKept, ExpiredStays, TakenOverStays
<1>2. CASE ~ ct_child[c]
  <2>1. CanCleanup(c)
    BY <1>2, StopsDropped
  <2>2. expired'[c]
    BY <2>1, ExpiredStays DEF CanCleanup
  <2>3. handler[c] = "done" /\ Live(c)' => Live(c) /\ cid[c] = c
    BY LifeBegins, LiveIsMade DEF NewClient
  <2>4. ASSUME NEW d \in Conns, clients[d] = c, CleanupRetain
        PROVE  handler'[c] # "hello" /\ ~ Live(c)'
    <3>1. handler[c] = "done" /\ cid[c] = d
      BY <2>4, NoneAssumption DEF Placed, Registered
    <3>2. ASSUME Live(c)'
          PROVE  FALSE
      <4>1. c = d
        BY <2>3, <3>1, <3>2
      <4>2. clients'[c] = None /\ Holders(c)' = Holders(c)
        BY <2>1, <2>4, <4>1, NoneAssumption
           DEF CleanupRetain, handler_vars, Holders
      <4>3. Holders(c) = {}
        BY <2>4, <4>1, NoneAssumption DEF Placed, OneHolder
      <4> QED
        BY <3>2, <4>2, <4>3 DEF Live
    <3> QED
      BY <3>1, <3>2, IdIsKept
  <2>5. ASSUME NEW s \in Conns, DropOld(s), old[s] = c
        PROVE  handler'[c] # "hello" /\ (Live(c)' => TakenOver(c)')
    <3>1. /\ handler[s] = "drop" /\ handler[c] = "done" /\ cid[c] = cid[s]
      BY <2>5 DEF DropOld, Placed, HandlerSteps
    <3>2. Live(c)' => TakenOver(c)
      BY <2>3, <3>1 DEF TakenOver
    <3> QED
      BY <3>1, <3>2, IdIsKept, TakenOverStays
  <2> QED
    BY <1>2, <2>2, <2>4, <2>5, StopsDropped
<1> QED
  BY <1>1, <1>2

\* The listeners of a living client stop in one case only, the late reconnect:
\* its window was over and it has been taken over.  A lost websocket, a
\* reconnect in time and the end of another client never stop them, in
\* whatever order handlers, read loops and cleanup run.
THEOREM ListenersStopWhenLate == SafetySpec => []ListenersSurvive
<1>1. Stopped => ListenersSurvive
  BY Zenon DEF Stopped, ListenersSurvive
<1> QED
  BY <1>1, StoppedInitially, StoppedIsKept, AlwaysPlaced, PTL DEF SafetySpec
------------------------------------------------------------------------------
(* Which ports living clients may share. *)

\* The endpoints whose remote ports are taken: those of living clients and
\* those that cleanup has collected and not yet released.
Held ==
    eids_to_remove
      \union UNION {{c} \X endpoints[c] : c \in {d \in Conns : Live(d)}}

\* The ports that were never freed in use are taken once.
HeldPorts ==
    \A x \in Held : ~ FreedInUse(x[2].remote_port) =>
       /\ x[2].remote_port \notin available_ports
       /\ \A y \in Held : x[2].remote_port = y[2].remote_port => x = y

\* Where the clients are whose endpoints cleanup has collected: with their
\* windows over in the map, then gone, unless a reconnect came in between.
Collected ==
    \A x \in eids_to_remove :
       /\ cleanup # "idle"
       /\ x[2] \in endpoints[x[1]]
       /\ x[1] \notin late =>
             /\ cleanup = "retain" => /\ clients[x[1]] # None
                                      /\ CanCleanup(clients[x[1]])
             /\ cleanup = "release" => Gone(x[1])

\* Endpoints are given by the hello.
FreshHasNone == \A s \in Conns : handler[s] = "hello" => endpoints[s] = {}

Ports == HeldPorts /\ Collected /\ FreshHasNone
------------------------------------------------------------------------------
LEMMA HeldIs ==
    \A x : x \in Held <=> \/ x \in eids_to_remove
                          \/ \E c \in Conns : Live(c) /\ x \in {c} \X endpoints[c]
  BY DEF Held

\* The steps that touch the table, the endpoints or the cleanup.
LEMMA PortMoves ==
    ASSUME [Next]_vars
    PROVE  \/ \E s \in Conns, claims \in ClaimLists : NewClient(s, claims)
           \/ Cleanup
           \/ UNCHANGED <<alloc_vars, cleanup, eids_to_remove>>
<1> USE DEF cleanup_vars
<1>1. ASSUME NEW s \in Conns, NEW c \in Conns, Reconnect(s, c)
      PROVE  UNCHANGED <<alloc_vars, cleanup, eids_to_remove>>
  BY <1>1 DEF Reconnect
<1>2. ASSUME NEW s \in Conns, Handle(s)
      PROVE  UNCHANGED <<alloc_vars, cleanup_vars>>
  BY <1>2 DEF Handle, DropOld, HelloFails, HelloSent, NotSuccess, AddClient,
              SpawnRemote
<1>3. ASSUME NEW s \in Conns, ReadLoop(s) \/ Disconnect(s) \/ WindowEnds(s)
      PROVE  UNCHANGED <<alloc_vars, cleanup_vars>>
  BY <1>3 DEF ReadLoop, ReadLoopBreaks, ReadLoopEnds, Disconnect, WindowEnds
<1>4. ASSUME NEW c \in Conns, SendPing(c) \/ SendFails(c)
      PROVE  UNCHANGED <<alloc_vars, cleanup_vars>>
  BY <1>4 DEF SendPing, SendFails
<1>5. ASSUME NEW x \in listeners, ListenerStops(x)
      PROVE  UNCHANGED <<alloc_vars, cleanup_vars>>
  BY <1>5 DEF ListenerStops
<1> QED
  BY <1>1, <1>2, <1>3, <1>4, <1>5 DEF Next, Hello, vars

\* History grows, at a reconnect only.
LEMMA LateGrows ==
    ASSUME Placed, [Next]_vars
    PROVE  /\ late \subseteq late' /\ late' \subseteq Conns
           /\ (\E s, c \in Conns : Reconnect(s, c)) \/ UNCHANGED late
<1> USE DEF cleanup_vars
<1>1. late \subseteq Conns
  BY DEF Placed, TypeOK
<1>2. ASSUME NEW s \in Conns, NEW c \in Conns, Reconnect(s, c)
      PROVE  late \subseteq late' /\ late' \subseteq Conns
  BY <1>1, <1>2 DEF Reconnect
<1>3. ASSUME NEW s \in Conns, NEW claims \in ClaimLists, NewClient(s, claims)
      PROVE  UNCHANGED late
  BY <1>3 DEF NewClient
<1>4. ASSUME NEW s \in Conns, Handle(s)
      PROVE  UNCHANGED late
  BY <1>4 DEF Handle, DropOld, HelloFails, HelloSent, NotSuccess, AddClient,
              SpawnRemote
<1>5. ASSUME NEW s \in Conns, ReadLoop(s) \/ Disconnect(s) \/ WindowEnds(s)
      PROVE  UNCHANGED late
  BY <1>5 DEF ReadLoop, ReadLoopBreaks, ReadLoopEnds, Disconnect, WindowEnds
<1>6. ASSUME NEW c \in Conns, SendPing(c) \/ SendFails(c)
      PROVE  UNCHANGED late
  BY <1>6 DEF SendPing, SendFails
<1>7. ASSUME NEW x, CleanupRelease(x) \/ ListenerStops(x)
      PROVE  UNCHANGED late
  BY <1>7 DEF CleanupRelease, ListenerStops
<1>8. CASE CleanupScan \/ CleanupRetain \/ CleanupDone \/ UNCHANGED vars
  <2>1. UNCHANGED late
    BY <1>8 DEF CleanupScan, CleanupRetain, CleanupDone, vars
  <2> QED
    BY <1>1, <2>1
<1> QED
  BY <1>1, <1>2, <1>3, <1>4, <1>5, <1>6, <1>7, <1>8 DEF Next, Hello, Cleanup

\* Endpoints are those of the hello.
LEMMA EndpointsStay ==
    ASSUME Placed, FreshHasNone, [Next]_vars
    PROVE  \A c \in Conns : endpoints[c] # {} => endpoints'[c] = endpoints[c]
<1>1. ASSUME NEW s \in Conns, NEW claims \in ClaimLists, NewClient(s, claims)
      PROVE  \A c \in Conns : endpoints[c] # {} => endpoints'[c] = endpoints[c]
  <2>1. endpoints[s] = {}
    BY <1>1 DEF NewClient, FreshHasNone
  <2>2. \A c \in Conns : c # s => endpoints'[c] = endpoints[c]
    BY <1>1 DEF NewClient, alloc_vars, Placed, TypeOK
  <2> QED
    BY <2>1, <2>2
<1>2. CASE Cleanup
  BY <1>2 DEF Cleanup, CleanupScan, CleanupRetain, CleanupRelease, CleanupDone,
              alloc_vars
<1> QED
  BY <1>1, <1>2, PortMoves DEF alloc_vars

LEMMA FreshKept ==
    ASSUME Placed, FreshHasNone, [Next]_vars
    PROVE  FreshHasNone'
<1> SUFFICES ASSUME NEW c \in Conns, handler'[c] = "hello"
             PROVE  endpoints'[c] = {}
  BY DEF FreshHasNone
<1>1. handler[c] = "hello"
  BY IdIsKept
<1>2. endpoints[c] = {}
  BY <1>1 DEF FreshHasNone
<1>3. ASSUME NEW s \in Conns, NEW claims \in ClaimLists, NewClient(s, claims)
      PROVE  endpoints'[c] = {}
  <2>1. c # s
    BY <1>3 DEF NewClient, Placed, TypeOK
  <2> QED
    BY <1>2, <1>3, <2>1 DEF NewClient, alloc_vars, Placed, TypeOK
<1>4. CASE Cleanup
  BY <1>2, <1>4 DEF Cleanup, CleanupScan, CleanupRetain, CleanupRelease,
                    CleanupDone, alloc_vars
<1> QED
  BY <1>2, <1>3, <1>4, PortMoves DEF alloc_vars

\* What was freed in use has been so for ever.
LEMMA FreedStays ==
    ASSUME Placed, FreshHasNone, [Next]_vars, NEW p, FreedInUse(p)
    PROVE  FreedInUse(p)'
<1>1. \A c \in Conns : endpoints[c] # {} => endpoints'[c] = endpoints[c]
  BY EndpointsStay
<1>2. CASE Doubled(p)
  BY <1>1, <1>2 DEF Doubled, FreedInUse
<1>3. CASE Revived(p)
  <2>1. PICK c \in late : p \in RemotePorts(endpoints[c])
    BY <1>3 DEF Revived
  <2>2. c \in late' /\ c \in Conns
    BY LateGrows
  <2>3. endpoints[c] # {}
    BY <2>1 DEF RemotePorts
  <2> QED
    BY <1>1, <2>1, <2>2, <2>3 DEF Revived, FreedInUse
<1> QED
  BY <1>2, <1>3 DEF FreedInUse

LEMMA HeldPortsIfShrinks ==
    ASSUME Placed, FreshHasNone, [Next]_vars, HeldPorts, Held' \subseteq Held,
           available_ports' \subseteq available_ports
    PROVE  HeldPorts'
  BY FreedStays DEF HeldPorts

\* What a grant gives was available and is not any more.
LEMMA GrantIsTaken ==
    ASSUME NEW claims \in ClaimLists, NEW P, NEW f \in Pairings(claims, P)
    PROVE  \A e \in EndpointsOf(claims, f) :
              /\ e.remote_port \in P
              /\ e.remote_port \in {f[a] : a \in LocalPorts(claims)}
<1>1. \A i \in DOMAIN claims : /\ claims[i].local_port \in LocalPorts(claims)
                               /\ f[claims[i].local_port] \in P
  BY DEF LocalPorts, Pairings
<1>2. \A e \in EndpointsOf(claims, f) :
         \E i \in DOMAIN claims : e.remote_port = f[claims[i].local_port]
  BY DEF EndpointsOf
<1> QED
  BY <1>1, <1>2

\* A new client gets ports that nobody holds; if it gets two endpoints on one
\* of them, that port is Doubled from now on.
LEMMA NewClientKeepsPorts ==
    ASSUME Placed, HeldPorts, FreshHasNone, [Next]_vars,
           NEW s \in Conns, NEW claims \in ClaimLists, NewClient(s, claims)
    PROVE  HeldPorts'
<1> USE DEF Placed, TypeOK
<1>1. /\ UNCHANGED <<clients, eids_to_remove>>
      /\ handler[s] = "hello" /\ cid[s] = None
      /\ \A t \in Conns : t # s => handler'[t] = handler[t] /\ cid'[t] = cid[t]
  BY DEF NewClient, HandlerSteps, cleanup_vars
<1>2. cid'[s] \in {s, None}
  BY <1>1 DEF NewClient
<1>3. \A c \in Conns : c # s /\ Live(c)' => Live(c)
  BY <1>1, <1>2, NoneAssumption DEF Live, Holders
<1>4. CASE ValidClaims(claims, available_ports)
  <2>1. PICK f \in Pairings(claims, available_ports) :
           /\ endpoints' = [endpoints EXCEPT ![s] = EndpointsOf(claims, f)]
           /\ available_ports' = available_ports \
                 {f[a] : a \in LocalPorts(claims)}
    BY <1>4 DEF NewClient
  <2> DEFINE new == EndpointsOf(claims, f)
  <2>2. \A x \in Held' : x \in Held \/ (x[1] = s /\ x[2] \in new
                                        /\ x = <<s, x[2]>>)
    <3> SUFFICES ASSUME NEW x \in Held', x \notin eids_to_remove,
                        NEW c \in Conns, Live(c)', x \in {c} \X endpoints'[c]
                 PROVE  x \in Held \/ (x[1] = s /\ x[2] \in new
                                       /\ x = <<s, x[2]>>)
      BY <1>1, HeldIs DEF Held
    <3>1. CASE c = s
      BY <2>1, <3>1
    <3>2. CASE c # s
      <4>1. Live(c) /\ endpoints'[c] = endpoints[c]
        BY <1>3, <2>1, <3>2
      <4> QED
        BY <4>1, HeldIs
    <3> QED
      BY <3>1, <3>2
  <2>3. \A e \in new : /\ e.remote_port \in available_ports
                       /\ e.remote_port \notin available_ports'
    BY <2>1, GrantIsTaken
  <2>4. \A d, e \in new : d.remote_port = e.remote_port /\ d # e
                            => FreedInUse(d.remote_port)'
    <3>1. endpoints'[s] = new
      BY <2>1
    <3> QED
      BY <3>1 DEF FreedInUse, Doubled
  <2>5. available_ports' \subseteq available_ports
    BY <2>1
  <2> HIDE DEF new
  <2>6. ASSUME NEW x \in Held', ~ FreedInUse(x[2].remote_port)'
        PROVE  x[2].remote_port \notin available_ports'
    <3>1. CASE x \in Held
      BY <2>5, <2>6, <3>1, FreedStays DEF HeldPorts
    <3>2. CASE x \notin Held
      BY <2>2, <2>3, <3>2
    <3> QED
      BY <3>1, <3>2
  <2>7. ASSUME NEW x \in Held', NEW y \in Held',
               ~ FreedInUse(x[2].remote_port)',
               x[2].remote_port = y[2].remote_port
        PROVE  x = y
    <3>1. ~ FreedInUse(x[2].remote_port) /\ ~ FreedInUse(y[2].remote_port)
      BY <2>7, FreedStays
    <3>2. CASE x \in Held /\ y \in Held
      BY <2>7, <3>1, <3>2 DEF HeldPorts
    <3>3. CASE x \notin Held /\ y \notin Held
      BY <2>2, <2>4, <2>7, <3>3
    <3>4. CASE x \in Held /\ y \notin Held
      BY <2>2, <2>3, <2>7, <3>1, <3>4 DEF HeldPorts
    <3>5. CASE x \notin Held /\ y \in Held
      BY <2>2, <2>3, <2>7, <3>1, <3>5 DEF HeldPorts
    <3> QED
      BY <3>2, <3>3, <3>4, <3>5
  <2> QED
    BY <2>6, <2>7 DEF HeldPorts
<1>5. CASE ~ ValidClaims(claims, available_ports)
  <2>1. UNCHANGED <<cid, available_ports, endpoints>>
    BY <1>5 DEF NewClient, alloc_vars
  <2>2. \A c \in Conns : Live(c)' => Live(c)
    <3>1. \A t \in Conns : cid[t] # s
      BY <1>1, NoneAssumption DEF IdsAreMade
    <3>2. ~ Live(s)'
      BY <1>1, <2>1, <3>1 DEF Live, Holders, Registered
    <3> QED
      BY <1>3, <3>2
  <2>3. Held' \subseteq Held
    BY <1>1, <2>1, <2>2 DEF Held
  <2> QED
    BY <2>1, <2>3, HeldPortsIfShrinks
<1> QED
  BY <1>4, <1>5

\* Nobody but cleanup makes the set of held endpoints smaller, and nobody but
\* a new client makes it larger.  What cleanup releases it has for itself, or
\* it is freed in use.
LEMMA HeldPortsAreKept ==
    ASSUME Placed, Ports, [Next]_vars
    PROVE  HeldPorts'
<1> USE DEF Ports
<1>1. CASE \E s \in Conns, claims \in ClaimLists : NewClient(s, claims)
  BY <1>1, NewClientKeepsPorts
<1>2. ASSUME ~ \E s \in Conns, claims \in ClaimLists : NewClient(s, claims)
      PROVE  \A c \in Conns : Live(c)' => Live(c)
  BY <1>2, LifeBegins
<1>3. ASSUME NEW x \in eids_to_remove, CleanupRelease(x)
      PROVE  HeldPorts'
  <2>1. /\ cleanup = "release"
        /\ eids_to_remove' = eids_to_remove \ {x}
        /\ available_ports' = available_ports \union {x[2].remote_port}
        /\ UNCHANGED <<endpoints, clients, handler, cid>>
    BY <1>3 DEF CleanupRelease, handler_vars
  <2>2. x[1] \in Conns /\ x[2] \in endpoints[x[1]] /\ x \in Held
    BY HeldIs DEF Collected, Placed, TypeOK
  <2>3. \A c \in Conns : Live(c)' = Live(c)
    BY <2>1 DEF Live, Holders
  <2>4. Held' \subseteq Held
    BY <2>1, <2>3 DEF Held
  <2>5. CASE FreedInUse(x[2].remote_port)
    <3>1. FreedInUse(x[2].remote_port)'
      BY <2>5, FreedStays
    <3> QED
      BY <2>1, <2>4, <3>1, FreedStays DEF HeldPorts
  <2>6. CASE ~ FreedInUse(x[2].remote_port)
    <3>1. x[1] \notin late
      BY <2>2, <2>6 DEF FreedInUse, Revived, RemotePorts
    <3>2. ~ Live(x[1])
      BY <2>1, <3>1 DEF Collected, Gone
    <3>3. Held' \subseteq Held \ {x}
      BY <2>1, <2>3, <2>4, <3>2, HeldIs DEF Held
    <3>4. \A y \in Held' : y[2].remote_port # x[2].remote_port
      BY <2>2, <2>6, <3>3 DEF HeldPorts
    <3> QED
      BY <2>1, <2>4, <3>4, FreedStays DEF HeldPorts
  <2> QED
    BY <2>5, <2>6
<1>4. CASE CleanupScan
  <2>1. \A c \in Conns : clients[c] # None => Live(c)
    BY DEF Live
  <2>2. UNCHANGED <<available_ports, endpoints, clients, handler, cid>>
    BY <1>4 DEF CleanupScan, alloc_vars, handler_vars
  <2>3. \A c \in Conns : Live(c)' = Live(c)
    BY <2>2 DEF Live, Holders
  <2>4. eids_to_remove' \subseteq Held
    BY <1>4, <2>1 DEF CleanupScan, Held
  <2>5. Held' \subseteq Held
    BY <2>2, <2>3, <2>4 DEF Held
  <2> QED
    BY <2>2, <2>5, HeldPortsIfShrinks
<1>5. ASSUME ~ \E s \in Conns, claims \in ClaimLists : NewClient(s, claims),
             UNCHANGED <<available_ports, endpoints, eids_to_remove>>
      PROVE  HeldPorts'
  <2>1. Held' \subseteq Held
    BY <1>2, <1>5 DEF Held
  <2> QED
    BY <1>5, <2>1, HeldPortsIfShrinks
<1>6. CASE CleanupRetain \/ CleanupDone
  <2>1. UNCHANGED <<available_ports, endpoints, eids_to_remove>>
    BY <1>6 DEF CleanupRetain, CleanupDone, alloc_vars
  <2> QED
    BY <1>1, <1>5, <2>1
<1>7. CASE UNCHANGED <<alloc_vars, cleanup, eids_to_remove>>
  BY <1>1, <1>5, <1>7 DEF alloc_vars
<1> QED
  BY <1>1, <1>3, <1>4, <1>6, <1>7, PortMoves DEF Cleanup
------------------------------------------------------------------------------
\* A client whose window is over waits in the map, the same object in the same
\* state, until retain or a reconnect takes it out.
LEMMA ExpiredWaits ==
    ASSUME Placed, [Next]_vars, ~ CleanupRetain,
           NEW c \in Conns, clients[c] # None, CanCleanup(clients[c]),
           ~ \E s \in Conns : Reconnect(s, c)
    PROVE  clients'[c] = clients[c] /\ CanCleanup(clients[c])'
<1> DEFINE o == clients[c]
           Waits == /\ clients'[c] = o
                    /\ state'[o] = "WaitReconnect" /\ expired'[o]
<1>1. /\ o \in Conns /\ state[o] = "WaitReconnect" /\ expired[o]
      /\ handler[o] = "done" /\ cid[o] = c
  BY NoneAssumption DEF Placed, TypeOK, Registered, CanCleanup
<1>2. \A d \in Conns : clients[d] = o => d = c
  BY <1>1, NoneAssumption DEF Placed, Registered
<1> SUFFICES Waits
  BY DEF CanCleanup
<1> HIDE DEF o
<1>3. clients[c] = o
  BY DEF o
<1> USE DEF Placed, TypeOK
<1>4. ASSUME NEW s \in Conns, NEW claims \in ClaimLists, NewClient(s, claims)
      PROVE  Waits
  BY <1>1, <1>3, <1>4 DEF NewClient, client_vars
<1>5. ASSUME NEW s \in Conns, NEW d \in Conns, Reconnect(s, d)
      PROVE  Waits
  <2>1. UNCHANGED <<state, expired>>
    BY <1>5 DEF Reconnect, client_vars
  <2>2. clients'[c] = o
    <3>1. d # c
      BY <1>5
    <3> QED
      BY <1>3, <1>5, <3>1 DEF Reconnect, RemoveClient
  <2> QED
    BY <1>1, <2>1, <2>2
<1>6. ASSUME NEW s \in Conns, DropOld(s)
      PROVE  Waits
  <2>1. old[s] \in Conns /\ cid[old[s]] = cid[s] /\ s \in Holders(cid[s])
        /\ cid[s] \in Conns
    BY <1>6 DEF DropOld, HandlerSteps, Holders
  <2>2. old[s] # o
    BY <1>1, <1>3, <2>1, NoneAssumption DEF OneHolder
  <2> QED
    BY <1>1, <1>3, <1>6, <2>2 DEF DropOld, Drop
<1>7. ASSUME NEW s \in Conns, HelloFails(s) \/ HelloSent(s) \/ NotSuccess(s)
      PROVE  Waits
  <2>1. s # o
    BY <1>1, <1>7 DEF HelloFails, HelloSent, NotSuccess
  <2> QED
    BY <1>1, <1>3, <1>7, <2>1
       DEF HelloFails, HelloSent, NotSuccess, client_vars
<1>8. ASSUME NEW s \in Conns, AddClient(s)
      PROVE  Waits
  <2>1. s \in Holders(cid[s]) /\ cid[s] \in Conns
    BY <1>8 DEF AddClient, HandlerSteps, Holders
  <2>2. clients[cid[s]] = None /\ cid[s] # c
    BY <1>1, <1>3, <2>1, NoneAssumption DEF OneHolder
  <2> QED
    BY <1>1, <1>3, <1>8, <2>2, NoneAssumption DEF AddClient, Drop
<1>9. ASSUME NEW s \in Conns, NEW e \in unspawned[s], SpawnRemote(s, e)
      PROVE  Waits
  BY <1>1, <1>3, <1>9 DEF SpawnRemote, client_vars
<1>10. ASSUME NEW s \in Conns, ReadLoop(s) \/ Disconnect(s) \/ WindowEnds(s)
       PROVE  Waits
  BY <1>1, <1>3, <1>10
     DEF ReadLoop, ReadLoopBreaks, ReadLoopEnds, SetWaitReconnect, Disconnect,
         WindowEnds, client_vars
<1>11. ASSUME NEW d \in Conns, SendPing(d) \/ SendFails(d)
       PROVE  Waits
  BY <1>1, <1>3, <1>11 DEF SendPing, SendFails, SetWaitReconnect, client_vars
<1>12. ASSUME NEW x \in listeners, ListenerStops(x)
       PROVE  Waits
  BY <1>1, <1>3, <1>12 DEF ListenerStops, client_vars
<1>13. CASE CleanupScan \/ CleanupDone
            \/ \E x \in eids_to_remove : CleanupRelease(x)
  BY <1>1, <1>3, <1>13 DEF CleanupScan, CleanupDone, CleanupRelease,
                           client_vars
<1>14. CASE UNCHANGED vars
  BY <1>1, <1>3, <1>14 DEF vars, client_vars
<1> QED
  BY <1>4, <1>5, <1>6, <1>7, <1>8, <1>9, <1>10, <1>11, <1>12, <1>13, <1>14
     DEF Next, Hello, Handle, Cleanup

\* A reconnect that takes out a client whose endpoints are collected is late.
LEMMA LateReconnect ==
    ASSUME NEW s \in Conns, NEW c \in Conns, Reconnect(s, c), clients[c] # None,
           NEW x \in eids_to_remove, x[1] = c
    PROVE  c \in late'
  BY DEF Reconnect, Found

\* What the scan collects, retain removes, and it stays away; or it is late.
LEMMA CollectedIsKept ==
    ASSUME Placed, Collected, FreshHasNone, [Next]_vars
    PROVE  Collected'
<1>1. \A x \in eids_to_remove : x[1] \in Conns
  BY DEF Placed, TypeOK
<1>2. \A x \in eids_to_remove : x[2] \in endpoints'[x[1]]
  BY <1>1, EndpointsStay DEF Collected
<1>3. late \subseteq late'
  BY LateGrows
<1>4. CASE CleanupScan
  <2>1. /\ cleanup' = "retain"
        /\ UNCHANGED <<clients, state, expired, endpoints>>
    BY <1>4 DEF CleanupScan, client_vars, alloc_vars
  <2>2. \A x \in eids_to_remove' : /\ clients[x[1]] # None
                                   /\ CanCleanup(clients[x[1]])
                                   /\ x[2] \in endpoints[x[1]]
    BY <1>4 DEF CleanupScan
  <2>3. \A x \in eids_to_remove' : clients'[x[1]] # None
                                  /\ CanCleanup(clients[x[1]])'
    BY <2>1, <2>2 DEF CanCleanup
  <2> QED
    BY <2>1, <2>2, <2>3 DEF Collected
<1>5. CASE CleanupRetain
  <2>1. /\ cleanup = "retain" /\ cleanup' = "release"
        /\ UNCHANGED <<eids_to_remove, handler, cid>>
        /\ \A c \in Conns : clients[c] # None /\ CanCleanup(clients[c])
                            => clients'[c] = None
    BY <1>5 DEF CleanupRetain, handler_vars
  <2>2. ASSUME NEW x \in eids_to_remove, x[1] \notin late
        PROVE  Gone(x[1])'
    <3>1. /\ x[1] \in Conns /\ clients[x[1]] # None
          /\ CanCleanup(clients[x[1]])
      BY <1>1, <2>1, <2>2 DEF Collected
    <3>2. Holders(x[1]) = {} /\ cid[x[1]] = x[1]
      BY <3>1, LiveIsMade DEF Live, Placed, OneHolder
    <3>3. clients'[x[1]] = None /\ Holders(x[1])' = {} /\ cid'[x[1]] = x[1]
      BY <2>1, <3>1, <3>2 DEF Holders
    <3> QED
      BY <3>3 DEF Gone, Live
  <2> QED
    BY <1>2, <1>3, <2>1, <2>2 DEF Collected
<1>6. ASSUME NEW x \in eids_to_remove, CleanupRelease(x)
      PROVE  Collected'
  <2>1. /\ cleanup = "release" /\ cleanup' = "release"
        /\ eids_to_remove' \subseteq eids_to_remove
    BY <1>6 DEF CleanupRelease
  <2> QED
    BY <1>1, <1>2, <1>3, <2>1, GoneStaysGone DEF Collected
<1>7. CASE CleanupDone
  BY <1>7 DEF CleanupDone, Collected
<1>8. CASE ~ CleanupRetain /\ UNCHANGED <<cleanup, eids_to_remove>>
  <2> SUFFICES ASSUME NEW x \in eids_to_remove, x[1] \notin late'
               PROVE  /\ cleanup = "retain" => /\ clients'[x[1]] # None
                                               /\ CanCleanup(clients[x[1]])'
                      /\ cleanup = "release" => Gone(x[1])'
    BY <1>2, <1>8 DEF Collected
  <2>1. x[1] \notin late
    BY <1>3
  <2>2. CASE cleanup = "retain"
    <3>1. clients[x[1]] # None /\ CanCleanup(clients[x[1]])
      BY <2>1, <2>2 DEF Collected
    <3>2. ~ \E s \in Conns : Reconnect(s, x[1])
      BY <1>1, <3>1, LateReconnect
    <3> QED
      BY <1>1, <1>8, <2>2, <3>1, <3>2, ExpiredWaits
  <2>3. CASE cleanup # "retain"
    BY <1>1, <2>1, <2>3, GoneStaysGone DEF Collected
  <2> QED
    BY <2>2, <2>3
<1>9. ASSUME NEW s \in Conns, NEW claims \in ClaimLists, NewClient(s, claims)
      PROVE  UNCHANGED <<cleanup, eids_to_remove>>
  BY <1>9 DEF NewClient, cleanup_vars
<1> QED
  BY <1>4, <1>5, <1>6, <1>7, <1>8, <1>9, PortMoves DEF Cleanup, CleanupRetain

LEMMA PortsInitially == Init => Ports
<1> SUFFICES ASSUME Init PROVE Ports
  OBVIOUS
<1>1. Held = {}
  BY DEF Init, Held
<1>2. HeldPorts
  BY <1>1 DEF HeldPorts
<1> QED
  BY <1>2 DEF Init, Ports, Collected, FreshHasNone

LEMMA PortsAreKept == Placed /\ Ports /\ [Next]_vars => Ports'
  BY HeldPortsAreKept, CollectedIsKept, FreshKept DEF Ports

\* README.md "You'll get a dedicated global public address for your server":
\* living clients share a port only after it was freed in use, by the second
\* release of a port with two endpoints or by the release of the endpoints of
\* a client that came back between scan and removal (store.rs:121-130).  So
\* those are the only two ways, for any claims, clients and ports.
THEOREM PortsAreDedicated == SafetySpec => []DedicatedUnlessFreed
<1>1. Ports => DedicatedUnlessFreed
  <2> SUFFICES ASSUME HeldPorts, NEW c \in Conns, NEW d \in Conns, c # d,
                      Live(c), Live(d),
                      NEW e \in endpoints[c], NEW f \in endpoints[d],
                      e.remote_port = f.remote_port,
                      ~ FreedInUse(e.remote_port)
               PROVE  FALSE
    BY DEF Ports, DedicatedUnlessFreed, RemotePorts
  <2>1. <<c, e>> \in Held /\ <<d, f>> \in Held
    BY HeldIs
  <2> QED
    BY <2>1 DEF HeldPorts
<1> QED
  BY <1>1, PortsInitially, PortsAreKept, AlwaysPlaced, PTL DEF SafetySpec
------------------------------------------------------------------------------
\* A listener, running or still to be spawned, is for an endpoint of the
\* client it belongs to, and that client was registered.
HasListener(c) == unspawned[c] # {} \/ \E x \in listeners : x[1] = c

ListenersOwn ==
    /\ \A c \in Conns : /\ unspawned[c] \subseteq endpoints[c]
                        /\ HasListener(c) => handler[c] = "done"
    /\ \A x \in listeners : x[2] \in endpoints[x[1]]

\* The listeners of a client that nobody has taken over are told to stop when
\* it is removed: its first object is the one in the map.
Unreplaced ==
    \A c \in Conns : HasListener(c) /\ ~ TakenOver(c)
                        => clients[c] = c \/ ct_child[c]

LEMMA OwnInitially == Init => ListenersOwn /\ Unreplaced
<1> SUFFICES ASSUME Init PROVE ListenersOwn /\ Unreplaced
  OBVIOUS
<1>1. listeners = {} /\ \A c \in Conns : unspawned[c] = {}
  BY DEF Init
<1> QED
  BY <1>1 DEF ListenersOwn, Unreplaced, HasListener

\* The steps that make listeners.
LEMMA ListenerMoves ==
    ASSUME [Next]_vars
    PROVE  \/ \E s \in Conns, claims \in ClaimLists : NewClient(s, claims)
           \/ \E s \in Conns : AddClient(s)
           \/ \E s \in Conns : \E e \in unspawned[s] : SpawnRemote(s, e)
           \/ /\ UNCHANGED <<endpoints, unspawned>>
              /\ listeners' \subseteq listeners
<1> DEFINE Fewer == /\ UNCHANGED <<endpoints, unspawned>>
                    /\ listeners' \subseteq listeners
<1>1. ASSUME NEW s \in Conns, NEW c \in Conns, Reconnect(s, c)
      PROVE  Fewer
  BY <1>1 DEF Reconnect, alloc_vars, net_vars
<1>2. ASSUME NEW s \in Conns, DropOld(s) \/ HelloFails(s) \/ HelloSent(s)
                              \/ NotSuccess(s)
      PROVE  Fewer
  BY <1>2 DEF DropOld, HelloFails, HelloSent, NotSuccess, alloc_vars, net_vars
<1>3. ASSUME NEW s \in Conns, ReadLoop(s) \/ Disconnect(s) \/ WindowEnds(s)
      PROVE  Fewer
  BY <1>3 DEF ReadLoop, ReadLoopBreaks, ReadLoopEnds, Disconnect, WindowEnds,
              alloc_vars, net_vars, handler_vars
<1>4. ASSUME NEW c \in Conns, SendPing(c) \/ SendFails(c)
      PROVE  Fewer
  BY <1>4 DEF SendPing, SendFails, alloc_vars, net_vars, handler_vars
<1>5. ASSUME NEW x \in listeners, ListenerStops(x)
      PROVE  Fewer
  BY <1>5 DEF ListenerStops, alloc_vars, handler_vars
<1>6. ASSUME Cleanup
      PROVE  Fewer
  BY <1>6 DEF Cleanup, CleanupScan, CleanupRetain, CleanupRelease,
              CleanupDone, alloc_vars, net_vars, handler_vars
<1>7. ASSUME UNCHANGED vars
      PROVE  Fewer
  BY <1>7 DEF vars, alloc_vars, net_vars, handler_vars
<1> QED
  BY <1>1, <1>2, <1>3, <1>4, <1>5, <1>6, <1>7 DEF Next, Hello, Handle

LEMMA OwnIsKept ==
    ASSUME Placed, ListenersOwn, [Next]_vars
    PROVE  ListenersOwn'
<1> USE DEF Placed, TypeOK, ListenersOwn, HasListener
<1>1. ASSUME NEW c \in Conns, handler[c] = "done"
      PROVE  handler'[c] = "done"
  BY <1>1, DoneStaysDone
<1>2. ASSUME NEW s \in Conns, NEW claims \in ClaimLists, NewClient(s, claims)
      PROVE  ListenersOwn'
  <2>1. /\ handler[s] = "hello" /\ UNCHANGED <<unspawned, listeners>>
        /\ \A c \in Conns : c # s => endpoints'[c] = endpoints[c]
    BY <1>2 DEF NewClient, net_vars, alloc_vars
  <2>2. ~ HasListener(s)
    BY <2>1
  <2>3. \A c \in Conns : unspawned'[c] \subseteq endpoints'[c]
    BY <2>1, <2>2
  <2>4. \A x \in listeners' : x[2] \in endpoints'[x[1]]
    BY <2>1, <2>2
  <2> QED
    BY <1>1, <2>1, <2>3, <2>4
<1>3. ASSUME NEW s \in Conns, AddClient(s)
      PROVE  ListenersOwn'
  BY <1>1, <1>3 DEF AddClient, alloc_vars, net_vars
<1>4. ASSUME NEW s \in Conns, NEW e \in unspawned[s], SpawnRemote(s, e)
      PROVE  ListenersOwn'
  <2>1. /\ UNCHANGED <<endpoints, handler>>
        /\ unspawned' = [unspawned EXCEPT ![s] = @ \ {e}]
        /\ listeners' \subseteq listeners \union {<<s, e>>}
        /\ e \in endpoints[s] /\ handler[s] = "done"
    BY <1>4 DEF SpawnRemote, alloc_vars
  <2> QED
    BY <2>1
<1>5. CASE UNCHANGED <<endpoints, unspawned>> /\ listeners' \subseteq listeners
  BY <1>1, <1>5
<1> QED
  BY <1>2, <1>3, <1>4, <1>5, ListenerMoves

LEMMA UnreplacedIsKept ==
    ASSUME Placed, ListenersOwn, Unreplaced, [Next]_vars
    PROVE  Unreplaced'
<1> SUFFICES ASSUME NEW c \in Conns, HasListener(c)', ~ TakenOver(c)'
             PROVE  clients'[c] = c \/ ct_child'[c]
  BY DEF Unreplaced
<1> USE DEF Placed, TypeOK
<1>1. ~ TakenOver(c)
  BY TakenOverStays
<1>2. ASSUME NEW s \in Conns, AddClient(s), s # c
      PROVE  cid[s] # c /\ cid'[s] = cid[s]
  <2>1. cid'[s] = cid[s]
    BY <1>2 DEF AddClient
  <2> QED
    BY <1>1, <1>2, <2>1 DEF TakenOver
<1>3. CASE HasListener(c)
  <2>1. clients[c] = c \/ ct_child[c]
    BY <1>1, <1>3 DEF Unreplaced
  <2>2. handler[c] = "done"
    BY <1>3 DEF ListenersOwn
  <2>3. ASSUME NEW s \in Conns, NEW claims \in ClaimLists,
               NewClient(s, claims)
        PROVE  clients'[c] = c \/ ct_child'[c]
    BY <2>1, <2>3 DEF NewClient, client_vars
  <2>4. ASSUME NEW s \in Conns, NEW d \in Conns, Reconnect(s, d)
        PROVE  clients'[c] = c \/ ct_child'[c]
    <3>1. UNCHANGED ct_child /\ s # c
      BY <2>2, <2>4 DEF Reconnect, client_vars
    <3>2. CASE d # c
      BY <2>1, <2>4, <3>1, <3>2 DEF Reconnect, RemoveClient
    <3>3. CASE d = c /\ Found(d)
      <4>1. cid'[s] = c
        BY <2>4, <3>3 DEF Reconnect
      <4> QED
        BY <3>1, <4>1 DEF TakenOver
    <3>4. CASE ~ Found(d)
      BY <2>1, <2>4, <3>1, <3>4 DEF Reconnect
    <3> QED
      BY <3>2, <3>3, <3>4
  <2>5. ASSUME NEW s \in Conns, DropOld(s)
        PROVE  clients'[c] = c \/ ct_child'[c]
    BY <2>1, <2>5 DEF DropOld, Drop
  <2>6. ASSUME NEW s \in Conns,
               HelloFails(s) \/ HelloSent(s) \/ NotSuccess(s)
        PROVE  clients'[c] = c \/ ct_child'[c]
    BY <2>1, <2>6 DEF HelloFails, HelloSent, NotSuccess, client_vars
  <2>7. ASSUME NEW s \in Conns, AddClient(s)
        PROVE  clients'[c] = c \/ ct_child'[c]
    <3>1. s # c
      BY <2>2, <2>7 DEF AddClient
    <3>2. cid[s] # c
      BY <1>2, <2>7, <3>1
    <3> QED
      BY <2>1, <2>7, <3>2 DEF AddClient, Drop
  <2>8. CASE CleanupRetain
    BY <2>1, <2>8 DEF CleanupRetain, Drop
  <2>9. ASSUME NEW s \in Conns, WindowEnds(s)
        PROVE  clients'[c] = c \/ ct_child'[c]
    BY <2>1, <2>9 DEF WindowEnds
  <2>10. CASE UNCHANGED <<clients, handler, cid, old, expired, ct_child>>
    BY <2>1, <2>10
  <2> QED
    BY <2>3, <2>4, <2>5, <2>6, <2>7, <2>8, <2>9, <2>10, Moves
<1>4. CASE ~ HasListener(c)
  <2>1. ASSUME ~ AddClient(c)
        PROVE  FALSE
    <3>1. ASSUME NEW s \in Conns, NEW claims \in ClaimLists,
                 NewClient(s, claims)
          PROVE  UNCHANGED <<unspawned, listeners>>
      BY <3>1 DEF NewClient, net_vars
    <3>2. ASSUME NEW s \in Conns, AddClient(s)
          PROVE  UNCHANGED listeners /\ unspawned'[c] = unspawned[c]
      BY <2>1, <3>2 DEF AddClient, net_vars
    <3>3. ASSUME NEW s \in Conns, NEW e \in unspawned[s], SpawnRemote(s, e)
          PROVE  /\ unspawned'[c] \subseteq unspawned[c]
                 /\ listeners' \subseteq listeners \union {<<s, e>>}
                 /\ s # c
      <4>1. s # c
        BY <1>4, <3>3 DEF HasListener
      <4> QED
        BY <3>3, <4>1 DEF SpawnRemote
    <3> QED
      BY <1>4, <3>1, <3>2, <3>3, ListenerMoves DEF HasListener
  <2>2. cid[c] = c
    <3>1. unspawned'[c] # {}
      BY <1>4, <2>1 DEF AddClient, net_vars, HasListener
    <3> QED
      BY <2>1, <3>1 DEF AddClient
  <2> QED
    BY <2>1, <2>2 DEF AddClient
<1> QED
  BY <1>3, <1>4

\* A listener that nobody tells to stop is one whose client came back: whoever
\* else listens on the port of a registered client has been told to stop, or
\* was left behind by a reconnect, or the port was freed in use.
THEOREM OnlyLeftBehindListen == SafetySpec => []ForeignWasTakenOver
<1>1. Placed /\ ListenersOwn /\ Unreplaced /\ [Next]_vars
         => (ListenersOwn /\ Unreplaced)'
  BY OwnIsKept, UnreplacedIsKept
<1>2. Placed /\ ListenersOwn /\ Unreplaced /\ DedicatedUnlessFreed
         => ForeignWasTakenOver
  <2> SUFFICES ASSUME Placed, ListenersOwn, Unreplaced, DedicatedUnlessFreed,
                      NEW x \in listeners, NEW d \in Conns, Foreign(x, d),
                      ~ TakenOver(x[1]), ~ FreedInUse(x[2].remote_port)
               PROVE  FALSE
    BY DEF ForeignWasTakenOver
  <2>1. x[1] \in Conns /\ x[2] \in endpoints[x[1]] /\ HasListener(x[1])
    BY DEF Placed, TypeOK, ListenersOwn, HasListener
  <2>2. clients[x[1]] = x[1]
    BY <2>1 DEF Unreplaced, Foreign
  <2>3. Live(x[1]) /\ Live(d) /\ x[1] # d
    BY <2>1, <2>2, NoneAssumption DEF Live, Foreign
  <2>4. x[2].remote_port \in RemotePorts(endpoints[x[1]])
                                 \cap RemotePorts(endpoints[d])
    BY <2>1 DEF RemotePorts, Foreign
  <2> QED
    BY <2>1, <2>3, <2>4 DEF DedicatedUnlessFreed
<1>3. SafetySpec => []DedicatedUnlessFreed
  BY PortsAreDedicated
<1> QED
  BY <1>1, <1>2, <1>3, OwnInitially, AlwaysPlaced, PTL DEF SafetySpec
==============================================================================
