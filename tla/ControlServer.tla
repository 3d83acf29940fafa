---------------------------- MODULE ControlServer ----------------------------
(***************************************************************************)
(* The life of a tunnel on the server: connection handlers                 *)
(* (control_server_v2.rs), the Client objects and their websocket read     *)
(* loops (client.rs), the store's clients map and its periodic cleanup     *)
(* (store.rs), and the public listeners (remote/tcp.rs, remote/udp.rs).    *)
(*                                                                         *)
(* Every websocket connection s runs one handler and builds at most one    *)
(* Client object, so the object is named s as well.  ClientId::new() and   *)
(* EndpointId::new() are fresh: the client id made by connection s is      *)
(* named s, and an endpoint id is <<s, e>> with e one of its endpoints.    *)
(*                                                                         *)
(* One step is what runs between two awaits that another task can use.  A  *)
(* connection whose hello is missing, malformed or not authorised changes  *)
(* no state and is, to the model, one that has not said hello.             *)
(***************************************************************************)
EXTENDS EndpointClaims

CONSTANTS
    Conns,            \* websocket connections, hence Client objects and ids
    None,
    PortRange,        \* Config remote_port_start .. remote_port_end
    ClaimLists,       \* endpoint_claims that clients send
    Reconnects        \* whether clients come back, at any time

ASSUME NoneAssumption == None \notin Conns
ASSUME RangeAssumption == PortRange \subseteq Nat /\ IsFiniteSet(PortRange)
ASSUME ReconnectsAssumption == Reconnects \in BOOLEAN
ASSUME ClaimAssumption ==
    ClaimLists \subseteq
        Seq([local_port : Nat, protocol : Protocols, remote_port : Nat])

VARIABLES
    available_ports,  \* PortAllocator
    endpoints,        \* [client id -> its endpoints], endpoints_map as well
    clients,          \* Store.clients: [client id -> current object or None]
    handler,          \* handle_new_connection: where connection s is
    cid,              \* client id the handler and the read loop work for
    old,              \* Client removed by a Reconnect handler, not yet dropped
    unspawned,        \* endpoints the handler has still to spawn
    state,            \* Client.state; "None" before, "Dropped" after its life
    expired,          \* Utc::now() >= expires
    ct_self,          \* token of the read loop cancelled
    ct_child,         \* token of the listeners cancelled
    read_loop,        \* client_read_loop task
    open,             \* the peer's end of the websocket is there
    token,            \* ids whose peer received a reconnect token
    listeners,        \* endpoint ids <<c, e>> with a running listener task
    cleanup,          \* Store::cleanup: "idle", "retain" or "release"
    eids_to_remove,   \* Store::cleanup: endpoint ids collected by the scan
    late              \* history: clients that a reconnect has taken over while
                      \* cleanup had their endpoints to release

alloc_vars   == <<available_ports, endpoints>>
handler_vars == <<handler, cid, old, unspawned>>
client_vars  == <<state, expired, ct_self, ct_child>>
net_vars     == <<read_loop, open, token, listeners>>
cleanup_vars == <<cleanup, eids_to_remove, late>>
vars == <<alloc_vars, clients, handler_vars, client_vars, net_vars,
          cleanup_vars>>

Endpoint == [protocol : Protocols, local_port : Nat, remote_port : PortRange]

TypeOK ==
    /\ available_ports \in SUBSET PortRange
    /\ endpoints \in [Conns -> SUBSET Endpoint]
    /\ clients \in [Conns -> Conns \union {None}]
    /\ handler \in [Conns -> {"hello", "drop", "send", "unavailable",
                              "add", "done"}]
    /\ cid \in [Conns -> Conns \union {None}]
    /\ old \in [Conns -> Conns \union {None}]
    /\ unspawned \in [Conns -> SUBSET Endpoint]
    /\ state \in [Conns -> {"None", "Connected", "WaitReconnect", "Dropped"}]
    /\ expired \in [Conns -> BOOLEAN]
    /\ ct_self \in [Conns -> BOOLEAN]
    /\ ct_child \in [Conns -> BOOLEAN]
    /\ read_loop \in [Conns -> {"none", "reading", "leaving", "ended"}]
    /\ open \in [Conns -> BOOLEAN]
    /\ token \in [Conns -> BOOLEAN]
    /\ listeners \in SUBSET (Conns \X Endpoint)
    /\ cleanup \in {"idle", "retain", "release"}
    /\ eids_to_remove \in SUBSET (Conns \X Endpoint)
    /\ late \in SUBSET Conns

Init ==
    /\ available_ports = PortRange
    /\ endpoints = [c \in Conns |-> {}]
    /\ clients = [c \in Conns |-> None]
    /\ handler = [s \in Conns |-> "hello"]
    /\ cid = [s \in Conns |-> None]
    /\ old = [s \in Conns |-> None]
    /\ unspawned = [s \in Conns |-> {}]
    /\ state = [s \in Conns |-> "None"]
    /\ expired = [s \in Conns |-> FALSE]
    /\ ct_self = [s \in Conns |-> FALSE]
    /\ ct_child = [s \in Conns |-> FALSE]
    /\ read_loop = [s \in Conns |-> "none"]
    /\ open = [s \in Conns |-> TRUE]
    /\ token = [c \in Conns |-> FALSE]
    /\ listeners = {}
    /\ cleanup = "idle"
    /\ eids_to_remove = {} /\ late = {}
------------------------------------------------------------------------------
\* Mutant: the window is not looked at.
CanCleanupNoWindow(s) == state[s] = "WaitReconnect"

\* Client::can_cleanup
CanCleanup(s) == state[s] = "WaitReconnect" /\ expired[s]

\* Client::set_wait_reconnect
SetWaitReconnect(s) ==
    state' = [state EXCEPT ![s] = IF @ = "Connected" THEN "WaitReconnect"
                                                     ELSE @]

\* Mutant: the listeners' token is not cancelled.
DropKeepsChild(objects) ==
    /\ ct_self' = [s \in Conns |-> ct_self[s] \/ s \in objects]
    /\ state' = [s \in Conns |-> IF s \in objects THEN "Dropped"
                                                  ELSE state[s]]
    /\ UNCHANGED ct_child

\* impl Drop for Client, for every object of a set
Drop(objects) ==
    /\ ct_self' = [s \in Conns |-> ct_self[s] \/ s \in objects]
    /\ ct_child' = [s \in Conns |->
                      ct_child[s] \/ (s \in objects /\ CanCleanup(s))]
    /\ state' = [s \in Conns |-> IF s \in objects THEN "Dropped"
                                                  ELSE state[s]]
------------------------------------------------------------------------------
\* NewClient: process_client_claims.  The client id of a refused claim list
\* is never made (cid stays None).
NewClient(s, claims) ==
    /\ handler[s] = "hello"
    /\ IF ValidClaims(claims, available_ports)
       THEN /\ cid' = [cid EXCEPT ![s] = s]
            /\ \E f \in Pairings(claims, available_ports) :
                  /\ endpoints' = [endpoints EXCEPT ![s] =
                                      EndpointsOf(claims, f)]
                  /\ available_ports' = available_ports \
                        {f[a] : a \in LocalPorts(claims)}
       ELSE UNCHANGED <<cid, alloc_vars>>
    /\ handler' = [handler EXCEPT ![s] = "send"]
    /\ UNCHANGED <<clients, old, unspawned, client_vars, net_vars,
                   cleanup_vars>>

\* Mutants: the handler looks the client up and leaves it in the map, or
\* goes on without having found it.
RemoveClientPeeks(c) == UNCHANGED clients
FoundAlways(c) == TRUE

\* Store::remove_client
RemoveClient(c) == clients' = [clients EXCEPT ![c] = None]
Found(c) == clients[c] # None

\* Reconnect: the handler takes the client out of the map.  Whether it is
\* waiting, its window over, or connected through another websocket, makes no
\* difference.
Reconnect(s, c) ==
    /\ handler[s] = "hello"
    /\ token[c]
    /\ Reconnects
    /\ IF Found(c)
       THEN /\ RemoveClient(c)
            /\ cid' = [cid EXCEPT ![s] = c]
            /\ old' = [old EXCEPT ![s] = clients[c]]
            /\ handler' = [handler EXCEPT ![s] = "drop"]
            /\ late' = late \union ({c} \intersect {x[1] : x \in eids_to_remove})
       ELSE /\ handler' = [handler EXCEPT ![s] = "done"]
            /\ UNCHANGED <<clients, cid, old, late>>
    /\ UNCHANGED <<alloc_vars, unspawned, client_vars, net_vars, cleanup,
                   eids_to_remove>>

\* Reconnect: drop(old_client).
DropOld(s) ==
    /\ handler[s] = "drop"
    /\ Drop({old[s]})
    /\ old' = [old EXCEPT ![s] = None]
    /\ handler' = [handler EXCEPT ![s] = "send"]
    /\ UNCHANGED <<alloc_vars, clients, cid, unspawned, expired, net_vars,
                   cleanup_vars>>

\* send_server_hello fails: return.
HelloFails(s) ==
    /\ handler[s] = "send"
    /\ ~ open[s]
    /\ handler' = [handler EXCEPT ![s] = "done"]
    /\ UNCHANGED <<alloc_vars, clients, cid, old, unspawned, client_vars,
                   net_vars, cleanup_vars>>

\* send_server_hello succeeds; unless the hello was a refusal, Client::new
\* spawns the read loop of an object that is not in the store yet.
HelloSent(s) ==
    /\ handler[s] = "send"
    /\ IF cid[s] = None
       THEN /\ handler' = [handler EXCEPT ![s] = "unavailable"]
            /\ UNCHANGED <<state, read_loop>>
       ELSE /\ handler' = [handler EXCEPT ![s] = "add"]
            /\ state' = [state EXCEPT ![s] = "Connected"]
            /\ read_loop' = [read_loop EXCEPT ![s] = "reading"]
    /\ UNCHANGED <<alloc_vars, clients, cid, old, unspawned, expired, ct_self,
                   ct_child, open, token, listeners, cleanup_vars>>

\* The branch of the handler for a hello that is not Success.
NotSuccess(s) ==
    /\ handler[s] = "unavailable"
    /\ handler' = [handler EXCEPT ![s] = "done"]
    /\ UNCHANGED <<alloc_vars, clients, cid, old, unspawned, client_vars,
                   net_vars, cleanup_vars>>

\* Store::add_client; a replaced object would be dropped.  A new client goes
\* on to spawn its listeners, a reconnected one does not.
AddClient(s) ==
    /\ handler[s] = "add"
    /\ Drop({clients[cid[s]]})
    /\ clients' = [clients EXCEPT ![cid[s]] = s]
    /\ handler' = [handler EXCEPT ![s] = "done"]
    /\ unspawned' = [unspawned EXCEPT ![s] =
                        IF cid[s] = s THEN endpoints[s] ELSE {}]
    /\ UNCHANGED <<alloc_vars, cid, old, expired, net_vars, cleanup_vars>>

\* tcp::spawn_remote or udp::spawn_remote; when the address is taken bind
\* fails, which is only logged.
SpawnRemote(s, e) ==
    /\ e \in unspawned[s]
    /\ unspawned' = [unspawned EXCEPT ![s] = @ \ {e}]
    /\ listeners' =
          IF \E x \in listeners : /\ x[2].protocol = e.protocol
                                  /\ x[2].remote_port = e.remote_port
          THEN listeners
          ELSE listeners \union {<<s, e>>}
    /\ UNCHANGED <<alloc_vars, clients, handler, cid, old, client_vars,
                   read_loop, open, token, cleanup_vars>>

\* A listener task sees its token, the one of the first Client object of its
\* id (clone_child_token in NewClient), and stops.
ListenerStops(x) ==
    /\ x \in listeners
    /\ ct_child[x[1]]
    /\ listeners' = listeners \ {x}
    /\ UNCHANGED <<alloc_vars, clients, handler_vars, client_vars, read_loop,
                   open, token, cleanup_vars>>
------------------------------------------------------------------------------
\* Mutant: a packet that cannot be parsed ends the loop.
LoopEndsAnyTime(s) == TRUE

\* Cancelled, or no further message: a packet that cannot be parsed is
\* skipped.  (An empty message ends the loop too; clients send none.)
LoopIsOver(s) == ct_self[s] \/ ~ open[s]

ReadLoopBreaks(s) ==
    /\ read_loop[s] = "reading"
    /\ LoopIsOver(s)
    /\ read_loop' = [read_loop EXCEPT ![s] = "leaving"]
    /\ UNCHANGED <<alloc_vars, clients, handler_vars, client_vars, open,
                   token, listeners, cleanup_vars>>

\* Its last statement, Store::set_wait_reconnect(client_id), acts on the
\* object that is registered under the id now.
ReadLoopEnds(s) ==
    /\ read_loop[s] = "leaving"
    /\ read_loop' = [read_loop EXCEPT ![s] = "ended"]
    /\ IF clients[cid[s]] = None THEN UNCHANGED state
                                 ELSE SetWaitReconnect(clients[cid[s]])
    /\ UNCHANGED <<alloc_vars, clients, handler_vars, expired, ct_self,
                   ct_child, open, token, listeners, cleanup_vars>>

\* The ping loop writes to a connected client; the ping carries the reconnect
\* token, which a dead websocket does not deliver.
SendPing(c) ==
    /\ clients[c] # None
    /\ state[clients[c]] = "Connected"
    /\ open[clients[c]]
    /\ token' = [token EXCEPT ![c] = TRUE]
    /\ UNCHANGED <<alloc_vars, clients, handler_vars, client_vars, read_loop,
                   open, listeners, cleanup_vars>>

\* Mutant: a failed write is only reported.
SendFailsSilently(c) ==
    /\ clients[c] # None
    /\ UNCHANGED vars

\* A write of any caller of send_to_client fails: set_wait_reconnect.
SendFails(c) ==
    /\ clients[c] # None
    /\ state[clients[c]] = "Connected"
    /\ ~ open[clients[c]]
    /\ SetWaitReconnect(clients[c])
    /\ UNCHANGED <<alloc_vars, clients, handler_vars, expired, ct_self,
                   ct_child, net_vars, cleanup_vars>>
------------------------------------------------------------------------------
\* Store::cleanup, under the read lock: collect the endpoints of the clients
\* whose window is over.
CleanupScan ==
    /\ cleanup = "idle"
    /\ eids_to_remove' =
          UNION {{c} \X endpoints[c] :
                   c \in {d \in Conns : clients[d] # None
                                        /\ CanCleanup(clients[d])}}
    /\ cleanup' = "retain"
    /\ UNCHANGED <<alloc_vars, clients, handler_vars, client_vars, net_vars,
                   late>>

\* Under the write lock: can_cleanup is asked again, at a later time.
CleanupRetain ==
    /\ cleanup = "retain"
    /\ LET gone == {c \in Conns : clients[c] # None /\ CanCleanup(clients[c])}
       IN /\ clients' = [c \in Conns |-> IF c \in gone THEN None
                                                       ELSE clients[c]]
          /\ Drop({clients[c] : c \in gone})
    /\ cleanup' = "release"
    /\ UNCHANGED <<alloc_vars, handler_vars, expired, net_vars,
                   eids_to_remove, late>>

\* release_endpoint, once for each collected id; the allocator is unlocked
\* between two of them.  A port that is already available is an error.
CleanupRelease(x) ==
    /\ cleanup = "release"
    /\ x \in eids_to_remove
    /\ eids_to_remove' = eids_to_remove \ {x}
    /\ available_ports' = available_ports \union {x[2].remote_port}
    /\ UNCHANGED <<endpoints, clients, handler_vars, client_vars, net_vars,
                   cleanup, late>>

\* Mutant: the first error ends the releases.
CleanupGivesUp ==
    /\ cleanup = "release"
    /\ eids_to_remove' = {}
    /\ cleanup' = "idle"
    /\ UNCHANGED <<alloc_vars, clients, handler_vars, client_vars, net_vars,
                   late>>

CleanupDone ==
    /\ cleanup = "release"
    /\ eids_to_remove = {}
    /\ cleanup' = "idle"
    /\ UNCHANGED <<alloc_vars, clients, handler_vars, client_vars, net_vars,
                   eids_to_remove, late>>
------------------------------------------------------------------------------
\* Environment: the peer or the network closes a websocket that somebody on
\* the server still uses; time passes.
Disconnect(s) ==
    /\ open[s]
    /\ \/ handler[s] \in {"drop", "send", "add"}
       \/ state[s] \in {"Connected", "WaitReconnect"}
    /\ open' = [open EXCEPT ![s] = FALSE]
    /\ UNCHANGED <<alloc_vars, clients, handler_vars, client_vars, read_loop,
                   token, listeners, cleanup_vars>>

WindowEnds(s) ==
    /\ state[s] = "WaitReconnect"
    /\ ~ expired[s]
    /\ expired' = [expired EXCEPT ![s] = TRUE]
    /\ UNCHANGED <<alloc_vars, clients, handler_vars, state, ct_self,
                   ct_child, net_vars, cleanup_vars>>

Handle(s) ==
    \/ DropOld(s) \/ HelloFails(s) \/ HelloSent(s) \/ NotSuccess(s)
    \/ AddClient(s)
    \/ \E e \in unspawned[s] : SpawnRemote(s, e)

Hello(s) ==
    \/ \E claims \in ClaimLists : NewClient(s, claims)
    \/ \E c \in Conns : Reconnect(s, c)

ReadLoop(s) == ReadLoopBreaks(s) \/ ReadLoopEnds(s)

Cleanup ==
    \/ CleanupScan \/ CleanupRetain
    \/ \E x \in eids_to_remove : CleanupRelease(x)
    \/ CleanupDone

Next ==
    \/ \E s \in Conns : \/ Hello(s) \/ Handle(s) \/ ReadLoop(s)
                        \/ Disconnect(s) \/ WindowEnds(s)
    \/ \E c \in Conns : SendPing(c) \/ SendFails(c)
    \/ \E x \in listeners : ListenerStops(x)
    \/ Cleanup

\* Every task that can run does: the handlers, the read loops, the listener
\* tasks and the cleanup loop are tokio tasks that nothing keeps from being
\* polled.  A write to a dead websocket is tried every ping interval and
\* fails sooner or later, and time passes.  Nothing makes a client come
\* back, say hello or go away.
Fairness ==
    /\ \A s \in Conns : /\ WF_vars(Handle(s)) /\ WF_vars(ReadLoop(s))
                        /\ WF_vars(WindowEnds(s))
    /\ \A c \in Conns : WF_vars(SendFails(c))
                        /\ WF_vars(\E x \in listeners : x[1] = c
                                                       /\ ListenerStops(x))
    /\ WF_vars(Cleanup)

SafetySpec == Init /\ [][Next]_vars
Spec == SafetySpec /\ Fairness
------------------------------------------------------------------------------
\* The handlers that hold client c outside the map.
Holders(c) ==
    {s \in Conns : cid[s] = c /\ handler[s] \in {"drop", "send", "add"}}

Live(c) == clients[c] # None \/ Holders(c) # {}

Gone(c) == cid[c] = c /\ ~ Live(c)

TakenOver(c) == \E s \in Conns : s # c /\ cid[s] = c

\* Listener x sits on a port of d, a client in the map, and has not been told
\* to stop.
Foreign(x, d) ==
    /\ clients[d] # None
    /\ x[1] # d
    /\ x[2].remote_port \in RemotePorts(endpoints[d])
    /\ ~ ct_child[x[1]]

\* A client is in one place: in the map, or in the hands of one handler.  So
\* two reconnects of one client cannot both go on, and add_client never
\* replaces, hence never drops, an object.
OneHolder ==
    \A c \in Conns :
       /\ \A s, t \in Holders(c) : s = t
       /\ clients[c] # None => Holders(c) = {}

\* The map holds objects that work for the id they are registered under and
\* that have not been dropped.
RegisteredIsAlive ==
    \A c \in Conns : clients[c] # None =>
       /\ cid[clients[c]] = c
       /\ state[clients[c]] \in {"Connected", "WaitReconnect"}

\* A client that has left, by cleanup or by a failed handshake, never comes
\* back: no late reconnect or read loop re-registers an id whose ports may
\* belong to somebody else by then.
NoResurrection == [][\A c \in Conns : Gone(c) => Gone(c)']_vars

\* README.md "You'll get a dedicated global public address for your server":
\* no two clients have a port in common.
DedicatedPorts ==
    \A c, d \in Conns :
       c # d /\ Live(c) /\ Live(d) =>
          RemotePorts(endpoints[c]) \cap RemotePorts(endpoints[d]) = {}

\* Two things make a port that is in use available.  A client has two
\* endpoints on it, and each is released (EndpointsOf); a client comes back
\* after the scan of the cleanup has seen its window over, and lives on while
\* the cleanup releases its endpoints (store.rs:121-130).
Doubled(p) ==
    \E c \in Conns : \E e, f \in endpoints[c] :
       e # f /\ e.remote_port = p /\ f.remote_port = p

Revived(p) == \E c \in late : p \in RemotePorts(endpoints[c])

FreedInUse(p) == Doubled(p) \/ Revived(p)

\* Nothing else does: living clients share a port only if that has happened
\* to it, now or earlier.
DedicatedUnlessFreed ==
    \A c, d \in Conns :
       c # d /\ Live(c) /\ Live(d) =>
          \A p \in RemotePorts(endpoints[c]) \cap RemotePorts(endpoints[d]) :
             FreedInUse(p)

\* While a client lives, its listeners are told to stop in one case only: it
\* has been taken over, after the window of its first websocket was over, and
\* before the cleanup removed it (control_server_v2.rs:348).  A lost
\* websocket, a reconnect in time and the end of another client do not.
ListenersSurvive ==
    \A c \in Conns : Live(c) /\ ct_child[c] => expired[c] /\ TakenOver(c)

\* ClientState: WaitReconnect means "client websocket was disconnected,
\* waiting for reconnect" (client.rs:32).
OnlyDeadSocketsWait ==
    [][\A s \in Conns :
         state[s] = "Connected" /\ state'[s] = "WaitReconnect"
            => ~ open[s]]_vars

\* So it does for a client that no reconnect has taken over: neither the
\* racing read loop nor the ping writer calls a living websocket dead.
DeadOrTakenOverWait ==
    [][\A s \in Conns :
         state[s] = "Connected" /\ state'[s] = "WaitReconnect"
            => ~ open[s] \/ TakenOver(cid[s])]_vars

\* A client whose websocket is dead is dropped in the end, whatever the read
\* loop managed to report: by the cleanup or by a reconnect.
DeadClientLeaves ==
    \A s \in Conns :
       ~ open[s] /\ state[s] \in {"Connected", "WaitReconnect"}
          ~> state[s] = "Dropped"

\* The listeners of a client that has left stop for good, if it never came
\* back: those spawned before its end and those spawned after it.
GoneListenersStop ==
    \A c \in Conns :
       Gone(c) /\ ~ TakenOver(c) ~> [](\A x \in listeners : x[1] # c)

\* README.md "All requests to that public address are forwarded to your
\* local game server": a client that has left and still listens on a port of
\* another has been told to stop, so that it answers for a moment only.
NoForeignListener ==
    \A x \in listeners : \A d \in Conns : ~ (Gone(x[1]) /\ Foreign(x, d))

\* A listener that nobody tells to stop, on a port of another client, is one
\* whose client came back, unless the port was freed while in use.
ForeignWasTakenOver ==
    \A x \in listeners : \A d \in Conns :
       Foreign(x, d) => TakenOver(x[1]) \/ FreedInUse(x[2].remote_port)
==============================================================================
