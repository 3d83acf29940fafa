# Formal models of OwnServer

OwnServer publishes a game server that runs behind a NAT. A *client* on the
user's machine opens a websocket to the *server*, asks for public ports
("endpoints"), and the server listens on them; what remote users send to these
ports travels through the websocket to the local service and back. This
directory holds TLA+ models of that code, TLC configurations that check them on
small instances, and TLAPS proofs for all instances.

    tlc -config MCServerLive.cfg MCServerStreams   # a run
    tlapm ControlServerProofs.tla                  # the proofs of a module

## 1. The system

| component | source | state | operations |
|---|---|---|---|
| port allocator | `ownserver_server/src/port_allocator.rs` | set of available ports | `allocate_port`, `allocate_ports`, `release_port` |
| store | `store.rs` | `clients`, `streams`, `addrs_map`, `endpoints_map`, `alloc`, each behind its own lock | add/remove client, add/disable stream, `send_to_client`, `send_to_remote`, `set_wait_reconnect`, `cleanup` |
| client object | `client.rs` | `Connected` / `WaitReconnect{expires}`, two cancellation tokens | the websocket read loop, `send_to_client`, `Drop` |
| control server | `control_server_v2.rs` | one task for each websocket, a cleanup loop, a ping loop | the handshakes `NewClient` and `Reconnect` |
| TCP remotes | `remote/tcp.rs`, `remote/stream.rs` | listener tasks; for each remote user a stream and its read loop | `spawn_remote`, `accept_connection`, read loop, `send_to_remote`, `disable` |
| UDP remotes | `remote/udp.rs` | listener tasks; peer address to stream | `spawn_remote`, `process_udp_stream`, `send_to_remote` |
| client session | `ownserver/src/lib.rs` | map of local streams, channel to the websocket | websocket read loop, `process_control_flow_message` |
| local sockets | `ownserver/src/local/{tcp,udp}.rs` | for each stream a reading and a writing task and a queue | `setup_new_stream`, `process_local_tcp`, `forward_to_local_tcp` |
| client loop | `ownserver/src/proxy_client.rs` | reconnect token, backoff | `run_client`: connect, run, retry |
| packets, tokens | `ownserver_lib/src/{lib,reconnect}.rs` | none | codec, signed reconnect token |

Everything is a tokio task. Tasks interact through the store's maps (one lock
each; some are kept across a write to a socket, see `Backpressure`), through cancellation tokens,
through the websocket (a FIFO channel in each direction until it breaks; after a
reconnect two of them may be in use for a while) and through the sockets of remote users and local services.

### What is hard

* **Who owns a client.** A client id outlives its websocket: the old read loop,
  a reconnecting handler, the cleanup loop and the ping loop all work on one id.
  `remove_client`, `drop(old_client)`, sending the hello and `add_client` are
  separate steps, and so are the phases of `cleanup`. Correct: a client is in
  one place; a departed id stays away; a client waits for a reconnect only if its
  websocket is dead.
* **Who owns a port.** Ports are released by id, after the client was removed,
  one by one; listeners are stopped by a token that belongs to the first `Client`
  object. Correct: a port belongs to one client; its listeners live as long as
  the client does and not longer.
* **What a stream delivers.** The read loop of a remote socket runs before its
  `Init` was sent and before it is registered; a websocket may be replaced under
  the streams, with a read loop of the server at each. Correct: each end gets a prefix of
  what the other sent; `Refused` ends a stream; an end of file reaches the other side.
* **Counting ports.** `allocate_ports` checks a count and then loops. Correct: it
  never runs dry; refused calls take nothing.
* **Peers without connections.** UDP has no accept and no close: a datagram finds its
  stream by the address of its peer, in a map that is never purged, and errors of a
  socket come with a later call. Correct: a datagram reaches the service of the
  endpoint it was sent to, on a stream of its own peer, in order; a refused stream is
  left for a new one.
* **A session after a session.** The client loop retries, waits, shuts tasks down and
  goes on with a token that one of these tasks received and that expires; the tasks of its
  local streams go on meanwhile. Correct: no task of an old session acts in a new one; nobody
  writes to an old websocket once there is a new one; the client keeps its id; it comes back when
  the network does; a cancellation stops it.
* **How long a stream lasts.** A stream is added by its accept task, disabled by its read
  loop, by a `Refused`, by a failed write or by the cleanup of its client, and taken out of the
  map by a sweep. Correct: the cleanup cuts the streams of clients that leave and of no
  other; no stream of a client that is gone stays.
* **Full pipes.** Writes to websockets and sockets wait, and some of them wait under a lock
  that others need. Correct: whoever waits gets on in the end.

`PROJECT.json` lists each hazard at its line.

## 2. Modules

| module | models | |
|---|---|---|
| `EndpointClaims` | claims, validation, pairing with ports | operators only |
| `PortTable` | what callers of the allocator are promised | abstract: one atomic step for each call |
| `PortAllocator` | `port_allocator.rs`, `allocate_ports` one loop iteration per step | implements `PortTable` |
| `ControlServer` | handshakes, client objects and read loops, `clients` map, ping, cleanup, listeners | uses `EndpointClaims` and the atomic grant |
| `ServerStreams` | the stream map over the life of a client: accept, add, disable, cut, sweep | EXTENDS `ControlServer`, implements it |
| `Backpressure` | who waits for whom: locks kept across writes, websockets with bounded buffers | both programs |
| `StreamPipe` | what a stream promises in one direction | abstract |
| `Tunnel` | the websockets of a client, one after another and side by side: their channels, loss and replacement | base, no specification of its own |
| `LocalStreams` | the client's store of streams, what its read loop does for `Data` and `End` | EXTENDS `Tunnel` |
| `TcpTunnel` | TCP streams through one tunnel, both programs | EXTENDS `LocalStreams`, implements `StreamPipe` twice |
| `UdpTunnel` | UDP endpoints, peers and streams through one tunnel, both programs | EXTENDS `LocalStreams` |
| `ClientSession` | `run_client`, the two tasks of a session, the tasks of local streams that outlive it, the lock of the client slot | |
| `MC*` | claim lists, routes and instances for TLC | |
| `*Proofs` | TLAPS proofs, see section 6 | |

### PortAllocator

`available_ports` is the table; `pc`, `claims`, `left`, `ports` are the locals of
`allocate_ports`, with one action for its entry, one for an iteration (`PickPort`,
with the roll-back of the branch "should never happen") and one for its end
(`MakeEndpoints`). The random draw is a nondeterministic choice; so is the order
in which the aggregated claims (a `HashMap`) meet the drawn ports. `ControlServer`
takes a call as atomic, which is sound for two reasons: calls run under the
`alloc` mutex, and `PortAllocator` implements `PortTable`, whose `Grant` is the
one of `ControlServer`.

### ControlServer

A websocket connection `s` runs one handler and builds at most one `Client`
object, so handler, object and, for `NewClient`, the client id are all named `s`;
`cid[s]` is the id that `s` works for. `handler[s]` is the position in
`handle_new_connection`:

| `handler` | next action | code |
|---|---|---|
| `hello` | `NewClient`, `Reconnect` | allocate the endpoints, or `remove_client` |
| `drop` | `DropOld` | `drop(old_client)` |
| `send` | `HelloSent`, `HelloFails` | `send_server_hello`, then `Client::new`, which spawns the read loop |
| `unavailable` | `NotSuccess` | the branch commented "Never happens" |
| `add` | `AddClient` | `store.add_client` |
| `done` | `SpawnRemote` for each endpoint of a new client | `spawn_remote` |

`state`, `expired`, `ct_self`, `ct_child` are the fields of the objects (`expired`
is `Utc::now() >= expires`), `read_loop` their tasks, `open` the peer's end of the
websocket. `SetWaitReconnect` and `Drop` are the methods of those names;
`ReadLoopEnds` calls the first on whichever object is registered then. `cleanup`
runs `CleanupScan` (read lock), `CleanupRetain` (write lock), one `CleanupRelease`
for each collected endpoint, `CleanupDone`. `listeners` are the listener tasks; a
bind to an address in use only logs. A client may reconnect once it holds a token
(a `Ping` reached it). Hellos that are refused change nothing and are left out.

`endpoints` stands for `Client.endpoints` and `endpoints_map`; ids of endpoints are
pairs of client and endpoint. Which streams a removed client has is in
`ServerStreams`.

`Reconnects` says whether clients come back at all; if they do, it is at any time, as in the
code, also after their window and while the cleanup is at work. `late` is a history variable: the
clients that were taken over while `cleanup` had their endpoints in hand. The properties name what
goes wrong then (`FreedInUse`, `ListenersSurvive`, `CutClientsLeave`), and say that it is the only way.

### ServerStreams

The composition of `ControlServer` with the streams that its listeners make. `stream[r]` is
where `accept_connection` has got with stream `r`, and then whether it is in the map:

| `stream` | next action | code |
|---|---|---|
| `none` | `Accept` | `listener.accept`, `RemoteTcp::new`, which spawns the read loop |
| `made` | `InitSent`, `InitFails` | `send_init_to_client` |
| `inited` | `AddRemote` | `store.add_remote` |
| `added` | `Sweep`, once it is disabled | the last `retain` of `cleanup` |

`disabled` is `RemoteTcp::disabled`, `reader` the read loop (`leaving`: out of its loop, before
`disable_remote`). `ScanCutsStreams` is `ControlServer`'s `CleanupScan` together with
`disable_remote_by_client`, `Sweep` its `CleanupDone` together with the sweep. A write to a
client's websocket that fails makes the client wait, which is a step of `ControlServer`
(`SendFails`); the other steps of streams leave the registry alone. So every behaviour of
`ServerStreams` is one of `ControlServer` (proved: `StreamsImplementServer`), and the runs
check the properties of `ControlServer` in the composition. What a stream carries is in
`TcpTunnel`. `cut` is a history variable: the clients whose streams a scan has disabled.

### Backpressure

A websocket takes `Room` packets each way, then a write waits; the module says who waits
meanwhile. `clients_lock` is `Store.clients` with the task that writes under it
(`Store::send_to_client`) or the scan of `cleanup`, `streams_lock` is `Store.streams`
(`Store::send_to_remote`, kept for as long as a remote user does not read), `mutex` the
client's `Store.client`. Each write is two actions, `...Takes` for the lock and `...Sent` for the write and the
release, so that what waits in between is seen. `read_loop` and `answer` say what the two read
loops are busy with: while they are, they read nothing. Of what packets mean only the answer
they call for is kept. Websockets stay up here; how one breaks is the matter of the other
modules, and it ends every write.

### StreamPipe

`sent` and `got` of a stream in one direction: chunks arrive once, in order unless the pipe
`shuffles`, and without a gap unless it is `lossy`; either may begin at some time and lasts.
`TcpTunnel` implements it in both directions (`TwoPipes`). A stream is lossy if it was raced, and once
the tunnel was replaced; towards the remote user it shuffles once the tunnel was replaced, towards
the local service never.

### Tunnel and LocalStreams

Each time the server takes the client over there is a new websocket, numbered from 0;
`reconnects` is the newest. The client reads from the newest only (`to_client`, one channel). It
writes to the one in `Store.client` (`slot`), which is an old one until `add_client`: tasks of local
streams, and the read loop of the new session, do so meanwhile, and the sending half of an old
websocket stays open for them. The server has a read loop for each websocket (`loops`), as the
`select!` of a cancelled one is unbiased: it may go on with what it holds, beside the new one. So
`to_server` is a channel for each, `alive` says which still carry packets.

| action | code |
|---|---|
| `TakeOver` | the handler's Reconnect: `remove_client`, `drop`, hello, `add_client`; some of the old loops are over by then, with their packets, some go on |
| `Enter` | the client has the hello; `Client::new` spawns its read loop |
| `AddClient` | `Store::add_client`: the slot is the new websocket, the old one is dropped |
| `TakeFrom(w)`, `LoopEnds(w)` | the server's read loop of `w`; at its end it calls `set_wait_reconnect` for whoever is registered by then |
| `SessionEnds` | the client's read loop is over, by an error of its own or with the websocket |
| `Breaks(w)` | the network fails a websocket |

`session` is whether the client's read loop of the newest websocket runs, `entering` that it does
and `add_client` is still to come, `connected` the server's view (its `Client` is `Connected`). A
packet written to a dead websocket is either lost (`SendToClient`) or reported (`SendToClientFails`,
which marks the client as waiting), as the transport pleases.

On the client, a stream has an entry in the store (`locals`), a queue, a task that
forwards the queue to the local socket (`local_write`) and the tasks spawned for `End`
(`closer`: before `remove_stream`, and in the five seconds before the `Close`).
`HandleData` has the three outcomes of the code: queued, `Refused`, or an error that ends
the session when the entry outlived the task that reads the queue.

### TcpTunnel

For each stream: the accept task (`accept`: between `RemoteTcp::new` and
`add_remote`), the read loop of the remote socket (`reader`), the entry in
`Store.streams`, the remote user (`rsent`, `rread`, `rgot`, `rend`), and on the client
`setup_new_stream` (`setup`, which blocks the websocket read loop), the reading task
(`local_read`) and the local service (`lsent`, `lread`, `lgot`, `lclosed`). Data are chunks
numbered from 1.

`RemoteTcp::new` spawns the read loop before `Init` is sent and before the stream is
registered. The history variable `raced` marks the streams on which somebody got ahead
(`Overtakes`); properties that these races break exempt such streams, and only them.

### UdpTunnel

`listener[e]` is the position in `process_udp_stream` of an endpoint, `dgram[e]` and
`sid[e]` its locals:

| `listener` | action | code |
|---|---|---|
| `recv` | `Recv` | `recv_from` |
| `find` | `FindStream` | `find_stream_id_by_addr`, or `RemoteUdp::new` |
| `init` | `SendInit` | `send_init_to_client`; on failure the task returns (`stopped`) |
| `add` | `AddRemote` | `add_remote`, which writes `addrs_map` |
| `send` | `Forward` | `Data`, or `End` for an empty datagram |

A datagram is its peer, the endpoint it was sent to, a number in the order of receipt and
whether it is empty. `info` is what a `RemoteUdp` knows of itself; `addrs_map` is keyed by
the peer alone, as in the code. `refused_at` is a history variable. On the client each
stream has a connected socket: a send may find that nothing is bound to the local port, which
makes the socket `unreachable`, and whichever call comes next on it (read or send) reports and
clears the error.

`addrs_map` belongs to the server, not to the client: TCP streams are entered in it, and so are the
UDP streams of other clients. `Shared` are the peers whose address such others have too. `OthersAdd`
puts `Other` into their entry, a stream that is not of this client; a listener that finds it there
sends to a stream the client does not know or that is another's. `OthersRefuse` is the reverse: another
listener has found our stream and sent to it, and its client's `Refused` disables it.

### ClientSession

`phase` is the position in `run_client`: `connect` (sleep and `connect_async`), `hello`,
`verify`, `start` (`Client::new` spawns the read loop), `add` (`add_client`, which drops the
client of the old session, and the ping task), `select`, `shutdown`, `stopped`. `request` and
`token` are its locals, `reconnect_token` and `slot` the fields of the store (`slot` says whether
`Store.client` is of the current websocket or an old one), `ct` the session's token, `read_loop` and
`ping_task` the two tasks. How long a backoff lasts plays no part: `Retry` is one more attempt.

Everybody who sends to the server locks `Store.client` and writes under the lock: `writer` is who,
`target` which websocket it writes to, so that a write may last while the session ends and the next
one begins. Writers are the read loop (`answering`), the ping task (`pinging`) and the detached
tasks of local streams (`local_streams`), which nobody ends with the session. `add_client` waits for
the lock; `set.shutdown()` aborts the two tasks wherever they are, and unlocks.

A token is the id of the client it was made for; it is `fresh` until `TokenExpires`, after which a
Reconnect is answered with an error, whether or not the server holds the client (`InvalidToken`).
The server is an environment that knows what this component can see: the ids it `granted`, the
clients it still holds (`known`), and the hello under way (`reply`). `net` is whether it can be
reached; a websocket breaks only while it cannot, or because the server drops the client.

## 3. Runs that pass

| run | instance | shows |
|---|---|---|
| `port_allocator` | 3 ports, sorted lists of up to 4 claims | the loop never runs dry; grants are sound; calls implement `PortTable` |
| `server_safety` | 3 connections, 1 stream, 1 port, reconnects at any time, symmetry | `DedicatedUnlessFreed`, `ListenersSurvive`, `ForeignWasTakenOver`, `CutClientsLeave`, `PortsAccounted` |
| `server_live` | 2 connections, 1 stream, 1 port, reconnects at any time, fairness | `OneHolder`, `NoResurrection`, `DeadClientLeaves`, `GoneListenersStop`, `DeadOrTakenOverWait`, `OrphansEnd` |
| `tcp_streams` | 1 stream, 2 chunks in all, 1 reconnect, fairness | `TwoPipes`, `RefusedCloses`, `ClosedRemoteIsDisabled`, `CloseReachesLocal` |
| `udp_tunnel` | 2 peers, each with an endpoint of its own, the address of one shared, 2 datagrams, 1 reply, 1 reconnect, fairness | `FaithfulReachTheirs`, `OneStreamAtATime`, `InOrder`, `RefusedCloses`, `RefusedIsLeft`, `DatagramsArrive`, `EndStopsForwarding` |
| `client_session` | 2 ids, the loop unbounded, fairness | `TasksEndFirst`, `SendsToCurrent`, `OneIdentity`, `ComesBack`, `CancelStops` |
| `backpressure` | 1 connected client, 1 that expired, room for 1 packet, fairness | `StuckIsForever`, `OnlyTwoStalls` |

**Bounds.** Three connections are the smallest number for the races of interest: a
client with two reconnects that compete, or two clients one of which reconnects;
one port lets a released port be granted again while its old owner is still about, and
lets a hello be refused; which port it is makes no difference, as a grant asks for any.
No claim list of these runs has two endpoints on one port, so of the two ways in which
`FreedInUse` frees one only the late reconnect occurs in `server_safety`; the other is what
`ports_shared_protocols` shows, and the theorem has both. One stream meets every step of its client. Two connections (`server_live`) are one client
with a reconnect, or two with a port in turn. Claim lists up to four claims over four local ports exceed
the three ports, repeat a port with the other protocol, repeat a claim, and ask for
a fixed port.

A gap in a TCP stream needs two chunks, and so does another order, a second loss nothing new. The two
chunks may be two of the user's, two of the service's or one of each (`MaxChunks` bounds their sum), so
that each direction has them in turn, and each is seen beside the other. Streams share only the
channels, so one stream with two websockets has the races of its own tasks, and the order of packets of
different streams changes none of them. `MaxReconnects` and `MaxChunks` are the only bounds there. In
`UdpTunnel` the number of stream ids bounds the datagrams (each may open a stream): two are enough for
one datagram to follow another on a stream, for both to be under way in two listeners at once, for one to
come after a refusal, and for an empty one behind a full one. The shared address (`p2`) makes its entry
of the map change under the listener at any time; the other peer is one whose properties must hold
nonetheless. One reply fills the channel back; `Refused` and replies then meet in it. That a peer sends to
two endpoints is left to the violation runs (`MCRoutes`) and to the theorems, which are for any routes.

The loop of `ClientSession` has no bound. Ids are finite; two let a first hello be answered in vain (the
answer lost, the client retried as a new one).

`Backpressure` has no bound but `Room`, which is a parameter of the transport (buffers of
the sink and of TCP) and not of the model: a larger one takes longer to fill. With one
connected client its own two directions, the ping loop, its streams and the cleanup contend for
the locks; a second client adds another holder of the same lock (17.8 million states, too many for
the liveness property); `TypeOK` and `StuckIsForever` are proved for any number of clients.

The properties of the server that matter most are also proved without bounds.

**Fairness.** Weak fairness of each task: tokio polls every task that is ready, and
no task keeps another from its locks for ever (what happens when buffers are full is the
subject of `Backpressure`, which alone models it). A write to a dead websocket fails some time (pings are
periodic), and windows end (time passes). In `ClientSession` a hello is answered; `add_client` gets the
lock if that is free again and again (strong fairness: the mutex of tokio is a fair queue); and the
cancellation is taken under strong fairness, because `select!` draws among the branches that are ready, so
that a cancellation that is ready again and again is not passed over for ever. A remote user of
`ServerStreams` says something from time to time (`ForwardFails`), without which the read loop of a stream
that the scan missed never learns of the end of its client. In `Backpressure` what is ready is done, and
who waits for a lock gets it when it is freed again and again (strong fairness, as above); that a remote
user reads is not assumed. Nothing forces a client to say hello, to reconnect or to disconnect, a remote
user, a peer or a service to act, a connection to break or a connect to be refused. `ComesBack` and
`CancelStops` have a premise (`Reachable`): the network is up from some time on, and no write to a
websocket hangs for ever. `server_live`, `server_safety` and `client_session` check deadlock, as cleanup
always runs and the network always changes; the runs of the tunnels do not, as a tunnel may rightly come to
rest, nor does `backpressure`, where TLC's deadlock would be the very stalls that its properties describe.

**Symmetry** over connections is used in safety runs only.

## 4. Runs that end in a violation

Each quotes what the repository says and shows an execution of the code that does
otherwise (`findings` in `PROJECT.json`).

* `ports_shared_protocols` - TCP and UDP claims of one local port share a remote
  port, and `cleanup` releases it once for each. Between the two, another client is
  granted the port; the second release frees it under its owner.
* `false_wait` - the read loop of the replaced websocket ends after the new object is
  registered, and its `set_wait_reconnect` demotes the living one. The client then
  gets no packets, and is removed when the window ends.
* `leaked_listener` - the listeners hold the token of the first object. After a
  reconnect nobody can cancel it: when the client leaves in the end, its listeners
  keep the ports, which are granted to others, whose bind fails.
* `udp_crosstalk` - a peer that sends to two endpoints of one client has one stream,
  because `addrs_map` is keyed by the peer: its datagrams to the second endpoint reach the
  service of the first.
* `udp_dead_listener` - the listener of a UDP endpoint returns when an `Init` cannot be
  sent, which is so while the client is between two websockets. The reconnect starts no
  listener: the endpoint stays dead.

What no run is spent on, met while modelling:

* The late reconnect. A client whose window ended is collected by the scan of `cleanup`, reconnects
  before `retain`, and lives on, with its streams cut and its ports released, which others may be granted
  (`late`, `FreedInUse`). If it reconnects after its window and before the scan, `drop(old_client)` stops
  its listeners for good: it is connected, and nobody can reach it. `control_server_v2.rs:348` takes a
  client whatever its state.
* After a reconnect a read loop that was cancelled may go on with the packets it holds, because the
  `select!` is unbiased: what the service said before the break may then reach the remote user after what
  it said since.
* A `Refused` for data that came right after the hello, before `add_client`, is written to the old
  websocket and may be lost: the remote stream stays enabled until its next data.
* A token that is older than 5 minutes and 60 seconds is refused although the server holds the client, and
  the client asks with it again for ever (`ComesBack`, `CancelStops`).
* One remote user who stays connected and does not read stalls the server (`Unread`): the write to its
  socket has no timeout and keeps the lock of all streams, for which the cleanup waits under the lock of
  all clients.
* A `Refused` that arrives before `add_remote` disables nothing, and data of the local
  service that overtakes `add_remote` are dropped while the stream goes on; these are the
  `raced` streams.
* Streams go on after a reconnect although the packets in the old websocket are lost: a gap
  in a TCP stream, which is why the pipes of `TwoPipes` become lossy.
* Full buffers (`Backpressure`, `Stuck`): the server's write to a client waits for room under the
  lock of all clients; that client's read loop at the server waits for this lock to answer a
  ping, so nothing is taken from the client, whose own read loop waits to send an answer before it
  reads on. No client gets anything from then on, until that websocket breaks.
* A stream of an idle remote user can outlive its client, although client.rs:34 says "if client
  does't reconnect within window, drop streams associated with this client": the window ends
  between the scan and `retain`, or `add_remote` comes after the scan, and nobody looks
  again until the user says something (`OrphansEnd`); if the read loop had ended before
  `add_remote`, nobody looks ever.
* Ports leak in two places, and only there (`PortsAccounted`): when a hello cannot be
  sent, and when the window ends between the scan and `retain`.
* The branch commented "Never happens" (`control_server_v2.rs:316`, action `NotSuccess`) is
  reached whenever the ports are used up.
* A client that the server has forgotten retries its `Reconnect` for ever, and never asks to be a
  new one; a cancellation is looked at only once the client is connected again.
* After an `End`, `process_local_udp` keeps its socket and waits for the service for ever.
* A UDP service that is not bound makes the forwarding task return while the stream keeps its
  entry if the send is the call that reports it; the next datagram then ends the whole session.

## 5. Mutants

Every property of a passing run is accompanied by a mutated definition (marked
`Mutant` in the modules) that breaks it: a dropped condition, a missing reset, a
message looked at and not taken.

## 6. Proofs

For every value of the constants, by TLAPS:

| theorem | module | assumptions |
|---|---|---|
| `TypeCorrect`, `RollBackIsDead`, `GrantsAreSound`, `AllocatorImplementsTable` | `PortAllocatorProofs` | none |
| `TypeCorrect`, `OneHolderAlways`, `RegisteredIsAliveAlways`, `DepartedStayAway` | `ControlServerProofs` | none |
| `ListenersStopWhenLate`, `PortsAreDedicated`, `OnlyLeftBehindListen`, `OnlyDeadOrTakenOverWait` | `ControlServerProofs` | none |
| `StreamsTypeCorrect`, `StreamsImplementServer`, `PortsAreAccounted`, `OnlyLeaversAreCut` | `ServerStreamsProofs` | none |
| `TypeCorrect`, `TheCycleIsPermanent` | `BackpressureProofs` | none |
| `TypeCorrect`, `SessionsAreApart`, `SendersAreCurrent`, `IdIsKept` | `ClientSessionProofs` | none |
| `TypeCorrect`, `RefusedClosesAlways`, `PipesImplemented`, `TunnelIsTransparent` | `TcpTunnelProofs` | none |
| `TypeCorrect`, `RefusedIsClosed`, `RefusedStaysLeft`, `FaithfulAreReached`, `OneStream`, `OrderKept` | `UdpTunnelProofs` | none |

("None" is beside the named ASSUMEs of the modules, which give the constants their
types.)

*Allocator.* `IInv` counts: while the loop runs, the ports picked and the iterations
left make up the distinct local ports, and these are no more than `available_ports
\union ports`, which no iteration changes. So the table is empty only when nothing is
left to pick. At the end the picked ports are exactly as many as the local ports, hence
the injective pairing uses all of them (`PairingUsesAll`), which is what the refinement
needs: the abstract grant takes just the ports of the endpoints.

*Registry.* `OneHolder` is not inductive: `add_client` must find its place empty, and a
new id must be nobody's. `Placed` adds where each handler leaves its object
(`HandlerSteps`), that an id in use was made by the connection it is named for
(`IdsAreMade`), and that an object in the map has a handler that is done with it
(`Registered`). `LifeBegins` then says that only a `NewClient` hello makes a client live,
from which `NoResurrection` follows.

*Ports.* `DedicatedUnlessFreed` is not inductive because of the ports that cleanup has collected and not
yet released. `HeldPorts` counts them in: no held port is available, and no two held endpoints have the same
port, unless the port was freed in use. `Collected` says where the clients are whose endpoints were
collected: waiting with their windows over (before `retain`) or gone (after it), unless a reconnect was late.
That a port once freed in use stays one (`FreedStays`) is what makes the exception inductive. So the double
release and the late reconnect are the only two ways to share a port, for all claims and any order of
steps; `ports_shared_protocols` shows the first.

*Listeners.* `Stopped`: the listeners' token of a client is cancelled only when its window was over, and then
it is gone or was taken over; what cancels it is a `Drop` of an object that can be cleaned up, by `retain`,
whose client is gone, or by a reconnect, whose client is taken over (`StopsDropped`). For the listeners that
stay (`OnlyLeftBehindListen`): a listener is on a port of its own client (`ListenersOwn`), and a client that was
never taken over is served by the object whose token its listeners have (`Unreplaced`), so that its end is
their end; `DedicatedUnlessFreed` does the rest.

*Demotions.* `DeadOrTakenOverWait` is an action property; what it needs of the state is `Loops`: a
read loop has ended only for an object that is dropped or whose websocket is closed, and a dropped
object is not connected. The only step that makes a client wait (`Demotions`) is then that of an ended
loop, so its object is dead or taken over.

*Streams and server.* `StepIsServerStep` goes through the actions of the composition: each is a
step of `ControlServer` or leaves it as it is, which needs that a stream with a reader has a
client (`Owned`). `Placed` and its consequences are then facts of the composition too.
`Accounted` strengthens `PortsAccounted`: clients that were cut have said hello, so that a grant,
which is to a fresh client, is never to one of them (`CutAreMade`, `FreshHasNone`), and the list of
collected endpoints is empty when a scan begins (`IdleIsEmpty`). `CutLeave` says where
cut clients are: about to be retained out of the map, gone, or late. What stays in the map with its window
over stays to be removed unless a reconnect takes it out (`LeavingIsKept`), and a reconnect that does so
before `retain` finds the client's endpoints collected, so that it is `late`.

*Full buffers.* `Stuck` is preserved because each of its parts is what disables the actions
that could change another: the lock keeps the read loop from answering, the read loop
keeps `to_server` full, and `to_server` keeps the client's answer in hand and `to_client`
full. `IInv` adds that the mutex is with the read loop only when there is an answer, and
that the lock is with the scan while it scans.

*TCP streams.* `TypeOK` needs that data sent to the server are chunks (`Carries`), as a
packet's field may also be empty. `RefusedCloses` rests on `Known` (whatever a packet or a task
names, a remote user was accepted for it), from which `RefusedLate` follows: a `Refused` that did
not race its accept task found the stream registered, and nothing enables it again.

*Pipes.* That `TcpTunnel` implements two pipes needs to know what is on the way, in each direction.
Towards the service there is one channel and one queue: their chunks are in the order they were sent, and later
than what has been delivered. Towards the remote user there is a channel for each websocket. A chunk is in one
channel only, once, and in no channel what was delivered (`InOneChannel`, `Carried`); before the first
reconnect there is one channel and its chunks are in order (`RemoteOrder`); and as long as the stream is not
raced and the tunnel not replaced nothing is missing (`RemoteExact`). The initial states are those of the pipes and
each step is one of theirs or a stutter (`PipesImplemented`). `TunnelIsTransparent` says the same of the two
ends without the pipes; `PipeInv`, the inductive invariant of a pipe in `StreamPipeProofs`, is the step from one
to the other.

*UDP streams.* `UInv` is the inductive invariant behind four of the theorems. `Counted`
leaves a stream id for each listener that found none, so that types hold when one is made. An opening
listener has a stream of its own that the store does not have yet (`ListenerInv`, `Distinct`), hence
`add_remote` never enables one that was refused. `InUse` follows datagrams through
channel, queue and socket: each fits the stream it names, that is, it is from the peer of the stream, for an
endpoint that the peer sends to, and not received after a `Refused`. Two more invariants are added on
top: `Mapped`, for `OneStream` (the entry of the map for a faithful peer is the one stream
of its that is enabled, so two of them would be the same), and `Order`, for `OrderKept` (channel, queue and
socket are sorted for each endpoint and stream, and a datagram in a later place is older than one in
an earlier place or in the hands of a listener).

*Client session.* `OneIdentity` rests on the token: a token that was received is the client's own
(`TokenIsOwn`), because tasks run only for a client that has an id (`TasksHaveId`); a client that
has an id asks for that one again (`AsksForItself`); and the answer under way belongs to the
hello that was sent (`AnswerFits`). `SendsToCurrent` rests on the lock: whoever writes does so to the
websocket in the slot for as long as it has the lock (`LockHeld`), because `add_client` waits for it; and
the two tasks run in phases of their own (`TasksHavePhase`), which leaves the local streams.

Model-checked only: the liveness properties (`DeadClientLeaves`, `GoneListenersStop`, `OrphansEnd`,
`ClosedRemoteIsDisabled`, `CloseReachesLocal`, `DatagramsArrive`, `EndStopsForwarding`, `ComesBack`,
`CancelStops`, `OnlyTwoStalls`), as fairness and `ENABLED` are out of the prover's reach. Every
invariant and every action property of the passing runs is a theorem.

## 7. Not modelled, and plan

Left out for good: the JWT and token cryptography (possession of a token is modelled),
the binary codec, option parsing, logging and metrics, the inspection API and the
recorder, the test harness. None of them keeps state that the protocol depends on.

Left out because it depends on the transport: how long a write to a dead TCP connection waits.
`ClientSession` lets such a write take any time, with the lock of the slot, and `Reachable` says that it ends;
`Backpressure` has no dead connections. Left out as data: how long a backoff is.

Not a property because it fails, and nothing documents it: that the service's close reaches the
remote user, that `process_local_udp` ends after an `End`, that a late reconnect keeps ports, listeners and streams, that
a client whose token expired gets a new one, that the ports of a client come
back in the two cases above.

To do, in this order:

1. UDP streams in `ServerStreams`, whose sockets are their listener's, and its proofs after it: `Accounted`
   is about listeners and ports and stays, `Owned` gets the second kind of stream.
2. The window in which a UDP stream is added after the scan (`remote/udp.rs:75`), which is then a
   property of that composition.
