---------------------------- MODULE ClientSession ----------------------------
(***************************************************************************)
(* run_client (ownserver/src/proxy_client.rs): connect, say hello, run the *)
(* two tasks of a session, and when one of them ends connect again with    *)
(* the reconnect token.  Of the server it knows what answers a hello gets  *)
(* and which clients the server still holds.  The tasks of the local       *)
(* streams outlive a session.  Who sends holds the lock of Store.client    *)
(* until the packet is written.  What the packets do to streams is in      *)
(* TcpTunnel and UdpTunnel.                                                *)
(***************************************************************************)

CONSTANTS
    Ids,     \* client ids the server can give
    None

ASSUME NoneAssumption == None \notin Ids

\* RequestType, and the token of the token server, which is no client's.
NewClient == "NewClient"
ReconnectType == "Reconnect"
Jwt == "jwt"
ServerError == "error"

ASSUME NamesAssumption == {Jwt, ServerError} \intersect (Ids \union {None}) = {}

VARIABLES
    phase,        \* position in the loop of run_client: "connect", "hello",
                  \* "verify", "start", "add", "select", "shutdown", "stopped"
    request, token,
    reconnect_token,   \* Store.reconnect_token: of which client, or None
    fresh,        \* it is younger than five minutes and the leeway
    cid,          \* client_info.client_id of the latest session, or None
    slot,         \* Store.client: "none", of an "old" or of the "current"
                  \* websocket
    writer,       \* who has its lock: "none", a "local" stream's task, the
                  \* "read_loop" or the "ping_task"
    target,       \* the websocket that the writer writes to
    local_streams,   \* there are tasks of local streams
    ct,           \* the session's token is cancelled
    read_loop,    \* "none", "running", "answering" a packet, "over"
    ping_task,    \* "none", "running", "pinging", "over"
    cancelled,    \* cancellation_token (ctrl_c has the same branch)
    \* the network and the server
    net,          \* the server can be reached
    ws,           \* the current websocket: "none", "up", "down"
    reply,        \* server hello under way: None, an id, or ServerError
    known,        \* clients the server holds
    granted       \* ids the server has given

loop_vars == <<phase, request, token, cid>>
token_vars == <<reconnect_token, fresh>>
lock_vars == <<writer, target>>
store_vars == <<token_vars, lock_vars, slot, local_streams>>
task_vars == <<ct, read_loop, ping_task>>
server_vars == <<reply, known, granted>>
vars == <<loop_vars, store_vars, task_vars, cancelled, net, ws, server_vars>>

TypeOK ==
    /\ phase \in {"connect", "hello", "verify", "start", "add", "select",
                  "shutdown", "stopped"}
    /\ request \in {NewClient, ReconnectType}
    /\ token \in Ids \union {Jwt}
    /\ reconnect_token \in Ids \union {None} /\ fresh \in BOOLEAN
    /\ cid \in Ids \union {None}
    /\ slot \in {"none", "old", "current"}
    /\ writer \in {"none", "local", "read_loop", "ping_task"}
    /\ target \in {"none", "old", "current"}
    /\ local_streams \in BOOLEAN
    /\ ct \in BOOLEAN /\ cancelled \in BOOLEAN /\ net \in BOOLEAN
    /\ read_loop \in {"none", "running", "answering", "over"}
    /\ ping_task \in {"none", "running", "pinging", "over"}
    /\ ws \in {"none", "up", "down"}
    /\ reply \in Ids \union {None, ServerError}
    /\ granted \subseteq Ids /\ known \subseteq granted

Init ==
    /\ phase = "connect"
    /\ request = NewClient /\ token = Jwt
    /\ reconnect_token = None /\ fresh = FALSE /\ cid = None
    /\ slot = "none" /\ writer = "none" /\ target = "none"
    /\ local_streams = FALSE
    /\ ct = FALSE /\ cancelled = FALSE /\ net \in BOOLEAN
    /\ read_loop = "none" /\ ping_task = "none"
    /\ ws = "none" /\ reply = None /\ known = {} /\ granted = {}
------------------------------------------------------------------------------
(* The loop *)

\* Mutant: a failure ends run_client.
RetryGivesUp ==
    /\ phase' = "stopped"
    /\ ws' = "none" /\ reply' = None
    /\ UNCHANGED <<request, token, cid, store_vars, task_vars,
                   cancelled, net, known, granted>>

\* One more attempt, after a longer wait; the websocket, if there is one, is
\* dropped.
Retry ==
    /\ phase' = "connect"
    /\ ws' = "none" /\ reply' = None
    /\ UNCHANGED <<request, token, cid, store_vars, task_vars, cancelled, net,
                   known, granted>>

\* What was written to is an old websocket now.
Old(w) == IF w = "none" THEN "none" ELSE "old"

\* Sleep, then connect_async.
Connect ==
    /\ phase = "connect" /\ net
    /\ phase' = "hello" /\ ws' = "up"
    /\ slot' = Old(slot) /\ target' = Old(target)
    /\ UNCHANGED <<request, token, cid, token_vars, writer, local_streams,
                   task_vars, cancelled, net, server_vars>>

ConnectFails == phase = "connect" /\ ~ net /\ Retry

\* send_client_hello; on a broken websocket it may or may not fail.
SendHello ==
    /\ phase = "hello"
    /\ phase' = "verify"
    /\ UNCHANGED <<request, token, cid, store_vars, task_vars,
                   cancelled, net, ws, server_vars>>

HelloFails == phase = "hello" /\ ws = "down" /\ Retry

\* Mutant: any hello is a success.
VerifyAny ==
    /\ phase = "verify" /\ reply # None
    /\ phase' = "start"
    /\ cid' = reply
    /\ reply' = None
    /\ UNCHANGED <<request, token, store_vars, task_vars, cancelled, net, ws,
                   known, granted>>

\* The server hello has come: register_endpoints.
Verify ==
    /\ phase = "verify" /\ reply \in Ids
    /\ phase' = "start"
    /\ cid' = reply
    /\ reply' = None
    /\ UNCHANGED <<request, token, store_vars, task_vars, cancelled, net, ws,
                   known, granted>>

\* An error, or the websocket is closed; a hello on its way is then lost.
VerifyFails ==
    /\ phase = "verify"
    /\ reply = ServerError \/ ws = "down"
    /\ Retry

\* Client::new spawns the read loop under a child of the cancellation token.
StartReadLoop ==
    /\ phase = "start"
    /\ phase' = "add"
    /\ ct' = cancelled
    /\ read_loop' = "running"
    /\ UNCHANGED <<request, token, cid, store_vars, ping_task,
                   cancelled, net, ws, server_vars>>

\* Mutant: the lock is not waited for.
AddClientUnlocked ==
    /\ phase = "add"
    /\ phase' = "select"
    /\ slot' = "current"
    /\ ping_task' = "running"
    /\ UNCHANGED <<request, token, cid, token_vars, lock_vars, local_streams, ct,
                   read_loop, cancelled, net, ws, server_vars>>

\* store.add_client, which waits for the lock and drops the old client, whose
\* token is cancelled by now; spawn the ping task.
AddClient ==
    /\ phase = "add" /\ writer = "none"
    /\ phase' = "select"
    /\ slot' = "current"
    /\ ping_task' = "running"
    /\ UNCHANGED <<request, token, cid, token_vars, lock_vars, local_streams, ct,
                   read_loop, cancelled, net, ws, server_vars>>

\* set.join_next(): a task is over; cancel the session.
JoinNext ==
    /\ phase = "select"
    /\ "over" \in {read_loop, ping_task}
    /\ phase' = "shutdown"
    /\ ct' = TRUE
    /\ UNCHANGED <<request, token, cid, store_vars, read_loop, ping_task,
                   cancelled, net, ws, server_vars>>

Unlock == writer' = "none" /\ target' = "none"

\* The session's tasks are aborted wherever they wait; what they lock is
\* unlocked.
AbortTasks ==
    /\ read_loop' = "over" /\ ping_task' = "over"
    /\ \/ writer \in {"read_loop", "ping_task"} /\ Unlock
       \/ writer \in {"none", "local"} /\ UNCHANGED lock_vars
    /\ UNCHANGED <<token_vars, slot, local_streams>>

\* Mutants: the tasks are not awaited; the request stays what it was.
ShutdownDetached ==
    /\ phase = "shutdown"
    /\ reconnect_token # None
    /\ token' = reconnect_token /\ request' = ReconnectType
    /\ phase' = "connect"
    /\ ws' = "none"
    /\ UNCHANGED <<cid, store_vars, task_vars, cancelled, net,
                   server_vars>>
ShutdownAsBefore ==
    /\ phase = "shutdown"
    /\ AbortTasks
    /\ reconnect_token # None
    /\ phase' = "connect"
    /\ ws' = "none"
    /\ UNCHANGED <<request, token, cid, ct, cancelled, net, server_vars>>

\* set.shutdown() aborts and awaits the tasks; then the reconnect token is
\* taken and the loop goes on, with a Reconnect and no new attempt counted.
Shutdown ==
    /\ phase = "shutdown"
    /\ AbortTasks
    /\ reconnect_token # None
    /\ token' = reconnect_token /\ request' = ReconnectType
    /\ phase' = "connect"
    /\ ws' = "none"
    /\ UNCHANGED <<cid, ct, cancelled, net, server_vars>>

\* The same without a token: break.
ShutdownForGood ==
    /\ phase = "shutdown"
    /\ AbortTasks
    /\ reconnect_token = None
    /\ phase' = "stopped"
    /\ ws' = "none"
    /\ UNCHANGED <<request, token, cid, ct, cancelled, net, server_vars>>

\* Mutant: join_next is looked at first.
StopOnCancelBiased ==
    /\ phase = "select" /\ cancelled
    /\ "over" \notin {read_loop, ping_task}
    /\ phase' = "stopped"
    /\ AbortTasks
    /\ ws' = "none"
    /\ UNCHANGED <<request, token, cid, ct, cancelled, net, server_vars>>

\* cancellation_token.cancelled() or ctrl_c: break; only select! looks at them.
StopOnCancel ==
    /\ phase = "select" /\ cancelled
    /\ phase' = "stopped"
    /\ AbortTasks
    /\ ws' = "none"
    /\ UNCHANGED <<request, token, cid, ct, cancelled, net, server_vars>>
------------------------------------------------------------------------------
(* The tasks *)

\* The read loop gets an Init, for which it spawns tasks of their own; or a
\* packet that it answers: a Ping, or something to refuse.
OpenStream ==
    /\ read_loop = "running" /\ ws = "up"
    /\ local_streams' = TRUE
    /\ UNCHANGED <<loop_vars, token_vars, lock_vars, slot, task_vars, cancelled,
                   net, ws, server_vars>>
GetPacket ==
    /\ read_loop = "running" /\ ws = "up"
    /\ read_loop' = "answering"
    /\ UNCHANGED <<loop_vars, store_vars, ct, ping_task, cancelled, net, ws,
                   server_vars>>

PingDue ==
    /\ ping_task = "running"
    /\ ping_task' = "pinging"
    /\ UNCHANGED <<loop_vars, store_vars, ct, read_loop, cancelled, net, ws,
                   server_vars>>

\* Store::send_to_server takes the lock and writes to the client in the slot.
Lock(task) ==
    /\ writer = "none"
    /\ writer' = task /\ target' = slot
    /\ UNCHANGED <<loop_vars, token_vars, slot, local_streams, task_vars,
                   cancelled, net, ws, server_vars>>
StartWrite ==
    \/ local_streams /\ Lock("local")
    \/ read_loop = "answering" /\ Lock("read_loop")
    \/ ping_task = "pinging" /\ Lock("ping_task")

\* It is written, or has failed.
LocalWritten ==
    /\ writer = "local" /\ Unlock
    /\ UNCHANGED <<loop_vars, token_vars, slot, local_streams, task_vars,
                   cancelled, net, ws, server_vars>>

\* A token in the Ping is taken then.  A Refused for a stream that could not be
\* opened, or one that cannot be sent, ends the loop.
Answered ==
    /\ writer = "read_loop" /\ Unlock
    /\ \/ read_loop' = "running" /\ UNCHANGED token_vars
       \/ read_loop' = "running" /\ reconnect_token' = cid /\ fresh' = TRUE
       \/ read_loop' = "over" /\ UNCHANGED token_vars
    /\ UNCHANGED <<loop_vars, slot, local_streams, ct, ping_task, cancelled, net,
                   ws, server_vars>>

Pinged ==
    /\ writer = "ping_task" /\ Unlock
    /\ \/ ping_task' = "running"
       \/ ping_task' = "over" /\ ws = "down"
    /\ UNCHANGED <<loop_vars, token_vars, slot, local_streams, ct, read_loop,
                   cancelled, net, ws, server_vars>>

\* The token is cancelled, the websocket is closed or fails, or a packet
\* cannot be handled.
ReadLoopEnds ==
    /\ read_loop = "running"
    /\ read_loop' = "over"
    /\ UNCHANGED <<loop_vars, store_vars, ct, ping_task, cancelled, net, ws,
                   server_vars>>

PingTaskEnds ==
    /\ ping_task = "running"
    /\ ct \/ cancelled
    /\ ping_task' = "over"
    /\ UNCHANGED <<loop_vars, store_vars, ct, read_loop, cancelled, net, ws,
                   server_vars>>

\* The local services have closed, or the tasks could not send.
LocalStreamsEnd ==
    /\ local_streams /\ writer # "local"
    /\ local_streams' = FALSE
    /\ UNCHANGED <<loop_vars, token_vars, lock_vars, slot, task_vars, cancelled,
                   net, ws, server_vars>>
------------------------------------------------------------------------------
(* Environment *)

\* The answer to NewClient: a new client, or an error.
AnswerNew ==
    /\ phase = "verify" /\ ws = "up" /\ reply = None
    /\ request = NewClient
    /\ \/ \E id \in Ids \ granted : /\ reply' = id
                                   /\ known' = known \union {id}
                                   /\ granted' = granted \union {id}
       \/ reply' = ServerError /\ UNCHANGED <<known, granted>>
    /\ UNCHANGED <<loop_vars, store_vars, task_vars, cancelled, net, ws>>

\* validate_client_hello: the token is too old.
InvalidToken == ~ fresh /\ reply' = ServerError

\* The answer to Reconnect: an error, the client, or no answer if there is none.
AnswerReconnect ==
    /\ phase = "verify" /\ ws = "up" /\ reply = None
    /\ request = ReconnectType
    /\ \/ InvalidToken /\ UNCHANGED ws
       \/ fresh /\ token \in known /\ reply' = token /\ UNCHANGED ws
       \/ fresh /\ token \notin known /\ ws' = "down" /\ UNCHANGED reply
    /\ UNCHANGED <<loop_vars, store_vars, task_vars, cancelled, net, known,
                   granted>>

TokenExpires ==
    /\ fresh
    /\ fresh' = FALSE
    /\ UNCHANGED <<loop_vars, reconnect_token, lock_vars, slot, local_streams,
                   task_vars, cancelled, net, ws, server_vars>>

\* The window of a client is over: the server drops it and its websocket.
ServerForgets ==
    /\ \E id \in known : known' = known \ {id}
    /\ ws' = IF ws = "up" /\ cid \in known \ known' THEN "down" ELSE ws
    /\ UNCHANGED <<loop_vars, store_vars, task_vars, cancelled, net, reply,
                   granted>>

NetToggles ==
    /\ net' = ~ net
    /\ UNCHANGED <<loop_vars, store_vars, task_vars, cancelled, ws, server_vars>>

ConnectionLost ==
    /\ ws = "up" /\ ~ net
    /\ ws' = "down"
    /\ UNCHANGED <<loop_vars, store_vars, task_vars, cancelled, net, server_vars>>

Cancel ==
    /\ ~ cancelled
    /\ cancelled' = TRUE
    /\ UNCHANGED <<loop_vars, store_vars, task_vars, net, ws, server_vars>>
------------------------------------------------------------------------------
Handshake == \/ Connect \/ ConnectFails \/ SendHello \/ HelloFails
             \/ Verify \/ VerifyFails \/ StartReadLoop \/ AddClient
Loop == Handshake \/ JoinNext \/ Shutdown \/ ShutdownForGood
ReadLoop == OpenStream \/ GetPacket \/ Answered \/ ReadLoopEnds
PingTask == PingDue \/ Pinged \/ PingTaskEnds
Answer == AnswerNew \/ AnswerReconnect

Next ==
    \/ Loop \/ StopOnCancel
    \/ ReadLoop \/ PingTask
    \/ StartWrite \/ LocalWritten \/ LocalStreamsEnd
    \/ Answer \/ TokenExpires \/ ServerForgets
    \/ NetToggles \/ ConnectionLost \/ Cancel

\* The tasks are polled, a hello is answered, a websocket that is down is
\* noticed.  The lock is given in turn, so add_client gets it some time if it
\* is free again and again (SF).  select! draws among its ready branches, so a
\* cancellation is taken some time (SF).
Fairness ==
    /\ WF_vars(Loop) /\ WF_vars(Answer)
    /\ WF_vars((ct \/ cancelled \/ ws = "down") /\ ReadLoopEnds)
    /\ WF_vars(PingTaskEnds)
    /\ SF_vars(AddClient) /\ SF_vars(StopOnCancel)

Spec == Init /\ [][Next]_vars /\ Fairness
------------------------------------------------------------------------------
\* The client keeps its id for its whole run, however often it reconnects: a
\* new id would mean other endpoints, at other addresses.
OneIdentity == [][cid # None => cid' = cid]_vars

\* The tasks of a session are over before the next one begins, so no task of
\* an old websocket takes tokens or packets in the new session.
TasksEndFirst ==
    phase \in {"connect", "hello", "verify", "start"} =>
       /\ read_loop \in {"none", "over"} /\ ping_task \in {"none", "over"}
       /\ writer \in {"none", "local"}

\* The tasks of the local streams outlive a session, and the read loop is
\* spawned before add_client (proxy_client.rs:99): they may write to the
\* websocket of the session before.  Once the new one is in the slot nobody
\* does, not even one who was in the middle of it.
SendsToCurrent ==
    writer # "none" /\ target # "current" =>
       /\ phase \notin {"select", "shutdown", "stopped"}
       /\ writer = "local" \/ (writer = "read_loop" /\ phase = "add")

\* The server can be reached for long enough, and no write to a websocket
\* hangs for ever: the server reads on, or TCP gives up.  (Backpressure has
\* the case that it does not.)
Reachable == <>[]net /\ []<>(writer = "none")

\* A client that has lost its session gets it back then, if the server still
\* holds it and the token has not expired: 5 minutes after the last Ping, and
\* 60 seconds of leeway, whatever the reconnect window.  (Otherwise the client
\* tries for ever: it never asks to be a new one.)
Refused == cid \notin known \/ ~ fresh
ComesBack ==
    Reachable => (phase = "connect" /\ request = ReconnectType
                     ~> phase = "select" \/ Refused)

\* A cancelled client stops, or has lost its session and is refused as above:
\* a cancellation is not looked at before the client is connected again.
CancelStops ==
    Reachable => (cancelled /\ cid # None
                     ~> \/ phase = "stopped"
                        \/ phase # "select" /\ reconnect_token # None /\ Refused)
==============================================================================
