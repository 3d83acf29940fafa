------------------------------- MODULE Tunnel --------------------------------
(***************************************************************************)
(* The websockets between the server and one client, one for each time the *)
(* server took the client over, numbered from 0.  Packets to the client    *)
(* are read from the newest one only.  Those to the server are written to  *)
(* the one in Store.client, which is an old one until add_client, and the  *)
(* server's read loop of an old one may go on beside the new one: there is *)
(* a channel for each.  Modules of streams EXTEND this one and say what    *)
(* the packets do.                                                         *)
(***************************************************************************)
EXTENDS Naturals, Sequences

CONSTANT MaxReconnects   \* bound on the reconnects of the client

ASSUME ReconnectsAssumption == MaxReconnects \in Nat

VARIABLES
    connected,   \* server: the Client is Connected
    session,     \* client: the read loop of the newest websocket runs
    entering,    \* client: it has done Client::new, but not yet add_client
    slot,        \* client: the websocket that Store.client writes to
    reconnects,  \* the newest websocket
    alive,       \* the websockets that still carry packets
    loops,       \* server: those whose read loop runs
    to_client, to_server

ws_vars     == <<entering, slot, reconnects, alive, loops>>
tunnel_vars == <<connected, session, ws_vars>>
chan_vars   == <<to_client, to_server>>

WebSocket == 0 .. MaxReconnects

TunnelTypeOK(Packet) ==
    /\ connected \in BOOLEAN /\ session \in BOOLEAN /\ entering \in BOOLEAN
    /\ slot \in WebSocket /\ reconnects \in WebSocket
    /\ alive \subseteq WebSocket /\ loops \subseteq WebSocket
    /\ to_client \in Seq(Packet)
    /\ to_server \in [WebSocket -> Seq(Packet)]

TunnelInit ==
    /\ connected = TRUE /\ session = TRUE /\ entering = FALSE
    /\ slot = 0 /\ reconnects = 0 /\ alive = {0} /\ loops = {0}
    /\ to_client = <<>>
    /\ to_server = [w \in WebSocket |-> <<>>]

\* The client waits for the server's hello on the newest websocket.
InHandshake == slot # reconnects /\ ~ entering /\ reconnects \in alive

\* Client::send_to_client: a packet that nobody will read is lost, and so is
\* one that a dead websocket still accepts.
SendToClient(p) ==
    /\ connected
    /\ to_client' = IF session \/ InHandshake THEN Append(to_client, p)
                                              ELSE to_client
    /\ UNCHANGED connected

\* It fails: not connected, or the write error marks the client as waiting.
SendToClientFails ==
    /\ ~ connected \/ reconnects \notin alive
    /\ connected' = FALSE
    /\ UNCHANGED to_client

\* The server's read loop of a websocket takes a packet.
TakeFrom(w) ==
    /\ w \in loops
    /\ to_server[w] # <<>>
    /\ to_server' = [to_server EXCEPT ![w] = Tail(@)]

\* It ends, because the websocket broke or its token was cancelled by the
\* takeover (the select! is unbiased), and calls set_wait_reconnect: for the
\* Client that is registered by now.  What was under way is lost.
LoopEnds(w) ==
    /\ w \in loops
    /\ w \notin alive \/ w # reconnects
    /\ loops' = loops \ {w} /\ alive' = alive \ {w}
    /\ to_server' = [to_server EXCEPT ![w] = <<>>]
    /\ connected' = FALSE
    /\ UNCHANGED <<session, entering, slot, reconnects, to_client>>

\* Store::send_to_server of the client; if it fails the packet is lost.
SendToServer(p) ==
    to_server' = IF slot \in alive THEN [to_server EXCEPT ![slot] = Append(@, p)]
                                   ELSE to_server
SendToServerFails ==
    /\ slot \notin alive
    /\ UNCHANGED to_server

\* The client's read loop is over.  The other half of its websocket stays in
\* Store.client, where one may go on writing to it.
SessionEnds ==
    /\ session' = FALSE
    /\ to_client' = <<>>

\* The network fails a websocket: the client's read loop of it ends, or its
\* handshake on it.
Breaks(w) ==
    /\ w \in alive
    /\ alive' = alive \ {w}
    /\ \/ w = reconnects /\ SessionEnds
       \/ w # reconnects /\ UNCHANGED <<session, to_client>>
    /\ UNCHANGED <<connected, entering, slot, reconnects, loops, to_server>>

\* A client without a session connects again and the server takes it over
\* (remove_client, drop, Client::new, add_client).  The read loops of older
\* websockets are cancelled; those in "on" go on for the time being, the
\* others are over before the new Client is in the map.
TakeOver ==
    /\ ~ session /\ ~ entering /\ ~ InHandshake
    /\ reconnects < MaxReconnects
    /\ reconnects' = reconnects + 1
    /\ connected' = TRUE
    /\ \E on \in SUBSET loops :
          /\ loops' = on \union {reconnects + 1}
          /\ alive' = (alive \intersect on) \union {reconnects + 1}
          /\ to_server' = [w \in WebSocket |->
                              IF w \in on THEN to_server[w] ELSE <<>>]
    /\ to_client' = <<>>
    /\ UNCHANGED <<session, entering, slot>>

\* The hello has arrived: Client::new spawns the client's read loop.
Enter ==
    /\ InHandshake
    /\ session' = TRUE /\ entering' = TRUE
    /\ UNCHANGED <<connected, slot, reconnects, alive, loops, chan_vars>>

\* Store::add_client drops the old websocket.
AddClient ==
    /\ entering
    /\ entering' = FALSE
    /\ slot' = reconnects
    /\ alive' = alive \intersect {reconnects}
    /\ UNCHANGED <<connected, session, reconnects, loops, chan_vars>>

Reconnecting == TakeOver \/ Enter \/ AddClient
==============================================================================
