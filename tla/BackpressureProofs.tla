-------------------------- MODULE BackpressureProofs --------------------------
(***************************************************************************)
(* The cycle of full buffers is permanent for any number of clients and    *)
(* buffers of any size.  The argument is about lengths only: a member of   *)
(* the cycle can move when a buffer has room, and a buffer gets room when  *)
(* a read loop of the cycle moves.                                         *)
(***************************************************************************)
EXTENDS Backpressure, TLAPS

\* An answer is pending while the read loop has the mutex to send it
\* (lib.rs:215, lib.rs:262).
Answering == \A c \in Clients : mutex[c] = "read_loop" => answer[c] # "none"

\* The scan keeps the clients' lock until it ends.
Scanning == cleanup = "scanning" => clients_lock = Scan

IInv == TypeOK /\ Answering /\ Scanning

LEMMA EmptyBuffer == \A kinds : <<>> \in Buffer(kinds)
  BY RoomAssumption DEF Buffer

\* A write that finds room, and a read, keep a buffer one.
LEMMA WriteBuffer ==
  ASSUME NEW kinds, NEW s \in Buffer(kinds), NEW k \in kinds, Len(s) < Room
  PROVE  Append(s, k) \in Buffer(kinds)
  BY RoomAssumption DEF Buffer

LEMMA ReadBuffer ==
  ASSUME NEW kinds, NEW s \in Buffer(kinds), s # <<>>
  PROVE  Tail(s) \in Buffer(kinds)
  BY RoomAssumption DEF Buffer

LEMMA InitIInv == Init => IInv
  <1> SUFFICES ASSUME Init PROVE IInv
    OBVIOUS
  <1>1. /\ to_client \in [Clients -> Buffer({"Ping", "Pong", "Stream"})]
        /\ to_server \in [Clients -> Buffer({"Ping", "Pong", "Refused", "Data"})]
    BY EmptyBuffer DEF Init
  <1>2. uncut \in SUBSET Expired /\ streams_lock \in SUBSET Clients
    BY DEF Init
  <1> QED
    BY <1>1, <1>2 DEF Init, IInv, TypeOK, Answering, Scanning

LEMMA IInvKept == IInv /\ [Next]_vars => IInv'
  <1> SUFFICES ASSUME IInv, [Next]_vars PROVE IInv'
    OBVIOUS
  <1> USE DEF IInv, TypeOK, Answering, Scanning
  <1>1. ASSUME NEW c \in Clients, SendToClient(c) PROVE IInv'
    <2>1. PICK task \in Senders, packet \in {"Ping", "Pong", "Stream"} :
             Written(task, c, packet)
      BY <1>1 DEF SendToClient, PingSent, RemoteSent, PongSent, Senders
    <2>2. /\ UNCHANGED <<cleanup_vars, to_server, client_vars>>
          /\ read_loop' = read_loop \/ read_loop' = [read_loop EXCEPT ![c] = "reading"]
      BY <1>1 DEF SendToClient, PingSent, RemoteSent, PongSent
    <2>3. clients_lock # Scan
      BY <2>1 DEF Written, Scan
    <2>4. to_client' \in [Clients -> Buffer({"Ping", "Pong", "Stream"})]
      BY <2>1, WriteBuffer DEF Written
    <2>5. clients_lock' = Free /\ streams_lock' = streams_lock
      BY <2>1 DEF Written
    <2> QED
      BY <2>2, <2>3, <2>4, <2>5 DEF cleanup_vars, client_vars
  <1>2. ASSUME NEW c \in Clients, PingTakes(c) \/ RemoteTakes(c) \/ PongTakes(c)
        PROVE  IInv'
    <2>1. clients_lock = Free /\ UNCHANGED streams_lock
      BY <1>2 DEF PingTakes, RemoteTakes, PongTakes, Take
    <2>2. cleanup # "scanning"
      BY <2>1 DEF Free, Scan
    <2>3. UNCHANGED <<read_loop, cleanup_vars, to_client, to_server, client_vars>>
      BY <1>2 DEF PingTakes, RemoteTakes, PongTakes
    <2>4. clients_lock' \in Senders \X Clients
      BY <1>2 DEF PingTakes, RemoteTakes, PongTakes, Take, Senders
    <2> QED
      BY <2>1, <2>2, <2>3, <2>4 DEF cleanup_vars, client_vars
  <1>3. ASSUME NEW c \in Clients, ServerReads(c) PROVE IInv'
    <2>1. to_server' \in [Clients -> Buffer({"Ping", "Pong", "Refused", "Data"})]
      BY <1>3, ReadBuffer DEF ServerReads
    <2>2. Head(to_server[c]) \in {"Ping", "Pong", "Refused", "Data"}
      BY <1>3 DEF ServerReads, Buffer
    <2>3. read_loop' \in [Clients -> {"reading", "answering", "writing", "disabling"}]
      BY <1>3, <2>2 DEF ServerReads
    <2> QED
      BY <1>3, <2>1, <2>3 DEF ServerReads, store_vars, cleanup_vars, client_vars
  <1>4. ASSUME NEW c \in Clients, SendToRemote(c) \/ Disables(c) PROVE IInv'
    <2>1. streams_lock' \in SUBSET Clients
      BY <1>4 DEF SendToRemote, WriteTakes, RemoteWritten, WriteFails, Disables,
                  store_vars
    <2>2. UNCHANGED <<clients_lock, cleanup_vars, to_client, to_server, client_vars>>
      BY <1>4 DEF SendToRemote, WriteTakes, RemoteWritten, WriteFails, Disables,
                  store_vars
    <2>3. read_loop' \in [Clients -> {"reading", "answering", "writing", "disabling"}]
      BY <1>4 DEF SendToRemote, WriteTakes, RemoteWritten, WriteFails, Disables
    <2> QED
      BY <2>1, <2>2, <2>3 DEF cleanup_vars, client_vars
  <1>5. ASSUME NEW c \in Clients, ClientReads(c) PROVE IInv'
    <2>1. to_client' \in [Clients -> Buffer({"Ping", "Pong", "Stream"})]
      BY <1>5, ReadBuffer DEF ClientReads
    <2> QED
      BY <1>5, <2>1 DEF ClientReads, store_vars, cleanup_vars
  <1>6. ASSUME NEW c \in Clients, SendToServer(c) PROVE IInv'
    <2>1. PICK packet \in {"Ping", "Pong", "Refused", "Data"} :
             to_server' = [to_server EXCEPT ![c] = Append(@, packet)]
      BY <1>6 DEF SendToServer
    <2>2. to_server' \in [Clients -> Buffer({"Ping", "Pong", "Refused", "Data"})]
      BY <1>6, <2>1, WriteBuffer DEF SendToServer
    <2> QED
      BY <1>6, <2>2 DEF SendToServer, store_vars, cleanup_vars
  <1>7. ASSUME NEW c \in Clients, NEW task \in {"read_loop", "ping", "local"},
               MutexTakes(c, task)
        PROVE  IInv'
    BY <1>7 DEF MutexTakes, store_vars, cleanup_vars
  <1>8. CASE \/ \E c \in Expired : ScanCuts(c)
             \/ ScanTakes \/ ScanEnds \/ Retain \/ Sweep
    <2>1. UNCHANGED <<streams_lock, read_loop, to_client, to_server, client_vars>>
      BY <1>8 DEF ScanCuts, ScanTakes, ScanEnds, Retain, Sweep, store_vars
    <2>2. clients_lock' \in {Free, Scan} \union (Senders \X Clients)
      BY <1>8 DEF ScanCuts, ScanTakes, ScanEnds, Retain, Sweep, store_vars
    <2>3. expired' \in SUBSET Expired /\ uncut' \in SUBSET Expired
      BY <1>8 DEF ScanCuts, ScanTakes, ScanEnds, Retain, Sweep
    <2>4. cleanup' \in {"sleeping", "scanning", "retaining", "sweeping"} /\ Scanning'
      BY <1>8 DEF ScanCuts, ScanTakes, ScanEnds, Retain, Sweep, store_vars
    <2> QED
      BY <2>1, <2>2, <2>3, <2>4 DEF client_vars
  <1>9. CASE UNCHANGED vars
    BY <1>9 DEF vars, store_vars, cleanup_vars, client_vars
  <1> QED
    BY <1>1, <1>2, <1>3, <1>4, <1>5, <1>6, <1>7, <1>8, <1>9 DEF Next
------------------------------------------------------------------------------
\* One step, of whichever task and whichever client d, leaves c in the cycle.
LEMMA StepKeepsStuck ==
  ASSUME IInv, [Next]_vars, NEW c \in Clients, Stuck(c)
  PROVE  Stuck(c)'
  <1> USE RoomAssumption DEF IInv, TypeOK
  <1>0. PICK t \in Senders : clients_lock = <<t, c>>
    BY DEF Stuck
  <1>a. clients_lock # Free /\ clients_lock # Scan
    BY <1>0 DEF Free, Scan
  <1>b. \A task, d : clients_lock = <<task, d>> => d = c
    BY <1>0
  <1>1. ASSUME NEW d \in Clients, SendToClient(d) PROVE Stuck(c)'
    BY <1>1, <1>b DEF SendToClient, PingSent, RemoteSent, PongSent, Written, Stuck
  <1>2. ASSUME NEW d \in Clients, PingTakes(d) \/ RemoteTakes(d) \/ PongTakes(d)
        PROVE  Stuck(c)'
    BY <1>2, <1>a DEF PingTakes, RemoteTakes, PongTakes, Take
  <1>3. ASSUME NEW d \in Clients, ServerReads(d) PROVE Stuck(c)'
    <2>1. d # c
      BY <1>3 DEF ServerReads, Stuck
    <2> QED
      BY <1>3, <2>1 DEF ServerReads, Stuck, store_vars, client_vars
  <1>4. ASSUME NEW d \in Clients, SendToRemote(d) \/ Disables(d) PROVE Stuck(c)'
    <2>1. CASE WriteTakes(d)
      BY <2>1 DEF WriteTakes, Stuck, client_vars
    <2>2. CASE RemoteWritten(d) \/ WriteFails(d) \/ Disables(d)
      <3>1. d # c
        BY <2>2 DEF RemoteWritten, WriteFails, Disables, Stuck
      <3> QED
        BY <2>2, <3>1 DEF RemoteWritten, WriteFails, Disables, Stuck, store_vars,
                          client_vars
    <2> QED
      BY <1>4, <2>1, <2>2 DEF SendToRemote
  <1>5. ASSUME NEW d \in Clients, ClientReads(d) PROVE Stuck(c)'
    <2>1. d # c
      BY <1>5 DEF ClientReads, Stuck
    <2> QED
      BY <1>5, <2>1 DEF ClientReads, Stuck, store_vars
  <1>6. ASSUME NEW d \in Clients, SendToServer(d) PROVE Stuck(c)'
    <2>1. d # c
      BY <1>6 DEF SendToServer, Stuck
    <2> QED
      BY <1>6, <2>1 DEF SendToServer, Stuck, store_vars
  <1>7. ASSUME NEW d \in Clients, NEW task \in {"read_loop", "ping", "local"},
               MutexTakes(d, task)
        PROVE  Stuck(c)'
    BY <1>7 DEF MutexTakes, Stuck, store_vars
  <1>8. CASE \/ \E d \in Expired : ScanCuts(d)
             \/ Retain \/ Sweep
    BY <1>8 DEF ScanCuts, Retain, Sweep, Stuck, store_vars, client_vars
  <1>9. CASE ScanTakes \/ ScanEnds
    BY <1>9, <1>a DEF ScanTakes, ScanEnds, Scanning
  <1>11. CASE UNCHANGED vars
    BY <1>11 DEF vars, store_vars, client_vars, Stuck
  <1> QED
    BY <1>1, <1>2, <1>3, <1>4, <1>5, <1>6, <1>7, <1>8, <1>9, <1>11 DEF Next

\* Types, and buffers that never hold more than a connection takes (Room): every
\* write waits (client.rs:165, lib.rs:141).
THEOREM TypeCorrect == SafetySpec => []TypeOK
  <1>1. IInv => TypeOK
    BY DEF IInv
  <1> QED
    BY InitIInv, IInvKept, <1>1, PTL DEF SafetySpec

\* Once in the cycle (Stuck), a client stays there whatever the pings, remote
\* users, services and the cleanup do: the locks kept across writes at
\* store.rs:38 and lib.rs:359 close it for good.
THEOREM TheCycleIsPermanent == SafetySpec => StuckIsForever
  <1>1. IInv /\ [Next]_vars => \A c \in Clients : Stuck(c) => Stuck(c)'
    BY StepKeepsStuck
  <1> QED
    BY InitIInv, IInvKept, <1>1, PTL DEF SafetySpec, StuckIsForever
==============================================================================
