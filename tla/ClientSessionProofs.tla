-------------------------- MODULE ClientSessionProofs --------------------------
(***************************************************************************)
(* Proofs about ClientSession, for any number of ids: no task of a session *)
(* survives into the next one, nobody writes to an old websocket once the  *)
(* new one is in the store, and the client keeps its id.                   *)
(***************************************************************************)
EXTENDS ClientSession, TLAPS

Connecting == {"connect", "hello", "verify"}

\* A token that was received is the client's own.
TokenIsOwn == reconnect_token # None => reconnect_token = cid

\* A client that has an id asks for it again.
AsksForItself ==
    cid # None /\ phase \in Connecting => request = ReconnectType /\ token = cid

\* The answer under way is to the hello that was sent.
AnswerFits ==
    /\ reply # None => phase = "verify"
    /\ reply \in Ids /\ cid # None => reply = cid

\* Tasks are spawned, and run, for a client that has an id.
TasksHaveId ==
    \/ phase \in {"start", "add"}
    \/ read_loop \in {"running", "answering"}
    => cid # None

\* Where the tasks run; the ping task comes after add_client.
TasksHavePhase ==
    /\ read_loop \in {"running", "answering"} => phase \in {"add", "select", "shutdown"}
    /\ ping_task \in {"running", "pinging"} => phase \in {"select", "shutdown"}
    /\ phase \in {"select", "shutdown", "stopped"} => slot = "current"

\* The lock: add_client waits for it, so what is written to is what is in the
\* slot all the while; and it is a task that has it.
LockHeld ==
    /\ writer # "none" => target = slot
    /\ writer = "read_loop" => read_loop = "answering"
    /\ writer = "ping_task" => ping_task = "pinging"

Consistent == /\ TasksEndFirst /\ TokenIsOwn /\ AsksForItself /\ AnswerFits
              /\ TasksHaveId /\ TasksHavePhase /\ LockHeld

IInv == TypeOK /\ Consistent

USE DEF NewClient, ReconnectType, Jwt, ServerError

LEMMA Initially == Init => IInv
  <1> SUFFICES ASSUME Init PROVE IInv
    OBVIOUS
  <1>1. TypeOK
    <2>1. {} \subseteq Ids
      OBVIOUS
    <2> QED
      BY <2>1, Zenon DEF Init, TypeOK
  <1>2. TasksEndFirst /\ TokenIsOwn /\ AsksForItself
    BY DEF Init, TasksEndFirst, TokenIsOwn, AsksForItself
  <1>3. AnswerFits /\ TasksHaveId /\ TasksHavePhase /\ LockHeld
    BY DEF Init, AnswerFits, TasksHaveId, TasksHavePhase, LockHeld
  <1> QED
    BY <1>1, <1>2, <1>3 DEF IInv, Consistent

LEMMA TypeStep == TypeOK /\ TokenIsOwn /\ TasksHaveId /\ LockHeld /\ [Next]_vars => TypeOK'
  <1> SUFFICES ASSUME TypeOK, TokenIsOwn, TasksHaveId, LockHeld, [Next]_vars
               PROVE  TypeOK'
    OBVIOUS
  <1> USE NoneAssumption, NamesAssumption DEF TypeOK, loop_vars, token_vars, lock_vars,
          store_vars, task_vars, server_vars
  <1>1. CASE Handshake
    <2>1. CASE Retry
      BY <2>1 DEF Retry
    <2>2. CASE Connect
      BY <2>2 DEF Connect, Old
    <2>3. CASE SendHello
      BY <2>3 DEF SendHello
    <2>4. CASE Verify
      BY <2>4 DEF Verify
    <2>5. CASE StartReadLoop
      BY <2>5 DEF StartReadLoop
    <2>6. CASE AddClient
      BY <2>6 DEF AddClient
    <2> QED
      BY <1>1, <2>1, <2>2, <2>3, <2>4, <2>5, <2>6
         DEF Handshake, ConnectFails, HelloFails, VerifyFails
  <1>2. CASE JoinNext
    BY <1>2 DEF JoinNext
  <1>3. CASE Shutdown
    BY <1>3 DEF Shutdown, AbortTasks, Unlock
  <1>4. CASE ShutdownForGood
    BY <1>4 DEF ShutdownForGood, AbortTasks, Unlock
  <1>5. CASE StopOnCancel
    BY <1>5 DEF StopOnCancel, AbortTasks, Unlock
  <1>6. CASE ReadLoop
    <2>1. CASE OpenStream
      BY <2>1 DEF OpenStream
    <2>2. CASE GetPacket
      BY <2>2 DEF GetPacket
    <2>3. CASE Answered
      <3>1. cid \in Ids
        BY <2>3 DEF Answered, LockHeld, TasksHaveId
      <3>2. /\ writer' = "none" /\ target' = "none"
            /\ read_loop' \in {"running", "over"}
        BY <2>3 DEF Answered, Unlock
      <3>3. fresh' \in BOOLEAN
        <4>1. UNCHANGED token_vars \/ fresh' = TRUE
          BY <2>3, Zenon DEF Answered
        <4> QED
          BY <4>1, Zenon
      <3>4. reconnect_token' \in Ids \union {None}
        BY <2>3, <3>1 DEF Answered
      <3> QED
        BY <2>3, <3>2, <3>3, <3>4 DEF Answered
    <2>4. CASE ReadLoopEnds
      BY <2>4 DEF ReadLoopEnds
    <2> QED
      BY <1>6, <2>1, <2>2, <2>3, <2>4 DEF ReadLoop
  <1>7. CASE PingTask
    BY <1>7 DEF PingTask, PingDue, Pinged, PingTaskEnds, Unlock
  <1>8. CASE StartWrite \/ LocalWritten \/ LocalStreamsEnd
    <2>1. CASE StartWrite
      <3>1. writer' \in {"local", "read_loop", "ping_task"} /\ target' = slot
        BY <2>1 DEF StartWrite, Lock
      <3>2. UNCHANGED <<loop_vars, token_vars, slot, local_streams, task_vars,
                        cancelled, net, ws, server_vars>>
        BY <2>1, Zenon DEF StartWrite, Lock
      <3> QED
        BY <3>1, <3>2
    <2>2. CASE LocalWritten
      BY <2>2 DEF LocalWritten, Unlock
    <2>3. CASE LocalStreamsEnd
      <3>1. local_streams' \in BOOLEAN
        BY <2>3, Zenon DEF LocalStreamsEnd
      <3> QED
        BY <2>3, <3>1 DEF LocalStreamsEnd
    <2> QED
      BY <1>8, <2>1, <2>2, <2>3
  <1>9. CASE Answer
    BY <1>9 DEF Answer, AnswerNew, AnswerReconnect, InvalidToken
  <1>10. CASE TokenExpires \/ ServerForgets
    <2>1. CASE TokenExpires
      <3>1. fresh' \in BOOLEAN
        BY <2>1, Zenon DEF TokenExpires
      <3> QED
        BY <2>1, <3>1 DEF TokenExpires
    <2>2. CASE ServerForgets
      <3>1. known' \subseteq known /\ ws' \in {"none", "up", "down"}
        BY <2>2 DEF ServerForgets
      <3> QED
        BY <2>2, <3>1 DEF ServerForgets
    <2> QED
      BY <1>10, <2>1, <2>2
  <1>11. CASE NetToggles \/ ConnectionLost \/ Cancel
    <2>1. net' \in BOOLEAN /\ cancelled' \in BOOLEAN
      BY <1>11, Zenon DEF NetToggles, ConnectionLost, Cancel
    <2> QED
      BY <1>11, <2>1 DEF NetToggles, ConnectionLost, Cancel
  <1>12. CASE UNCHANGED vars
    BY <1>12 DEF vars
  <1> QED
    BY <1>1, <1>2, <1>3, <1>4, <1>5, <1>6, <1>7, <1>8, <1>9, <1>10, <1>11, <1>12
       DEF Next, Loop

\* What a step does to the id, the token, the tasks and the lock.
LEMMA ConsistentStep ==
    IInv /\ [Next]_vars => Consistent' /\ (cid # None => cid' = cid)
  <1> SUFFICES ASSUME TypeOK, Consistent, [Next]_vars
               PROVE  Consistent' /\ (cid # None => cid' = cid)
    BY DEF IInv
  <1> USE NoneAssumption, NamesAssumption
      DEF TypeOK, Consistent, TasksEndFirst, TokenIsOwn, AsksForItself, AnswerFits,
          TasksHaveId, TasksHavePhase, LockHeld, Connecting, loop_vars, token_vars,
          lock_vars, store_vars, task_vars, server_vars
  <1>1. CASE Handshake
    <2>1. CASE Retry /\ phase \in Connecting
      BY <2>1 DEF Retry
    <2>2. CASE Connect
      BY <2>2 DEF Connect, Old
    <2>3. CASE SendHello
      BY <2>3 DEF SendHello
    <2>4. CASE Verify
      BY <2>4 DEF Verify
    <2>5. CASE StartReadLoop
      BY <2>5 DEF StartReadLoop
    <2>6. CASE AddClient
      BY <2>6 DEF AddClient
    <2> QED
      BY <1>1, <2>1, <2>2, <2>3, <2>4, <2>5, <2>6
         DEF Handshake, ConnectFails, HelloFails, VerifyFails
  <1>2. CASE JoinNext
    BY <1>2 DEF JoinNext
  <1>3. CASE Shutdown
    BY <1>3 DEF Shutdown, AbortTasks, Unlock
  <1>4. CASE ShutdownForGood
    BY <1>4 DEF ShutdownForGood, AbortTasks, Unlock
  <1>5. CASE StopOnCancel
    BY <1>5 DEF StopOnCancel, AbortTasks, Unlock
  <1>6. CASE OpenStream \/ GetPacket \/ ReadLoopEnds
    BY <1>6 DEF OpenStream, GetPacket, ReadLoopEnds
  <1>7. CASE Answered
    BY <1>7 DEF Answered, Unlock
  <1>8. CASE PingTask
    BY <1>8 DEF PingTask, PingDue, Pinged, PingTaskEnds, Unlock
  <1>9. CASE StartWrite
    BY <1>9 DEF StartWrite, Lock
  <1>10. CASE LocalWritten \/ LocalStreamsEnd
    BY <1>10 DEF LocalWritten, LocalStreamsEnd, Unlock
  <1>11. CASE AnswerNew
    BY <1>11 DEF AnswerNew
  <1>12. CASE AnswerReconnect
    BY <1>12 DEF AnswerReconnect, InvalidToken
  <1>13. CASE TokenExpires \/ ServerForgets \/ NetToggles \/ ConnectionLost \/ Cancel
    BY <1>13 DEF TokenExpires, ServerForgets, NetToggles, ConnectionLost, Cancel
  <1>14. CASE UNCHANGED vars
    BY <1>14 DEF vars
  <1> QED
    BY <1>1, <1>2, <1>3, <1>4, <1>5, <1>6, <1>7, <1>8, <1>9, <1>10, <1>11, <1>12, <1>13,
       <1>14 DEF Next, Loop, ReadLoop, Answer

LEMMA Step == IInv /\ [Next]_vars => IInv'
  BY TypeStep, ConsistentStep DEF IInv, Consistent

THEOREM Invariance == Spec => []IInv
  BY Initially, Step, PTL DEF Spec
------------------------------------------------------------------------------
\* No variable of run_client, of the store or of the server leaves its type,
\* whatever the order of failures.
THEOREM TypeCorrect == Spec => []TypeOK
  <1>1. IInv => TypeOK
    BY DEF IInv
  <1> QED
    BY <1>1, Invariance, PTL

\* No task of an old websocket runs, or holds the lock, while the client connects
\* again, but the tasks of the local streams.
THEOREM SessionsAreApart == Spec => []TasksEndFirst
  <1>1. IInv => TasksEndFirst
    BY DEF IInv, Consistent
  <1> QED
    BY <1>1, Invariance, PTL

\* The tasks of the local streams go on through the reconnects and write to the
\* old websocket until then; but from add_client on nobody does, and before it
\* only they and the new read loop.
THEOREM SendersAreCurrent == Spec => []SendsToCurrent
  <1>1. IInv => SendsToCurrent
    <2> SUFFICES ASSUME IInv, writer # "none", target # "current"
                 PROVE  /\ phase \notin {"select", "shutdown", "stopped"}
                        /\ writer = "local" \/ (writer = "read_loop" /\ phase = "add")
      BY DEF SendsToCurrent
    <2>1. target = slot
      BY DEF IInv, Consistent, LockHeld
    <2>2. phase \notin {"select", "shutdown", "stopped"}
      BY <2>1 DEF IInv, Consistent, TasksHavePhase
    <2>3. writer \in {"local", "read_loop", "ping_task"}
      BY DEF IInv, TypeOK
    <2> QED
      BY <2>2, <2>3 DEF IInv, Consistent, LockHeld, TasksHavePhase
  <1> QED
    BY <1>1, Invariance, PTL

\* However often it reconnects, the client keeps its id.
THEOREM IdIsKept == Spec => OneIdentity
  BY Invariance, ConsistentStep, PTL DEF Spec, OneIdentity
==============================================================================
