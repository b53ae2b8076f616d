--------------------------- MODULE ReactorProofs ---------------------------
(***************************************************************************)
(* Proofs about Reactor for any number of connections, any number of       *)
(* frames and any capacity of the sockets.                                 *)
(***************************************************************************)
EXTENDS Reactor, TLAPS

\* The type of a flag that is set,
LEMMA SetFlag ==
    ASSUME NEW f \in [Conns -> BOOLEAN], NEW c \in Conns, NEW b \in BOOLEAN
    PROVE  [f EXCEPT ![c] = b] \in [Conns -> BOOLEAN]
  BY Zenon

\* of a count that grows
LEMMA CountUp ==
    ASSUME NEW f \in [Conns -> Nat], NEW c \in Conns, NEW n \in Nat
    PROVE  [f EXCEPT ![c] = f[c] + n] \in [Conns -> Nat]
  OBVIOUS

\* and one that shrinks,
LEMMA CountDown ==
    ASSUME NEW f \in [Conns -> Nat], NEW c \in Conns, f[c] > 0
    PROVE  [f EXCEPT ![c] = f[c] - 1] \in [Conns -> Nat]
  OBVIOUS

\* of a send buffer that is read
LEMMA SocketDrains ==
    ASSUME NEW f \in [Conns -> 0..SockCap], NEW c \in Conns, f[c] > 0
    PROVE  [f EXCEPT ![c] = f[c] - 1] \in [Conns -> 0..SockCap]
  BY ReactorAssumption

\* and one that is written.
LEMMA SocketFills ==
    ASSUME NEW f \in [Conns -> 0..SockCap], NEW c \in Conns, f[c] < SockCap
    PROVE  [f EXCEPT ![c] = f[c] + 1] \in [Conns -> 0..SockCap]
  BY ReactorAssumption

\* close cancels the key of its connection only.
LEMMA CloseType ==
    ASSUME TypeOK, NEW c \in Conns, Close(c)
    PROVE  /\ key' \in [Conns -> {"none", "valid", "cancelled"}]
           /\ \A d \in Conns : key'[d] = "valid" => key[d] = "valid"
  BY DEF TypeOK, Close

(***************************************************************************)
(* Every variable keeps its type, no socket holds more than its capacity,  *)
(* and while the selector thread writes it is at the key of a connection.  *)
(***************************************************************************)
THEOREM TypeCorrect == Spec => []TypeOK
<1>1. Init => TypeOK
  <2> SUFFICES ASSUME Init PROVE TypeOK
    OBVIOUS
  <2>1. acceptReady \in BOOLEAN /\ wakeup \in BOOLEAN /\ stopped \in BOOLEAN
    BY Zenon DEF Init
  <2>2. term \in [Conns -> BOOLEAN] /\ termSeen \in [Conns -> BOOLEAN]
    BY Zenon DEF Init
  <2>3. /\ peer \in [Conns -> {"new", "backlog", "up", "gone"}]
        /\ budget \in [Conns -> Nat]
        /\ unread \in [Conns -> Nat]
        /\ inSocket \in [Conns -> 0..SockCap]
        /\ key \in [Conns -> {"none", "valid", "cancelled"}]
        /\ interest \in [Conns -> SUBSET Ops]
        /\ ready \in [Conns -> SUBSET Ops]
    BY ReactorAssumption DEF Init
  <2>4. /\ writeQueue \in [Conns -> Seq(Kinds)]
        /\ toProcess \in [Conns -> Nat]
        /\ kind \in [Conns -> Kinds]
        /\ todo \in [Conns -> SUBSET Conns]
        /\ target \in [Conns -> Conns \cup {None}]
        /\ pc \in [Conns -> WorkerSteps] /\ \A c \in Conns : pc[c] = "idle"
        /\ selectorTasks \in Seq(Conns)
    BY DEF Init, Kinds, WorkerSteps
  <2>5. sel \in SelectorSteps /\ sel = "select" /\ cur \in Conns \cup {None}
    BY DEF Init, SelectorSteps
  <2> QED BY <2>1, <2>2, <2>3, <2>4, <2>5 DEF TypeOK
<1>2. TypeOK /\ [Next]_vars => TypeOK'
  <2> SUFFICES ASSUME TypeOK, [Next]_vars PROVE TypeOK'
    OBVIOUS
  <2> USE ReactorAssumption
      DEF TypeOK, clientVars, selVars, workerVars, SelectorSteps, WorkerSteps,
          Kinds, Ops
  <2>1. ASSUME Select PROVE TypeOK'
    <3>1. wakeup' \in BOOLEAN
      BY <2>1, Zenon DEF Select
    <3>2. acceptReady' \in BOOLEAN
      BY <2>1, Zenon DEF Select
    <3>3. ready' \in [Conns -> SUBSET Ops]
      BY <2>1 DEF Select, ReadyOps
    <3>4. key' \in [Conns -> {"none", "valid", "cancelled"}]
      BY <2>1 DEF Select
    <3> QED BY <2>1, <3>1, <3>2, <3>3, <3>4 DEF Select
  <2>2. ASSUME RunTask PROVE TypeOK'
    <3>1. /\ Head(selectorTasks) \in Conns
          /\ selectorTasks' \in Seq(Conns)
      BY <2>2 DEF RunTask
    <3>2. /\ sel' \in {"tasks", "crashed"}
          /\ interest' \in [Conns -> SUBSET Ops]
      <4>1. CASE UNCHANGED sel /\ interest' = [interest EXCEPT ![Head(selectorTasks)] = Ops]
        BY <2>2, <3>1, <4>1 DEF RunTask
      <4>2. CASE sel' = "crashed" /\ UNCHANGED interest
        BY <4>2
      <4> QED BY <2>2, <4>1, <4>2 DEF RunTask
    <3> QED BY <2>2, <3>1, <3>2 DEF RunTask
  <2>3. ASSUME TasksDone PROVE TypeOK'
    BY <2>3 DEF TasksDone
  <2>4. ASSUME Accept PROVE TypeOK'
    <3>1. PICK c \in Conns : /\ peer' = [peer EXCEPT ![c] = "up"]
                             /\ key' = [key EXCEPT ![c] = "valid"]
                             /\ interest' = [interest EXCEPT ![c] = {"R"}]
      BY <2>4 DEF Accept, Backlog
    <3>2. acceptReady' \in BOOLEAN
      BY <2>4, Zenon DEF Accept
    <3>3. /\ peer' \in [Conns -> {"new", "backlog", "up", "gone"}]
          /\ key' \in [Conns -> {"none", "valid", "cancelled"}]
          /\ interest' \in [Conns -> SUBSET Ops]
      BY <3>1
    <3> QED BY <2>4, <3>2, <3>3 DEF Accept
  <2>5. ASSUME KeysDone PROVE TypeOK'
    BY <2>5 DEF KeysDone
  <2>6. ASSUME WriteFrame PROVE TypeOK'
    <3>1. /\ cur \in Conns /\ inSocket \in [Conns -> 0..SockCap]
          /\ inSocket[cur] < SockCap
          /\ inSocket' = [inSocket EXCEPT ![cur] = inSocket[cur] + 1]
      BY <2>6 DEF WriteFrame, HasRoom
    <3>2. inSocket' \in [Conns -> 0..SockCap]
      <4> HIDE DEF TypeOK
      <4> QED BY <3>1, SocketFills
    <3>3. /\ writeQueue[cur] \in Seq(Kinds) /\ writeQueue[cur] # <<>>
          /\ Tail(writeQueue[cur]) \in Seq(Kinds)
      BY <2>6, <3>1 DEF WriteFrame
    <3>4. writeQueue' \in [Conns -> Seq(Kinds)]
      BY <2>6, <3>1, <3>3 DEF WriteFrame
    <3>5. (termSeen[cur] \/ Head(writeQueue[cur]) = "receipt") \in BOOLEAN
      BY Zenon
    <3>6. termSeen' \in [Conns -> BOOLEAN]
      <4>1. termSeen' = [termSeen EXCEPT ![cur] =
                            termSeen[cur] \/ Head(writeQueue[cur]) = "receipt"]
        BY <2>6 DEF WriteFrame
      <4> QED BY <3>1, <3>5, <4>1, SetFlag
    <3> QED BY <2>6, <3>2, <3>4, <3>6 DEF WriteFrame
  <2>7. ASSUME WritePart PROVE TypeOK'
    BY <2>7 DEF WritePart
  <2>8. ASSUME WriteFails PROVE TypeOK'
    <3>1. cur \in Conns
      BY <2>8 DEF WriteFails
    <3>2. key' \in [Conns -> {"none", "valid", "cancelled"}]
      BY <2>8, <3>1, CloseType DEF WriteFails
    <3> QED BY <2>8, <3>2 DEF WriteFails
  <2>9. ASSUME WriteLoopEnds PROVE TypeOK'
    BY <2>9 DEF WriteLoopEnds
  <2>10. ASSUME WriteRetest PROVE TypeOK'
    <3>1. sel' \in {"decide", "keys"} /\ (sel' = "decide" => cur' = cur)
          /\ cur' \in Conns \cup {None}
      BY <2>10 DEF WriteRetest
    <3>2. cur \in Conns
      BY <2>10 DEF WriteRetest
    <3> QED BY <2>10, <3>1, <3>2 DEF WriteRetest
  <2>11. ASSUME WriteDecide PROVE TypeOK'
    <3>1. cur \in Conns
      BY <2>11 DEF WriteDecide
    <3>2. /\ sel' \in {"keys", "crashed"}
          /\ key' \in [Conns -> {"none", "valid", "cancelled"}]
          /\ interest' \in [Conns -> SUBSET Ops]
      <4>1. CASE Close(cur) /\ sel' = "keys" /\ UNCHANGED interest
        BY <3>1, <4>1, CloseType
      <4>2. CASE /\ interest' = [interest EXCEPT ![cur] = {"R"}]
                 /\ sel' = "keys" /\ UNCHANGED key
        BY <3>1, <4>2
      <4>3. CASE sel' = "crashed" /\ UNCHANGED <<interest, key>>
        BY <4>3
      <4> QED BY <2>11, <4>1, <4>2, <4>3 DEF WriteDecide
    <3> QED BY <2>11, <3>2 DEF WriteDecide
  <2>12. ASSUME StopServer PROVE TypeOK'
    <3>1. stopped' \in BOOLEAN
      BY <2>12, Zenon DEF StopServer
    <3>2. key' \in [Conns -> {"none", "valid", "cancelled"}]
      BY <2>12 DEF StopServer
    <3> QED BY <2>12, <3>1, <3>2 DEF StopServer
  <2>13. ASSUME ServeEnds PROVE TypeOK'
    BY <2>13 DEF ServeEnds
  <2>14. ASSUME NEW c \in Conns, HandleKey(c) PROVE TypeOK'
    <3>1. /\ toProcess' \in [Conns -> Nat]
          /\ unread' \in [Conns -> Nat]
          /\ key' \in [Conns -> {"none", "valid", "cancelled"}]
      <4>1. CASE UNCHANGED <<toProcess, unread, key>>
        BY <4>1
      <4>2. CASE /\ toProcess' = [toProcess EXCEPT ![c] = @ + unread[c]]
                 /\ unread' = [unread EXCEPT ![c] = 0]
                 /\ UNCHANGED key
        <5>1. /\ toProcess \in [Conns -> Nat] /\ unread[c] \in Nat
              /\ unread' \in [Conns -> Nat]
              /\ key' \in [Conns -> {"none", "valid", "cancelled"}]
          BY <4>2
        <5>2. toProcess' = [toProcess EXCEPT ![c] = toProcess[c] + unread[c]]
          BY <4>2
        <5>3. toProcess' \in [Conns -> Nat]
          <6> HIDE DEF TypeOK
          <6> QED BY <5>1, <5>2, CountUp
        <5> QED BY <5>1, <5>3
      <4>3. CASE /\ Close(c) /\ unread' = [unread EXCEPT ![c] = 0]
                 /\ UNCHANGED toProcess
        BY <4>3, CloseType
      <4> QED BY <2>14, <4>1, <4>2, <4>3 DEF HandleKey, ContinueRead
    <3>2. ready' \in [Conns -> SUBSET Ops]
      BY <2>14 DEF HandleKey
    <3>3. /\ sel' \in {"keys", "write"} /\ cur' \in Conns \cup {None}
          /\ sel' = "write" => cur' \in Conns
      BY <2>14 DEF HandleKey
    <3> QED BY <2>14, <3>1, <3>2, <3>3 DEF HandleKey
  <2>15. ASSUME NEW c \in Conns, Process(c) PROVE TypeOK'
    <3>1. /\ toProcess' \in [Conns -> Nat]
          /\ pc' \in [Conns -> WorkerSteps]
          /\ \A d \in Conns : pc'[d] = IF d = c THEN "add" ELSE pc[d]
      <4>1. /\ toProcess' = [toProcess EXCEPT ![c] = toProcess[c] - 1]
            /\ toProcess[c] \in Nat /\ toProcess[c] > 0
            /\ pc' = [pc EXCEPT ![c] = "add"]
        BY <2>15 DEF Process
      <4>2. toProcess \in [Conns -> Nat]
        OBVIOUS
      <4>3. toProcess' \in [Conns -> Nat]
        <5> HIDE DEF TypeOK
        <5> QED BY <4>1, <4>2, CountDown
      <4> QED BY <4>1, <4>3
    <3>2. \/ kind' = [kind EXCEPT ![c] = "reply"]
          \/ kind' = [kind EXCEPT ![c] = "error"]
          \/ kind' = [kind EXCEPT ![c] = "receipt"]
          \/ kind' = [kind EXCEPT ![c] = "message"]
      BY <2>15 DEF Process
    <3>3. kind' \in [Conns -> Kinds]
      <4>1. ASSUME NEW k \in Kinds, kind' = [kind EXCEPT ![c] = k]
            PROVE  kind' \in [Conns -> Kinds]
        BY <4>1
      <4> QED BY <3>2, <4>1
    <3>4. \E S \in SUBSET Conns : todo' = [todo EXCEPT ![c] = S]
      <4>1. CASE todo' = [todo EXCEPT ![c] = {c}]
        BY <4>1, ZenonT(30)
      <4>2. ASSUME NEW S \in SUBSET Clients, todo' = [todo EXCEPT ![c] = S \cup {c}]
            PROVE  \E T \in SUBSET Conns : todo' = [todo EXCEPT ![c] = T]
        <5>1. S \cup {c} \in SUBSET Conns
          BY DEF Clients
        <5> QED BY <4>2, <5>1
      <4> QED BY <2>15, <4>1, <4>2 DEF Process
    <3>5. todo' \in [Conns -> SUBSET Conns]
      BY <3>4
    <3>6. term' \in [Conns -> BOOLEAN]
      <4>1. term' = term \/ term' = [term EXCEPT ![c] = TRUE]
        BY <2>15 DEF Process
      <4>2. [term EXCEPT ![c] = TRUE] \in [Conns -> BOOLEAN]
        BY SetFlag
      <4> QED BY <4>1, <4>2
    <3>7. UNCHANGED <<peer, budget, inSocket, unread, sel, cur, ready,
                      acceptReady, key, interest, wakeup, selectorTasks,
                      stopped, writeQueue, target, termSeen>>
      BY <2>15 DEF Process
    <3> QED BY <3>1, <3>3, <3>5, <3>6, <3>7
  <2>16. ASSUME NEW c \in Conns, AddFrame(c) PROVE TypeOK'
    <3>1. PICK d \in Conns :
             /\ writeQueue' = [writeQueue EXCEPT ![d] = Append(@, kind[c])]
             /\ target' = [target EXCEPT ![c] = d]
      BY <2>16 DEF AddFrame
    <3>2. Append(writeQueue[d], kind[c]) \in Seq(Kinds)
      OBVIOUS
    <3>3. /\ writeQueue' \in [Conns -> Seq(Kinds)]
          /\ target' \in [Conns -> Conns \cup {None}]
          /\ target'[c] \in Conns
          /\ \A e \in Conns \ {c} : target'[e] = target[e]
      BY <3>1, <3>2, SMTT(20)
    <3>4. /\ pc' \in [Conns -> WorkerSteps]
          /\ \A e \in Conns \ {c} : pc'[e] = pc[e]
      BY <2>16 DEF AddFrame
    <3> QED BY <2>16, <3>3, <3>4 DEF AddFrame
  <2>17. ASSUME NEW c \in Conns, QueueTask(c) PROVE TypeOK'
    <3>1. selectorTasks' \in Seq(Conns)
      BY <2>17 DEF QueueTask
    <3>2. /\ pc' \in [Conns -> WorkerSteps]
          /\ \A e \in Conns \ {c} : pc'[e] = pc[e]
      BY <2>17 DEF QueueTask
    <3> QED BY <2>17, <3>1, <3>2 DEF QueueTask
  <2>18. ASSUME NEW c \in Conns, Wakeup(c) PROVE TypeOK'
    <3>1. wakeup' \in BOOLEAN
      BY <2>18, Zenon DEF Wakeup
    <3>2. /\ pc' \in [Conns -> WorkerSteps]
          /\ \A e \in Conns \ {c} : pc'[e] = pc[e]
          /\ pc'[c] \in {"add", "terminate", "idle"}
      BY <2>18 DEF Wakeup
    <3>3. /\ todo' \in [Conns -> SUBSET Conns]
          /\ target' \in [Conns -> Conns \cup {None}]
          /\ \A e \in Conns \ {c} : target'[e] = target[e]
      BY <2>18, ZenonT(30) DEF Wakeup
    <3> QED BY <2>18, <3>1, <3>2, <3>3 DEF Wakeup
  <2>19. ASSUME NEW c \in Conns, Terminate(c) PROVE TypeOK'
    <3>1. term' \in [Conns -> BOOLEAN]
      <4>1. [term EXCEPT ![c] = TRUE] \in [Conns -> BOOLEAN]
        BY SetFlag
      <4> QED BY <2>19, <4>1 DEF Terminate
    <3> QED BY <2>19, <3>1, SMTT(20) DEF Terminate
  <2>20. ASSUME NEW c \in Conns, Connect(c) PROVE TypeOK'
    BY <2>20 DEF Connect
  <2>21. ASSUME NEW c \in Conns, ClientSend(c) PROVE TypeOK'
    <3>1. /\ budget \in [Conns -> Nat] /\ unread \in [Conns -> Nat]
          /\ budget[c] > 0
          /\ budget' = [budget EXCEPT ![c] = budget[c] - 1]
          /\ unread' = [unread EXCEPT ![c] = unread[c] + 1]
      BY <2>21 DEF ClientSend
    <3>2. budget' \in [Conns -> Nat] /\ unread' \in [Conns -> Nat]
      <4> HIDE DEF TypeOK
      <4> QED BY <3>1, CountUp, CountDown
    <3> QED BY <2>21, <3>2 DEF ClientSend
  <2>22. ASSUME NEW c \in Conns, ClientReceive(c) PROVE TypeOK'
    <3>1. /\ inSocket \in [Conns -> 0..SockCap] /\ inSocket[c] > 0
          /\ inSocket' = [inSocket EXCEPT ![c] = inSocket[c] - 1]
      BY <2>22 DEF ClientReceive
    <3>2. inSocket' \in [Conns -> 0..SockCap]
      <4> HIDE DEF TypeOK
      <4> QED BY <3>1, SocketDrains
    <3> QED BY <2>22, <3>2 DEF ClientReceive
  <2>23. ASSUME NEW c \in Conns, ClientLeave(c) PROVE TypeOK'
    BY <2>23 DEF ClientLeave
  <2>24. CASE UNCHANGED vars
    BY <2>24 DEF vars
  <2> QED
    BY <2>1, <2>2, <2>3, <2>4, <2>5, <2>6, <2>7, <2>8, <2>9, <2>10, <2>11, <2>12,
       <2>13, <2>14, <2>15, <2>16, <2>17, <2>18, <2>19, <2>20, <2>21, <2>22, <2>23, <2>24
    DEF Next, SelectorStep, WorkerStep, ClientStep
<1> QED BY <1>1, <1>2, PTL DEF Spec
-----------------------------------------------------------------------------
(* The selector thread does not sleep on a task *)

\* Outside the loop over the tasks a queued task has its wakeup on the way.
WakeupComes ==
    sel \notin {"tasks", "crashed"} /\ selectorTasks # <<>>
        => wakeup \/ \E d \in Conns : pc[d] = "wake"

\* A step keeps a wakeup on its way to each queued task.
LEMMA WakeupStep == TypeOK /\ WakeupComes /\ [Next]_vars => WakeupComes'
<1> SUFFICES ASSUME TypeOK, WakeupComes, [Next]_vars PROVE WakeupComes'
  OBVIOUS
<1> USE DEF WakeupComes, TypeOK, selVars, workerVars, clientVars
<1>1. CASE Select \/ RunTask \/ TasksDone \/ KeysDone \/ ServeEnds \/ StopServer
  BY <1>1 DEF Select, RunTask, TasksDone, KeysDone, ServeEnds, StopServer
<1>2. CASE Accept \/ \E c \in Conns : HandleKey(c)
  BY <1>2 DEF Accept, HandleKey, ContinueRead
<1>3. CASE \/ WriteFrame \/ WritePart \/ WriteFails \/ WriteLoopEnds
           \/ WriteRetest \/ WriteDecide
  BY <1>3 DEF WriteFrame, WritePart, WriteFails, WriteLoopEnds, WriteRetest,
              WriteDecide
<1>4. ASSUME NEW c \in Conns, Process(c) \/ AddFrame(c) \/ Terminate(c)
      PROVE  WakeupComes'
  <2>1. /\ UNCHANGED <<sel, selectorTasks, wakeup>>
        /\ pc[c] # "wake" /\ \A d \in Conns \ {c} : pc'[d] = pc[d]
    BY <1>4 DEF Process, AddFrame, Terminate
  <2> QED BY <2>1
<1>5. ASSUME NEW c \in Conns, QueueTask(c) PROVE WakeupComes'
  <2>1. pc'[c] = "wake"
    BY <1>5 DEF QueueTask
  <2> QED BY <2>1
<1>6. ASSUME NEW c \in Conns, Wakeup(c) PROVE WakeupComes'
  BY <1>6 DEF Wakeup
<1>7. ASSUME NEW c \in Conns, ClientStep(c) PROVE WakeupComes'
  BY <1>7 DEF ClientStep, Connect, ClientSend, ClientReceive, ClientLeave
<1>8. CASE UNCHANGED vars
  BY <1>8 DEF vars
<1> QED
  BY <1>1, <1>2, <1>3, <1>4, <1>5, <1>6, <1>7, <1>8
  DEF Next, SelectorStep, WorkerStep

(***************************************************************************)
(* The selector thread does not go to sleep on a queued task: the task is  *)
(* queued before the wakeup, and the wakeup outlives a select that is not  *)
(* under way (updateInterestedOps).                                        *)
(***************************************************************************)
THEOREM Awake == Spec => []NoLostWakeup
<1>1. Init => WakeupComes
  BY DEF Init, WakeupComes
<1>2. WakeupComes => NoLostWakeup
  BY DEF WakeupComes, NoLostWakeup
<1> QED BY <1>1, <1>2, WakeupStep, TypeCorrect, PTL DEF Spec
-----------------------------------------------------------------------------
(* No frame is forgotten *)

\* Only a connection that was accepted has anything to read, to process or to
\* write, and a frame goes to accepted connections only.
Reached ==
    \A c \in Conns :
        /\ key[c] # "none" => c \in Clients
        /\ ready[c] # {} => c \in Clients
        /\ toProcess[c] > 0 => c \in Clients
        /\ writeQueue[c] # <<>> => c \in Clients
        /\ todo[c] \subseteq Clients

\* A step gives nothing to a connection that was not accepted.
LEMMA ReachedStep == TypeOK /\ Reached /\ [Next]_vars => Reached'
<1> SUFFICES ASSUME TypeOK, Reached, [Next]_vars PROVE Reached'
  OBVIOUS
<1> USE DEF Reached, selVars, workerVars, clientVars
<1>1. CASE UNCHANGED <<peer, todo, key, ready, toProcess, writeQueue>>
  BY <1>1 DEF Clients
<1>2. CASE Select
  <2>1. /\ UNCHANGED <<peer, todo, toProcess, writeQueue>>
        /\ \A c \in Conns : /\ key'[c] # "none" => key[c] # "none"
                            /\ ready'[c] # {} => key[c] # "none"
    BY <1>2 DEF Select, ReadyOps, TypeOK
  <2> QED BY <2>1 DEF Clients
<1>3. CASE Accept
  <2>1. PICK c \in Conns : /\ peer' = [peer EXCEPT ![c] = "up"]
                           /\ key' = [key EXCEPT ![c] = "valid"]
    BY <1>3 DEF Accept, Backlog
  <2>2. UNCHANGED <<todo, ready, toProcess, writeQueue>>
    BY <1>3 DEF Accept
  <2>3. Clients' = Clients \cup {c}
    BY <2>1 DEF Clients, TypeOK
  <2>4. \A d \in Conns \ {c} : key'[d] = key[d]
    BY <2>1 DEF TypeOK
  <2> QED BY <2>2, <2>3, <2>4
<1>4. ASSUME NEW c \in Conns, HandleKey(c) PROVE Reached'
  <2>1. /\ UNCHANGED <<peer, todo, writeQueue>>
        /\ ready[c] # {}
    BY <1>4 DEF HandleKey, ContinueRead
  <2>2. \A d \in Conns : key'[d] # "none" => key[d] # "none"
    <3>1. key' = key \/ Close(c)
      BY <1>4 DEF HandleKey, ContinueRead
    <3> QED BY <3>1 DEF Close, TypeOK
  <2>3. \A d \in Conns : ready'[d] # {} => ready[d] # {}
    BY <1>4 DEF HandleKey, TypeOK
  <2>4. \A d \in Conns \ {c} : toProcess'[d] = toProcess[d]
    <3>1. toProcess' = toProcess \/ toProcess' = [toProcess EXCEPT ![c] = @ + unread[c]]
      BY <1>4 DEF HandleKey, ContinueRead
    <3> QED BY <3>1 DEF TypeOK
  <2> QED BY <2>1, <2>2, <2>3, <2>4 DEF Clients
<1>5. CASE WriteFrame
  <2>1. /\ UNCHANGED <<peer, todo, key, ready, toProcess>>
        /\ \A c \in Conns : writeQueue'[c] # <<>> => writeQueue[c] # <<>>
    BY <1>5 DEF WriteFrame, TypeOK
  <2> QED BY <2>1 DEF Clients
<1>6. CASE WriteFails \/ WriteDecide \/ StopServer
  <2>1. /\ UNCHANGED <<peer, todo, ready, toProcess, writeQueue>>
        /\ \A c \in Conns : key'[c] # "none" => key[c] # "none"
    BY <1>6 DEF WriteFails, WriteDecide, StopServer, Close, TypeOK
  <2> QED BY <2>1 DEF Clients
<1>7. ASSUME NEW c \in Conns, Process(c) PROVE Reached'
  <2>1. /\ UNCHANGED <<peer, key, ready, writeQueue>>
        /\ toProcess[c] > 0
        /\ \A d \in Conns : toProcess'[d] > 0 => toProcess[d] > 0
        /\ \A d \in Conns \ {c} : todo'[d] = todo[d]
    BY <1>7 DEF Process, TypeOK
  <2>2. \E S \in SUBSET Clients : todo'[c] = S \cup {c}
    <3>1. CASE todo' = [todo EXCEPT ![c] = {c}]
      BY <3>1 DEF TypeOK
    <3>2. ASSUME NEW S \in SUBSET Clients, todo' = [todo EXCEPT ![c] = S \cup {c}]
          PROVE  \E T \in SUBSET Clients : todo'[c] = T \cup {c}
      BY <3>2 DEF TypeOK
    <3> QED BY <1>7, <3>1, <3>2 DEF Process
  <2>3. Clients' = Clients
    BY <2>1 DEF Clients
  <2> QED BY <2>1, <2>2, <2>3
<1>8. ASSUME NEW c \in Conns, AddFrame(c) PROVE Reached'
  <2>1. PICK d \in todo[c] :
           writeQueue' = [writeQueue EXCEPT ![d] = Append(@, kind[c])]
    BY <1>8 DEF AddFrame
  <2>2. \A e \in Conns \ {d} : writeQueue'[e] = writeQueue[e]
    BY <2>1 DEF TypeOK
  <2>3. UNCHANGED <<peer, key, ready, toProcess, todo>>
    BY <1>8 DEF AddFrame
  <2> QED BY <2>1, <2>2, <2>3 DEF Clients
<1>9. ASSUME NEW c \in Conns, Wakeup(c) PROVE Reached'
  <2>1. /\ UNCHANGED <<peer, key, ready, toProcess, writeQueue>>
        /\ \A d \in Conns : todo'[d] \subseteq todo[d]
    BY <1>9 DEF Wakeup, TypeOK
  <2> QED BY <2>1 DEF Clients
<1>10. ASSUME NEW c \in Conns, Connect(c) \/ ClientLeave(c) PROVE Reached'
  <2>1. /\ UNCHANGED <<todo, key, ready, toProcess, writeQueue>>
        /\ Clients \subseteq Clients'
    BY <1>10 DEF Connect, ClientLeave, Clients, TypeOK
  <2> QED BY <2>1
<1>11. CASE \/ RunTask \/ TasksDone \/ KeysDone \/ WritePart \/ WriteLoopEnds
            \/ WriteRetest \/ ServeEnds
  BY <1>1, <1>11 DEF RunTask, TasksDone, KeysDone, WritePart, WriteLoopEnds,
                     WriteRetest, ServeEnds
<1>12. ASSUME NEW c \in Conns,
              QueueTask(c) \/ Terminate(c) \/ ClientSend(c) \/ ClientReceive(c)
       PROVE  Reached'
  BY <1>1, <1>12 DEF QueueTask, Terminate, ClientSend, ClientReceive
<1>13. CASE UNCHANGED vars
  BY <1>1, <1>13 DEF vars
<1> QED
  BY <1>2, <1>3, <1>4, <1>5, <1>6, <1>7, <1>8, <1>9, <1>10, <1>11, <1>12,
     <1>13 DEF Next, SelectorStep, WorkerStep, ClientStep

\* A task for c is queued or about to be.
TaskComes(c) ==
    \/ TaskQueued(c)
    \/ \E d \in Conns : pc[d] = "task" /\ target[d] = c

\* Between its second test of the queue and the reset of the interest, the
\* selector thread can miss a frame only if a task for it comes.
DecidedOnEmpty ==
    \A c \in Conns :
        sel = "decide" /\ cur = c /\ writeQueue[c] # <<>> => TaskComes(c)

\* What is not the first task stays queued.
LEMMA TailKeeps ==
    ASSUME NEW S, NEW q \in Seq(S), q # <<>>, NEW i \in 1..Len(q),
           q[i] # Head(q)
    PROVE  \E k \in 1..Len(Tail(q)) : Tail(q)[k] = q[i]
<1>1. i - 1 \in 1..Len(Tail(q)) /\ Tail(q)[i - 1] = q[i]
  OBVIOUS
<1> QED BY <1>1

\* Only the selector thread, between select and the keys, takes a task away,
\* and it takes the first.
LEMMA TaskStays ==
    ASSUME TypeOK, [Next]_vars, NEW c \in Conns, TaskComes(c)
    PROVE  \/ TaskComes(c)'
           \/ /\ sel = "tasks" /\ selectorTasks # <<>> /\ c = Head(selectorTasks)
              /\ RunTask
<1> USE DEF TaskComes, TaskQueued, TypeOK, selVars, workerVars, clientVars
<1>1. CASE UNCHANGED <<selectorTasks, pc, target>>
  BY <1>1
<1>2. CASE RunTask
  <2>1. /\ selectorTasks # <<>> /\ selectorTasks' = Tail(selectorTasks)
        /\ UNCHANGED <<pc, target>> /\ sel = "tasks"
    BY <1>2 DEF RunTask
  <2>2. CASE c = Head(selectorTasks)
    BY <1>2, <2>1, <2>2
  <2>3. CASE c # Head(selectorTasks) /\ TaskQueued(c)
    <3>1. PICK i \in 1..Len(selectorTasks) : selectorTasks[i] = c
      BY <2>3
    <3>2. \E k \in 1..Len(Tail(selectorTasks)) :
              Tail(selectorTasks)[k] = selectorTasks[i]
      BY <2>1, <2>3, <3>1, TailKeeps
    <3> QED BY <2>1, <3>1, <3>2
  <2>4. CASE \E d \in Conns : pc[d] = "task" /\ target[d] = c
    BY <2>1, <2>4
  <2> QED BY <2>2, <2>3, <2>4
<1>3. ASSUME NEW d \in Conns, Process(d) \/ AddFrame(d) \/ Wakeup(d) \/ Terminate(d)
      PROVE  TaskComes(c)'
  <2>1. /\ selectorTasks' = selectorTasks /\ pc[d] # "task"
        /\ \A e \in Conns \ {d} : pc'[e] = pc[e] /\ target'[e] = target[e]
    BY <1>3, ZenonT(30) DEF Process, AddFrame, Wakeup, Terminate
  <2> QED BY <2>1
<1>4. ASSUME NEW d \in Conns, QueueTask(d) PROVE TaskComes(c)'
  <2>1. /\ selectorTasks' = Append(selectorTasks, target[d])
        /\ target[d] \in Conns /\ target' = target
        /\ \A e \in Conns \ {d} : pc'[e] = pc[e]
    BY <1>4 DEF QueueTask
  <2>2. CASE TaskQueued(c)
    <3>1. PICK i \in 1..Len(selectorTasks) : selectorTasks[i] = c
      BY <2>2
    <3>2. i \in 1..Len(selectorTasks') /\ selectorTasks'[i] = c
      BY <2>1, <3>1
    <3> QED BY <3>2
  <2>3. CASE target[d] = c
    <3>1. /\ Len(selectorTasks) + 1 \in 1..Len(selectorTasks')
          /\ selectorTasks'[Len(selectorTasks) + 1] = c
      BY <2>1, <2>3
    <3> QED BY <3>1
  <2>4. CASE \E e \in Conns \ {d} : pc[e] = "task" /\ target[e] = c
    BY <2>1, <2>4
  <2> QED BY <2>2, <2>3, <2>4
<1>5. CASE \/ Select \/ TasksDone \/ Accept \/ KeysDone \/ WriteFrame \/ WritePart
           \/ WriteFails \/ WriteLoopEnds \/ WriteRetest \/ WriteDecide
           \/ ServeEnds \/ StopServer
  BY <1>1, <1>5
  DEF Select, TasksDone, Accept, KeysDone, WriteFrame, WritePart, WriteFails,
      WriteLoopEnds, WriteRetest, WriteDecide, ServeEnds, StopServer
<1>6. ASSUME NEW d \in Conns, HandleKey(d) \/ ClientStep(d) PROVE TaskComes(c)'
  BY <1>1, <1>6
  DEF HandleKey, ContinueRead, ClientStep, Connect, ClientSend, ClientReceive, ClientLeave
<1>7. CASE UNCHANGED vars
  BY <1>1, <1>7 DEF vars
<1> QED
  BY <1>2, <1>3, <1>4, <1>5, <1>6, <1>7 DEF Next, SelectorStep, WorkerStep

\* A frame that is added comes with a task.
LEMMA AddComes ==
    ASSUME TypeOK, [Next]_vars, NEW c \in Conns, writeQueue'[c] # <<>>
    PROVE  writeQueue[c] # <<>> \/ TaskComes(c)'
<1> USE DEF TypeOK, selVars, workerVars, clientVars
<1>1. CASE writeQueue' = writeQueue
  BY <1>1
<1>2. CASE WriteFrame
  BY <1>2 DEF WriteFrame
<1>3. ASSUME NEW d \in Conns, AddFrame(d)
      PROVE  writeQueue[c] # <<>> \/ TaskComes(c)'
  <2>1. PICK e \in Conns :
           /\ writeQueue' = [writeQueue EXCEPT ![e] = Append(@, kind[d])]
           /\ target' = [target EXCEPT ![d] = e]
    BY <1>3 DEF AddFrame
  <2>2. pc'[d] = "task"
    BY <1>3 DEF AddFrame
  <2>3. CASE c = e
    BY <2>1, <2>2, <2>3 DEF TaskComes
  <2>4. CASE c # e
    BY <2>1, <2>4
  <2> QED BY <2>3, <2>4
<1>4. ASSUME NEW d \in Conns, ~AddFrame(d), WorkerStep(d)
      PROVE  writeQueue' = writeQueue
  BY <1>4 DEF WorkerStep, Process, QueueTask, Wakeup, Terminate
<1>5. CASE (SelectorStep /\ ~WriteFrame) \/ StopServer
  BY <1>1, <1>5
  DEF SelectorStep, Select, RunTask, TasksDone, Accept, HandleKey, ContinueRead, KeysDone,
      WritePart, WriteFails, WriteLoopEnds, WriteRetest, WriteDecide, ServeEnds,
      StopServer
<1>6. ASSUME NEW d \in Conns, ClientStep(d) PROVE writeQueue' = writeQueue
  BY <1>6 DEF ClientStep, Connect, ClientSend, ClientReceive, ClientLeave
<1>7. CASE UNCHANGED vars
  BY <1>1, <1>7 DEF vars
<1> QED BY <1>1, <1>2, <1>3, <1>4, <1>5, <1>6, <1>7 DEF Next

\* A step keeps a task on its way for what was added after the test.
LEMMA DecidedStep ==
    TypeOK /\ TypeOK' /\ DecidedOnEmpty /\ [Next]_vars => DecidedOnEmpty'
<1> SUFFICES ASSUME TypeOK, TypeOK', DecidedOnEmpty, [Next]_vars, NEW c \in Conns,
                    sel' = "decide", cur' = c, writeQueue'[c] # <<>>
             PROVE  TaskComes(c)'
  BY DEF DecidedOnEmpty
<1>2. CASE sel = "decide" /\ cur' = cur
  <2>1. CASE writeQueue[c] # <<>>
    <3>1. TaskComes(c)
      BY <1>2, <2>1 DEF DecidedOnEmpty
    <3> QED BY <1>2, <3>1, TaskStays
  <2>2. CASE writeQueue[c] = <<>>
    BY <2>2, AddComes
  <2> QED BY <2>1, <2>2
<1>3. CASE WriteRetest
  BY <1>3 DEF WriteRetest, workerVars
<1>4. \/ WriteRetest
      \/ sel = "decide" /\ cur' = cur
  <2> USE DEF selVars, workerVars, clientVars
  <2>1. CASE \/ Select \/ RunTask \/ TasksDone \/ Accept \/ KeysDone
             \/ WriteFrame \/ WritePart \/ WriteFails \/ WriteLoopEnds
             \/ WriteDecide \/ ServeEnds \/ StopServer
    BY <2>1 DEF Select, RunTask, TasksDone, Accept, KeysDone, WriteFrame,
                WritePart, WriteFails, WriteLoopEnds, WriteDecide, ServeEnds,
                StopServer
  <2>2. ASSUME NEW d \in Conns, HandleKey(d) \/ WorkerStep(d) \/ ClientStep(d)
        PROVE  sel = "decide" /\ cur' = cur
    BY <2>2 DEF HandleKey, ContinueRead, WorkerStep, Process, AddFrame, QueueTask, Wakeup,
                Terminate, ClientStep, Connect, ClientSend, ClientReceive,
                ClientLeave
  <2>3. CASE UNCHANGED vars
    BY <2>3 DEF vars
  <2> QED BY <2>1, <2>2, <2>3 DEF Next, SelectorStep
<1> QED BY <1>2, <1>3, <1>4

\* What the interest of a connection is worth after the step.
LEMMA WriteStep ==
    TypeOK /\ TypeOK' /\ Reached /\ DecidedOnEmpty /\ NoLostWrite /\ [Next]_vars
        => NoLostWrite'
<1> SUFFICES ASSUME TypeOK, TypeOK', Reached, DecidedOnEmpty, NoLostWrite,
                    [Next]_vars, NEW c \in Conns,
                    key'[c] = "valid", writeQueue'[c] # <<>>, sel' # "crashed"
             PROVE  "W" \in interest'[c] \/ TaskComes(c)'
  BY DEF NoLostWrite, TaskComes
<1>1. CASE writeQueue[c] = <<>>
  BY <1>1, AddComes
<1>2. CASE writeQueue[c] # <<>>
  <2> USE <1>2 DEF TypeOK, selVars, workerVars, clientVars
  <2>1. ASSUME key[c] = "valid", interest'[c] = interest[c], ~RunTask,
               sel # "crashed"
        PROVE  "W" \in interest'[c] \/ TaskComes(c)'
    BY <2>1, TaskStays DEF NoLostWrite, TaskComes
  <2>2. CASE RunTask
    <3>1. /\ sel = "tasks" /\ key' = key
          /\ interest' = [interest EXCEPT ![Head(selectorTasks)] = Ops]
          /\ selectorTasks # <<>>
      BY <2>2 DEF RunTask
    <3>2. CASE c = Head(selectorTasks)
      BY <3>1, <3>2 DEF Ops
    <3>3. CASE c # Head(selectorTasks)
      <4>1. interest'[c] = interest[c] /\ key[c] = "valid"
        BY <3>1, <3>3
      <4> QED BY <3>1, <3>3, <4>1, TaskStays DEF NoLostWrite, TaskComes
    <3> QED BY <3>2, <3>3
  <2>3. CASE Accept
    <3>1. PICK d \in Backlog : /\ key' = [key EXCEPT ![d] = "valid"]
                               /\ interest' = [interest EXCEPT ![d] = {"R"}]
      BY <2>3 DEF Accept
    <3>2. c # d
      BY <3>1 DEF Backlog, Reached, Clients
    <3>3. key[c] = "valid" /\ interest'[c] = interest[c]
      BY <3>1, <3>2 DEF Backlog
    <3> QED BY <2>1, <2>3, <3>3 DEF Accept, RunTask
  <2>4. CASE WriteDecide
    <3>1. /\ cur \in Conns /\ sel = "decide"
          /\ key[c] = "valid"
          /\ c # cur => interest'[c] = interest[c]
      BY <2>4 DEF WriteDecide, Close
    <3>2. CASE c = cur
      <4>1. TaskComes(c)
        BY <3>1, <3>2 DEF DecidedOnEmpty
      <4> QED BY <3>1, <4>1, TaskStays
    <3>3. CASE c # cur
      BY <2>1, <2>4, <3>1, <3>3 DEF WriteDecide, RunTask
    <3> QED BY <3>2, <3>3
  <2>5. CASE \/ Select \/ TasksDone \/ KeysDone \/ WriteFrame \/ WritePart
             \/ WriteFails \/ WriteLoopEnds \/ WriteRetest \/ ServeEnds
             \/ StopServer
    <3>1. /\ interest' = interest /\ sel \notin {"crashed"}
          /\ key[c] = "valid"
      BY <2>5 DEF Select, TasksDone, KeysDone, WriteFrame, WritePart, WriteFails,
                  WriteLoopEnds, WriteRetest, ServeEnds, StopServer, Close
    <3>2. CASE RunTask
      BY <2>2, <3>2
    <3>3. CASE ~RunTask
      BY <2>1, <3>1, <3>3
    <3> QED BY <3>2, <3>3
  <2>6. ASSUME NEW d \in Conns, HandleKey(d)
        PROVE  "W" \in interest'[c] \/ TaskComes(c)'
    <3>1. interest' = interest /\ sel = "keys" /\ key[c] = "valid"
      BY <2>6, SMTT(20) DEF HandleKey, ContinueRead, Close
    <3> QED BY <2>1, <3>1 DEF RunTask
  <2>7. ASSUME NEW d \in Conns, WorkerStep(d) \/ ClientStep(d)
        PROVE  "W" \in interest'[c] \/ TaskComes(c)'
    <3>1. UNCHANGED <<interest, sel, key>>
      BY <2>7 DEF WorkerStep, Process, AddFrame, QueueTask, Wakeup, Terminate,
                  ClientStep, Connect, ClientSend, ClientReceive, ClientLeave
    <3>2. CASE RunTask
      BY <2>2, <3>2
    <3>3. CASE ~RunTask
      BY <2>1, <3>1, <3>3
    <3> QED BY <3>2, <3>3
  <2>8. CASE UNCHANGED vars
    <3>1. UNCHANGED <<interest, sel, key>>
      BY <2>8 DEF vars
    <3>2. CASE RunTask
      BY <2>2, <3>2
    <3>3. CASE ~RunTask
      BY <2>1, <3>1, <3>3
    <3> QED BY <3>2, <3>3
  <2> QED
    BY <2>2, <2>3, <2>4, <2>5, <2>6, <2>7, <2>8 DEF Next, SelectorStep
<1> QED BY <1>1, <1>2

(***************************************************************************)
(* A frame in the write queue of an open connection is never forgotten,    *)
(* although workers add frames while the selector thread finds the queue   *)
(* empty and resets the interest (continueWrite, updateInterestedOps).     *)
(***************************************************************************)
THEOREM NothingForgotten == Spec => []NoLostWrite
<1>1. Init => Reached /\ DecidedOnEmpty /\ NoLostWrite
  BY DEF Init, Reached, DecidedOnEmpty, NoLostWrite
<1> QED
  BY <1>1, ReachedStep, DecidedStep, WriteStep, TypeCorrect, PTL DEF Spec
=============================================================================
