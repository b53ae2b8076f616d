------------------------- MODULE StompBrokerProofs -------------------------
(***************************************************************************)
(* Proofs about StompBroker for any connections, users, passwords, topics  *)
(* and any number of requests.  What concerns logins, and one order of     *)
(* messages for all, is proved for a pool of one thread, PoolSize = 1;     *)
(* with two threads TLC finds a second session of one user.                *)
(***************************************************************************)
EXTENDS StompBroker, FiniteSetTheorems, TLAPS

\* A frame that comes in has what its command needs.
LEMMA IncomingComplete ==
    ASSUME NEW r \in Incoming
    PROVE  /\ r \in Request
           /\ r.cmd \in {"CONNECT", "SUBSCRIBE", "UNSUBSCRIBE", "SEND",
                         "DISCONNECT", "malformed"}
           /\ r.cmd = "CONNECT" => r.user \in Users /\ r.pass \in Passwords
           /\ r.cmd \in {"SUBSCRIBE", "UNSUBSCRIBE", "SEND"} => r.topic \in Topics
  BY BrokerAssumption DEF Incoming, FrameWith, Request

\* Numbering a frame leaves its other fields as they are.
LEMMA IncomingRequest ==
    ASSUME NEW r \in Incoming, NEW n \in Nat
    PROVE  /\ [r EXCEPT !.n = n] \in Request
           /\ [r EXCEPT !.n = n].cmd = r.cmd
           /\ [r EXCEPT !.n = n].user = r.user
           /\ [r EXCEPT !.n = n].pass = r.pass
           /\ [r EXCEPT !.n = n].topic = r.topic
  BY IncomingComplete DEF Request, FrameWith

\* What process sends is a frame.
LEMMA FrameType ==
    ASSUME TypeOK, NEW c \in Conns,
           NEW type \in {"CONNECTED", "RECEIPT", "ERROR", "MESSAGE"}
    PROVE  FrameOf(c, type) \in Frame
<1>1. req[c].n \in Nat
  BY DEF TypeOK, Request, FrameWith
<1> QED BY <1>1 DEF FrameOf, Frame

(***************************************************************************)
(* Every variable keeps its type; a step of processConnect has a user and  *)
(* a password, one of a topic command a topic, and the loop of send a      *)
(* subscriber to go to.                                                    *)
(***************************************************************************)
THEOREM TypeCorrect == Spec => []TypeOK
<1>1. Init => TypeOK
  <2> SUFFICES ASSUME Init PROVE TypeOK
    OBVIOUS
  <2>1. shouldTerminate \in [Conns -> BOOLEAN]
    BY Zenon DEF Init
  <2>2. NoRequest \in Request
    BY DEF NoRequest, Request, FrameWith
  <2>3. req \in [Conns -> Request]
    BY <2>2 DEF Init
  <2>4. outbox \in [Conns -> Seq(Frame)]
    BY DEF Init
  <2>5. pc \in [Conns -> Steps] /\ \A c \in Conns : pc[c] = "idle"
    BY DEF Init, Steps
  <2>6. /\ registeredUsers \in [Users -> Passwords \cup {None}]
        /\ activeConnections \in [Users -> Conns \cup {None}]
        /\ channels \in [Topics -> SUBSET Conns]
        /\ next \in [Conns -> Conns \cup {None}]
        /\ visited \in [Conns -> SUBSET Conns]
        /\ due \in [Conns -> SUBSET Conns]
    BY DEF Init
  <2> QED BY <2>1, <2>3, <2>4, <2>5, <2>6 DEF Init, TypeOK
<1>2. TypeOK /\ [Next]_vars => TypeOK'
  <2> SUFFICES ASSUME TypeOK, [Next]_vars PROVE TypeOK'
    OBVIOUS
  <2> USE BrokerAssumption DEF TypeOK, Steps, Goto
  <2>1. ASSUME NEW c \in Conns, Accept(c) PROVE TypeOK'
    <3>1. shouldTerminate' \in [Conns -> BOOLEAN]
      BY <2>1, Zenon DEF Accept
    <3> QED BY <2>1, <3>1 DEF Accept, userVars, topicVars
  <2>2. ASSUME NEW c \in Conns, NEW r \in Incoming, Receive(c, r) PROVE TypeOK'
    <3> DEFINE q == [r EXCEPT !.n = received + 1]
    <3>0. received + 1 \in Nat
      OBVIOUS
    <3>1. /\ q \in Request
          /\ q.cmd = r.cmd /\ q.user = r.user /\ q.pass = r.pass
          /\ q.topic = r.topic
      BY <3>0, IncomingRequest
    <3>3. req' = [req EXCEPT ![c] = q] /\ pc' = [pc EXCEPT ![c] = r.cmd]
      BY <2>2 DEF Receive
    <3>4. req' \in [Conns -> Request] /\ pc' \in [Conns -> Steps]
      BY <3>1, <3>3, IncomingComplete
    <3>5. /\ received' \in Nat
          /\ due' \in [Conns -> SUBSET Conns]
          /\ visited' \in [Conns -> SUBSET Conns]
          /\ UNCHANGED <<clients, registeredUsers, activeConnections, sessions,
                         channels, next, shouldTerminate, outbox>>
      BY <2>2 DEF Receive, userVars
    <3>6. ASSUME NEW d \in Conns
          PROVE  /\ pc'[d] \in {"CONNECT", "password", "active", "register",
                                "activate"}
                      => req'[d].user \in Users /\ req'[d].pass \in Passwords
                 /\ pc'[d] \in {"SUBSCRIBE", "UNSUBSCRIBE", "SEND", "deliver"}
                      => req'[d].topic \in Topics
                 /\ pc'[d] = "deliver" => next'[d] \in Conns
      <4>1. CASE d = c
        BY <3>1, <3>3, <4>1, IncomingComplete, ZenonT(30)
      <4>2. CASE d # c
        BY <3>3, <3>5, <4>2
      <4> QED BY <4>1, <4>2
    <3> QED BY <3>4, <3>5, <3>6
  <2>3. ASSUME NEW c \in Conns, CheckRegistered(c) PROVE TypeOK'
    BY <2>3 DEF CheckRegistered, userVars, topicVars
  <2>4. ASSUME NEW c \in Conns, CheckPassword(c) PROVE TypeOK'
    BY <2>4 DEF CheckPassword, userVars, topicVars
  <2>5. ASSUME NEW c \in Conns, CheckActive(c) PROVE TypeOK'
    BY <2>5 DEF CheckActive, userVars, topicVars
  <2>6. ASSUME NEW c \in Conns, Register(c) PROVE TypeOK'
    BY <2>6 DEF Register, topicVars
  <2>7. ASSUME NEW c \in Conns, Activate(c) PROVE TypeOK'
    BY <2>7 DEF Activate, topicVars
  <2>8. ASSUME NEW c \in Conns, Subscribe(c) PROVE TypeOK'
    BY <2>8 DEF Subscribe, userVars
  <2>9. ASSUME NEW c \in Conns, Unsubscribe(c) PROVE TypeOK'
    <3>1. /\ channels' \in [Topics -> SUBSET Conns]
          /\ due' \in [Conns -> SUBSET Conns]
      <4>1. CASE UNCHANGED <<channels, due>>
        BY <4>1
      <4>2. ASSUME NEW t \in Topics, LeaveTopic(c, t)
            PROVE  /\ channels' \in [Topics -> SUBSET Conns]
                   /\ due' \in [Conns -> SUBSET Conns]
        BY <4>2 DEF LeaveTopic
      <4> QED BY <2>9, <4>1, <4>2 DEF Unsubscribe
    <3>2. /\ pc' \in [Conns -> Steps] /\ pc'[c] \in {"reply", "malformed"}
          /\ \A d \in Conns \ {c} : pc'[d] = pc[d]
      <4>1. pc' = [pc EXCEPT ![c] = "reply"] \/ pc' = [pc EXCEPT ![c] = "malformed"]
        BY <2>9 DEF Unsubscribe
      <4>2. CASE pc' = [pc EXCEPT ![c] = "reply"]
        BY <4>2
      <4>3. CASE pc' = [pc EXCEPT ![c] = "malformed"]
        BY <4>3
      <4> QED BY <4>1, <4>2, <4>3
    <3>3. /\ UNCHANGED <<clients, registeredUsers, activeConnections, sessions,
                         next, visited, shouldTerminate, req, outbox, received>>
      BY <2>9 DEF Unsubscribe, userVars
    <3> QED BY <3>1, <3>2, <3>3
  <2>10. ASSUME NEW c \in Conns, Send(c) PROVE TypeOK'
    <3>1. CASE c \in channels[req[c].topic]
      <4>1. /\ due' = [due EXCEPT ![c] = channels[req[c].topic]]
            /\ pc' = [pc EXCEPT ![c] = "deliver"]
            /\ \E d \in Conns : next' = [next EXCEPT ![c] = d]
            /\ req[c].topic \in Topics
            /\ channels[req[c].topic] \in SUBSET Conns
        BY <2>10, <3>1 DEF Send
      <4>2. PICK d \in Conns : next' = [next EXCEPT ![c] = d]
        BY <4>1
      <4>3. UNCHANGED <<clients, registeredUsers, activeConnections, sessions,
                        channels, visited, shouldTerminate, req, outbox,
                        received>>
        BY <2>10 DEF Send, userVars
      <4>4. /\ due' \in [Conns -> SUBSET Conns] /\ pc' \in [Conns -> Steps]
            /\ next' \in [Conns -> Conns \cup {None}]
            /\ pc'[c] = "deliver" /\ next'[c] \in Conns
            /\ \A e \in Conns \ {c} : pc'[e] = pc[e] /\ next'[e] = next[e]
        BY <4>1, <4>2
      <4> QED BY <4>1, <4>3, <4>4
    <3>2. CASE c \notin channels[req[c].topic]
      <4>1. /\ pc' = [pc EXCEPT ![c] = "malformed"]
            /\ UNCHANGED <<clients, registeredUsers, activeConnections, sessions,
                           channels, next, visited, due, shouldTerminate, req,
                           outbox, received>>
        BY <2>10, <3>2 DEF Send, userVars
      <4> QED BY <4>1
    <3> QED BY <3>1, <3>2
  <2>11. ASSUME NEW c \in Conns, Deliver(c) PROVE TypeOK'
    <3>1. FrameOf(c, "MESSAGE") \in Frame /\ next[c] \in Conns
      BY <2>11, FrameType DEF Deliver
    <3>2. outbox' \in [Conns -> Seq(Frame)] /\ visited' \in [Conns -> SUBSET Conns]
      BY <2>11, <3>1 DEF Deliver
    <3>3. /\ pc' \in [Conns -> Steps] /\ next' \in [Conns -> Conns \cup {None}]
          /\ \A d \in Conns \ {c} : pc'[d] = pc[d] /\ next'[d] = next[d]
          /\ pc'[c] \in {"deliver", "idle"}
          /\ pc'[c] = "deliver" => next'[c] \in Conns
      <4>1. \/ /\ \E d \in Conns : next' = [next EXCEPT ![c] = d]
               /\ pc' = [pc EXCEPT ![c] = "deliver"]
            \/ /\ next' = [next EXCEPT ![c] = None]
               /\ pc' = [pc EXCEPT ![c] = "idle"]
        BY <2>11 DEF Deliver, Advance
      <4>2. CASE \E d \in Conns : /\ next' = [next EXCEPT ![c] = d]
                                  /\ pc' = [pc EXCEPT ![c] = "deliver"]
        BY <4>2
      <4>3. CASE /\ next' = [next EXCEPT ![c] = None]
                 /\ pc' = [pc EXCEPT ![c] = "idle"]
        BY <4>3
      <4> QED BY <4>1, <4>2, <4>3
    <3> QED BY <2>11, <3>2, <3>3 DEF Deliver, userVars
  <2>12. ASSUME NEW c \in Conns, Disconnect(c) PROVE TypeOK'
    <3>1. shouldTerminate' \in [Conns -> BOOLEAN]
      BY <2>12, Zenon DEF Disconnect
    <3> QED BY <2>12, <3>1 DEF Disconnect, userVars, topicVars
  <2>13. ASSUME NEW c \in Conns, Reply(c) PROVE TypeOK'
    <3>1. /\ FrameOf(c, "RECEIPT") \in Frame
          /\ FrameOf(c, "CONNECTED") \in Frame
      BY FrameType
    <3> QED BY <2>13, <3>1 DEF Reply, userVars, topicVars
  <2>14. ASSUME NEW c \in Conns, HandleError(c) PROVE TypeOK'
    <3>1. FrameOf(c, "ERROR") \in Frame
      BY FrameType
    <3> QED BY <2>14, <3>1 DEF HandleError, userVars, topicVars
  <2>15. ASSUME NEW c \in Conns, Terminate(c) PROVE TypeOK'
    <3>1. shouldTerminate' \in [Conns -> BOOLEAN]
      BY <2>15, Zenon DEF Terminate
    <3> QED BY <2>15, <3>1 DEF Terminate, userVars, topicVars
  <2>16. CASE UNCHANGED vars
    BY <2>16 DEF vars, userVars, topicVars
  <2> QED
    BY <2>1, <2>2, <2>3, <2>4, <2>5, <2>6, <2>7, <2>8, <2>9, <2>10, <2>11,
       <2>12, <2>13, <2>14, <2>15, <2>16 DEF Next, Process
<1> QED BY <1>1, <1>2, PTL DEF Spec
-----------------------------------------------------------------------------
(***************************************************************************)
(* A connection whose message is being sent is a subscriber of the topic,  *)
(* however many threads the pool has: only its own thread, which is in the *)
(* loop, could remove it (processSend, ConnectionsImpl.send).              *)
(***************************************************************************)
LEMMA SenderStep == TypeOK /\ SenderIsSubscribed /\ [Next]_vars
                        => SenderIsSubscribed'
<1> SUFFICES ASSUME TypeOK, SenderIsSubscribed, [Next]_vars
             PROVE  SenderIsSubscribed'
  OBVIOUS
<1> USE DEF SenderIsSubscribed, Goto
\* Steps that leave the topics alone, do not enter the loop and change no
\* request of a connection that is in it.
<1>a. ASSUME NEW c \in Conns, channels' = channels,
             \A d \in Conns \ {c} : pc'[d] = pc[d] /\ req'[d] = req[d],
             pc'[c] # "deliver"
      PROVE  SenderIsSubscribed'
  BY <1>a
<1>1. ASSUME NEW c \in Conns, Accept(c) PROVE SenderIsSubscribed'
  BY <1>1 DEF Accept, topicVars
<1>2. ASSUME NEW c \in Conns, NEW r \in Incoming, Receive(c, r)
      PROVE  SenderIsSubscribed'
  <2>1. /\ channels' = channels /\ pc'[c] = r.cmd
        /\ \A d \in Conns \ {c} : pc'[d] = pc[d] /\ req'[d] = req[d]
    BY <1>2 DEF Receive, TypeOK
  <2> QED BY <2>1, <1>a, IncomingComplete
<1>3. ASSUME NEW c \in Conns,
             \/ CheckRegistered(c) \/ CheckPassword(c) \/ CheckActive(c)
             \/ Register(c) \/ Activate(c)
      PROVE  SenderIsSubscribed'
  BY <1>3 DEF CheckRegistered, CheckPassword, CheckActive, Register, Activate,
              TypeOK, topicVars
<1>4. ASSUME NEW c \in Conns,
             Disconnect(c) \/ Reply(c) \/ HandleError(c) \/ Terminate(c)
      PROVE  SenderIsSubscribed'
  BY <1>4 DEF Disconnect, Reply, HandleError, Terminate, TypeOK, topicVars
<1>5. ASSUME NEW c \in Conns, Subscribe(c) PROVE SenderIsSubscribed'
  <2>1. /\ \A t \in Topics : channels[t] \subseteq channels'[t]
        /\ \A d \in Conns \ {c} : pc'[d] = pc[d]
        /\ pc'[c] # "deliver" /\ req' = req
    BY <1>5 DEF Subscribe, TypeOK
  <2> QED BY <2>1 DEF TypeOK
<1>6. ASSUME NEW c \in Conns, Unsubscribe(c) PROVE SenderIsSubscribed'
  <2>1. /\ \A d \in Conns \ {c} : pc'[d] = pc[d]
        /\ pc'[c] # "deliver" /\ req' = req
    BY <1>6 DEF Unsubscribe, TypeOK
  <2>2. \A t \in Topics : channels[t] \ {c} \subseteq channels'[t]
    <3>1. CASE channels' = channels
      BY <3>1
    <3>2. ASSUME NEW t \in Topics, LeaveTopic(c, t)
          PROVE  \A u \in Topics : channels[u] \ {c} \subseteq channels'[u]
      BY <3>2 DEF LeaveTopic, TypeOK
    <3> QED BY <1>6, <3>1, <3>2 DEF Unsubscribe
  <2> QED BY <2>1, <2>2 DEF TypeOK
<1>7. ASSUME NEW c \in Conns, Send(c) PROVE SenderIsSubscribed'
  <2>1. /\ \A d \in Conns \ {c} : pc'[d] = pc[d]
        /\ req' = req /\ channels' = channels
        /\ pc'[c] = "deliver" => c \in channels[req[c].topic]
    BY <1>7 DEF Send, TypeOK
  <2> QED BY <2>1
<1>8. ASSUME NEW c \in Conns, Deliver(c) PROVE SenderIsSubscribed'
  <2>1. /\ \A d \in Conns \ {c} : pc'[d] = pc[d]
        /\ req' = req /\ channels' = channels /\ pc[c] = "deliver"
    BY <1>8 DEF Deliver, Advance, TypeOK
  <2> QED BY <2>1
<1>9. CASE UNCHANGED vars
  BY <1>9 DEF vars, topicVars
<1> QED
  BY <1>1, <1>2, <1>3, <1>4, <1>5, <1>6, <1>7, <1>8, <1>9 DEF Next, Process

THEOREM SenderHears == Spec => []SenderIsSubscribed
<1>1. Init => SenderIsSubscribed
  BY DEF Init, SenderIsSubscribed
<1> QED BY <1>1, SenderStep, TypeCorrect, PTL DEF Spec
-----------------------------------------------------------------------------
(* Logins, when one thread processes the frames *)

\* With one thread, one connection at a time is inside process.
OneBusy == \A c, d \in Conns : pc[c] # "idle" /\ pc[d] # "idle" => c = d

\* What a step of processConnect found is still so at the next step.
CheckedIsCurrent ==
    \A c \in Conns :
        LET u == req[c].user  p == req[c].pass IN
        /\ pc[c] = "register" => registeredUsers[u] = None
        /\ pc[c] = "active" => registeredUsers[u] = p
        /\ pc[c] = "activate" => /\ registeredUsers[u] = p
                                 /\ activeConnections[u] = None

\* Only a user with an account is active.
ActiveHasAccount ==
    \A u \in Users : registeredUsers[u] = None => activeConnections[u] = None

SessionsHold ==
    \A s \in sessions : /\ activeConnections[s.user] = s.conn
                        /\ registeredUsers[s.user] = s.pass

LoginInv == OneBusy /\ CheckedIsCurrent /\ ActiveHasAccount /\ SessionsHold

\* A step of processConnect or of the rest of process, but not its start.
Login(c) == CheckRegistered(c) \/ CheckPassword(c) \/ CheckActive(c)
                \/ Register(c) \/ Activate(c)

Other(c) == \/ Subscribe(c) \/ Unsubscribe(c) \/ Send(c) \/ Deliver(c)
            \/ Disconnect(c) \/ Reply(c) \/ HandleError(c) \/ Terminate(c)

\* Every other step leaves the tables of users alone and leads no connection
\* into processConnect.
LEMMA OtherStep ==
    ASSUME TypeOK, NEW c \in Conns, Other(c)
    PROVE  /\ UNCHANGED <<registeredUsers, activeConnections, sessions, req>>
           /\ pc[c] # "idle"
           /\ \A d \in Conns \ {c} : pc'[d] = pc[d]
           /\ pc'[c] \notin {"register", "active", "activate"}
<1> USE DEF TypeOK, Goto, userVars
<1>1. CASE Subscribe(c)
  BY <1>1 DEF Subscribe
<1>2. CASE Unsubscribe(c)
  BY <1>2 DEF Unsubscribe
<1>3. CASE Send(c)
  BY <1>3 DEF Send
<1>4. CASE Deliver(c)
  BY <1>4 DEF Deliver, Advance
<1>5. CASE Disconnect(c)
  BY <1>5 DEF Disconnect
<1>6. CASE Reply(c)
  BY <1>6 DEF Reply
<1>7. CASE HandleError(c)
  BY <1>7 DEF HandleError
<1>8. CASE Terminate(c)
  BY <1>8 DEF Terminate
<1> QED
  BY <1>1, <1>2, <1>3, <1>4, <1>5, <1>6, <1>7, <1>8 DEF Other

\* A step of processConnect goes on with what it found; only Register and
\* Activate write.
LEMMA LoginStep ==
    ASSUME TypeOK, NEW c \in Conns, Login(c)
    PROVE  /\ pc[c] # "idle" /\ req' = req
           /\ req[c].user \in Users /\ req[c].pass \in Passwords
           /\ \A d \in Conns \ {c} : pc'[d] = pc[d]
<1> USE DEF TypeOK, Goto, topicVars
<1>1. CASE CheckRegistered(c)
  BY <1>1 DEF CheckRegistered
<1>2. CASE CheckPassword(c)
  BY <1>2 DEF CheckPassword
<1>3. CASE CheckActive(c)
  BY <1>3 DEF CheckActive
<1>4. CASE Register(c)
  BY <1>4 DEF Register
<1>5. CASE Activate(c)
  BY <1>5 DEF Activate
<1> QED BY <1>1, <1>2, <1>3, <1>4, <1>5 DEF Login

\* A thread that is free means, with one thread, that nobody is in process.
LEMMA FreeThread ==
    ASSUME PoolSize = 1, Cardinality(Busy) < PoolSize
    PROVE  \A c \in Conns : pc[c] = "idle"
<1>1. IsFiniteSet(Busy)
  BY BrokerAssumption, FS_Subset DEF Busy
<1>2. Cardinality(Busy) \in Nat
  BY <1>1, FS_CardinalityType
<1>3. Busy = {}
  BY <1>1, <1>2, FS_EmptySet
<1> QED BY <1>3 DEF Busy

\* With one thread, a step keeps what was tested by a login.
LEMMA LoginInvStep ==
    ASSUME PoolSize = 1, TypeOK, LoginInv, [Next]_vars
    PROVE  LoginInv'
<1> USE BrokerAssumption
<1>1. ASSUME NEW c \in Conns, Accept(c) PROVE LoginInv'
  BY <1>1 DEF Accept, userVars, LoginInv, OneBusy, CheckedIsCurrent,
              ActiveHasAccount, SessionsHold
<1>2. ASSUME NEW c \in Conns, NEW r \in Incoming, Receive(c, r) PROVE LoginInv'
  <2>1. /\ \A d \in Conns : pc[d] = "idle"
        /\ UNCHANGED <<registeredUsers, activeConnections, sessions>>
    BY <1>2, FreeThread DEF Receive, userVars
  <2>2. /\ \A d \in Conns \ {c} : pc'[d] = "idle"
        /\ pc'[c] \notin {"register", "active", "activate"}
    BY <1>2, <2>1, IncomingComplete DEF Receive, TypeOK
  <2>3. OneBusy'
    BY <2>2 DEF OneBusy
  <2>4. CheckedIsCurrent'
    BY <2>2 DEF CheckedIsCurrent
  <2> QED BY <2>1, <2>3, <2>4 DEF LoginInv, ActiveHasAccount, SessionsHold
<1>3. ASSUME NEW c \in Conns, Other(c) PROVE LoginInv'
  <2>1. /\ UNCHANGED <<registeredUsers, activeConnections, sessions, req>>
        /\ pc[c] # "idle"
        /\ \A d \in Conns \ {c} : pc'[d] = pc[d]
        /\ pc'[c] \notin {"register", "active", "activate"}
    BY <1>3, OtherStep
  <2>2. OneBusy'
    BY <2>1 DEF OneBusy, LoginInv
  <2>3. CheckedIsCurrent'
    BY <2>1 DEF CheckedIsCurrent, LoginInv
  <2> QED BY <2>1, <2>2, <2>3 DEF LoginInv, ActiveHasAccount, SessionsHold
<1>4. ASSUME NEW c \in Conns, Login(c) PROVE LoginInv'
  <2>1. /\ pc[c] # "idle" /\ req' = req
        /\ req[c].user \in Users /\ req[c].pass \in Passwords
        /\ \A d \in Conns \ {c} : pc'[d] = pc[d]
    BY <1>4, LoginStep
  <2>2. \A d \in Conns \ {c} : pc[d] = "idle" /\ pc'[d] = "idle"
    BY <2>1 DEF LoginInv, OneBusy
  <2>3. OneBusy'
    BY <2>2 DEF OneBusy
  <2> DEFINE u == req[c].user
             p == req[c].pass
  <2>4. /\ pc[c] = "register" => registeredUsers[u] = None
        /\ pc[c] = "active" => registeredUsers[u] = p
        /\ pc[c] = "activate" => registeredUsers[u] = p /\ activeConnections[u] = None
    BY DEF LoginInv, CheckedIsCurrent
  <2>5. /\ pc'[c] = "register" => registeredUsers'[u] = None
        /\ pc'[c] = "active" => registeredUsers'[u] = p
        /\ pc'[c] = "activate" => registeredUsers'[u] = p /\ activeConnections'[u] = None
    <3> USE <1>4, <2>4 DEF Goto, TypeOK, userVars
    <3>1. CASE CheckRegistered(c)
      BY <3>1 DEF CheckRegistered
    <3>2. CASE CheckPassword(c)
      BY <3>2 DEF CheckPassword
    <3>3. CASE CheckActive(c)
      BY <3>3 DEF CheckActive
    <3>4. CASE Register(c)
      BY <2>1, <3>4 DEF Register, LoginInv, ActiveHasAccount
    <3>5. CASE Activate(c)
      BY <3>5 DEF Activate
    <3> QED BY <3>1, <3>2, <3>3, <3>4, <3>5 DEF Login
  <2>6. CheckedIsCurrent'
    BY <2>1, <2>2, <2>5 DEF CheckedIsCurrent
  <2>7. ActiveHasAccount' /\ SessionsHold'
    <3>1. CASE UNCHANGED <<registeredUsers, activeConnections, sessions>>
      BY <3>1 DEF LoginInv, ActiveHasAccount, SessionsHold
    <3>2. CASE Register(c)
      <4>1. /\ registeredUsers' = [registeredUsers EXCEPT ![u] = p]
            /\ registeredUsers[u] = None /\ p # None
            /\ UNCHANGED <<activeConnections, sessions>>
        BY <2>1, <2>4, <3>2 DEF Register
      <4>2. \A s \in sessions : s.user # u
        BY <2>1, <4>1 DEF LoginInv, SessionsHold, TypeOK
      <4> QED
        BY <2>1, <4>1, <4>2 DEF LoginInv, ActiveHasAccount, SessionsHold, TypeOK
    <3>3. CASE Activate(c)
      <4> DEFINE new == [conn |-> c, user |-> u, pass |-> p]
      <4>1. /\ activeConnections' = [activeConnections EXCEPT ![u] = c]
            /\ sessions' = sessions \cup {new}
            /\ registeredUsers' = registeredUsers
            /\ registeredUsers[u] = p /\ activeConnections[u] = None
            /\ p # None
        BY <2>1, <2>4, <3>3 DEF Activate
      <4>2. \A s \in sessions : s.user # u
        BY <2>1, <4>1 DEF LoginInv, SessionsHold, TypeOK
      <4>3. SessionsHold'
        BY <2>1, <4>1, <4>2 DEF LoginInv, SessionsHold, TypeOK
      <4>4. ActiveHasAccount'
        BY <2>1, <4>1 DEF LoginInv, ActiveHasAccount, TypeOK
      <4> QED BY <4>3, <4>4
    <3> QED
      BY <1>4, <3>1, <3>2, <3>3
      DEF Login, CheckRegistered, CheckPassword, CheckActive, userVars
  <2> QED BY <2>3, <2>6, <2>7 DEF LoginInv
<1>5. CASE UNCHANGED vars
  BY <1>5 DEF vars, userVars, LoginInv, OneBusy, CheckedIsCurrent,
              ActiveHasAccount, SessionsHold
<1> QED
  BY <1>1, <1>2, <1>3, <1>4, <1>5 DEF Next, Process, Login, Other

\* With one thread, the sessions and their tests agree at all times.
LEMMA LoginInvariance == ASSUME PoolSize = 1 PROVE Spec => []LoginInv
<1>1. Init => LoginInv
  BY DEF Init, LoginInv, OneBusy, CheckedIsCurrent, ActiveHasAccount, SessionsHold
<1>2. TypeOK /\ LoginInv /\ [Next]_vars => LoginInv'
  BY LoginInvStep
<1> QED BY <1>1, <1>2, TypeCorrect, PTL DEF Spec

(***************************************************************************)
(* With one thread in the pool a user has one session, on the connection   *)
(* that the table of active users names, with the registered password      *)
(* (processConnect).                                                       *)
(***************************************************************************)
THEOREM OneSession == ASSUME PoolSize = 1 PROVE Spec => []OneSessionPerUser
<1>1. TypeOK /\ LoginInv => OneSessionPerUser
  <2> SUFFICES ASSUME TypeOK, LoginInv PROVE OneSessionPerUser
    OBVIOUS
  <2>1. ASSUME NEW s \in sessions, NEW r \in sessions, s.user = r.user
        PROVE  s = r
    <3>1. s.conn = r.conn /\ s.pass = r.pass
      BY <2>1 DEF LoginInv, SessionsHold
    <3>2. /\ s = [conn |-> s.conn, user |-> s.user, pass |-> s.pass]
          /\ r = [conn |-> r.conn, user |-> r.user, pass |-> r.pass]
      BY DEF TypeOK
    <3> QED BY <2>1, <3>1, <3>2
  <2> QED BY <2>1 DEF OneSessionPerUser, LoginInv, SessionsHold
<1> QED BY <1>1, TypeCorrect, LoginInvariance, PTL

(***************************************************************************)
(* With one thread in the pool the broker implements LoginRegistry: a      *)
(* login is granted on the password of the account and while nobody holds  *)
(* it, and an account keeps its password.                                  *)
(***************************************************************************)
THEOREM Registration ==
    ASSUME PoolSize = 1 PROVE Spec => ImplementsLoginRegistry
<1>1. Init => Registry!Init
  BY DEF Init, Registry!Init
<1>2. TypeOK /\ LoginInv /\ [Next]_vars => [Registry!Next]_(Registry!vars)
  <2> SUFFICES ASSUME TypeOK, LoginInv, [Next]_vars
               PROVE  \/ Registry!Next
                      \/ UNCHANGED <<registeredUsers, activeConnections, sessions>>
    BY DEF Registry!vars
  <2>1. ASSUME NEW c \in Conns, Other(c)
        PROVE  UNCHANGED <<registeredUsers, activeConnections, sessions>>
    BY <2>1, OtherStep
  <2>2. ASSUME NEW c \in Conns,
               \/ Accept(c) \/ (\E r \in Incoming : Receive(c, r))
               \/ CheckRegistered(c) \/ CheckPassword(c) \/ CheckActive(c)
        PROVE  UNCHANGED <<registeredUsers, activeConnections, sessions>>
    BY <2>2
    DEF Accept, Receive, CheckRegistered, CheckPassword, CheckActive, userVars
  <2>3. ASSUME NEW c \in Conns, Register(c) PROVE Registry!Next
    <3>1. /\ registeredUsers[req[c].user] = None
          /\ req[c].user \in Users /\ req[c].pass \in Passwords
      BY <2>3 DEF Register, LoginInv, CheckedIsCurrent, TypeOK
    <3>2. Registry!Register(req[c].user, req[c].pass)
      BY <2>3, <3>1 DEF Register, Registry!Register
    <3> QED BY <3>1, <3>2 DEF Registry!Next
  <2>4. ASSUME NEW c \in Conns, Activate(c) PROVE Registry!Next
    <3>1. /\ registeredUsers[req[c].user] = req[c].pass
          /\ activeConnections[req[c].user] = None
          /\ req[c].user \in Users /\ req[c].pass \in Passwords
      BY <2>4 DEF Activate, LoginInv, CheckedIsCurrent, TypeOK
    <3>2. Registry!Login(c, req[c].user, req[c].pass)
      BY <2>4, <3>1 DEF Activate, Registry!Login
    <3> QED BY <3>1, <3>2 DEF Registry!Next
  <2>5. CASE UNCHANGED vars
    BY <2>5 DEF vars, userVars
  <2> QED BY <2>1, <2>2, <2>3, <2>4, <2>5 DEF Next, Process, Other
<1> QED
  BY <1>1, <1>2, TypeCorrect, LoginInvariance, PTL
  DEF Spec, ImplementsLoginRegistry, Registry!Spec
-----------------------------------------------------------------------------
(* Answers and messages, however many threads the pool has *)

\* Requests are numbered as they come in, and the one that is processed is
\* numbered.
Numbered ==
    \A c \in Conns : /\ req[c].n <= received
                     /\ pc[c] # "idle" => 0 < req[c].n

\* A connection has in its outbox no frame of a request that is still to come,
\* and one of the request that is processed only if that request is done with
\* it: it was answered, or the loop of send went there.
SentOnce ==
    \A d \in Conns : \A i \in 1..Len(outbox[d]) :
        LET f == outbox[d][i] IN
        /\ 0 < f.n
        /\ f.n <= req[f.from].n
        /\ f.n = req[f.from].n =>
              \/ pc[f.from] \in {"idle", "terminate"}
              \/ pc[f.from] = "deliver" /\ d \in visited[f.from]

\* The loop of send goes to nobody twice.
LoopGoesOn ==
    \A c \in Conns : /\ pc[c] = "SEND" => visited[c] = {}
                     /\ pc[c] = "deliver" => next[c] \notin visited[c]

\* Whom the loop went to has the message; it ends when nobody is due.
LoopDelivers ==
    \A c \in Conns : /\ \A d \in visited[c] : FrameOf(c, "MESSAGE") \in Sent(d)
                     /\ pc[c] # "deliver" => due[c] \subseteq visited[c]

OrderInv ==
    Numbered /\ SentOnce /\ LoopGoesOn /\ LoopDelivers /\ InRequestOrder

\* The steps that send nothing and neither start nor end the loop of send.
Quiet(c) == \/ Login(c) \/ Subscribe(c) \/ Unsubscribe(c) \/ Disconnect(c)
            \/ Send(c) /\ c \notin channels[req[c].topic]

\* What is in an outbox is a frame with its sender and number.
LEMMA SentIsTyped ==
    ASSUME TypeOK, NEW d \in Conns, NEW i \in 1..Len(outbox[d])
    PROVE  /\ outbox[d][i] \in Frame
           /\ outbox[d][i].from \in Conns /\ outbox[d][i].n \in Nat
<1>1. outbox[d] \in Seq(Frame)
  BY DEF TypeOK
<1>2. outbox[d][i] \in Frame
  BY <1>1
<1> QED BY <1>2 DEF Frame

\* A step that sends nothing and takes no request leaves the rest alone.
LEMMA QuietStep ==
    ASSUME TypeOK, NEW c \in Conns, Quiet(c)
    PROVE  /\ UNCHANGED <<outbox, req, visited, next, received>>
           /\ pc[c] \notin {"idle", "deliver", "terminate"}
           /\ pc'[c] \notin {"idle", "deliver", "terminate", "SEND"}
           /\ \A d \in Conns \ {c} : pc'[d] = pc[d]
           /\ \A d \in Conns : due'[d] \subseteq due[d]
<1> USE DEF TypeOK, Goto, topicVars
<1>1. CASE CheckRegistered(c)
  BY <1>1 DEF CheckRegistered
<1>2. CASE CheckPassword(c)
  BY <1>2 DEF CheckPassword
<1>3. CASE CheckActive(c)
  BY <1>3 DEF CheckActive
<1>4. CASE Register(c)
  BY <1>4 DEF Register
<1>5. CASE Activate(c)
  BY <1>5 DEF Activate
<1>6. CASE Subscribe(c)
  BY <1>6 DEF Subscribe
<1>7. CASE Unsubscribe(c)
  <2>1. \A d \in Conns : due'[d] \subseteq due[d]
    <3>1. CASE due' = due
      BY <3>1
    <3>2. ASSUME NEW t \in Topics, LeaveTopic(c, t)
          PROVE  \A d \in Conns : due'[d] \subseteq due[d]
      BY <3>2 DEF LeaveTopic
    <3> QED BY <1>7, <3>1, <3>2 DEF Unsubscribe
  <2> QED BY <1>7, <2>1 DEF Unsubscribe
<1>8. CASE Disconnect(c)
  BY <1>8 DEF Disconnect
<1>9. CASE Send(c) /\ c \notin channels[req[c].topic]
  BY <1>9 DEF Send
<1> QED
  BY <1>1, <1>2, <1>3, <1>4, <1>5, <1>6, <1>7, <1>8, <1>9 DEF Quiet, Login

\* What a frame at the end of an outbox leaves of it.
LEMMA Appended ==
    ASSUME TypeOK, NEW d \in Conns, NEW f \in Frame,
           outbox' = [outbox EXCEPT ![d] = Append(@, f)]
    PROVE  /\ \A e \in Conns \ {d} : outbox'[e] = outbox[e]
           /\ Len(outbox'[d]) = Len(outbox[d]) + 1
           /\ \A i \in 1..Len(outbox[d]) : outbox'[d][i] = outbox[d][i]
           /\ outbox'[d][Len(outbox[d]) + 1] = f
           /\ \A e \in Conns : Sent(e) \subseteq Sent(e)'
           /\ f \in Sent(d)'
<1>1. outbox[d] \in Seq(Frame) /\ outbox'[d] = Append(outbox[d], f)
  BY DEF TypeOK
<1>2. \A e \in Conns \ {d} : outbox'[e] = outbox[e]
  BY DEF TypeOK
<1>3. /\ Len(outbox'[d]) = Len(outbox[d]) + 1
      /\ \A i \in 1..Len(outbox[d]) : outbox'[d][i] = outbox[d][i]
      /\ outbox'[d][Len(outbox[d]) + 1] = f
      /\ Len(outbox[d]) \in Nat
  BY <1>1
<1>4. /\ 1..Len(outbox[d]) \subseteq 1..Len(outbox'[d])
      /\ Len(outbox[d]) + 1 \in 1..Len(outbox'[d])
  BY <1>3
<1>5. Sent(d) \subseteq Sent(d)' /\ f \in Sent(d)'
  BY <1>3, <1>4 DEF Sent
<1>6. \A e \in Conns \ {d} : Sent(e)' = Sent(e)
  BY <1>2 DEF Sent
<1> QED BY <1>2, <1>3, <1>5, <1>6

\* A frame of c that is the first one of its request in that outbox.
LEMMA FirstOfItsRequest ==
    ASSUME TypeOK, OrderInv, NEW c \in Conns, NEW d \in Conns,
           NEW type \in {"CONNECTED", "RECEIPT", "ERROR", "MESSAGE"},
           outbox' = [outbox EXCEPT ![d] = Append(@, FrameOf(c, type))],
           pc[c] \notin {"idle", "terminate"},
           pc[c] = "deliver" => d \notin visited[c]
    PROVE  InRequestOrder'
<1> DEFINE f == FrameOf(c, type)
<1>1. f \in Frame /\ f.from = c /\ f.n = req[c].n
  BY FrameType DEF FrameOf
<1>2. /\ \A e \in Conns \ {d} : outbox'[e] = outbox[e]
      /\ Len(outbox'[d]) = Len(outbox[d]) + 1 /\ Len(outbox[d]) \in Nat
      /\ \A i \in 1..Len(outbox[d]) : outbox'[d][i] = outbox[d][i]
      /\ outbox'[d][Len(outbox[d]) + 1] = f
  BY <1>1, Appended DEF TypeOK
<1>3. ASSUME NEW i \in 1..Len(outbox[d]), outbox[d][i].from = c
      PROVE  outbox[d][i].n < f.n
  <2>1. outbox[d][i] \in Frame
    BY DEF TypeOK
  <2>2. outbox[d][i].n \in Nat /\ f.n \in Nat
    BY <1>1, <2>1 DEF Frame
  <2>3. outbox[d][i].n <= f.n /\ outbox[d][i].n # f.n
    BY <1>1, <1>3 DEF OrderInv, SentOnce
  <2> QED BY <2>2, <2>3
<1>4. ASSUME NEW e \in Conns, NEW i \in 1..Len(outbox'[e]),
             NEW k \in 1..Len(outbox'[e]),
             i < k, outbox'[e][i].from = outbox'[e][k].from
      PROVE  outbox'[e][i].n < outbox'[e][k].n
  <2>1. CASE e # d
    BY <1>2, <1>4, <2>1 DEF OrderInv, InRequestOrder
  <2>2. CASE e = d /\ k <= Len(outbox[d])
    <3>1. i \in 1..Len(outbox[d]) /\ k \in 1..Len(outbox[d])
      BY <1>2, <1>4, <2>2
    <3> QED BY <1>2, <1>4, <2>2, <3>1 DEF OrderInv, InRequestOrder
  <2>3. CASE e = d /\ k = Len(outbox[d]) + 1
    <3>1. i \in 1..Len(outbox[d])
      BY <1>2, <1>4, <2>3
    <3> QED BY <1>1, <1>2, <1>3, <1>4, <2>3, <3>1
  <2> QED BY <1>2, <2>1, <2>2, <2>3
<1> QED BY <1>4 DEF InRequestOrder

\* A frame that is sent is the first of its request in that outbox.
LEMMA SentOnceKept ==
    ASSUME TypeOK, OrderInv, NEW c \in Conns, NEW d \in Conns,
           NEW type \in {"CONNECTED", "RECEIPT", "ERROR", "MESSAGE"},
           outbox' = [outbox EXCEPT ![d] = Append(@, FrameOf(c, type))],
           req' = req, pc[c] \notin {"idle", "terminate"},
           \A e \in Conns \ {c} : pc'[e] = pc[e] /\ visited'[e] = visited[e],
           visited[c] \subseteq visited'[c],
           \/ pc'[c] \in {"idle", "terminate"}
           \/ pc'[c] = "deliver" /\ d \in visited'[c]
    PROVE  SentOnce'
<1> DEFINE f == FrameOf(c, type)
<1>1. f \in Frame /\ f.from = c /\ f.n = req[c].n
  BY FrameType DEF FrameOf
<1>2. /\ \A e \in Conns \ {d} : outbox'[e] = outbox[e]
      /\ Len(outbox'[d]) = Len(outbox[d]) + 1 /\ Len(outbox[d]) \in Nat
      /\ \A i \in 1..Len(outbox[d]) : outbox'[d][i] = outbox[d][i]
      /\ outbox'[d][Len(outbox[d]) + 1] = f
  BY <1>1, Appended DEF TypeOK
<1>3. f.n \in Nat /\ 0 < f.n
  BY <1>1 DEF Frame, OrderInv, Numbered
<1>4. ASSUME NEW e \in Conns, NEW i \in 1..Len(outbox[e])
      PROVE  LET g == outbox[e][i] IN
             /\ 0 < g.n /\ g.n <= req'[g.from].n
             /\ g.n = req'[g.from].n =>
                   \/ pc'[g.from] \in {"idle", "terminate"}
                   \/ pc'[g.from] = "deliver" /\ e \in visited'[g.from]
  <2> DEFINE g == outbox[e][i]
  <2>1. g \in Frame
    BY DEF TypeOK
  <2>2. g.from \in Conns
    BY <2>1 DEF Frame
  <2>3. /\ 0 < g.n /\ g.n <= req[g.from].n
        /\ g.n = req[g.from].n =>
              \/ pc[g.from] \in {"idle", "terminate"}
              \/ pc[g.from] = "deliver" /\ e \in visited[g.from]
    BY DEF OrderInv, SentOnce
  <2>4. CASE g.from = c
    BY <2>3, <2>4
  <2>5. CASE g.from # c
    BY <2>2, <2>3, <2>5
  <2> QED BY <2>4, <2>5
<1>5. ASSUME NEW e \in Conns, NEW i \in 1..Len(outbox'[e])
      PROVE  \/ i \in 1..Len(outbox[e]) /\ outbox'[e][i] = outbox[e][i]
             \/ e = d /\ outbox'[e][i] = f
  <2>1. CASE e # d
    BY <1>2, <2>1
  <2>2. CASE e = d
    BY <1>2, <2>2
  <2> QED BY <2>1, <2>2
<1>6. /\ 0 < f.n /\ f.n <= req'[f.from].n
      /\ \/ pc'[f.from] \in {"idle", "terminate"}
         \/ pc'[f.from] = "deliver" /\ d \in visited'[f.from]
  <2>1. req'[f.from].n = f.n /\ f.n <= f.n
    BY <1>1, <1>3
  <2>2. \/ pc'[c] \in {"idle", "terminate"}
        \/ pc'[c] = "deliver" /\ d \in visited'[c]
    OBVIOUS
  <2> QED BY <1>1, <1>3, <2>1, <2>2
<1> QED BY <1>4, <1>5, <1>6 DEF SentOnce

\* A step keeps the requests numbered and what they sent in order.
LEMMA OrderInvStep == ASSUME TypeOK, OrderInv, [Next]_vars PROVE OrderInv'
<1>1. ASSUME NEW c \in Conns, Accept(c) PROVE OrderInv'
  BY <1>1 DEF Accept, OrderInv, Numbered, SentOnce, LoopGoesOn, LoopDelivers,
              InRequestOrder, FrameOf, Sent, topicVars
<1>2. ASSUME NEW c \in Conns, NEW r \in Incoming, Receive(c, r) PROVE OrderInv'
  <2>1. /\ req'[c].n = received + 1 /\ received' = received + 1
        /\ \A e \in Conns \ {c} : req'[e] = req[e]
    <3>1. req' = [req EXCEPT ![c] = [r EXCEPT !.n = received + 1]]
      BY <1>2 DEF Receive
    <3>2. [r EXCEPT !.n = received + 1].n = received + 1
      BY DEF Incoming, FrameWith
    <3> QED BY <1>2, <3>1, <3>2 DEF Receive, TypeOK
  <2>2. /\ pc'[c] = r.cmd /\ visited'[c] = {} /\ due'[c] = {}
        /\ \A e \in Conns \ {c} : /\ pc'[e] = pc[e] /\ visited'[e] = visited[e]
                                  /\ due'[e] = due[e]
        /\ outbox' = outbox /\ next' = next
    BY <1>2 DEF Receive, TypeOK
  <2>3. pc'[c] \notin {"idle", "deliver", "terminate"}
    BY <2>2, IncomingComplete
  <2>4. \A e \in Conns : req[e].n \in Nat /\ req[e].n <= received /\ received \in Nat
    BY DEF TypeOK, Request, FrameWith, OrderInv, Numbered
  <2>5. Numbered'
    BY <2>1, <2>2, <2>4 DEF OrderInv, Numbered
  <2>6. SentOnce'
    <3> SUFFICES ASSUME NEW d \in Conns, NEW i \in 1..Len(outbox[d])
                 PROVE  LET f == outbox[d][i] IN
                        /\ 0 < f.n
                        /\ f.n <= req'[f.from].n
                        /\ f.n = req'[f.from].n =>
                              \/ pc'[f.from] \in {"idle", "terminate"}
                              \/ pc'[f.from] = "deliver" /\ d \in visited'[f.from]
      BY <2>2 DEF SentOnce
    <3> DEFINE f == outbox[d][i]
    <3>1. f \in Frame
      BY DEF TypeOK
    <3>2. f.n \in Nat /\ f.from \in Conns
      BY <3>1 DEF Frame
    <3>3. /\ 0 < f.n
          /\ f.n <= req[f.from].n
          /\ f.n = req[f.from].n =>
                \/ pc[f.from] \in {"idle", "terminate"}
                \/ pc[f.from] = "deliver" /\ d \in visited[f.from]
      BY DEF OrderInv, SentOnce
    <3>4. CASE f.from = c
      BY <2>1, <2>4, <3>2, <3>3, <3>4
    <3>5. CASE f.from # c
      BY <2>1, <2>2, <3>2, <3>3, <3>5
    <3> QED BY <3>4, <3>5
  <2>7. LoopGoesOn'
    BY <2>2, <2>3 DEF OrderInv, LoopGoesOn
  <2>8. LoopDelivers'
    BY <2>1, <2>2 DEF OrderInv, LoopDelivers, FrameOf, Sent
  <2>9. InRequestOrder'
    BY <2>2 DEF OrderInv, InRequestOrder
  <2> QED BY <2>5, <2>6, <2>7, <2>8, <2>9 DEF OrderInv
<1>3. ASSUME NEW c \in Conns, Quiet(c) PROVE OrderInv'
  <2>1. /\ UNCHANGED <<outbox, req, visited, next, received>>
        /\ pc[c] \notin {"idle", "deliver", "terminate"}
        /\ pc'[c] \notin {"idle", "deliver", "terminate", "SEND"}
        /\ \A d \in Conns \ {c} : pc'[d] = pc[d]
        /\ \A d \in Conns : due'[d] \subseteq due[d]
    BY <1>3, QuietStep
  <2>2. Numbered'
    BY <2>1 DEF OrderInv, Numbered
  <2>3. SentOnce'
    <3>1. \A d \in Conns : \A i \in 1..Len(outbox[d]) : outbox[d][i].from \in Conns
      BY SentIsTyped
    <3> QED BY <2>1, <3>1 DEF OrderInv, SentOnce
  <2>4. LoopGoesOn'
    BY <2>1 DEF OrderInv, LoopGoesOn
  <2>5. LoopDelivers'
    BY <2>1 DEF OrderInv, LoopDelivers, FrameOf, Sent
  <2>6. InRequestOrder'
    BY <2>1 DEF OrderInv, InRequestOrder
  <2> QED BY <2>2, <2>3, <2>4, <2>5, <2>6 DEF OrderInv
<1>4. ASSUME NEW c \in Conns, Send(c), c \in channels[req[c].topic]
      PROVE  OrderInv'
  <2>1. /\ pc[c] = "SEND" /\ pc'[c] = "deliver"
        /\ \A d \in Conns \ {c} : pc'[d] = pc[d] /\ next'[d] = next[d]
                                    /\ due'[d] = due[d]
        /\ UNCHANGED <<outbox, req, visited, received>>
    BY <1>4 DEF Send, Goto, TypeOK
  <2>2. Numbered'
    BY <2>1 DEF OrderInv, Numbered
  <2>3. SentOnce'
    <3>1. \A d \in Conns : \A i \in 1..Len(outbox[d]) : outbox[d][i].from \in Conns
      BY SentIsTyped
    <3> QED BY <2>1, <3>1 DEF OrderInv, SentOnce
  <2>4. LoopGoesOn'
    BY <2>1 DEF OrderInv, LoopGoesOn
  <2>5. LoopDelivers'
    BY <2>1 DEF OrderInv, LoopDelivers, FrameOf, Sent
  <2>6. InRequestOrder'
    BY <2>1 DEF OrderInv, InRequestOrder
  <2> QED BY <2>2, <2>3, <2>4, <2>5, <2>6 DEF OrderInv
<1>5. ASSUME NEW c \in Conns, Deliver(c) PROVE OrderInv'
  <2>0. next[c] \in Conns
    BY <1>5 DEF Deliver, TypeOK
  <2> PICK d \in Conns : d = next[c]
    BY <2>0
  <2>1. /\ pc[c] = "deliver" /\ pc'[c] \in {"deliver", "idle"}
        /\ pc'[c] = "deliver" => next'[c] \notin visited'[c]
        /\ pc'[c] = "idle" => due[c] \subseteq visited'[c]
        /\ visited'[c] = visited[c] \cup {d}
        /\ \A e \in Conns \ {c} : /\ pc'[e] = pc[e] /\ next'[e] = next[e]
                                  /\ visited'[e] = visited[e]
        /\ outbox' = [outbox EXCEPT ![d] = Append(@, FrameOf(c, "MESSAGE"))]
        /\ UNCHANGED <<req, received, due>>
    <3>1. /\ pc[c] = "deliver"
          /\ outbox' = [outbox EXCEPT ![d] = Append(@, FrameOf(c, "MESSAGE"))]
          /\ visited' = [visited EXCEPT ![c] = @ \cup {d}]
          /\ Advance(c, visited'[c])
          /\ UNCHANGED <<req, received, due>>
      BY <1>5 DEF Deliver, TypeOK
    <3>2. /\ visited'[c] = visited[c] \cup {d}
          /\ \A e \in Conns \ {c} : visited'[e] = visited[e]
      BY <3>1 DEF TypeOK
    <3>3. /\ pc'[c] \in {"deliver", "idle"}
          /\ pc'[c] = "deliver" => next'[c] \notin visited'[c]
          /\ pc'[c] = "idle" => due[c] \subseteq visited'[c]
          /\ \A e \in Conns \ {c} : pc'[e] = pc[e] /\ next'[e] = next[e]
      BY <3>1 DEF Advance, Goto, TypeOK
    <3> QED BY <3>1, <3>2, <3>3
  <2>2. d \notin visited[c]
    BY <2>1 DEF OrderInv, LoopGoesOn
  <2>3. FrameOf(c, "MESSAGE") \in Frame
    BY FrameType
  <2>4. Numbered'
    BY <2>1 DEF OrderInv, Numbered
  <2>5. SentOnce'
    BY <2>1, SentOnceKept
  <2>6. LoopGoesOn'
    BY <2>1 DEF OrderInv, LoopGoesOn
  <2>7. LoopDelivers'
    <3>1. /\ \A e \in Conns : Sent(e) \subseteq Sent(e)'
          /\ FrameOf(c, "MESSAGE") \in Sent(d)'
      BY <2>1, <2>3, Appended
    <3>2. \A b \in Conns : FrameOf(b, "MESSAGE")' = FrameOf(b, "MESSAGE")
      BY <2>1 DEF FrameOf
    <3>3. ASSUME NEW b \in Conns
          PROVE  /\ \A e \in visited'[b] : FrameOf(b, "MESSAGE") \in Sent(e)'
                 /\ pc'[b] # "deliver" => due[b] \subseteq visited'[b]
      <4>1. /\ visited[b] \subseteq Conns
            /\ \A e \in visited[b] : FrameOf(b, "MESSAGE") \in Sent(e)
            /\ pc[b] # "deliver" => due[b] \subseteq visited[b]
        BY DEF TypeOK, OrderInv, LoopDelivers
      <4>2. CASE b = c
        BY <2>1, <3>1, <4>1, <4>2
      <4>3. CASE b # c
        BY <2>1, <3>1, <4>1, <4>3
      <4> QED BY <4>2, <4>3
    <3> QED BY <2>1, <3>2, <3>3 DEF LoopDelivers
  <2>8. InRequestOrder'
    BY <2>1, <2>2, FirstOfItsRequest
  <2> QED BY <2>4, <2>5, <2>6, <2>7, <2>8 DEF OrderInv
<1>6. ASSUME NEW c \in Conns, Reply(c) \/ HandleError(c) PROVE OrderInv'
  <2>1. PICK type \in {"CONNECTED", "RECEIPT", "ERROR", "MESSAGE"} :
           outbox' = [outbox EXCEPT ![c] = Append(@, FrameOf(c, type))]
    BY <1>6 DEF Reply, HandleError
  <2>2. /\ pc[c] \in {"reply", "malformed"} /\ pc'[c] \in {"idle", "terminate"}
        /\ \A e \in Conns \ {c} : pc'[e] = pc[e]
        /\ UNCHANGED <<req, received, due, visited, next>>
    BY <1>6 DEF Reply, HandleError, Goto, TypeOK, topicVars
  <2>3. FrameOf(c, type) \in Frame
    BY FrameType
  <2>4. Numbered'
    BY <2>2 DEF OrderInv, Numbered
  <2>5. SentOnce'
    BY <2>1, <2>2, SentOnceKept
  <2>6. LoopGoesOn'
    BY <2>2 DEF OrderInv, LoopGoesOn
  <2>7. LoopDelivers'
    <3>1. \A e \in Conns : Sent(e) \subseteq Sent(e)'
      BY <2>1, <2>3, Appended
    <3>2. \A b \in Conns : FrameOf(b, "MESSAGE")' = FrameOf(b, "MESSAGE")
      BY <2>2 DEF FrameOf
    <3>3. \A b \in Conns : visited[b] \subseteq Conns
      BY DEF TypeOK
    <3> QED BY <2>2, <3>1, <3>2, <3>3 DEF OrderInv, LoopDelivers
  <2>8. InRequestOrder'
    BY <2>1, <2>2, FirstOfItsRequest
  <2> QED BY <2>4, <2>5, <2>6, <2>7, <2>8 DEF OrderInv
<1>7. ASSUME NEW c \in Conns, Terminate(c) PROVE OrderInv'
  <2>1. /\ pc[c] = "terminate" /\ pc'[c] = "idle"
        /\ \A d \in Conns \ {c} : pc'[d] = pc[d]
        /\ UNCHANGED <<outbox, req, visited, next, received, due>>
    BY <1>7 DEF Terminate, Goto, TypeOK, topicVars
  <2>2. \A d \in Conns : \A i \in 1..Len(outbox[d]) : outbox[d][i].from \in Conns
    BY SentIsTyped
  <2>3. Numbered' /\ LoopGoesOn' /\ InRequestOrder'
    BY <2>1 DEF OrderInv, Numbered, LoopGoesOn, InRequestOrder
  <2>4. SentOnce'
    BY <2>1, <2>2 DEF OrderInv, SentOnce
  <2>5. LoopDelivers'
    BY <2>1 DEF OrderInv, LoopDelivers, FrameOf, Sent
  <2> QED BY <2>3, <2>4, <2>5 DEF OrderInv
<1>8. CASE UNCHANGED vars
  BY <1>8 DEF vars, topicVars, OrderInv, Numbered, SentOnce, LoopGoesOn,
              LoopDelivers, InRequestOrder, FrameOf, Sent
<1> QED
  BY <1>1, <1>2, <1>3, <1>4, <1>5, <1>6, <1>7, <1>8
  DEF Next, Process, Quiet, Login

\* They are at all times.
LEMMA OrderInvariance == Spec => []OrderInv
<1>1. Init => OrderInv
  BY BrokerAssumption
  DEF Init, OrderInv, Numbered, SentOnce, LoopGoesOn, LoopDelivers,
      InRequestOrder, NoRequest
<1>2. TypeOK /\ OrderInv /\ [Next]_vars => OrderInv'
  BY OrderInvStep
<1> QED BY <1>1, <1>2, TypeCorrect, PTL DEF Spec

(***************************************************************************)
(* What one connection causes arrives everywhere in the order of its       *)
(* requests, at most one frame of a request at each connection, however    *)
(* many threads process frames (process, send of both kinds).              *)
(***************************************************************************)
THEOREM RequestOrder == Spec => []InRequestOrder
<1>1. OrderInv => InRequestOrder
  BY DEF OrderInv
<1> QED BY <1>1, OrderInvariance, PTL

(***************************************************************************)
(* A SEND that is over reached every connection that was subscribed all    *)
(* the time, while others came and went (ConnectionsImpl.send).            *)
(***************************************************************************)
THEOREM SubscribersReached == Spec => []SendReachesSubscribers
<1>1. OrderInv => SendReachesSubscribers
  BY DEF OrderInv, LoopDelivers, SendReachesSubscribers
<1> QED BY <1>1, OrderInvariance, PTL

-----------------------------------------------------------------------------
(* One thread *)

\* The request that is processed came in last, requests have numbers of their
\* own, and every outbox has its frames in the order of the requests.
LastIsProcessed == \A c \in Conns : pc[c] # "idle" => req[c].n = received

OwnNumbers ==
    \A b, c \in Conns : 0 < req[c].n /\ req[b].n = req[c].n => b = c

Rising ==
    \A d \in Conns : \A i, k \in 1..Len(outbox[d]) :
        i < k => outbox[d][i].n < outbox[d][k].n

OneThreadInv == LastIsProcessed /\ OwnNumbers /\ Rising

\* A step of process sends nothing, or one frame of the request that it
\* processes to a connection that has none of it.
LEMMA ProcessStep ==
    ASSUME TypeOK, OrderInv, NEW c \in Conns, Process(c)
    PROVE  /\ pc[c] # "idle" /\ UNCHANGED <<req, received>>
           /\ \A b \in Conns \ {c} : pc'[b] = pc[b]
           /\ \/ outbox' = outbox
              \/ \E d \in Conns,
                    type \in {"CONNECTED", "RECEIPT", "ERROR", "MESSAGE"} :
                 /\ outbox' = [outbox EXCEPT ![d] = Append(@, FrameOf(c, type))]
                 /\ pc[c] \notin {"idle", "terminate"}
                 /\ pc[c] = "deliver" => d \notin visited[c]
<1>1. CASE Quiet(c)
  BY <1>1, QuietStep
<1>2. CASE Send(c) /\ c \in channels[req[c].topic]
  BY <1>2 DEF Send, Goto, TypeOK
<1>3. CASE Deliver(c)
  <2>1. /\ next[c] \in Conns /\ next[c] \notin visited[c] /\ pc[c] = "deliver"
        /\ outbox' = [outbox EXCEPT ![next[c]] = Append(@, FrameOf(c, "MESSAGE"))]
        /\ UNCHANGED <<req, received>>
    BY <1>3 DEF Deliver, TypeOK, OrderInv, LoopGoesOn
  <2>2. \A b \in Conns \ {c} : pc'[b] = pc[b]
    BY <1>3 DEF Deliver, Advance, Goto, TypeOK
  <2> QED BY <2>1, <2>2
<1>4. CASE Reply(c) \/ HandleError(c)
  <2>1. \E type \in {"CONNECTED", "RECEIPT", "ERROR", "MESSAGE"} :
           outbox' = [outbox EXCEPT ![c] = Append(@, FrameOf(c, type))]
    BY <1>4 DEF Reply, HandleError
  <2>2. /\ pc[c] \in {"reply", "malformed"} /\ UNCHANGED <<req, received>>
        /\ \A b \in Conns \ {c} : pc'[b] = pc[b]
    BY <1>4 DEF Reply, HandleError, Goto, TypeOK
  <2> QED BY <2>1, <2>2
<1>5. CASE Terminate(c)
  BY <1>5 DEF Terminate, Goto, TypeOK
<1> QED BY <1>1, <1>2, <1>3, <1>4, <1>5 DEF Process, Quiet, Login

\* With one thread, a step sends what is younger than all that was sent.
LEMMA OneThreadInvStep ==
    ASSUME PoolSize = 1, TypeOK, OrderInv, OneThreadInv, [Next]_vars
    PROVE  OneThreadInv'
<1>0. /\ received \in Nat
      /\ \A c \in Conns : req[c].n \in Nat /\ req[c].n <= received
  BY DEF TypeOK, Request, FrameWith, OrderInv, Numbered
<1>1. ASSUME NEW c \in Conns, Accept(c) PROVE OneThreadInv'
  BY <1>1 DEF Accept, OneThreadInv, LastIsProcessed, OwnNumbers, Rising
<1>2. ASSUME NEW c \in Conns, NEW r \in Incoming, Receive(c, r)
      PROVE  OneThreadInv'
  <2>1. /\ \A d \in Conns : pc[d] = "idle"
        /\ outbox' = outbox /\ received' = received + 1
        /\ \A d \in Conns \ {c} : pc'[d] = pc[d] /\ req'[d] = req[d]
    BY <1>2, FreeThread DEF Receive, TypeOK
  <2>2. req'[c].n = received + 1
    <3>1. req' = [req EXCEPT ![c] = [r EXCEPT !.n = received + 1]]
      BY <1>2 DEF Receive
    <3>2. [r EXCEPT !.n = received + 1].n = received + 1
      BY DEF Incoming, FrameWith
    <3> QED BY <3>1, <3>2 DEF TypeOK
  <2>3. LastIsProcessed'
    BY <2>1, <2>2 DEF LastIsProcessed
  <2>4. OwnNumbers'
    BY <1>0, <2>1, <2>2 DEF OneThreadInv, OwnNumbers
  <2>5. Rising'
    BY <2>1 DEF OneThreadInv, Rising
  <2> QED BY <2>3, <2>4, <2>5 DEF OneThreadInv
<1>3. ASSUME NEW c \in Conns, Process(c) PROVE OneThreadInv'
  <2>1. /\ pc[c] # "idle" /\ UNCHANGED <<req, received>>
        /\ \A b \in Conns \ {c} : pc'[b] = pc[b]
    BY <1>3, ProcessStep
  <2>2. LastIsProcessed' /\ OwnNumbers'
    BY <2>1 DEF OneThreadInv, LastIsProcessed, OwnNumbers
  <2>3. CASE outbox' = outbox
    BY <2>2, <2>3 DEF OneThreadInv, Rising
  <2>4. CASE outbox' # outbox
    <3>1. PICK d \in Conns,
               type \in {"CONNECTED", "RECEIPT", "ERROR", "MESSAGE"} :
             /\ outbox' = [outbox EXCEPT ![d] = Append(@, FrameOf(c, type))]
             /\ pc[c] \notin {"idle", "terminate"}
             /\ pc[c] = "deliver" => d \notin visited[c]
      BY <1>3, <2>4, ProcessStep
    <3>2. FrameOf(c, type) \in Frame /\ FrameOf(c, type).n = received
      BY <2>1, FrameType DEF FrameOf, OneThreadInv, LastIsProcessed
    <3>3. /\ \A e \in Conns \ {d} : outbox'[e] = outbox[e]
          /\ Len(outbox'[d]) = Len(outbox[d]) + 1 /\ Len(outbox[d]) \in Nat
          /\ \A i \in 1..Len(outbox[d]) : outbox'[d][i] = outbox[d][i]
          /\ outbox'[d][Len(outbox[d]) + 1] = FrameOf(c, type)
      BY <3>1, <3>2, Appended DEF TypeOK
    <3>4. ASSUME NEW i \in 1..Len(outbox[d]) PROVE outbox[d][i].n < received
      <4> DEFINE f == outbox[d][i]
      <4>1. f.from \in Conns /\ f.n \in Nat
        BY SentIsTyped
      <4>2. /\ 0 < f.n /\ f.n <= req[f.from].n
            /\ f.n = req[f.from].n =>
                  \/ pc[f.from] \in {"idle", "terminate"}
                  \/ pc[f.from] = "deliver" /\ d \in visited[f.from]
        BY DEF OrderInv, SentOnce
      <4>3. ASSUME f.n = received PROVE FALSE
        <5>1. req[f.from].n = received /\ req[c].n = received /\ 0 < received
          BY <1>0, <2>1, <4>1, <4>2, <4>3 DEF OneThreadInv, LastIsProcessed
        <5>2. f.from = c
          BY <4>1, <5>1 DEF OneThreadInv, OwnNumbers
        <5> QED BY <3>1, <4>2, <4>3, <5>1, <5>2
      <4> QED BY <1>0, <4>1, <4>2, <4>3
    <3>5. ASSUME NEW e \in Conns, NEW i \in 1..Len(outbox'[e]),
                 NEW k \in 1..Len(outbox'[e]), i < k
          PROVE  outbox'[e][i].n < outbox'[e][k].n
      <4>1. CASE e # d
        BY <3>3, <3>5, <4>1 DEF OneThreadInv, Rising
      <4>2. CASE e = d /\ k <= Len(outbox[d])
        <5>1. i \in 1..Len(outbox[d]) /\ k \in 1..Len(outbox[d])
          BY <3>3, <3>5, <4>2
        <5> QED BY <3>3, <3>5, <4>2, <5>1 DEF OneThreadInv, Rising
      <4>3. CASE e = d /\ k = Len(outbox[d]) + 1
        <5>1. i \in 1..Len(outbox[d])
          BY <3>3, <3>5, <4>3
        <5> QED BY <3>2, <3>3, <3>4, <4>3, <5>1
      <4> QED BY <3>3, <4>1, <4>2, <4>3
    <3>6. Rising'
      BY <3>5 DEF Rising
    <3> QED BY <2>2, <3>6 DEF OneThreadInv
  <2> QED BY <2>3, <2>4
<1>4. CASE UNCHANGED vars
  BY <1>4 DEF vars, OneThreadInv, LastIsProcessed, OwnNumbers, Rising
<1> QED BY <1>1, <1>2, <1>3, <1>4 DEF Next

\* A frame that was sent is at its position.
LEMMA AtPosition ==
    ASSUME NEW d \in Conns, NEW f \in Sent(d)
    PROVE  /\ Position(d, f) \in 1..Len(outbox[d])
           /\ outbox[d][Position(d, f)] = f
<1>1. \E i \in 1..Len(outbox[d]) : outbox[d][i] = f
  BY DEF Sent
<1> QED BY <1>1 DEF Position

(***************************************************************************)
(* With one thread, two messages that two connections both got came in the *)
(* same order to both (ConnectionsImpl.send, one message after the other). *)
(***************************************************************************)
THEOREM SameOrder == ASSUME PoolSize = 1 PROVE Spec => []SameOrderEverywhere
<1>1. Init => OneThreadInv
  BY DEF Init, OneThreadInv, LastIsProcessed, OwnNumbers, Rising, NoRequest
<1>2. TypeOK /\ OrderInv /\ OneThreadInv /\ [Next]_vars => OneThreadInv'
  BY OneThreadInvStep
<1>3. TypeOK /\ OneThreadInv => SameOrderEverywhere
  <2> SUFFICES ASSUME TypeOK, OneThreadInv, NEW d \in Conns, NEW e \in Conns,
                      NEW f \in Sent(d) \cap Sent(e),
                      NEW g \in Sent(d) \cap Sent(e),
                      Position(d, f) < Position(d, g)
               PROVE  Position(e, f) < Position(e, g)
    BY DEF SameOrderEverywhere
  <2>1. f.n < g.n
    BY AtPosition DEF OneThreadInv, Rising
  <2> DEFINE i == Position(e, f)
             k == Position(e, g)
  <2>2. /\ i \in 1..Len(outbox[e]) /\ outbox[e][i] = f
        /\ k \in 1..Len(outbox[e]) /\ outbox[e][k] = g
    BY AtPosition
  <2>3. f.n \in Nat /\ g.n \in Nat
    BY <2>2, SentIsTyped
  <2>4. ~ k < i
    BY <2>1, <2>2, <2>3 DEF OneThreadInv, Rising
  <2>5. i \in Int /\ k \in Int /\ i # k
    BY <2>1, <2>2, <2>3 DEF TypeOK
  <2> QED BY <2>4, <2>5
<1> QED BY <1>1, <1>2, <1>3, TypeCorrect, OrderInvariance, PTL DEF Spec
=============================================================================
