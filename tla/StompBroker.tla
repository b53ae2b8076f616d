---------------------------- MODULE StompBroker ----------------------------
(***************************************************************************)
(* The STOMP broker: StompMessagingProtocolImpl, one object per connection *)
(* with static maps of users, over ConnectionsImpl, the table of handlers  *)
(* and topics that all connections share.                                  *)
(*                                                                         *)
(* A frame of a connection is processed by one thread, and the frames of a *)
(* connection one after the other (SerialActors); the pool of the reactor  *)
(* has PoolSize threads.  With PoolSize = Cardinality(Conns) this is also   *)
(* how the thread-per-client server processes frames, except that it takes *)
(* none of a connection after shouldTerminate.                             *)
(*                                                                         *)
(* A step is one access to a shared map or to a handler's queue; subscribe *)
(* and unsubscribe make several, but only the thread of a connection       *)
(* touches the membership of that connection, so they are one step each.   *)
(* Headers are the fields that matter: a frame that lacks a header is      *)
(* "malformed", except a SUBSCRIBE that only lacks its receipt.            *)
(***************************************************************************)
EXTENDS Naturals, Sequences, FiniteSets

CONSTANTS Conns, Users, Passwords, Topics,
          None,         \* no user, password, topic or connection
          Commands,     \* commands that clients use
          PoolSize,     \* threads that process frames
          MaxRequests   \* bound: frames received in a behaviour

ASSUME BrokerAssumption ==
    /\ IsFiniteSet(Conns)
    /\ None \notin Conns \cup Users \cup Passwords \cup Topics
    /\ Commands \subseteq {"CONNECT", "SUBSCRIBE", "UNSUBSCRIBE", "SEND",
                           "DISCONNECT", "malformed"}
    /\ PoolSize \in Nat \ {0}
    /\ MaxRequests \in Nat

VARIABLES
    clients,            \* connections that were accepted
    registeredUsers,    \* [Users -> Passwords \cup {None}]
    activeConnections,  \* [Users -> Conns \cup {None}]
    channels,           \* [Topics -> SUBSET Conns]
    shouldTerminate,    \* [Conns -> BOOLEAN]
    pc,                 \* [Conns -> step of process, "idle" between frames]
    req,                \* [Conns -> Request], the frame processed now or last
    next,               \* [Conns -> the subscriber a SEND goes to next]
    visited,            \* [Conns -> subscribers the SEND went to]
    due,                \* [Conns -> subscribers ever since the SEND started]
    outbox,             \* [Conns -> Seq(Frame)], frames given to the handler
    received,           \* number of frames received
    sessions            \* history: [conn, user, pass] of the answered logins

userVars   == <<registeredUsers, activeConnections, sessions>>
topicVars  == <<channels, next, visited, due>>
vars == <<clients, userVars, topicVars, shouldTerminate, pc, req, outbox,
          received>>

\* The frames of clients, numbered from N.
FrameWith(N) == [cmd : {"CONNECT", "SUBSCRIBE", "UNSUBSCRIBE", "SEND",
                        "DISCONNECT", "malformed"},
                 user : Users \cup {None}, pass : Passwords \cup {None},
                 topic : Topics \cup {None}, receipt : BOOLEAN, n : N]

Request == FrameWith(Nat)

\* A frame to a client names the request that caused it, by the connection it
\* came from and its number.
Frame == [type : {"CONNECTED", "RECEIPT", "ERROR", "MESSAGE"},
          from : Conns, n : Nat]

\* "malformed" is the call of handleError, whatever the error.
Steps == {"idle", "CONNECT", "password", "active", "register", "activate",
          "SUBSCRIBE", "UNSUBSCRIBE", "SEND", "deliver", "DISCONNECT",
          "reply", "malformed", "terminate"}

TypeOK ==
    /\ clients \in SUBSET Conns
    /\ registeredUsers \in [Users -> Passwords \cup {None}]
    /\ activeConnections \in [Users -> Conns \cup {None}]
    /\ channels \in [Topics -> SUBSET Conns]
    /\ shouldTerminate \in [Conns -> BOOLEAN]
    /\ pc \in [Conns -> Steps]
    /\ req \in [Conns -> Request]
    /\ next \in [Conns -> Conns \cup {None}]
    /\ visited \in [Conns -> SUBSET Conns]
    /\ due \in [Conns -> SUBSET Conns]
    /\ outbox \in [Conns -> Seq(Frame)]
    /\ received \in Nat
    /\ sessions \in SUBSET [conn : Conns, user : Users, pass : Passwords]
    /\ \A c \in Conns :
          /\ pc[c] \in {"CONNECT", "password", "active", "register", "activate"}
                => req[c].user \in Users /\ req[c].pass \in Passwords
          /\ pc[c] \in {"SUBSCRIBE", "UNSUBSCRIBE", "SEND", "deliver"}
                => req[c].topic \in Topics
          /\ pc[c] = "deliver" => next[c] \in Conns

NoRequest == [cmd |-> "malformed", user |-> None, pass |-> None,
              topic |-> None, receipt |-> FALSE, n |-> 0]

Init ==
    /\ clients = {}
    /\ registeredUsers = [u \in Users |-> None]
    /\ activeConnections = [u \in Users |-> None]
    /\ channels = [t \in Topics |-> {}]
    /\ shouldTerminate = [c \in Conns |-> FALSE]
    /\ pc = [c \in Conns |-> "idle"]
    /\ req = [c \in Conns |-> NoRequest]
    /\ next = [c \in Conns |-> None]
    /\ visited = [c \in Conns |-> {}]
    /\ due = [c \in Conns |-> {}]
    /\ outbox = [c \in Conns |-> <<>>]
    /\ received = 0
    /\ sessions = {}
-----------------------------------------------------------------------------
\* handleAccept of the reactor: addClient, then start.
Accept(c) ==
    /\ c \notin clients
    /\ clients' = clients \cup {c}
    /\ shouldTerminate' = [shouldTerminate EXCEPT ![c] = FALSE]
    /\ UNCHANGED <<userVars, topicVars, pc, req, outbox, received>>

\* The frames a client may send.  An UNSUBSCRIBE names the topic whose
\* subscription id it carries.
Incoming ==
    {r \in FrameWith({0}) :
        /\ r.user # None <=> r.cmd = "CONNECT"
        /\ r.pass # None <=> r.cmd = "CONNECT"
        /\ r.topic # None <=> r.cmd \in {"SUBSCRIBE", "UNSUBSCRIBE", "SEND"}
        /\ r.cmd # "SUBSCRIBE" =>
              (r.receipt <=> r.cmd \in {"UNSUBSCRIBE", "SEND", "DISCONNECT"})}

Busy == {c \in Conns : pc[c] # "idle"}

\* Mutant: a pool that grows with the load.
ReceiveUnbounded(c, r) ==
    /\ c \in clients
    /\ pc[c] = "idle"
    /\ r.cmd \in Commands
    /\ received < MaxRequests
    /\ received' = received + 1
    /\ req' = [req EXCEPT ![c] = [r EXCEPT !.n = received + 1]]
    /\ pc' = [pc EXCEPT ![c] = r.cmd]
    /\ due' = [due EXCEPT ![c] = {}]
    /\ visited' = [visited EXCEPT ![c] = {}]
    /\ UNCHANGED <<clients, userVars, channels, next, shouldTerminate, outbox>>

\* process: a thread of the pool takes the next frame of c.  Nothing asks
\* shouldTerminate here.
Receive(c, r) ==
    /\ c \in clients
    /\ pc[c] = "idle"
    /\ r.cmd \in Commands
    /\ received < MaxRequests
    /\ Cardinality(Busy) < PoolSize
    /\ received' = received + 1
    /\ req' = [req EXCEPT ![c] = [r EXCEPT !.n = received + 1]]
    /\ pc' = [pc EXCEPT ![c] = r.cmd]
    /\ due' = [due EXCEPT ![c] = {}]
    /\ visited' = [visited EXCEPT ![c] = {}]
    /\ UNCHANGED <<clients, userVars, channels, next, shouldTerminate, outbox>>

Goto(c, step) == pc' = [pc EXCEPT ![c] = step]
-----------------------------------------------------------------------------
(* processConnect *)

\* Mutant: the map of another object is asked, and every user seems new.
CheckRegisteredElsewhere(c) ==
    /\ pc[c] = "CONNECT"
    /\ Goto(c, "register")
    /\ UNCHANGED <<clients, userVars, topicVars, shouldTerminate, req, outbox,
                   received>>

\* registeredUsers.containsKey(username)
CheckRegistered(c) ==
    /\ pc[c] = "CONNECT"
    /\ Goto(c, IF registeredUsers[req[c].user] # None THEN "password"
                                                      ELSE "register")
    /\ UNCHANGED <<clients, userVars, topicVars, shouldTerminate, req, outbox,
                   received>>

\* "Wrong password"
CheckPassword(c) ==
    /\ pc[c] = "password"
    /\ Goto(c, IF registeredUsers[req[c].user] = req[c].pass THEN "active"
                                                             ELSE "malformed")
    /\ UNCHANGED <<clients, userVars, topicVars, shouldTerminate, req, outbox,
                   received>>

\* Mutant: whether the user is active is not asked.
CheckActiveSkipped(c) ==
    /\ pc[c] = "active"
    /\ Goto(c, "activate")
    /\ UNCHANGED <<clients, userVars, topicVars, shouldTerminate, req, outbox,
                   received>>

\* "User already logged in"
CheckActive(c) ==
    /\ pc[c] = "active"
    /\ Goto(c, IF activeConnections[req[c].user] = None THEN "activate"
                                                        ELSE "malformed")
    /\ UNCHANGED <<clients, userVars, topicVars, shouldTerminate, req, outbox,
                   received>>

Register(c) ==
    /\ pc[c] = "register"
    /\ registeredUsers' = [registeredUsers EXCEPT ![req[c].user] = req[c].pass]
    /\ Goto(c, "activate")
    /\ UNCHANGED <<clients, activeConnections, sessions, topicVars,
                   shouldTerminate, req, outbox, received>>

Activate(c) ==
    /\ pc[c] = "activate"
    /\ activeConnections' = [activeConnections EXCEPT ![req[c].user] = c]
    /\ sessions' = sessions \cup
          {[conn |-> c, user |-> req[c].user, pass |-> req[c].pass]}
    /\ Goto(c, "reply")
    /\ UNCHANGED <<clients, registeredUsers, topicVars, shouldTerminate, req,
                   outbox, received>>
-----------------------------------------------------------------------------
(* Topics *)

\* processSubscribe: the connection is subscribed before the receipt header
\* is looked at.
Subscribe(c) ==
    /\ pc[c] = "SUBSCRIBE"
    /\ LET t == req[c].topic IN
          /\ channels' = [channels EXCEPT ![t] = @ \cup {c}]
          /\ Goto(c, IF c \notin channels[t] /\ req[c].receipt THEN "reply"
                                                               ELSE "malformed")
    /\ UNCHANGED <<clients, userVars, next, visited, due, shouldTerminate, req,
                   outbox, received>>

\* c leaves topic t: a SEND to t in progress may or may not still reach it.
LeaveTopic(c, t) ==
    /\ channels' = [channels EXCEPT ![t] = @ \ {c}]
    /\ due' = [b \in Conns |-> IF req[b].topic = t THEN due[b] \ {c} ELSE due[b]]

\* processUnsubscribe: the id is passed where unsubscribe has its topic, and
\* unsubscribe removes c from the first topic it meets, whichever was meant.
Unsubscribe(c) ==
    /\ pc[c] = "UNSUBSCRIBE"
    /\ \/ /\ \E t \in Topics : c \in channels[t] /\ LeaveTopic(c, t)
          /\ Goto(c, "reply")
       \/ /\ \A t \in Topics : c \notin channels[t]
          /\ Goto(c, "malformed")
          /\ UNCHANGED <<channels, due>>
    /\ UNCHANGED <<clients, userVars, next, visited, shouldTerminate, req,
                   outbox, received>>

\* Mutant: any subscriber will do, the sender need not be one.
SendUnchecked(c) ==
    /\ pc[c] = "SEND"
    /\ LET S == channels[req[c].topic] IN
       \/ /\ \E d \in S : next' = [next EXCEPT ![c] = d]
          /\ due' = [due EXCEPT ![c] = S]
          /\ Goto(c, "deliver")
       \/ /\ S = {}
          /\ Goto(c, "malformed")
          /\ UNCHANGED <<next, due>>
    /\ UNCHANGED <<clients, userVars, channels, visited, shouldTerminate, req,
                   outbox, received>>

\* processSend up to the start of the iteration over the subscribers, of whom
\* the sender must be one.
Send(c) ==
    /\ pc[c] = "SEND"
    /\ LET S == channels[req[c].topic] IN
       \/ /\ c \in S
          /\ \E d \in S : next' = [next EXCEPT ![c] = d]
          /\ due' = [due EXCEPT ![c] = S]
          /\ Goto(c, "deliver")
       \/ /\ c \notin S
          /\ Goto(c, "malformed")
          /\ UNCHANGED <<next, due>>
    /\ UNCHANGED <<clients, userVars, channels, visited, shouldTerminate, req,
                   outbox, received>>

FrameOf(c, type) == [type |-> type, from |-> c, n |-> req[c].n]

\* Mutant: the loop does not stop at the end of the iterator.
AdvanceTooFar(c, met) ==
    \/ /\ \E d \in channels[req[c].topic] \ met : next' = [next EXCEPT ![c] = d]
       /\ Goto(c, "deliver")
    \/ /\ due[c] \subseteq met
       /\ next' = [next EXCEPT ![c] = None]
       /\ Goto(c, "deliver")

\* The iterator of the concurrent set moves on: to a subscriber it did not
\* meet, or to its end, which it cannot reach before it met all that stay.
Advance(c, met) ==
    \/ /\ \E d \in channels[req[c].topic] \ met : next' = [next EXCEPT ![c] = d]
       /\ Goto(c, "deliver")
    \/ /\ due[c] \subseteq met
       /\ next' = [next EXCEPT ![c] = None]
       /\ Goto(c, "idle")

\* Mutant: the sender is left out.
DeliverToOthers(c) ==
    /\ pc[c] = "deliver"
    /\ outbox' = IF next[c] = c THEN outbox
                 ELSE [outbox EXCEPT ![next[c]] = Append(@, FrameOf(c, "MESSAGE"))]
    /\ visited' = [visited EXCEPT ![c] = @ \cup {next[c]}]
    /\ Advance(c, visited'[c])
    /\ UNCHANGED <<clients, userVars, channels, due, shouldTerminate, req,
                   received>>

\* One turn of the loop in send(channel, msg).
Deliver(c) ==
    /\ pc[c] = "deliver"
    /\ outbox' = [outbox EXCEPT ![next[c]] = Append(@, FrameOf(c, "MESSAGE"))]
    /\ visited' = [visited EXCEPT ![c] = @ \cup {next[c]}]
    /\ Advance(c, visited'[c])
    /\ UNCHANGED <<clients, userVars, channels, due, shouldTerminate, req,
                   received>>
-----------------------------------------------------------------------------
(* Answers *)

\* processDisconnect: the user stays active and the subscriptions stay.
Disconnect(c) ==
    /\ pc[c] = "DISCONNECT"
    /\ shouldTerminate' = [shouldTerminate EXCEPT ![c] = TRUE]
    /\ Goto(c, "reply")
    /\ UNCHANGED <<clients, userVars, topicVars, req, outbox, received>>

\* Mutant: the answer is sent and returned as well, as the processUnsubscribe
\* that is commented out does.
ReplyTwice(c) ==
    /\ pc[c] = "reply"
    /\ LET f == FrameOf(c, "RECEIPT") IN
          outbox' = [outbox EXCEPT ![c] = @ \o <<f, f>>]
    /\ Goto(c, "idle")
    /\ UNCHANGED <<clients, userVars, topicVars, shouldTerminate, req, received>>

\* The frame that process returned goes to the handler.
Reply(c) ==
    /\ pc[c] = "reply"
    /\ LET type == IF req[c].cmd = "CONNECT" THEN "CONNECTED" ELSE "RECEIPT" IN
          outbox' = [outbox EXCEPT ![c] = Append(@, FrameOf(c, type))]
    /\ Goto(c, "idle")
    /\ UNCHANGED <<clients, userVars, topicVars, shouldTerminate, req, received>>

\* handleError: the ERROR frame, ...
HandleError(c) ==
    /\ pc[c] = "malformed"
    /\ outbox' = [outbox EXCEPT ![c] = Append(@, FrameOf(c, "ERROR"))]
    /\ Goto(c, "terminate")
    /\ UNCHANGED <<clients, userVars, topicVars, shouldTerminate, req, received>>

\* ... then shouldTerminate.
Terminate(c) ==
    /\ pc[c] = "terminate"
    /\ shouldTerminate' = [shouldTerminate EXCEPT ![c] = TRUE]
    /\ Goto(c, "idle")
    /\ UNCHANGED <<clients, userVars, topicVars, req, outbox, received>>
-----------------------------------------------------------------------------
Process(c) ==
    \/ CheckRegistered(c)
    \/ CheckPassword(c)
    \/ CheckActive(c)
    \/ Register(c)
    \/ Activate(c)
    \/ Subscribe(c)
    \/ Unsubscribe(c)
    \/ Send(c)
    \/ Deliver(c)
    \/ Disconnect(c)
    \/ Reply(c)
    \/ HandleError(c)
    \/ Terminate(c)

Next ==
    \E c \in Conns :
        \/ Accept(c)
        \/ \E r \in Incoming : Receive(c, r)
        \/ Process(c)

Spec == Init /\ [][Next]_vars
-----------------------------------------------------------------------------
(* Properties *)

Sent(d) == {outbox[d][i] : i \in 1..Len(outbox[d])}

Position(d, f) == CHOOSE i \in 1..Len(outbox[d]) : outbox[d][i] = f

\* A user has one session, whose password is the registered one, and the
\* table of active users says whose it is ("User already logged in").
OneSessionPerUser ==
    /\ \A s, r \in sessions : s.user = r.user => s = r
    /\ \A s \in sessions : /\ activeConnections[s.user] = s.conn
                           /\ registeredUsers[s.user] = s.pass

\* Logins implement the registry of users: a login is granted on the password
\* of the account and while nobody holds it, and an account keeps its password.
Registry == INSTANCE LoginRegistry WITH
    account <- registeredUsers, holder <- activeConnections,
    granted <- sessions

ImplementsLoginRegistry == Registry!Spec

\* What one connection causes arrives everywhere in the order of its requests,
\* at most one frame of a request at each connection: no answer or message is
\* doubled or overtaken, whatever the other threads do.
InRequestOrder ==
    \A d \in Conns : \A i, k \in 1..Len(outbox[d]) :
        i < k /\ outbox[d][i].from = outbox[d][k].from
            => outbox[d][i].n < outbox[d][k].n

\* A SEND that is over reached every connection that was subscribed all the
\* time, its sender included.
SendReachesSubscribers ==
    \A c \in Conns :
        pc[c] = "idle" => \A d \in due[c] : FrameOf(c, "MESSAGE") \in Sent(d)

\* A connection that hears its own messages is a subscriber while it sends:
\* the check of processSend is not stale when the message goes out.
SenderIsSubscribed ==
    \A c \in Conns : pc[c] = "deliver" => c \in channels[req[c].topic]

\* Two messages that two connections both got came in the same order to both.
\* One thread gives that; two do not.
SameOrderEverywhere ==
    \A d, e \in Conns :
        \A f, g \in {m \in Sent(d) \cap Sent(e) : m.type = "MESSAGE"} :
            Position(d, f) < Position(d, g) => Position(e, f) < Position(e, g)
=============================================================================
