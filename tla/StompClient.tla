----------------------------- MODULE StompClient -----------------------------
(***************************************************************************)
(* The STOMP client: StompProtocol.cpp, one object that two threads use.   *)
(* The keyboard thread (keyboardInput.cpp) turns commands into frames and  *)
(* sends them, the main thread (StompClient.cpp) receives the answers.     *)
(*                                                                         *)
(* The server answers the frames of a connection in order (InRequestOrder  *)
(* of StompBroker), each as asked or with an ERROR; it passes messages of  *)
(* other users on; and the connection may be cut at any time, which the    *)
(* client only notices when it sends.                                      *)
(*                                                                         *)
(* A step is one critical section of a mutex or one access to what the two *)
(* threads share without one.  Those accesses are data races; a step of    *)
(* one thread is taken to see the state before or after a step of the      *)
(* other.  A user has at most Window requests unanswered: the code does    *)
(* not ask for that, a user who waits for each answer has Window = 1.      *)
(***************************************************************************)
EXTENDS Naturals, Sequences, FiniteSets, Functions

CONSTANTS Channels,
          Users,        \* names the user of this client logs in with
          Others,       \* users of other clients
          None,         \* no user, no channel
          Window,       \* requests a user leaves unanswered, see above
          MaxCommands,  \* bound: commands typed in a behaviour
          MaxReports,   \* bound: events in a report file
          MaxEvents     \* bound: events in a behaviour

ASSUME ClientAssumption ==
    /\ None \notin Channels \cup Users \cup Others
    /\ Users \cap Others = {}
    /\ Window \in Nat \ {0}
    /\ {MaxCommands, MaxReports, MaxEvents} \subseteq Nat

VARIABLES
    \* the connection
    linked,             \* connectionHandler is set, and its socket is open
    up,                 \* the connection was not cut
    toServer,           \* Seq(Request), sent and not yet answered
    toClient,           \* Seq(Response), answered and not yet received
    \* the fields of StompProtocol
    isLoggedIn,
    currentUsername,
    nextReceiptId,
    nextSubscriptionId,
    channelToSubId,     \* partial function from Channels to Nat
    receiptIdToMsg,     \* partial function from Nat to Texts
    userChannelEvents,  \* [Channels -> [Users \cup Others -> Seq(Nat)]]
    \* the threads
    pc,                 \* [{"keyboard", "main"} -> step]
    cmd,                \* the command the keyboard thread carries out
    frames,             \* Seq(Request), what it still has to send for it
    response,           \* the frame the main thread handles
    \* bounds and history
    issued,             \* number of commands typed
    nextEvent,          \* number of the next event; events are numbered
    shown               \* [for, said] of the receipts that were handled

linkVars  == <<linked, up, toServer, toClient>>
stateVars == <<isLoggedIn, currentUsername>>
dataVars  == <<nextReceiptId, nextSubscriptionId, channelToSubId, receiptIdToMsg,
               userChannelEvents, nextEvent>>
inputVars == <<cmd, frames, issued>>
vars == <<linkVars, stateVars, dataVars, pc, inputVars, response, shown>>

Texts == [said : {"Joined channel", "Exited channel"}, channel : Channels]
            \cup [said : {"disconnect", "nothing"}, channel : {None}]

Joined(ch) == [said |-> "Joined channel", channel |-> ch]
Exited(ch) == [said |-> "Exited channel", channel |-> ch]
Goodbye    == [said |-> "disconnect", channel |-> None]
Silence    == [said |-> "nothing", channel |-> None]

\* text is not part of a frame: what the user is to be told of the request.
Request == [type : {"CONNECT", "SUBSCRIBE", "UNSUBSCRIBE", "SEND", "DISCONNECT"},
            receipt : Nat, text : Texts,
            user : Users \cup {None}, channel : Channels \cup {None}, event : Nat]

Response == [type : {"CONNECTED", "RECEIPT", "ERROR", "MESSAGE"},
             receipt : Nat, text : Texts,
             user : Users \cup Others \cup {None},
             channel : Channels \cup {None}, event : Nat]

Blank == [type |-> "ERROR", receipt |-> 0, text |-> Silence, user |-> None,
          channel |-> None, event |-> 0]

Steps == {"idle", "login", "hello", "join", "exit", "report", "logout", "send",
          "CONNECTED", "RECEIPT", "ERROR", "MESSAGE", "clear", "drop", "logoff"}

TypeOK ==
    /\ linked \in BOOLEAN
    /\ up \in BOOLEAN
    /\ up => linked
    /\ toServer \in Seq(Request)
    /\ toClient \in Seq(Response)
    /\ isLoggedIn \in BOOLEAN
    /\ currentUsername \in Users \cup {None}
    /\ nextReceiptId \in Nat
    /\ nextSubscriptionId \in Nat
    /\ \A k \in DOMAIN channelToSubId : k \in Channels /\ channelToSubId[k] \in Nat
    /\ \A k \in DOMAIN receiptIdToMsg : k \in Nat /\ receiptIdToMsg[k] \in Texts
    /\ userChannelEvents \in [Channels -> [Users \cup Others -> Seq(Nat)]]
    /\ pc \in [{"keyboard", "main"} -> Steps]
    /\ cmd.channel \in Channels /\ cmd.user \in Users
    /\ frames \in Seq(Request)
    /\ response \in Response
    /\ issued \in Nat
    /\ nextEvent \in Nat
    /\ shown \in SUBSET [for : Texts, said : Texts]

Init ==
    /\ linked = FALSE
    /\ up = FALSE
    /\ toServer = <<>>
    /\ toClient = <<>>
    /\ isLoggedIn = FALSE
    /\ currentUsername = None
    /\ nextReceiptId = 0
    /\ nextSubscriptionId = 0
    /\ channelToSubId = <<>>
    /\ receiptIdToMsg = <<>>
    /\ userChannelEvents = [ch \in Channels |-> [u \in Users \cup Others |-> <<>>]]
    /\ pc = [t \in {"keyboard", "main"} |-> "idle"]
    /\ cmd \in [op : {"login"}, user : Users, channel : Channels]
    /\ frames = <<>>
    /\ response = Blank
    /\ issued = 0
    /\ nextEvent = 0
    /\ shown = {}
-----------------------------------------------------------------------------
(* Helpers *)

Goto(t, step) == pc' = [pc EXCEPT ![t] = step]

\* map[key] = value
Put(f, key, value) ==
    [k \in DOMAIN f \cup {key} |-> IF k = key THEN value ELSE f[k]]

\* map.erase(key)
Erase(f, key) == Restrict(f, DOMAIN f \ {key})

\* saveEventForUser
SaveEvents(ch, user, events) ==
    userChannelEvents' = [userChannelEvents EXCEPT ![ch][user] = @ \o events]

\* Answers that the user waits for; a message of another user is not one.
IsAnswer(r) == r.type # "MESSAGE" \/ r.user \in Users

Unanswered ==
    Len(toServer) + Cardinality({i \in 1..Len(toClient) : IsAnswer(toClient[i])})
        + (IF pc["main"] # "idle" /\ IsAnswer(response) THEN 1 ELSE 0)
-----------------------------------------------------------------------------
(* The keyboard thread *)

\* run reads a line and processInput looks at it: every command but login
\* needs a connection.
ReadCommand(op, u, ch) ==
    /\ pc["keyboard"] = "idle"
    /\ issued < MaxCommands
    /\ Unanswered < Window
    /\ issued' = issued + 1
    /\ op = "login" \/ linked
    /\ cmd' = [op |-> op, user |-> u, channel |-> ch]
    /\ Goto("keyboard", op)
    /\ UNCHANGED <<linkVars, stateVars, dataVars, frames, response, shown>>

\* connect, under stateMutex up to the end of LoginSend: a login that was
\* answered forbids another one, one that was not does not.
LoginRefused ==
    /\ pc["keyboard"] = "login"
    /\ isLoggedIn
    /\ Goto("keyboard", "idle")
    /\ UNCHANGED <<linkVars, stateVars, dataVars, inputVars, response, shown>>

\* A new ConnectionHandler takes the place of the old one, whose destructor
\* closes its socket, and connects or fails to.
LoginConnect ==
    /\ pc["keyboard"] = "login"
    /\ ~isLoggedIn
    /\ \E ok \in BOOLEAN :
          /\ linked' = ok
          /\ up' = ok
          /\ Goto("keyboard", IF ok THEN "hello" ELSE "idle")
    /\ toServer' = <<>>
    /\ toClient' = <<>>
    /\ UNCHANGED <<stateVars, dataVars, inputVars, response, shown>>

\* What is sent on a cut connection is lost, with an error or without.
LoginSend ==
    /\ pc["keyboard"] = "hello"
    /\ linked
    /\ \/ /\ toServer' = IF up THEN Append(toServer, [Blank EXCEPT
                               !.type = "CONNECT", !.user = cmd.user])
                               ELSE toServer
          /\ currentUsername' = cmd.user
          /\ UNCHANGED linked
       \/ /\ ~up
          /\ linked' = FALSE
          /\ UNCHANGED <<toServer, currentUsername>>
    /\ Goto("keyboard", "idle")
    /\ toClient' = IF linked' THEN toClient ELSE <<>>
    /\ UNCHANGED <<up, isLoggedIn, dataVars, inputVars, response, shown>>

\* Mutant: createSubscribeFrame uses the id that join noted its text under,
\* and the next command is not given another one.
JoinKeepsId ==
    /\ pc["keyboard"] = "join"
    /\ LET ch == cmd.channel IN
       \/ /\ ch \in DOMAIN channelToSubId
          /\ Goto("keyboard", "idle")
          /\ UNCHANGED <<dataVars, frames>>
       \/ /\ ch \notin DOMAIN channelToSubId
          /\ channelToSubId' = Put(channelToSubId, ch, nextSubscriptionId)
          /\ nextSubscriptionId' = nextSubscriptionId + 1
          /\ nextReceiptId' = nextReceiptId + 1
          /\ receiptIdToMsg' = Put(receiptIdToMsg, nextReceiptId, Joined(ch))
          /\ frames' = <<[Blank EXCEPT !.type = "SUBSCRIBE", !.channel = ch,
                             !.receipt = nextReceiptId + 1, !.text = Joined(ch)]>>
          /\ Goto("keyboard", "send")
          /\ UNCHANGED <<userChannelEvents, nextEvent>>
    /\ UNCHANGED <<linkVars, stateVars, cmd, issued, response, shown>>

\* join, under dataMutex: the text is noted under the receipt id, and by
\* createSubscribeFrame under the id after it, which the frame carries.
Join ==
    /\ pc["keyboard"] = "join"
    /\ LET ch == cmd.channel IN
       \/ /\ ch \in DOMAIN channelToSubId
          /\ Goto("keyboard", "idle")
          /\ UNCHANGED <<dataVars, frames>>
       \/ /\ ch \notin DOMAIN channelToSubId
          /\ channelToSubId' = Put(channelToSubId, ch, nextSubscriptionId)
          /\ nextSubscriptionId' = nextSubscriptionId + 1
          /\ nextReceiptId' = nextReceiptId + 1
          /\ receiptIdToMsg' = Put(Put(receiptIdToMsg, nextReceiptId, Joined(ch)),
                                   nextReceiptId', Joined(ch))
          /\ frames' = <<[Blank EXCEPT !.type = "SUBSCRIBE", !.channel = ch,
                             !.receipt = nextReceiptId', !.text = Joined(ch)]>>
          /\ Goto("keyboard", "send")
          /\ UNCHANGED <<userChannelEvents, nextEvent>>
    /\ UNCHANGED <<linkVars, stateVars, cmd, issued, response, shown>>

\* exit, under dataMutex: here the frame carries the id of the text.
Exit ==
    /\ pc["keyboard"] = "exit"
    /\ LET ch == cmd.channel IN
       \/ /\ ch \notin DOMAIN channelToSubId
          /\ Goto("keyboard", "idle")
          /\ UNCHANGED <<dataVars, frames>>
       \/ /\ ch \in DOMAIN channelToSubId
          /\ channelToSubId' = Erase(channelToSubId, ch)
          /\ nextReceiptId' = nextReceiptId + 1
          /\ receiptIdToMsg' = Put(receiptIdToMsg, nextReceiptId, Exited(ch))
          /\ frames' = <<[Blank EXCEPT !.type = "UNSUBSCRIBE", !.channel = ch,
                             !.receipt = nextReceiptId, !.text = Exited(ch)]>>
          /\ Goto("keyboard", "send")
          /\ UNCHANGED <<nextSubscriptionId, userChannelEvents, nextEvent>>
    /\ UNCHANGED <<linkVars, stateVars, cmd, issued, response, shown>>

\* report, under dataMutex: the events of a file are saved as the user's own
\* and become one SEND each.
Report ==
    /\ pc["keyboard"] = "report"
    /\ \E n \in 1..MaxReports :
          LET new == [i \in 1..n |-> nextEvent + i] IN
          /\ nextEvent' = nextEvent + n
          /\ nextEvent' <= MaxEvents
          /\ SaveEvents(cmd.channel, currentUsername, new)
          /\ frames' = [i \in 1..n |->
                [Blank EXCEPT !.type = "SEND", !.user = currentUsername,
                              !.channel = cmd.channel, !.event = new[i]]]
    /\ Goto("keyboard", "send")
    /\ UNCHANGED <<linkVars, stateVars, nextReceiptId, nextSubscriptionId,
                   channelToSubId, receiptIdToMsg, cmd, issued, response, shown>>

\* logout: the receipt id is not used up.
Logout ==
    /\ pc["keyboard"] = "logout"
    /\ receiptIdToMsg' = Put(receiptIdToMsg, nextReceiptId, Goodbye)
    /\ frames' = <<[Blank EXCEPT !.type = "DISCONNECT", !.text = Goodbye,
                                 !.receipt = nextReceiptId]>>
    /\ Goto("keyboard", "send")
    /\ UNCHANGED <<linkVars, stateVars, nextReceiptId, nextSubscriptionId,
                   channelToSubId, userChannelEvents, nextEvent, cmd, issued,
                   response, shown>>

\* send of the next frame, in run's loop.
SendFrame ==
    /\ pc["keyboard"] = "send"
    /\ linked
    /\ toServer' = IF up THEN Append(toServer, Head(frames)) ELSE toServer
    /\ frames' = Tail(frames)
    /\ Goto("keyboard", IF frames' = <<>> THEN "idle" ELSE "send")
    /\ UNCHANGED <<linked, up, toClient, stateVars, dataVars, cmd, issued,
                   response, shown>>

\* "Error sending frame": the rest is dropped and disconnect called.
SendFails ==
    /\ pc["keyboard"] = "send"
    /\ ~up
    /\ frames' = <<>>
    /\ Goto("keyboard", "clear")
    /\ UNCHANGED <<linkVars, stateVars, dataVars, cmd, issued, response, shown>>
-----------------------------------------------------------------------------
(* disconnect, which both threads call and which takes no mutex *)

Clear(t) ==
    /\ pc[t] = "clear"
    /\ channelToSubId' = <<>>
    /\ Goto(t, "drop")
    /\ UNCHANGED <<linkVars, stateVars, nextReceiptId, nextSubscriptionId,
                   receiptIdToMsg, userChannelEvents, nextEvent, inputVars,
                   response, shown>>

\* Mutant: the pointer is cleared and the socket left open.
DropKeepsSocket(t) ==
    /\ pc[t] = "drop"
    /\ linked' = FALSE
    /\ toServer' = <<>>
    /\ toClient' = <<>>
    /\ Goto(t, "logoff")
    /\ UNCHANGED <<up, stateVars, dataVars, inputVars, response, shown>>

Drop(t) ==
    /\ pc[t] = "drop"
    /\ linked' = FALSE
    /\ up' = FALSE
    /\ toServer' = <<>>
    /\ toClient' = <<>>
    /\ Goto(t, "logoff")
    /\ UNCHANGED <<stateVars, dataVars, inputVars, response, shown>>

\* Mutant: the session is not ended with the connection.
StayLoggedIn(t) ==
    /\ pc[t] = "logoff"
    /\ Goto(t, "idle")
    /\ UNCHANGED <<linkVars, stateVars, dataVars, inputVars, response, shown>>

LogOff(t) ==
    /\ pc[t] = "logoff"
    /\ isLoggedIn' = FALSE
    /\ Goto(t, "idle")
    /\ UNCHANGED <<linkVars, currentUsername, dataVars, inputVars, response, shown>>
-----------------------------------------------------------------------------
(* The main thread *)

\* receiveFrame.  When the connection is cut it fails for ever, and main calls
\* it again and again.
Receive ==
    /\ pc["main"] = "idle"
    /\ linked
    /\ toClient # <<>>
    /\ response' = Head(toClient)
    /\ toClient' = Tail(toClient)
    /\ Goto("main", Head(toClient).type)
    /\ UNCHANGED <<linked, up, toServer, stateVars, dataVars, inputVars, shown>>

\* CONNECTED, under stateMutex, which connect holds while it sends.
HandleConnected ==
    /\ pc["main"] = "CONNECTED"
    /\ pc["keyboard"] # "hello"
    /\ isLoggedIn' = TRUE
    /\ Goto("main", "idle")
    /\ UNCHANGED <<linkVars, currentUsername, dataVars, inputVars, response, shown>>

HandleError ==
    /\ pc["main"] = "ERROR"
    /\ Goto("main", "clear")
    /\ UNCHANGED <<linkVars, stateVars, dataVars, inputVars, response, shown>>

MsgOf(id) ==
    IF id \in DOMAIN receiptIdToMsg THEN receiptIdToMsg[id] ELSE Silence

\* Mutant: the special message "disconnect" is printed like the others.
ReceiptPrinted ==
    /\ pc["main"] = "RECEIPT"
    /\ receiptIdToMsg' = Erase(receiptIdToMsg, response.receipt)
    /\ shown' = shown \cup
          {[for |-> response.text, said |-> MsgOf(response.receipt)]}
    /\ Goto("main", "idle")
    /\ UNCHANGED <<linkVars, stateVars, nextReceiptId, nextSubscriptionId,
                   channelToSubId, userChannelEvents, nextEvent, inputVars,
                   response>>

\* RECEIPT, under dataMutex: the text of the receipt id is taken and shown;
\* the text "disconnect" means that the logout was answered.
HandleReceipt ==
    /\ pc["main"] = "RECEIPT"
    /\ receiptIdToMsg' = Erase(receiptIdToMsg, response.receipt)
    /\ shown' = shown \cup
          {[for |-> response.text, said |-> MsgOf(response.receipt)]}
    /\ Goto("main", IF MsgOf(response.receipt) = Goodbye THEN "clear" ELSE "idle")
    /\ UNCHANGED <<linkVars, stateVars, nextReceiptId, nextSubscriptionId,
                   channelToSubId, userChannelEvents, nextEvent, inputVars,
                   response>>

\* Mutant: events of the user's own come back and are saved again.
SaveEveryMessage ==
    /\ pc["main"] = "MESSAGE"
    /\ SaveEvents(response.channel, response.user, <<response.event>>)
    /\ Goto("main", "idle")
    /\ UNCHANGED <<linkVars, stateVars, nextReceiptId, nextSubscriptionId,
                   channelToSubId, receiptIdToMsg, nextEvent, inputVars,
                   response, shown>>

\* MESSAGE, under dataMutex: the event is saved unless it is the user's own.
HandleMessage ==
    /\ pc["main"] = "MESSAGE"
    /\ \/ /\ response.user # currentUsername
          /\ SaveEvents(response.channel, response.user, <<response.event>>)
       \/ /\ response.user = currentUsername
          /\ UNCHANGED userChannelEvents
    /\ Goto("main", "idle")
    /\ UNCHANGED <<linkVars, stateVars, nextReceiptId, nextSubscriptionId,
                   channelToSubId, receiptIdToMsg, nextEvent, inputVars,
                   response, shown>>
-----------------------------------------------------------------------------
(* The server and the network *)

TypeOfAnswer(type) ==
    CASE type = "CONNECT" -> "CONNECTED"
      [] type = "SEND" -> "MESSAGE"
      [] OTHER -> "RECEIPT"

\* The oldest frame is answered as asked, or with an ERROR.
ServerAnswer ==
    /\ toServer # <<>>
    /\ \E type \in {TypeOfAnswer(Head(toServer).type), "ERROR"} :
          toClient' = Append(toClient, [Head(toServer) EXCEPT !.type = type])
    /\ toServer' = Tail(toServer)
    /\ UNCHANGED <<linked, up, stateVars, dataVars, pc, inputVars, response, shown>>

\* A message of another user.  The client does not ask whether it joined the
\* channel: the message may be older than its UNSUBSCRIBE.
ServerMessage(u, ch) ==
    /\ up
    /\ nextEvent < MaxEvents
    /\ nextEvent' = nextEvent + 1
    /\ toClient' = Append(toClient, [Blank EXCEPT !.type = "MESSAGE",
                             !.user = u, !.channel = ch, !.event = nextEvent'])
    /\ UNCHANGED <<linked, up, toServer, stateVars, nextReceiptId,
                   nextSubscriptionId, channelToSubId, receiptIdToMsg,
                   userChannelEvents, pc, inputVars, response, shown>>

\* The server closes the connection, or it breaks: what is on its way to the
\* client may still arrive.
Cut ==
    /\ up
    /\ up' = FALSE
    /\ toServer' = <<>>
    /\ toClient' \in {toClient, <<>>}
    /\ UNCHANGED <<linked, stateVars, dataVars, pc, inputVars, response, shown>>
-----------------------------------------------------------------------------
Disconnect(t) == Clear(t) \/ Drop(t) \/ LogOff(t)

KeyboardStep ==
    \/ LoginRefused
    \/ LoginConnect
    \/ LoginSend
    \/ Join
    \/ Exit
    \/ Report
    \/ Logout
    \/ SendFrame
    \/ SendFails
    \/ Disconnect("keyboard")

MainStep ==
    \/ Receive
    \/ HandleConnected
    \/ HandleError
    \/ HandleReceipt
    \/ HandleMessage
    \/ Disconnect("main")

Commands == {"login", "join", "exit", "report", "logout"}

Next ==
    \/ \E op \in Commands, u \in Users, ch \in Channels : ReadCommand(op, u, ch)
    \/ KeyboardStep
    \/ MainStep
    \/ ServerAnswer
    \/ \E u \in Others, ch \in Channels : ServerMessage(u, ch)
    \/ Cut

Spec == Init /\ [][Next]_vars

\* The two threads run, and a server that is connected answers.
FairSpec ==
    Spec /\ WF_vars(KeyboardStep) /\ WF_vars(MainStep) /\ WF_vars(ServerAnswer)
-----------------------------------------------------------------------------
(* Properties *)

\* What the user is told when a receipt arrives is what the request was: the
\* map is "receiptId -> pending message" (StompProtocol.h), and an id is taken
\* for one pending request.
ReceiptNamesItsRequest == \A s \in shown : s.said = s.for

\* When the connection is gone and neither thread is busy, the session is over,
\* whichever thread ended it and even if both did: otherwise connect refuses
\* every login and processInput every other command, for ever.
OfflineIsLoggedOut ==
    ~linked /\ pc = [t \in {"keyboard", "main"} |-> "idle"] => ~isLoggedIn

\* An event is saved once, by the client that reports it and by those that
\* receive it, so that a summary counts it once.
EventsSavedOnce ==
    \A ch \in Channels : \A u \in Users \cup Others :
        LET q == userChannelEvents[ch][u] IN
        \A i, k \in 1..Len(q) : q[i] = q[k] => i = k

\* A logout that reached the server ends the connection.
LogoutDisconnects ==
    (\E i \in 1..Len(toServer) : toServer[i].type = "DISCONNECT") ~> ~up
=============================================================================
