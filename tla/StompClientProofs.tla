-------------------------- MODULE StompClientProofs --------------------------
(***************************************************************************)
(* Proofs about StompClient for any channels, users, commands and events:  *)
(* TypeOK and, for a user who waits for each answer (Window = 1), that a   *)
(* receipt names its request and that a client without a connection is     *)
(* logged out.  An event is saved once if the user waits for answers or    *)
(* always uses one name.                                                   *)
(***************************************************************************)
EXTENDS StompClient, FiniteSetTheorems, SequenceTheorems, TLAPS

(* What requests and responses carry *)

Receipted == {"SUBSCRIBE", "UNSUBSCRIBE", "DISCONNECT"}

\* A message names who reported the event and where, and which of top events.
Names(r, users, top) == r.type \in {"SEND", "MESSAGE"} =>
    r.user \in users /\ r.channel \in Channels /\ r.event \in 1..top

AllName(s, users, top) == \A i \in 1..Len(s) : Names(s[i], users, top)

\* A report is sent by a user who logged in once.
Named ==
    /\ pc["keyboard"] = "send" <=> frames # <<>>
    /\ linked /\ pc["keyboard"] # "hello" => currentUsername \in Users
    /\ pc["keyboard"] \in {"join", "exit", "report", "logout", "send"}
          => currentUsername \in Users
    /\ AllName(frames, Users, nextEvent)
    /\ AllName(toServer, Users, nextEvent)
    /\ AllName(toClient, Users \cup Others, nextEvent)
    /\ pc["main"] # "idle" => Names(response, Users \cup Others, nextEvent)
    /\ pc["main"] \in {"CONNECTED", "RECEIPT", "ERROR", "MESSAGE"}
          => response.type = pc["main"]
    /\ pc["main"] \in {"clear", "drop", "logoff"}
          => response.type \in {"RECEIPT", "ERROR"}
    /\ pc["main"] \in {"idle", "CONNECTED", "RECEIPT", "ERROR", "MESSAGE",
                       "clear", "drop", "logoff"}

TypeInv == TypeOK /\ Named
-----------------------------------------------------------------------------
(* One request at a time *)

\* Nothing is answered to the user now, or will be.
NoAnswer == /\ \A i \in 1..Len(toClient) : ~ IsAnswer(toClient[i])
            /\ pc["main"] = "idle" \/ ~ IsAnswer(response)

Quiet == toServer = <<>> /\ NoAnswer

\* The text of a request is noted under its receipt.
Noted(r) == /\ r.receipt \in DOMAIN receiptIdToMsg
            /\ receiptIdToMsg[r.receipt] = r.text

\* A command is carried out when what came before it was answered; what has a
\* receipt is sent alone, and its text stays where it was noted.
OneAtATime ==
    /\ pc["keyboard"] \in {"login", "hello", "join", "exit", "report", "logout"}
          => Quiet
    /\ pc["keyboard"] = "send" =>
          \/ \A i \in 1..Len(frames) : frames[i].type = "SEND"
          \/ /\ Quiet /\ Len(frames) = 1 /\ frames[1].type \in Receipted
             /\ Noted(frames[1])
    /\ \A i \in 1..Len(toServer) : toServer[i].type # "SEND" =>
          /\ pc["keyboard"] = "idle" /\ Len(toServer) = 1 /\ NoAnswer
          /\ toServer[i].type \in Receipted => Noted(toServer[i])
    /\ \A i \in 1..Len(toClient) : toClient[i].type \in {"CONNECTED", "RECEIPT"} =>
          /\ pc["keyboard"] = "idle" /\ toServer = <<>>
          /\ \A k \in 1..Len(toClient) : k # i => ~ IsAnswer(toClient[k])
          /\ pc["main"] = "idle" \/ ~ IsAnswer(response)
          /\ toClient[i].type = "RECEIPT" => Noted(toClient[i])
    /\ pc["main"] \in {"CONNECTED", "RECEIPT"} =>
          /\ pc["keyboard"] = "idle" /\ toServer = <<>>
          /\ \A k \in 1..Len(toClient) : ~ IsAnswer(toClient[k])
          /\ pc["main"] = "RECEIPT" => Noted(response)

\* Who closes the connection ends the session.
SessionEnds ==
    /\ ~linked /\ isLoggedIn => \E t \in {"keyboard", "main"} : pc[t] = "logoff"
    /\ pc["keyboard"] = "hello" => ~isLoggedIn
    /\ pc["main"] = "CONNECTED" => linked

WaitInv == Window = 1 => OneAtATime /\ SessionEnds /\ ReceiptNamesItsRequest
-----------------------------------------------------------------------------
(* Events *)

OneName == \A u, v \in Users : u = v

\* What comes back to the user is the user's own.
OwnComesBack ==
    /\ \A i \in 1..Len(frames) :
          frames[i].type = "SEND" => frames[i].user = currentUsername
    /\ \A i \in 1..Len(toServer) :
          toServer[i].type = "SEND" => toServer[i].user = currentUsername
    /\ \A i \in 1..Len(toClient) :
          toClient[i].type = "MESSAGE" /\ toClient[i].user \in Users
              => toClient[i].user = currentUsername
    /\ pc["main"] = "MESSAGE" /\ response.user \in Users
          => response.user = currentUsername

Foreign(r) == r.type = "MESSAGE" /\ r.user \in Others

Saved(ch, u) == {userChannelEvents[ch][u][i] : i \in 1..Len(userChannelEvents[ch][u])}

\* A message of another user is not saved before it is handled.
NewComes ==
    /\ \A i \in 1..Len(toClient) : Foreign(toClient[i]) =>
          /\ toClient[i].event \notin Saved(toClient[i].channel, toClient[i].user)
          /\ \A k \in 1..Len(toClient) :
                Foreign(toClient[k]) /\ toClient[i].event = toClient[k].event => i = k
    /\ pc["main"] = "MESSAGE" /\ response.user \in Others =>
          /\ response.event \notin Saved(response.channel, response.user)
          /\ \A i \in 1..Len(toClient) :
                Foreign(toClient[i]) => toClient[i].event # response.event

SavedOnce ==
    \A ch \in Channels, u \in Users \cup Others :
        /\ Saved(ch, u) \subseteq 1..nextEvent
        /\ \A i, k \in 1..Len(userChannelEvents[ch][u]) :
              userChannelEvents[ch][u][i] = userChannelEvents[ch][u][k] => i = k

EventInv == (Window = 1 \/ OneName) => OwnComesBack /\ NewComes /\ SavedOnce
-----------------------------------------------------------------------------
(* Types *)

Threads == {"keyboard", "main"}

\* A thread goes to its next step, and the others stay.
LEMMA Went ==
    ASSUME TypeOK, NEW t \in Threads, NEW s \in Steps, Goto(t, s)
    PROVE  /\ pc' \in [Threads -> Steps] /\ pc'[t] = s
           /\ \A u \in Threads \ {t} : pc'[u] = pc[u]
  BY DEF TypeOK, Goto, Threads


IdMap(f)   == \A k \in DOMAIN f : k \in Channels /\ f[k] \in Nat
TextMap(f) == \A k \in DOMAIN f : k \in Nat /\ f[k] \in Texts

\* channelToSubId stays a map of channels
LEMMA IdPut ==
    ASSUME NEW f, IdMap(f), NEW ch \in Channels, NEW n \in Nat
    PROVE  IdMap(Put(f, ch, n)) /\ IdMap(Erase(f, ch))
  BY DEF IdMap, Put, Erase, Restrict

\* and receiptIdToMsg one of receipts, which has what was put last.
LEMMA TextPut ==
    ASSUME NEW f, TextMap(f), NEW id \in Nat, NEW text \in Texts
    PROVE  /\ TextMap(Put(f, id, text)) /\ TextMap(Erase(f, id))
           /\ id \in DOMAIN Put(f, id, text) /\ Put(f, id, text)[id] = text
  BY DEF TextMap, Put, Erase, Restrict

\* What Append and Tail make of a sequence.
LEMMA Appended ==
    ASSUME NEW S, NEW s \in Seq(S), NEW e \in S
    PROVE  /\ Append(s, e) \in Seq(S) /\ Len(Append(s, e)) = Len(s) + 1
           /\ Len(s) \in Nat
           /\ \A i \in 1..Len(Append(s, e)) :
                 \/ i \in 1..Len(s) /\ Append(s, e)[i] = s[i]
                 \/ i = Len(s) + 1 /\ Append(s, e)[i] = e
  BY AppendProperties

\* The first of a sequence and the rest
LEMMA Tailed ==
    ASSUME NEW S, NEW s \in Seq(S), s # <<>>
    PROVE  /\ Head(s) = s[1] /\ Head(s) \in S /\ 1 \in 1..Len(s)
           /\ Tail(s) \in Seq(S) /\ Len(Tail(s)) = Len(s) - 1
           /\ Len(s) \in Nat \ {0}
           /\ \A i \in 1..Len(Tail(s)) :
                 i + 1 \in 1..Len(s) /\ Tail(s)[i] = s[i + 1]
  OBVIOUS

\* The empty sequence
LEMMA EmptyTyped == ASSUME NEW S PROVE <<>> \in Seq(S) /\ Len(<<>>) = 0
  OBVIOUS

\* What names its event does so among more, and wherever it is queued.
LEMMA NamesKept ==
    ASSUME NEW S, NEW users, NEW top \in Nat, NEW s \in Seq(S),
           AllName(s, users, top)
    PROVE  /\ \A n \in Nat : top <= n => AllName(s, users, n)
           /\ \A e \in S : Names(e, users, top) => AllName(Append(s, e), users, top)
           /\ s # <<>> => AllName(Tail(s), users, top) /\ Names(Head(s), users, top)
<1>1. \A n \in Nat : top <= n => AllName(s, users, n)
  BY DEF AllName, Names
<1>2. ASSUME NEW e \in S, Names(e, users, top) PROVE AllName(Append(s, e), users, top)
  BY <1>2, Appended DEF AllName
<1>3. s # <<>> => AllName(Tail(s), users, top) /\ Names(Head(s), users, top)
  BY Tailed DEF AllName
<1> QED BY <1>1, <1>2, <1>3

\* Nothing is in no need of a name.
LEMMA NoneName ==
    ASSUME NEW users, NEW top PROVE AllName(<<>>, users, top)
  BY DEF AllName

\* The texts that are noted under receipts
LEMMA TextsTyped ==
    ASSUME NEW ch \in Channels
    PROVE  {Joined(ch), Exited(ch), Goodbye, Silence} \subseteq Texts
  BY DEF Joined, Exited, Goodbye, Silence, Texts

\* Two of them have no channel.
LEMMA SilenceTyped == Silence \in Texts /\ Goodbye \in Texts
  BY DEF Silence, Goodbye, Texts

\* The requests that the client makes.
LEMMA BlankTyped ==
    /\ Blank \in Response /\ Blank.receipt = 0 /\ Blank.text = Silence
    /\ Blank.user = None /\ Blank.channel = None /\ Blank.event = 0
  BY SilenceTyped DEF Blank, Response

\* What login makes,
LEMMA ConnectMade ==
    ASSUME NEW u \in Users
    PROVE  LET r == [Blank EXCEPT !.type = "CONNECT", !.user = u] IN
           r \in Request /\ r.type = "CONNECT"
  BY BlankTyped DEF Request, Response

\* what join makes,
LEMMA JoinMade ==
    ASSUME NEW ch \in Channels, NEW n \in Nat
    PROVE  LET r == [Blank EXCEPT !.type = "SUBSCRIBE", !.channel = ch,
                         !.receipt = n, !.text = Joined(ch)] IN
           /\ r \in Request /\ r.type = "SUBSCRIBE" /\ r.receipt = n
           /\ r.text = Joined(ch)
  BY BlankTyped, TextsTyped DEF Request, Response

\* what exit makes
LEMMA ExitMade ==
    ASSUME NEW ch \in Channels, NEW n \in Nat
    PROVE  LET r == [Blank EXCEPT !.type = "UNSUBSCRIBE", !.channel = ch,
                         !.receipt = n, !.text = Exited(ch)] IN
           /\ r \in Request /\ r.type = "UNSUBSCRIBE" /\ r.receipt = n
           /\ r.text = Exited(ch)
  BY BlankTyped, TextsTyped DEF Request, Response

\* and what logout makes
LEMMA LogoutMade ==
    ASSUME NEW n \in Nat
    PROVE  LET r == [Blank EXCEPT !.type = "DISCONNECT", !.text = Goodbye,
                                  !.receipt = n] IN
           /\ r \in Request /\ r.type = "DISCONNECT" /\ r.receipt = n
           /\ r.text = Goodbye
  BY BlankTyped, SilenceTyped DEF Request, Response

\* What is answered is what was asked.
LEMMA AnswerTyped ==
    ASSUME NEW r \in Request, NEW type \in {TypeOfAnswer(r.type), "ERROR"}
    PROVE  /\ type \in {"CONNECTED", "RECEIPT", "ERROR", "MESSAGE"}
           /\ type = "MESSAGE" => r.type = "SEND"
           /\ type = "CONNECTED" => r.type = "CONNECT"
           /\ type = "RECEIPT" => r.type \in Receipted
  BY DEF Request, TypeOfAnswer, Receipted
-----------------------------------------------------------------------------
(* Steps *)

\* What TypeOK says of the state, without the maps of the client.
LEMMA Typed ==
    ASSUME TypeInv
    PROVE  /\ TypeOK /\ Named /\ pc \in [Threads -> Steps]
           /\ toServer \in Seq(Request) /\ toClient \in Seq(Response)
           /\ frames \in Seq(Request) /\ response \in Response
           /\ nextEvent \in Nat /\ nextReceiptId \in Nat
           /\ nextSubscriptionId \in Nat
           /\ cmd.channel \in Channels /\ cmd.user \in Users
           /\ currentUsername \in Users \cup {None}
           /\ IdMap(channelToSubId) /\ TextMap(receiptIdToMsg)
           /\ userChannelEvents \in [Channels -> [Users \cup Others -> Seq(Nat)]]
  BY DEF TypeInv, TypeOK, Threads, IdMap, TextMap

\* join, exit and logout make one request, and note its text under its receipt.
Asks == Join \/ Exit \/ Logout

\* A join, exit or logout makes one frame, and notes its text, or none.
LEMMA AsksStep ==
    ASSUME TypeInv, Asks
    PROVE  /\ pc["keyboard"] \in {"join", "exit", "logout"}
           /\ pc' \in [Threads -> Steps] /\ pc'["main"] = pc["main"]
           /\ frames' \in Seq(Request)
           /\ \/ /\ pc'["keyboard"] = "idle"
                 /\ frames' = frames /\ receiptIdToMsg' = receiptIdToMsg
              \/ /\ pc'["keyboard"] = "send"
                 /\ \E r \in Request : /\ frames' = <<r>> /\ r.type \in Receipted
                                       /\ r.receipt \in DOMAIN receiptIdToMsg'
                                       /\ receiptIdToMsg'[r.receipt] = r.text
           /\ IdMap(channelToSubId') /\ TextMap(receiptIdToMsg')
           /\ nextReceiptId' \in Nat /\ nextSubscriptionId' \in Nat
           /\ UNCHANGED <<linkVars, stateVars, userChannelEvents, nextEvent, cmd,
                          issued, response, shown>>
<1> DEFINE ch == cmd.channel
<1>0. /\ TypeOK /\ nextReceiptId \in Nat /\ nextSubscriptionId \in Nat
      /\ ch \in Channels /\ IdMap(channelToSubId) /\ TextMap(receiptIdToMsg)
      /\ frames \in Seq(Request)
  BY Typed
<1>1. /\ pc["keyboard"] \in {"join", "exit", "logout"}
      /\ UNCHANGED <<linkVars, stateVars, cmd, issued, response, shown>>
  BY DEF Asks, Join, Exit, Logout
<1>2. CASE Goto("keyboard", "idle") /\ UNCHANGED <<dataVars, frames>>
  <2>1. /\ pc' \in [Threads -> Steps] /\ pc'["main"] = pc["main"]
        /\ pc'["keyboard"] = "idle"
    BY <1>0, <1>2, Went DEF Threads, Steps
  <2> QED BY <1>0, <1>1, <1>2, <2>1 DEF dataVars
<1>3. ASSUME Goto("keyboard", "send"), NEW r \in Request, frames' = <<r>>,
             r.type \in Receipted, r.receipt \in DOMAIN receiptIdToMsg',
             receiptIdToMsg'[r.receipt] = r.text, TextMap(receiptIdToMsg'),
             IdMap(channelToSubId'), nextReceiptId' \in Nat,
             nextSubscriptionId' \in Nat, UNCHANGED <<userChannelEvents, nextEvent>>
      PROVE  /\ pc' \in [Threads -> Steps] /\ pc'["main"] = pc["main"]
             /\ pc'["keyboard"] = "send" /\ frames' \in Seq(Request)
             /\ \E q \in Request : /\ frames' = <<q>> /\ q.type \in Receipted
                                   /\ q.receipt \in DOMAIN receiptIdToMsg'
                                   /\ receiptIdToMsg'[q.receipt] = q.text
             /\ TextMap(receiptIdToMsg') /\ IdMap(channelToSubId')
             /\ nextReceiptId' \in Nat /\ nextSubscriptionId' \in Nat
             /\ UNCHANGED <<userChannelEvents, nextEvent>>
  <2>1. /\ pc' \in [Threads -> Steps] /\ pc'["main"] = pc["main"]
        /\ pc'["keyboard"] = "send"
    BY <1>0, <1>3, Went DEF Threads, Steps
  <2>2. <<r>> \in Seq(Request)
    OBVIOUS
  <2> QED BY <1>3, <2>1, <2>2
<1>4. CASE Join
  <2> DEFINE r == [Blank EXCEPT !.type = "SUBSCRIBE", !.channel = ch,
                       !.receipt = nextReceiptId + 1, !.text = Joined(ch)]
             f == Put(receiptIdToMsg, nextReceiptId, Joined(ch))
  <2>1. CASE ch \notin DOMAIN channelToSubId
    <3>1. /\ channelToSubId' = Put(channelToSubId, ch, nextSubscriptionId)
          /\ nextSubscriptionId' = nextSubscriptionId + 1
          /\ nextReceiptId' = nextReceiptId + 1
          /\ receiptIdToMsg' = Put(f, nextReceiptId + 1, Joined(ch))
          /\ frames' = <<r>> /\ Goto("keyboard", "send")
          /\ UNCHANGED <<userChannelEvents, nextEvent>>
      BY <1>4, <2>1 DEF Join
    <3> nextReceiptId + 1 \in Nat
      BY <1>0
    <3>2. /\ r \in Request /\ r.type \in Receipted
          /\ r.receipt = nextReceiptId + 1 /\ r.text = Joined(ch)
      BY <1>0, JoinMade, ZenonT(30) DEF Receipted
    <3>3. Joined(ch) \in Texts /\ TextMap(f)
      BY <1>0, TextsTyped, TextPut
    <3> HIDE DEF r, f
    <3>4. /\ TextMap(receiptIdToMsg') /\ r.receipt \in DOMAIN receiptIdToMsg'
          /\ receiptIdToMsg'[r.receipt] = r.text
      BY <1>0, <3>1, <3>2, <3>3, TextPut
    <3>5. IdMap(channelToSubId')
      BY <1>0, <3>1, IdPut
    <3>6. nextReceiptId' \in Nat /\ nextSubscriptionId' \in Nat
      BY <1>0, <3>1
    <3> QED BY <1>1, <1>3, <3>1, <3>2, <3>4, <3>5, <3>6
  <2>2. CASE ch \in DOMAIN channelToSubId
    BY <1>2, <1>4, <2>2 DEF Join
  <2> QED BY <2>1, <2>2
<1>5. CASE Exit
  <2> DEFINE r == [Blank EXCEPT !.type = "UNSUBSCRIBE", !.channel = ch,
                       !.receipt = nextReceiptId, !.text = Exited(ch)]
  <2>1. CASE ch \in DOMAIN channelToSubId
    <3>1. /\ channelToSubId' = Erase(channelToSubId, ch)
          /\ nextReceiptId' = nextReceiptId + 1
          /\ receiptIdToMsg' = Put(receiptIdToMsg, nextReceiptId, Exited(ch))
          /\ frames' = <<r>> /\ Goto("keyboard", "send")
          /\ UNCHANGED <<nextSubscriptionId, userChannelEvents, nextEvent>>
      BY <1>5, <2>1 DEF Exit
    <3>2. /\ r \in Request /\ r.type \in Receipted
          /\ r.receipt = nextReceiptId /\ r.text = Exited(ch)
      BY <1>0, ExitMade, ZenonT(30) DEF Receipted
    <3>3. Exited(ch) \in Texts
      BY <1>0, TextsTyped
    <3> HIDE DEF r
    <3>4. /\ TextMap(receiptIdToMsg') /\ r.receipt \in DOMAIN receiptIdToMsg'
          /\ receiptIdToMsg'[r.receipt] = r.text
      BY <1>0, <3>1, <3>2, <3>3, TextPut
    <3>5. IdMap(channelToSubId')
      BY <1>0, <3>1, IdPut
    <3>6. nextReceiptId' \in Nat /\ nextSubscriptionId' \in Nat
      BY <1>0, <3>1
    <3> QED BY <1>1, <1>3, <3>1, <3>2, <3>4, <3>5, <3>6
  <2>2. CASE ch \notin DOMAIN channelToSubId
    BY <1>2, <1>5, <2>2 DEF Exit
  <2> QED BY <2>1, <2>2
<1>6. CASE Logout
  <2> DEFINE r == [Blank EXCEPT !.type = "DISCONNECT", !.text = Goodbye,
                                !.receipt = nextReceiptId]
  <2>1. /\ receiptIdToMsg' = Put(receiptIdToMsg, nextReceiptId, Goodbye)
        /\ frames' = <<r>> /\ Goto("keyboard", "send")
        /\ UNCHANGED <<nextReceiptId, nextSubscriptionId, channelToSubId,
                       userChannelEvents, nextEvent>>
    BY <1>6 DEF Logout
  <2>2. /\ r \in Request /\ r.type \in Receipted
        /\ r.receipt = nextReceiptId /\ r.text = Goodbye
    BY <1>0, LogoutMade DEF Receipted
  <2> HIDE DEF r
  <2>3. /\ TextMap(receiptIdToMsg') /\ r.receipt \in DOMAIN receiptIdToMsg'
        /\ receiptIdToMsg'[r.receipt] = r.text
    BY <1>0, <2>1, <2>2, SilenceTyped, TextPut, ZenonT(30)
  <2> QED BY <1>0, <1>1, <1>3, <2>1, <2>2, <2>3
<1> QED BY <1>4, <1>5, <1>6 DEF Asks

\* A login sends CONNECT and sets the name, or gives up.
LEMMA LoginSendStep ==
    ASSUME TypeInv, LoginSend
    PROVE  /\ pc["keyboard"] = "hello" /\ linked
           /\ pc' \in [Threads -> Steps] /\ pc'["main"] = pc["main"]
           /\ pc'["keyboard"] = "idle"
           /\ \/ currentUsername' = cmd.user /\ linked' = linked
              \/ linked' = FALSE /\ ~up /\ currentUsername' = currentUsername
           /\ \/ toServer' = toServer
              \/ /\ currentUsername' = cmd.user
                 /\ \E r \in Request : /\ r.type = "CONNECT"
                                       /\ toServer' = Append(toServer, r)
           /\ toClient' \in {toClient, <<>>}
           /\ UNCHANGED <<up, isLoggedIn, dataVars, inputVars, response, shown>>
<1> DEFINE r == [Blank EXCEPT !.type = "CONNECT", !.user = cmd.user]
<1>0. TypeOK /\ cmd.user \in Users
  BY Typed
<1>1. r \in Request /\ r.type = "CONNECT"
  BY <1>0, ConnectMade
<1>2. /\ pc["keyboard"] = "hello" /\ linked /\ Goto("keyboard", "idle")
      /\ \/ /\ toServer' = IF up THEN Append(toServer, r) ELSE toServer
            /\ currentUsername' = cmd.user
            /\ linked' = linked
         \/ ~up /\ linked' = FALSE /\ UNCHANGED <<toServer, currentUsername>>
      /\ toClient' = IF linked' THEN toClient ELSE <<>>
      /\ UNCHANGED <<up, isLoggedIn, dataVars, inputVars, response, shown>>
  BY DEF LoginSend
<1> HIDE DEF r
<1>3. /\ pc' \in [Threads -> Steps] /\ pc'["main"] = pc["main"]
      /\ pc'["keyboard"] = "idle"
  BY <1>0, <1>2, Went DEF Threads, Steps
<1> QED BY <1>1, <1>2, <1>3

\* What saveEventForUser makes of the events of a channel and a user.
LEMMA Saves ==
    ASSUME TypeInv, NEW ch \in Channels, NEW u \in Users \cup Others,
           NEW s \in Seq(Nat), SaveEvents(ch, u, s)
    PROVE  /\ userChannelEvents' \in [Channels -> [Users \cup Others -> Seq(Nat)]]
           /\ userChannelEvents[ch][u] \in Seq(Nat)
           /\ userChannelEvents'[ch][u] = userChannelEvents[ch][u] \o s
           /\ \A c \in Channels, v \in Users \cup Others :
                 c # ch \/ v # u => userChannelEvents'[c][v] = userChannelEvents[c][v]
<1>1. userChannelEvents \in [Channels -> [Users \cup Others -> Seq(Nat)]]
  BY Typed
<1>2. /\ userChannelEvents[ch] \in [Users \cup Others -> Seq(Nat)]
      /\ userChannelEvents[ch][u] \in Seq(Nat)
  BY <1>1
<1>3. userChannelEvents[ch][u] \o s \in Seq(Nat)
  BY <1>2
<1> QED BY <1>1, <1>2, <1>3 DEF SaveEvents

\* A report saves its events and makes a SEND of each.
LEMMA ReportStep ==
    ASSUME TypeInv, Report
    PROVE  /\ pc["keyboard"] = "report" /\ currentUsername \in Users
           /\ pc' \in [Threads -> Steps] /\ pc'["main"] = pc["main"]
           /\ pc'["keyboard"] = "send"
           /\ \E n \in Nat \ {0} :
                 /\ nextEvent' = nextEvent + n
                 /\ frames' \in Seq(Request) /\ Len(frames') = n
                 /\ \A i \in 1..n : /\ frames'[i].type = "SEND"
                                    /\ frames'[i].user = currentUsername
                                    /\ frames'[i].channel = cmd.channel
                                    /\ frames'[i].event = nextEvent + i
                 /\ SaveEvents(cmd.channel, currentUsername,
                               [i \in 1..n |-> nextEvent + i])
           /\ UNCHANGED <<linkVars, stateVars, nextReceiptId, nextSubscriptionId,
                          channelToSubId, receiptIdToMsg, cmd, issued, response,
                          shown>>
<1>0. /\ TypeOK /\ Named /\ nextEvent \in Nat /\ cmd.channel \in Channels
      /\ MaxReports \in Nat
  BY Typed, ClientAssumption
<1>1. /\ pc["keyboard"] = "report" /\ Goto("keyboard", "send")
      /\ UNCHANGED <<linkVars, stateVars, nextReceiptId, nextSubscriptionId,
                     channelToSubId, receiptIdToMsg, cmd, issued, response, shown>>
  BY DEF Report
<1>2. /\ pc' \in [Threads -> Steps] /\ pc'["main"] = pc["main"]
      /\ pc'["keyboard"] = "send"
  BY <1>0, <1>1, Went DEF Threads, Steps
<1>3. PICK u \in Users, ch \in Channels : u = currentUsername /\ ch = cmd.channel
  BY <1>0, <1>1 DEF Named
<1> DEFINE ask(e) == [Blank EXCEPT !.type = "SEND", !.user = u, !.channel = ch,
                                   !.event = e]
<1>4. PICK n \in 1..MaxReports :
         /\ nextEvent' = nextEvent + n
         /\ SaveEvents(cmd.channel, currentUsername,
                       [i \in 1..n |-> nextEvent + i])
         /\ frames' = [i \in 1..n |-> ask([k \in 1..n |-> nextEvent + k][i])]
  BY <1>3 DEF Report
<1>5. n \in Nat \ {0}
  BY <1>0
<1>6. \A e \in Nat : /\ ask(e) \in Request /\ ask(e).type = "SEND"
                     /\ ask(e).user = u /\ ask(e).channel = ch
                     /\ ask(e).event = e
  BY BlankTyped DEF Request, Response
<1> HIDE DEF ask
<1>7. \A i \in 1..n : /\ [k \in 1..n |-> nextEvent + k][i] = nextEvent + i
                      /\ nextEvent + i \in Nat
  BY <1>0, <1>5
<1>8. frames' = [i \in 1..n |-> ask(nextEvent + i)]
  BY <1>4, <1>7
<1>9. frames' \in Seq(Request) /\ Len(frames') = n
  BY <1>5, <1>6, <1>7, <1>8
<1>10. \A i \in 1..n : /\ frames'[i].type = "SEND"
                       /\ frames'[i].user = currentUsername
                       /\ frames'[i].channel = cmd.channel
                       /\ frames'[i].event = nextEvent + i
  BY <1>3, <1>6, <1>7, <1>8
<1> QED BY <1>1, <1>2, <1>3, <1>4, <1>5, <1>9, <1>10

\* The first frame is sent, or lost.
LEMMA SendFrameStep ==
    ASSUME TypeInv, SendFrame
    PROVE  /\ pc["keyboard"] = "send" /\ linked /\ frames # <<>>
           /\ pc' \in [Threads -> Steps] /\ pc'["main"] = pc["main"]
           /\ pc'["keyboard"] = IF frames' = <<>> THEN "idle" ELSE "send"
           /\ toServer' = toServer \/ toServer' = Append(toServer, Head(frames))
           /\ frames' = Tail(frames)
           /\ UNCHANGED <<linked, up, toClient, stateVars, dataVars, cmd, issued,
                          response, shown>>
<1>0. TypeOK /\ Named
  BY Typed
<1>1. PICK s \in Steps : Goto("keyboard", s)
                         /\ s = IF frames' = <<>> THEN "idle" ELSE "send"
  BY DEF SendFrame, Steps
<1>2. /\ pc' \in [Threads -> Steps] /\ pc'["main"] = pc["main"]
      /\ pc'["keyboard"] = s
  BY <1>0, <1>1, Went DEF Threads
<1>3. pc["keyboard"] = "send" /\ frames # <<>>
  BY <1>0 DEF SendFrame, Named
<1> QED BY <1>1, <1>2, <1>3 DEF SendFrame

\* The first answer is received.
LEMMA ReceiveStep ==
    ASSUME TypeInv, Receive
    PROVE  /\ pc["main"] = "idle" /\ linked /\ toClient # <<>>
           /\ response' = Head(toClient) /\ response' \in Response
           /\ toClient' = Tail(toClient)
           /\ pc' \in [Threads -> Steps] /\ pc'["keyboard"] = pc["keyboard"]
           /\ pc'["main"] = response'.type
           /\ pc'["main"] \in {"CONNECTED", "RECEIPT", "ERROR", "MESSAGE"}
           /\ UNCHANGED <<linked, up, toServer, stateVars, dataVars, inputVars,
                          shown>>
<1>0. TypeOK /\ toClient \in Seq(Response)
  BY Typed
<1>1. Head(toClient) \in Response
  BY <1>0, Tailed DEF Receive
<1>2. /\ Head(toClient).type \in {"CONNECTED", "RECEIPT", "ERROR", "MESSAGE"}
      /\ Head(toClient).type \in Steps
  BY <1>1 DEF Response, Steps
<1>3. /\ pc' \in [Threads -> Steps] /\ pc'["keyboard"] = pc["keyboard"]
      /\ pc'["main"] = Head(toClient).type
  BY <1>0, <1>2, Went DEF Receive, Threads
<1> QED BY <1>1, <1>2, <1>3 DEF Receive

\* The server answers the first request.
LEMMA AnswerStep ==
    ASSUME TypeInv, ServerAnswer
    PROVE  /\ toServer # <<>> /\ toServer' = Tail(toServer)
           /\ \E a \in Response :
                 /\ toClient' = Append(toClient, a)
                 /\ a.receipt = Head(toServer).receipt /\ a.text = Head(toServer).text
                 /\ a.user = Head(toServer).user /\ a.channel = Head(toServer).channel
                 /\ a.event = Head(toServer).event
                 /\ a.type = "MESSAGE" => Head(toServer).type = "SEND"
                 /\ a.type = "CONNECTED" => Head(toServer).type = "CONNECT"
                 /\ a.type = "RECEIPT" => Head(toServer).type \in Receipted
           /\ UNCHANGED <<linked, up, stateVars, dataVars, pc, inputVars, response,
                          shown>>
<1>1. PICK r \in Request : r = Head(toServer)
  BY Typed, Tailed DEF ServerAnswer
<1>2. PICK type \in {TypeOfAnswer(r.type), "ERROR"} :
         toClient' = Append(toClient, [r EXCEPT !.type = type])
  BY <1>1 DEF ServerAnswer
<1> DEFINE a == [r EXCEPT !.type = type]
<1>3. /\ a \in Response /\ a.type = type /\ a.receipt = r.receipt
      /\ a.text = r.text /\ a.user = r.user /\ a.channel = r.channel
      /\ a.event = r.event
  BY AnswerTyped DEF Request, Response
<1>6. /\ type = "MESSAGE" => r.type = "SEND"
      /\ type = "CONNECTED" => r.type = "CONNECT"
      /\ type = "RECEIPT" => r.type \in Receipted
  BY AnswerTyped
<1>4. toClient' = Append(toClient, a)
  BY <1>2
<1> HIDE DEF a
<1>5. /\ toServer # <<>> /\ toServer' = Tail(toServer)
      /\ UNCHANGED <<linked, up, stateVars, dataVars, pc, inputVars, response, shown>>
  BY DEF ServerAnswer
<1> QED BY <1>1, <1>3, <1>4, <1>5, <1>6

\* The server passes on the report of another user.
LEMMA MessageStep ==
    ASSUME TypeInv, NEW u \in Others, NEW ch \in Channels, ServerMessage(u, ch)
    PROVE  /\ nextEvent' = nextEvent + 1 /\ nextEvent' \in Nat
           /\ \E a \in Response :
                 /\ toClient' = Append(toClient, a)
                 /\ a.type = "MESSAGE" /\ a.user = u /\ a.channel = ch
                 /\ a.event = nextEvent + 1
           /\ UNCHANGED <<linked, up, toServer, stateVars, nextReceiptId,
                          nextSubscriptionId, channelToSubId, receiptIdToMsg,
                          userChannelEvents, pc, inputVars, response, shown>>
<1>1. nextEvent + 1 \in Nat
  BY Typed
<1> PICK e \in Nat : e = nextEvent + 1
  BY <1>1
<1> DEFINE a == [Blank EXCEPT !.type = "MESSAGE", !.user = u, !.channel = ch,
                              !.event = e]
<1>2. /\ a \in Response /\ a.type = "MESSAGE" /\ a.user = u /\ a.channel = ch
      /\ a.event = e
  BY BlankTyped DEF Response
<1>3. /\ nextEvent' = nextEvent + 1 /\ toClient' = Append(toClient, a)
      /\ UNCHANGED <<linked, up, toServer, stateVars, nextReceiptId,
                     nextSubscriptionId, channelToSubId, receiptIdToMsg,
                     userChannelEvents, pc, inputVars, response, shown>>
  BY DEF ServerMessage
<1> HIDE DEF a
<1> QED BY <1>1, <1>2, <1>3
-----------------------------------------------------------------------------
(* Type correctness *)

\* The types hold at first
LEMMA InitTyped == Init => TypeInv
<1> SUFFICES ASSUME Init PROVE TypeInv
  OBVIOUS
<1>1. userChannelEvents \in [Channels -> [Users \cup Others -> Seq(Nat)]]
  BY DEF Init
<1>2. pc \in [{"keyboard", "main"} -> Steps]
  BY DEF Init, Steps
<1>3. IdMap(channelToSubId) /\ TextMap(receiptIdToMsg)
  BY DEF Init, IdMap, TextMap
<1>5. TypeOK
  BY <1>1, <1>2, <1>3, EmptyTyped, BlankTyped DEF Init, TypeOK, IdMap, TextMap
<1>4. Named
  BY NoneName DEF Init, Named
<1> QED BY <1>4, <1>5 DEF TypeInv

\* and after each step.
LEMMA TypeStep ==
    ASSUME TypeInv, [Next]_vars
    PROVE  TypeInv'
<1> USE DEF Threads
<1>0. /\ TypeOK /\ Named /\ pc \in [Threads -> Steps]
      /\ toServer \in Seq(Request) /\ toClient \in Seq(Response)
      /\ frames \in Seq(Request) /\ response \in Response
      /\ nextEvent \in Nat /\ nextReceiptId \in Nat /\ nextSubscriptionId \in Nat
      /\ cmd.channel \in Channels /\ cmd.user \in Users
      /\ currentUsername \in Users \cup {None}
      /\ IdMap(channelToSubId) /\ TextMap(receiptIdToMsg)
      /\ userChannelEvents \in [Channels -> [Users \cup Others -> Seq(Nat)]]
  BY Typed
<1>n. /\ AllName(frames, Users, nextEvent) /\ AllName(toServer, Users, nextEvent)
      /\ AllName(toClient, Users \cup Others, nextEvent)
  BY <1>0 DEF Named
<1>e. /\ <<>> \in Seq(Request) /\ <<>> \in Seq(Response)
      /\ AllName(<<>>, Users, nextEvent) /\ AllName(<<>>, Users \cup Others, nextEvent)
  BY EmptyTyped, NoneName
<1> USE DEF linkVars, stateVars, dataVars, inputVars
<1>1. ASSUME NEW op \in Commands, NEW u \in Users, NEW ch \in Channels,
             ReadCommand(op, u, ch)
      PROVE  TypeInv'
  <2>1. op \in Steps /\ op \notin {"idle", "send", "hello"} /\ Goto("keyboard", op)
    BY <1>1 DEF ReadCommand, Commands, Steps
  <2>2. /\ pc' \in [Threads -> Steps] /\ pc'["keyboard"] = op
        /\ pc'["main"] = pc["main"]
    BY <1>0, <2>1, Went
  <2>3. issued' \in Nat /\ cmd'.channel \in Channels /\ cmd'.user \in Users
    BY <1>0, <1>1 DEF ReadCommand, TypeOK
  <2>4. TypeOK'
    BY <1>0, <1>1, <2>2, <2>3 DEF ReadCommand, TypeOK
  <2>5. op = "login" \/ linked
    BY <1>1 DEF ReadCommand
  <2>6. Named'
    BY <1>0, <1>1, <2>1, <2>2, <2>5 DEF ReadCommand, Named
  <2> QED BY <2>4, <2>6 DEF TypeInv
<1>2. CASE LoginRefused
  <2>1. /\ pc' \in [Threads -> Steps] /\ pc'["keyboard"] = "idle"
        /\ pc'["main"] = pc["main"]
    BY <1>0, <1>2, Went DEF LoginRefused, Steps
  <2>2. TypeOK'
    BY <1>0, <1>2, <2>1 DEF LoginRefused, TypeOK
  <2>3. Named'
    BY <1>0, <1>2, <2>1 DEF LoginRefused, Named
  <2> QED BY <2>2, <2>3 DEF TypeInv
<1>3. CASE LoginConnect
  <2>1. PICK ok \in BOOLEAN : /\ linked' = ok /\ up' = ok
                              /\ Goto("keyboard", IF ok THEN "hello" ELSE "idle")
    BY <1>3 DEF LoginConnect
  <2>2. /\ pc' \in [Threads -> Steps] /\ pc'["main"] = pc["main"]
        /\ pc'["keyboard"] = (IF ok THEN "hello" ELSE "idle")
    BY <1>0, <2>1, Went DEF Steps
  <2>3. TypeOK'
    BY <1>0, <1>3, <1>e, <2>1, <2>2 DEF LoginConnect, TypeOK
  <2>4. Named'
    BY <1>0, <1>3, <1>e, <2>1, <2>2 DEF LoginConnect, Named
  <2> QED BY <2>3, <2>4 DEF TypeInv
<1>4. CASE LoginSend
  <2>1. /\ pc["keyboard"] = "hello" /\ linked
        /\ pc' \in [Threads -> Steps] /\ pc'["main"] = pc["main"]
        /\ pc'["keyboard"] = "idle"
        /\ \/ currentUsername' = cmd.user /\ linked' = linked
           \/ linked' = FALSE /\ ~up /\ currentUsername' = currentUsername
        /\ toClient' \in {toClient, <<>>}
        /\ UNCHANGED <<up, isLoggedIn, dataVars, inputVars, response, shown>>
    BY <1>4, LoginSendStep
  <2>2. /\ toServer' \in Seq(Request) /\ AllName(toServer', Users, nextEvent)
    <3>1. CASE toServer' = toServer
      BY <1>0, <1>n, <3>1
    <3>2. ASSUME NEW r \in Request, r.type = "CONNECT", toServer' = Append(toServer, r)
          PROVE  toServer' \in Seq(Request) /\ AllName(toServer', Users, nextEvent)
      <4>1. Names(r, Users, nextEvent)
        BY <3>2 DEF Names
      <4>2. Append(toServer, r) \in Seq(Request)
        BY <1>0
      <4>3. AllName(Append(toServer, r), Users, nextEvent)
        BY <1>0, <1>n, <4>1, NamesKept
      <4> QED BY <3>2, <4>2, <4>3
    <3> QED BY <1>4, <3>1, <3>2, LoginSendStep
  <2>3. /\ toClient' \in Seq(Response)
        /\ AllName(toClient', Users \cup Others, nextEvent)
    BY <1>0, <1>n, <1>e, <2>1
  <2>4. TypeOK'
    BY <1>0, <2>1, <2>2, <2>3 DEF TypeOK
  <2>5. Named'
    BY <1>0, <2>1, <2>2, <2>3 DEF Named
  <2> QED BY <2>4, <2>5 DEF TypeInv
<1>5. CASE Asks
  <2>1. /\ pc["keyboard"] \in {"join", "exit", "logout"}
        /\ pc' \in [Threads -> Steps] /\ pc'["main"] = pc["main"]
        /\ IdMap(channelToSubId') /\ TextMap(receiptIdToMsg')
        /\ nextReceiptId' \in Nat /\ nextSubscriptionId' \in Nat
        /\ frames' \in Seq(Request)
        /\ UNCHANGED <<linkVars, stateVars, userChannelEvents, nextEvent, cmd,
                       issued, response, shown>>
    BY <1>5, AsksStep
  <2>2. TypeOK'
    BY <1>0, <2>1 DEF TypeOK, IdMap, TextMap
  <2>3. \/ pc'["keyboard"] = "idle" /\ frames' = frames
        \/ /\ pc'["keyboard"] = "send"
           /\ \E r \in Request : frames' = <<r>> /\ r.type \in Receipted
    BY <1>5, AsksStep
  <2>4. /\ pc'["keyboard"] \in {"idle", "send"}
        /\ pc'["keyboard"] = "send" <=> frames' # <<>>
        /\ AllName(frames', Users, nextEvent)
    <3>1. CASE pc'["keyboard"] = "idle" /\ frames' = frames
      BY <1>0, <1>n, <2>1, <3>1 DEF Named
    <3>2. ASSUME pc'["keyboard"] = "send", NEW r \in Request, frames' = <<r>>,
                 r.type \in Receipted
          PROVE  frames' # <<>> /\ AllName(frames', Users, nextEvent)
      BY <3>2 DEF AllName, Names, Receipted
    <3> QED BY <2>3, <3>1, <3>2
  <2>5. Named'
    BY <1>0, <2>1, <2>4 DEF Named
  <2> QED BY <2>2, <2>5 DEF TypeInv
<1>6. CASE Report
  <2>1. /\ pc["keyboard"] = "report" /\ currentUsername \in Users
        /\ pc' \in [Threads -> Steps] /\ pc'["main"] = pc["main"]
        /\ pc'["keyboard"] = "send"
        /\ UNCHANGED <<linkVars, stateVars, nextReceiptId, nextSubscriptionId,
                       channelToSubId, receiptIdToMsg, cmd, issued, response, shown>>
    BY <1>6, ReportStep
  <2>2. PICK n \in Nat \ {0} :
           /\ nextEvent' = nextEvent + n
           /\ frames' \in Seq(Request) /\ Len(frames') = n
           /\ \A i \in 1..n : /\ frames'[i].type = "SEND"
                              /\ frames'[i].user = currentUsername
                              /\ frames'[i].channel = cmd.channel
                              /\ frames'[i].event = nextEvent + i
           /\ SaveEvents(cmd.channel, currentUsername, [i \in 1..n |-> nextEvent + i])
    BY <1>6, ReportStep
  <2>3. nextEvent' \in Nat /\ nextEvent <= nextEvent'
    BY <1>0, <2>2
  <2>4. [i \in 1..n |-> nextEvent + i] \in Seq(Nat)
    BY <1>0
  <2>5. userChannelEvents' \in [Channels -> [Users \cup Others -> Seq(Nat)]]
    BY <1>0, <2>1, <2>2, <2>4, Saves
  <2>6. TypeOK'
    BY <1>0, <2>1, <2>2, <2>3, <2>5 DEF TypeOK
  <2>7. /\ AllName(toServer, Users, nextEvent')
        /\ AllName(toClient, Users \cup Others, nextEvent')
    BY <1>0, <1>n, <2>3, NamesKept
  <2>8. AllName(frames', Users, nextEvent')
    BY <1>0, <2>1, <2>2 DEF AllName, Names
  <2>9. frames' # <<>>
    BY <2>2
  <2>10. pc["main"] # "idle" => Names(response, Users \cup Others, nextEvent')
    BY <1>0, <2>3 DEF Named, Names
  <2>11. Named'
    BY <1>0, <2>1, <2>7, <2>8, <2>9, <2>10 DEF Named
  <2> QED BY <2>6, <2>11 DEF TypeInv
<1>7. CASE SendFrame
  <2>1. /\ pc["keyboard"] = "send" /\ linked /\ frames # <<>>
        /\ pc' \in [Threads -> Steps] /\ pc'["main"] = pc["main"]
        /\ pc'["keyboard"] = IF frames' = <<>> THEN "idle" ELSE "send"
        /\ toServer' = toServer \/ toServer' = Append(toServer, Head(frames))
        /\ frames' = Tail(frames)
        /\ UNCHANGED <<linked, up, toClient, stateVars, dataVars, cmd, issued,
                       response, shown>>
    BY <1>7, SendFrameStep
  <2>a. Head(frames) \in Request /\ frames' \in Seq(Request)
    BY <1>0, <2>1, Tailed
  <2>2. /\ Head(frames) \in Request /\ frames' \in Seq(Request)
        /\ Names(Head(frames), Users, nextEvent)
        /\ AllName(frames', Users, nextEvent)
    BY <1>0, <1>n, <2>1, <2>a, NamesKept
  <2>3. toServer' \in Seq(Request) /\ AllName(toServer', Users, nextEvent)
    <3>1. Append(toServer, Head(frames)) \in Seq(Request)
      BY <1>0, <2>2
    <3>2. AllName(Append(toServer, Head(frames)), Users, nextEvent)
      BY <1>0, <1>n, <2>2, NamesKept
    <3> QED BY <1>0, <1>n, <2>1, <3>1, <3>2
  <2>4. TypeOK'
    BY <1>0, <2>1, <2>2, <2>3 DEF TypeOK
  <2>5. Named'
    BY <1>0, <2>1, <2>2, <2>3 DEF Named
  <2> QED BY <2>4, <2>5 DEF TypeInv
<1>8. CASE SendFails
  <2>1. /\ pc' \in [Threads -> Steps] /\ pc'["keyboard"] = "clear"
        /\ pc'["main"] = pc["main"]
    BY <1>0, <1>8, Went DEF SendFails, Steps
  <2>2. TypeOK'
    BY <1>0, <1>8, <1>e, <2>1 DEF SendFails, TypeOK
  <2>3. Named'
    BY <1>0, <1>8, <1>e, <2>1 DEF SendFails, Named
  <2> QED BY <2>2, <2>3 DEF TypeInv
<1>9. ASSUME NEW t \in Threads, Clear(t) PROVE TypeInv'
  <2>1. /\ pc' \in [Threads -> Steps] /\ pc'[t] = "drop" /\ pc[t] = "clear"
        /\ \A u \in Threads \ {t} : pc'[u] = pc[u]
    BY <1>0, <1>9, Went DEF Clear, Steps
  <2>2. TypeOK'
    <3>1. IdMap(channelToSubId')
      BY <1>9 DEF Clear, IdMap
    <3> QED BY <1>0, <1>9, <2>1, <3>1 DEF Clear, TypeOK, IdMap
  <2>3. Named'
    BY <1>0, <1>9, <2>1 DEF Clear, Named
  <2> QED BY <2>2, <2>3 DEF TypeInv
<1>10. ASSUME NEW t \in Threads, Drop(t) PROVE TypeInv'
  <2>1. /\ pc' \in [Threads -> Steps] /\ pc'[t] = "logoff" /\ pc[t] = "drop"
        /\ \A u \in Threads \ {t} : pc'[u] = pc[u]
    BY <1>0, <1>10, Went DEF Drop, Steps
  <2>a. /\ linked' = FALSE /\ up' = FALSE /\ toServer' = <<>> /\ toClient' = <<>>
        /\ UNCHANGED <<stateVars, dataVars, inputVars, response, shown>>
    BY <1>10 DEF Drop
  <2>b. /\ linked' \in BOOLEAN /\ up' \in BOOLEAN /\ up' => linked'
        /\ toServer' \in Seq(Request) /\ toClient' \in Seq(Response)
    BY <1>e, <2>a
  <2>2. TypeOK'
    BY <1>0, <2>1, <2>a, <2>b DEF TypeOK
  <2>3. Named'
    BY <1>0, <1>10, <1>e, <2>1 DEF Drop, Named
  <2> QED BY <2>2, <2>3 DEF TypeInv
<1>11. ASSUME NEW t \in Threads, LogOff(t) PROVE TypeInv'
  <2>1. /\ pc' \in [Threads -> Steps] /\ pc'[t] = "idle" /\ pc[t] = "logoff"
        /\ \A u \in Threads \ {t} : pc'[u] = pc[u]
    BY <1>0, <1>11, Went DEF LogOff, Steps
  <2>2. TypeOK'
    BY <1>0, <1>11, <2>1 DEF LogOff, TypeOK
  <2>3. Named'
    BY <1>0, <1>11, <2>1 DEF LogOff, Named
  <2> QED BY <2>2, <2>3 DEF TypeInv
<1>12. CASE Receive
  <2>1. /\ pc["main"] = "idle" /\ linked /\ toClient # <<>>
        /\ response' = Head(toClient) /\ response' \in Response
        /\ toClient' = Tail(toClient)
        /\ pc' \in [Threads -> Steps] /\ pc'["keyboard"] = pc["keyboard"]
        /\ pc'["main"] = response'.type
        /\ pc'["main"] \in {"CONNECTED", "RECEIPT", "ERROR", "MESSAGE"}
        /\ UNCHANGED <<linked, up, toServer, stateVars, dataVars, inputVars, shown>>
    BY <1>12, ReceiveStep
  <2>a. toClient' \in Seq(Response)
    BY <1>0, <2>1, Tailed
  <2>2. /\ toClient' \in Seq(Response)
        /\ AllName(toClient', Users \cup Others, nextEvent)
        /\ Names(response', Users \cup Others, nextEvent)
    BY <1>0, <1>n, <2>1, <2>a, NamesKept
  <2>3. TypeOK'
    BY <1>0, <2>1, <2>2 DEF TypeOK
  <2>4. Named'
    BY <1>0, <2>1, <2>2 DEF Named
  <2> QED BY <2>3, <2>4 DEF TypeInv
<1>13. CASE HandleConnected \/ HandleError
  <2>1. PICK s \in {"idle", "clear"} :
           /\ Goto("main", s)
           /\ s = "clear" => pc["main"] = "ERROR"
           /\ isLoggedIn' \in {isLoggedIn, TRUE}
           /\ UNCHANGED <<linkVars, currentUsername, dataVars, inputVars, response,
                          shown>>
    BY <1>13 DEF HandleConnected, HandleError
  <2>2. pc' \in [Threads -> Steps] /\ pc'["main"] = s /\ pc'["keyboard"] = pc["keyboard"]
    BY <1>0, <2>1, Went DEF Steps
  <2>3. TypeOK'
    BY <1>0, <2>1, <2>2 DEF TypeOK
  <2>4. s = "clear" => response.type = "ERROR"
    BY <1>0, <2>1 DEF Named
  <2>5. s = "clear" => Names(response, Users \cup Others, nextEvent)
    BY <1>0, <2>1 DEF Named
  <2>6. Named'
    BY <1>0, <2>1, <2>2, <2>4, <2>5 DEF Named
  <2> QED BY <2>3, <2>6 DEF TypeInv
<1>14. CASE HandleReceipt
  <2>1. PICK s \in {"idle", "clear"} : Goto("main", s)
    BY <1>14 DEF HandleReceipt
  <2>2. pc' \in [Threads -> Steps] /\ pc'["main"] = s /\ pc'["keyboard"] = pc["keyboard"]
    BY <1>0, <2>1, Went DEF Steps
  <2>3. /\ pc["main"] = "RECEIPT"
        /\ receiptIdToMsg' = Erase(receiptIdToMsg, response.receipt)
        /\ shown' = shown \cup
              {[for |-> response.text, said |-> MsgOf(response.receipt)]}
        /\ UNCHANGED <<linkVars, stateVars, nextReceiptId, nextSubscriptionId,
                       channelToSubId, userChannelEvents, nextEvent, inputVars,
                       response>>
    BY <1>14 DEF HandleReceipt
  <2>4. response.text \in Texts /\ MsgOf(response.receipt) \in Texts
    BY <1>0, SilenceTyped DEF MsgOf, TextMap, Response
  <2>5. TextMap(receiptIdToMsg')
    BY <1>0, <2>3 DEF TextMap, Erase, Restrict
  <2>6. shown' \in SUBSET [for : Texts, said : Texts]
    BY <1>0, <2>3, <2>4 DEF TypeOK
  <2>7. TypeOK'
    BY <1>0, <2>2, <2>3, <2>5, <2>6 DEF TypeOK, TextMap
  <2>8. Named'
    BY <1>0, <2>2, <2>3 DEF Named
  <2> QED BY <2>7, <2>8 DEF TypeInv
<1>15. CASE HandleMessage
  <2>1. /\ pc' \in [Threads -> Steps] /\ pc'["main"] = "idle"
        /\ pc'["keyboard"] = pc["keyboard"]
        /\ pc["main"] = "MESSAGE"
        /\ UNCHANGED <<linkVars, stateVars, nextReceiptId, nextSubscriptionId,
                       channelToSubId, receiptIdToMsg, nextEvent, inputVars,
                       response, shown>>
    BY <1>0, <1>15, Went DEF HandleMessage, Steps
  <2>2. /\ response.user \in Users \cup Others /\ response.channel \in Channels
        /\ <<response.event>> \in Seq(Nat)
    BY <1>0, <2>1 DEF Named, Names
  <2>3. userChannelEvents' \in [Channels -> [Users \cup Others -> Seq(Nat)]]
    <3>1. \/ UNCHANGED userChannelEvents
          \/ SaveEvents(response.channel, response.user, <<response.event>>)
      BY <1>15 DEF HandleMessage
    <3>2. PICK u \in Users \cup Others, ch \in Channels, s \in Seq(Nat) :
             u = response.user /\ ch = response.channel /\ s = <<response.event>>
      BY <2>2
    <3>3. SaveEvents(ch, u, s) =>
             userChannelEvents' \in [Channels -> [Users \cup Others -> Seq(Nat)]]
      BY Saves
    <3> QED BY <1>0, <3>1, <3>2, <3>3
  <2>4. TypeOK'
    BY <1>0, <2>1, <2>3 DEF TypeOK
  <2>5. Named'
    BY <1>0, <2>1 DEF Named
  <2> QED BY <2>4, <2>5 DEF TypeInv
<1>16. CASE ServerAnswer
  <2>1. /\ toServer # <<>> /\ toServer' = Tail(toServer)
        /\ UNCHANGED <<linked, up, stateVars, dataVars, pc, inputVars, response,
                       shown>>
    BY <1>16, AnswerStep
  <2>2. PICK a \in Response :
           /\ toClient' = Append(toClient, a)
           /\ a.user = Head(toServer).user /\ a.channel = Head(toServer).channel
           /\ a.event = Head(toServer).event
           /\ a.type = "MESSAGE" => Head(toServer).type = "SEND"
    BY <1>16, AnswerStep
  <2>a. toServer' \in Seq(Request)
    BY <1>0, <2>1, Tailed
  <2>3. /\ Names(Head(toServer), Users, nextEvent)
        /\ toServer' \in Seq(Request) /\ AllName(toServer', Users, nextEvent)
    BY <1>0, <1>n, <2>1, <2>a, NamesKept
  <2>4. a.type # "SEND"
    BY DEF Response
  <2>5. Names(a, Users \cup Others, nextEvent)
    BY <2>2, <2>3, <2>4 DEF Names
  <2>6. Append(toClient, a) \in Seq(Response)
    BY <1>0
  <2>7. AllName(Append(toClient, a), Users \cup Others, nextEvent)
    BY <1>0, <1>n, <2>5, NamesKept
  <2>8. TypeOK'
    BY <1>0, <2>1, <2>2, <2>3, <2>6 DEF TypeOK
  <2>9. Named'
    BY <1>0, <2>1, <2>2, <2>3, <2>7 DEF Named
  <2> QED BY <2>8, <2>9 DEF TypeInv
<1>17. ASSUME NEW u \in Others, NEW ch \in Channels, ServerMessage(u, ch)
       PROVE  TypeInv'
  <2>1. /\ nextEvent' = nextEvent + 1 /\ nextEvent' \in Nat
        /\ UNCHANGED <<linked, up, toServer, stateVars, nextReceiptId,
                       nextSubscriptionId, channelToSubId, receiptIdToMsg,
                       userChannelEvents, pc, inputVars, response, shown>>
    BY <1>17, MessageStep
  <2>2. PICK a \in Response :
           /\ toClient' = Append(toClient, a) /\ a.type = "MESSAGE" /\ a.user = u
           /\ a.channel = ch /\ a.event = nextEvent + 1
    BY <1>17, MessageStep
  <2>3. /\ AllName(toServer, Users, nextEvent') /\ AllName(frames, Users, nextEvent')
        /\ AllName(toClient, Users \cup Others, nextEvent')
    <3>1. nextEvent' \in Nat /\ nextEvent <= nextEvent'
      BY <1>0, <2>1
    <3>2. AllName(toServer, Users, nextEvent') /\ AllName(frames, Users, nextEvent')
      BY <1>0, <1>n, <3>1, NamesKept
    <3>3. AllName(toClient, Users \cup Others, nextEvent')
      BY <1>0, <1>n, <3>1, NamesKept
    <3> QED BY <3>2, <3>3
  <2>4. pc["main"] # "idle" => Names(response, Users \cup Others, nextEvent')
    BY <1>0, <2>1 DEF Named, Names
  <2>5. Names(a, Users \cup Others, nextEvent')
    BY <1>0, <2>1, <2>2 DEF Names
  <2>6. Append(toClient, a) \in Seq(Response)
    BY <1>0
  <2>7. AllName(Append(toClient, a), Users \cup Others, nextEvent')
    BY <1>0, <2>1, <2>3, <2>5, NamesKept
  <2>8. TypeOK'
    BY <1>0, <2>1, <2>2, <2>6 DEF TypeOK
  <2>9. Named'
    BY <1>0, <2>1, <2>2, <2>3, <2>4, <2>7 DEF Named
  <2> QED BY <2>8, <2>9 DEF TypeInv
<1>18. CASE Cut
  <2>1. /\ toServer' = <<>> /\ toClient' \in {toClient, <<>>} /\ up' = FALSE
        /\ UNCHANGED <<linked, stateVars, dataVars, pc, inputVars, response, shown>>
    BY <1>18 DEF Cut
  <2>2. toClient' \in Seq(Response) /\ AllName(toClient', Users \cup Others, nextEvent)
    BY <1>0, <1>n, <1>e, <2>1
  <2>3. TypeOK'
    BY <1>0, <1>e, <2>1, <2>2 DEF TypeOK
  <2>4. Named'
    BY <1>0, <1>e, <2>1, <2>2 DEF Named
  <2> QED BY <2>3, <2>4 DEF TypeInv
<1>19. CASE UNCHANGED vars
  BY <1>0, <1>19 DEF vars, TypeInv, TypeOK, Named
<1> QED
  BY <1>1, <1>2, <1>3, <1>4, <1>5, <1>6, <1>7, <1>8, <1>9, <1>10, <1>11, <1>12,
     <1>13, <1>14, <1>15, <1>16, <1>17, <1>18, <1>19
  DEF Next, KeyboardStep, MainStep, Disconnect, Asks

\* They hold at all times.
LEMMA TypeInvariance == Spec => []TypeInv
  BY InitTyped, TypeStep, PTL DEF Spec

\* TypeOK holds in every state, whatever the bounds and the window are.
THEOREM TypeCorrect == Spec => []TypeOK
<1>1. TypeInv => TypeOK
  BY DEF TypeInv
<1> QED BY <1>1, TypeInvariance, PTL
-----------------------------------------------------------------------------
(* One request at a time *)

\* Nothing that has a receipt, and no login, is on its way.
Calm == /\ \A i \in 1..Len(toServer) : toServer[i].type = "SEND"
        /\ \A i \in 1..Len(toClient) : toClient[i].type \notin {"CONNECTED", "RECEIPT"}
        /\ pc["main"] \notin {"CONNECTED", "RECEIPT"}

Carries == {"login", "hello", "join", "exit", "report", "logout"}

\* When all is answered nothing on its way needs a receipt.
LEMMA CalmQuiet == ASSUME TypeInv, Quiet PROVE Calm
<1>1. Len(toServer) = 0
  BY EmptyTyped DEF Quiet
<1>2. Named
  BY DEF TypeInv
<1> QED BY <1>1, <1>2 DEF Quiet, NoAnswer, Calm, IsAnswer, Named

\* The keyboard thread is at work, or a report is not yet answered.
LEMMA CalmBusy ==
    ASSUME TypeInv, OneAtATime
    PROVE  /\ pc["keyboard"] # "idle" => Calm
           /\ toServer # <<>> =>
                 /\ \A i \in 1..Len(toClient) :
                       toClient[i].type \notin {"CONNECTED", "RECEIPT"}
                 /\ pc["main"] \notin {"CONNECTED", "RECEIPT"}
  BY DEF OneAtATime, Calm

\* Then a keyboard thread that is at no command disturbs nothing.
LEMMA CalmAlone ==
    ASSUME Calm', pc'["keyboard"] \notin Carries \cup {"send"}
    PROVE  OneAtATime'
  BY DEF OneAtATime, Calm, Carries

\* The main thread ends its work, or what was on its way is lost.
LEMMA LessAlone ==
    ASSUME OneAtATime, toServer' \in {toServer, <<>>}, toClient' \in {toClient, <<>>},
           frames' = frames, response' = response, receiptIdToMsg' = receiptIdToMsg,
           pc'["keyboard"] = pc["keyboard"],
           \/ pc'["main"] = pc["main"]
           \/ pc["main"] # "idle" /\ pc'["main"] \notin {"CONNECTED", "RECEIPT"}
    PROVE  OneAtATime'
<1>1. Len(<<>>) = 0
  BY EmptyTyped
<1>2. NoAnswer => NoAnswer'
  BY <1>1 DEF NoAnswer, IsAnswer
<1>3. Quiet => Quiet'
  BY <1>2 DEF Quiet
<1>4. \A r : Noted(r) => Noted(r)'
  BY DEF Noted
<1> QED BY <1>1, <1>2, <1>3, <1>4 DEF OneAtATime, Noted

\* With a window of one, a command begins when all is answered.
LEMMA NoneUnanswered ==
    ASSUME TypeInv, Unanswered < 1
    PROVE  Quiet
<1> DEFINE A == {i \in 1..Len(toClient) : IsAnswer(toClient[i])}
           m == IF pc["main"] # "idle" /\ IsAnswer(response) THEN 1 ELSE 0
<1>1. toServer \in Seq(Request) /\ toClient \in Seq(Response)
  BY Typed
<1>2. IsFiniteSet(A) /\ Cardinality(A) \in Nat
  <2>1. Len(toClient) \in Nat
    BY <1>1
  <2>2. IsFiniteSet(1..Len(toClient))
    BY <2>1, FS_Interval
  <2>3. A \subseteq 1..Len(toClient)
    OBVIOUS
  <2> HIDE DEF A
  <2> QED BY <2>2, <2>3, FS_Subset, FS_CardinalityType
<1>3. Len(toServer) \in Nat /\ m \in Nat
  BY <1>1
<1>4. Len(toServer) + Cardinality(A) + m < 1
  BY DEF Unanswered
<1>5. Len(toServer) = 0 /\ Cardinality(A) = 0 /\ m = 0
  <2> HIDE DEF A, m
  <2> QED BY <1>2, <1>3, <1>4
<1>6. A = {}
  <2> HIDE DEF A
  <2> QED BY <1>2, <1>5, FS_EmptySet
<1>7. toServer = <<>>
  BY <1>1, <1>5
<1>8. pc["main"] = "idle" \/ ~ IsAnswer(response)
  BY <1>5
<1> QED BY <1>6, <1>7, <1>8 DEF Quiet, NoAnswer

\* It all holds at first.
LEMMA InitAlone == Init => OneAtATime /\ SessionEnds /\ ReceiptNamesItsRequest
<1> SUFFICES ASSUME Init PROVE OneAtATime /\ SessionEnds /\ ReceiptNamesItsRequest
  OBVIOUS
<1>1. Len(<<>>) = 0
  BY EmptyTyped
<1>2. OneAtATime
  BY <1>1 DEF Init, OneAtATime
<1>3. SessionEnds /\ ReceiptNamesItsRequest
  BY DEF Init, SessionEnds, ReceiptNamesItsRequest
<1> QED BY <1>2, <1>3

\* A step of a user who waits keeps one request at a time.
LEMMA AloneStep ==
    ASSUME TypeInv, Window = 1, OneAtATime, [Next]_vars
    PROVE  OneAtATime'
<1> USE DEF linkVars, stateVars, dataVars, inputVars
<1>0. /\ TypeOK /\ Named /\ pc \in [Threads -> Steps]
      /\ toServer \in Seq(Request) /\ toClient \in Seq(Response)
      /\ frames \in Seq(Request) /\ response \in Response
      /\ TextMap(receiptIdToMsg)
  BY Typed
<1>e. Len(<<>>) = 0
  BY EmptyTyped
<1>b. /\ pc["keyboard"] # "idle" => Calm
      /\ pc["keyboard"] \in Carries => Quiet
  BY CalmBusy DEF OneAtATime, Carries
<1>1. ASSUME NEW op \in Commands, NEW u \in Users, NEW ch \in Channels,
             ReadCommand(op, u, ch)
      PROVE  OneAtATime'
  <2>1. Quiet /\ Calm
    BY <1>1, NoneUnanswered, CalmQuiet DEF ReadCommand
  <2>2. op \in Steps /\ op # "send" /\ Goto("keyboard", op)
    BY <1>1 DEF ReadCommand, Commands, Steps
  <2>3. /\ pc' \in [Threads -> Steps] /\ pc'["keyboard"] = op
        /\ pc'["main"] = pc["main"]
    BY <1>0, <2>2, Went DEF Threads
  <2>4. UNCHANGED <<toServer, toClient, response>>
    BY <1>1 DEF ReadCommand
  <2>5. Quiet' /\ Calm'
    BY <2>1, <2>3, <2>4 DEF Quiet, NoAnswer, Calm, IsAnswer
  <2> QED BY <2>2, <2>3, <2>5 DEF OneAtATime, Calm
<1>2. CASE LoginRefused
  <2>1. /\ pc'["keyboard"] = "idle" /\ pc'["main"] = pc["main"]
        /\ pc["keyboard"] = "login" /\ UNCHANGED <<toServer, toClient>>
    BY <1>0, <1>2, Went DEF LoginRefused, Steps, Threads
  <2>2. Calm'
    BY <1>b, <2>1 DEF Calm
  <2> QED BY <2>1, <2>2, CalmAlone DEF Carries
<1>3. CASE LoginConnect
  <2>1. PICK s \in {"idle", "hello"} : Goto("keyboard", s)
    BY <1>3 DEF LoginConnect
  <2>2. pc'["main"] = pc["main"] /\ pc'["keyboard"] = s
    BY <1>0, <2>1, Went DEF Threads, Steps
  <2>3. /\ pc["keyboard"] = "login" /\ toServer' = <<>> /\ toClient' = <<>>
        /\ response' = response
    BY <1>3 DEF LoginConnect
  <2>4. Quiet /\ Calm
    BY <1>b, <2>3 DEF Carries
  <2>5. Quiet' /\ Calm'
    BY <1>e, <2>2, <2>3, <2>4 DEF Quiet, NoAnswer, Calm, IsAnswer
  <2> QED BY <2>2, <2>5 DEF OneAtATime, Calm
<1>4. CASE LoginSend
  <2>1. /\ pc["keyboard"] = "hello" /\ pc'["main"] = pc["main"]
        /\ pc'["keyboard"] = "idle" /\ toClient' \in {toClient, <<>>}
        /\ response' = response
    BY <1>4, LoginSendStep
  <2>2. Quiet /\ Calm
    BY <1>b, <2>1 DEF Carries
  <2>3. NoAnswer'
    BY <1>e, <2>1, <2>2 DEF Quiet, NoAnswer, IsAnswer
  <2>4. toServer' = <<>> \/ \E r \in Request : r.type = "CONNECT" /\ toServer' = <<r>>
    <3>1. toServer = <<>>
      BY <2>2 DEF Quiet
    <3>2. \A r \in Request : Append(<<>>, r) = <<r>>
      OBVIOUS
    <3> QED BY <1>4, <3>1, <3>2, LoginSendStep
  <2>5. CASE toServer' = <<>>
    <3>1. Calm'
      BY <1>e, <2>1, <2>2, <2>5 DEF Calm
    <3> QED BY <2>1, <3>1, CalmAlone DEF Carries
  <2>6. ASSUME NEW r \in Request, r.type = "CONNECT", toServer' = <<r>>
        PROVE  OneAtATime'
    <3>1. Len(toServer') = 1 /\ toServer'[1] = r
      BY <2>6
    <3>2. /\ \A i \in 1..Len(toServer') : /\ toServer'[i].type # "SEND"
                                         /\ toServer'[i].type \notin Receipted
      BY <2>6, <3>1 DEF Receipted
    <3>3. /\ \A i \in 1..Len(toClient') :
                toClient'[i].type \notin {"CONNECTED", "RECEIPT"}
          /\ pc'["main"] \notin {"CONNECTED", "RECEIPT"}
      BY <1>e, <2>1, <2>2 DEF Calm
    <3> QED BY <2>1, <2>3, <3>1, <3>2, <3>3 DEF OneAtATime
  <2> QED BY <2>4, <2>5, <2>6
<1>5. CASE Asks
  <2>1. /\ pc["keyboard"] \in {"join", "exit", "logout"} /\ pc'["main"] = pc["main"]
        /\ UNCHANGED <<toServer, toClient, response>>
    BY <1>5, AsksStep
  <2>2. Quiet /\ Calm
    BY <1>b, <2>1 DEF Carries
  <2>3. Quiet' /\ Calm'
    BY <2>1, <2>2 DEF Quiet, NoAnswer, Calm, IsAnswer
  <2>4. CASE pc'["keyboard"] = "idle"
    BY <2>3, <2>4, CalmAlone DEF Carries
  <2>5. ASSUME pc'["keyboard"] = "send", NEW r \in Request, frames' = <<r>>,
               r.type \in Receipted, r.receipt \in DOMAIN receiptIdToMsg',
               receiptIdToMsg'[r.receipt] = r.text
        PROVE  OneAtATime'
    <3>1. Len(frames') = 1 /\ frames'[1] = r
      BY <2>5
    <3>2. frames'[1].type \in Receipted /\ Noted(frames[1])'
      BY <2>5, <3>1 DEF Noted
    <3> QED BY <2>3, <2>5, <3>1, <3>2 DEF OneAtATime, Calm
  <2> QED BY <1>5, <2>4, <2>5, AsksStep
<1>6. CASE Report
  <2>1. /\ pc["keyboard"] = "report" /\ pc'["main"] = pc["main"]
        /\ pc'["keyboard"] = "send" /\ UNCHANGED <<toServer, toClient>>
    BY <1>6, ReportStep
  <2>2. \A i \in 1..Len(frames') : frames'[i].type = "SEND"
    BY <1>6, ReportStep
  <2>3. Calm'
    BY <1>b, <2>1 DEF Calm
  <2> QED BY <2>1, <2>2, <2>3 DEF OneAtATime, Calm
<1>7. CASE SendFrame
  <2>1. /\ pc["keyboard"] = "send" /\ frames # <<>>
        /\ pc'["main"] = pc["main"]
        /\ pc'["keyboard"] = IF frames' = <<>> THEN "idle" ELSE "send"
        /\ toServer' = toServer \/ toServer' = Append(toServer, Head(frames))
        /\ frames' = Tail(frames)
        /\ UNCHANGED <<toClient, response, receiptIdToMsg>>
    BY <1>7, SendFrameStep
  <2>2. Calm
    BY <1>b, <2>1
  <2>3. CASE \A i \in 1..Len(frames) : frames[i].type = "SEND"
    <3>1. Head(frames).type = "SEND" /\ \A i \in 1..Len(frames') : frames'[i].type = "SEND"
      BY <1>0, <2>1, <2>3, Tailed
    <3>2. \A i \in 1..Len(toServer') : toServer'[i].type = "SEND"
      <4>1. Head(frames) \in Request
        BY <1>0, <2>1, Tailed
      <4>2. \A i \in 1..Len(Append(toServer, Head(frames))) :
               Append(toServer, Head(frames))[i].type = "SEND"
        BY <1>0, <2>2, <3>1, <4>1, Appended DEF Calm
      <4> QED BY <2>1, <2>2, <4>2 DEF Calm
    <3>3. Calm'
      BY <2>1, <2>2, <3>2 DEF Calm
    <3> QED BY <2>1, <3>1, <3>3 DEF OneAtATime, Calm
  <2>4. CASE /\ Quiet /\ Len(frames) = 1 /\ frames[1].type \in Receipted
             /\ Noted(frames[1])
    <3>1. PICK r \in Request : r = frames[1] /\ r = Head(frames)
      BY <1>0, <2>1, Tailed
    <3>2. Head(frames) = r /\ frames' = <<>>
      BY <1>0, <2>1, <2>4, <3>1
    <3>3. pc'["keyboard"] = "idle"
      BY <2>1, <3>2
    <3>4. NoAnswer'
      BY <2>1, <2>4 DEF Quiet, NoAnswer, IsAnswer
    <3>5. toServer' = <<>> \/ toServer' = <<r>>
      BY <2>1, <2>4, <3>2 DEF Quiet
    <3>6. CASE toServer' = <<>>
      <4>1. Calm'
        BY <1>e, <2>1, <2>2, <3>6 DEF Calm
      <4> QED BY <3>3, <4>1, CalmAlone DEF Carries
    <3>7. CASE toServer' = <<r>>
      <4>1. Len(toServer') = 1 /\ toServer'[1] = r
        BY <3>7
      <4>2. \A i \in 1..Len(toServer') : Noted(toServer[i])'
        BY <2>1, <2>4, <3>1, <4>1 DEF Noted
      <4>3. /\ \A i \in 1..Len(toClient') :
                  toClient'[i].type \notin {"CONNECTED", "RECEIPT"}
            /\ pc'["main"] \notin {"CONNECTED", "RECEIPT"}
        BY <2>1, <2>2 DEF Calm
      <4> QED BY <3>3, <3>4, <4>1, <4>2, <4>3 DEF OneAtATime
    <3> QED BY <3>5, <3>6, <3>7
  <2> QED BY <2>1, <2>3, <2>4 DEF OneAtATime
<1>8. CASE SendFails
  <2>1. /\ pc'["keyboard"] = "clear" /\ pc'["main"] = pc["main"]
        /\ pc["keyboard"] = "send" /\ UNCHANGED <<toServer, toClient>>
    BY <1>0, <1>8, Went DEF SendFails, Steps, Threads
  <2>2. Calm'
    BY <1>b, <2>1 DEF Calm
  <2> QED BY <2>1, <2>2, CalmAlone DEF Carries
<1>9. ASSUME NEW t \in Threads, Disconnect(t) PROVE OneAtATime'
  <2>1. PICK s \in {"drop", "logoff", "idle"} : Goto(t, s)
    BY <1>9 DEF Disconnect, Clear, Drop, LogOff
  <2>2. pc'[t] = s /\ \A u \in Threads \ {t} : pc'[u] = pc[u]
    BY <1>0, <2>1, Went DEF Steps
  <2>3. /\ pc[t] \in {"clear", "drop", "logoff"}
        /\ toServer' \in {toServer, <<>>} /\ toClient' \in {toClient, <<>>}
        /\ UNCHANGED <<frames, response, receiptIdToMsg>>
    BY <1>9 DEF Disconnect, Clear, Drop, LogOff
  <2>4. CASE t = "keyboard"
    <3>1. Calm'
      BY <1>b, <1>e, <2>2, <2>3, <2>4 DEF Calm, Threads
    <3> QED BY <2>2, <2>4, <3>1, CalmAlone DEF Carries
  <2>5. CASE t = "main"
    <3>1. pc'["keyboard"] = pc["keyboard"] /\ pc["main"] # "idle"
      BY <2>2, <2>3, <2>5 DEF Threads
    <3> QED BY <2>2, <2>3, <2>5, <3>1, LessAlone
  <2> QED BY <2>4, <2>5 DEF Threads
<1>10. CASE HandleConnected \/ HandleError \/ HandleMessage
  <2>1. PICK s \in {"idle", "clear"} : Goto("main", s)
    BY <1>10 DEF HandleConnected, HandleError, HandleMessage
  <2>2. pc'["main"] = s /\ pc'["keyboard"] = pc["keyboard"]
    BY <1>0, <2>1, Went DEF Steps, Threads
  <2>3. pc["main"] # "idle"
        /\ UNCHANGED <<toServer, toClient, frames, response, receiptIdToMsg>>
    BY <1>10 DEF HandleConnected, HandleError, HandleMessage
  <2> QED BY <2>2, <2>3, LessAlone
<1>11. CASE HandleReceipt
  <2>1. PICK s \in {"idle", "clear"} : Goto("main", s)
    BY <1>11 DEF HandleReceipt
  <2>2. pc'["main"] = s /\ pc'["keyboard"] = pc["keyboard"]
    BY <1>0, <2>1, Went DEF Steps, Threads
  <2>3. pc["main"] = "RECEIPT" /\ UNCHANGED <<toServer, toClient>>
    BY <1>11 DEF HandleReceipt
  <2>4. /\ pc["keyboard"] = "idle" /\ toServer = <<>>
        /\ \A i \in 1..Len(toClient) : ~ IsAnswer(toClient[i])
    BY <2>3 DEF OneAtATime
  <2>5. Calm'
    BY <1>e, <2>2, <2>3, <2>4 DEF Calm, IsAnswer
  <2> QED BY <2>2, <2>4, <2>5, CalmAlone DEF Carries
<1>12. CASE Receive
  <2>1. /\ pc["main"] = "idle" /\ toClient # <<>> /\ response' = Head(toClient)
        /\ toClient' = Tail(toClient)
        /\ pc'["keyboard"] = pc["keyboard"] /\ pc'["main"] = response'.type
        /\ UNCHANGED <<toServer, frames, receiptIdToMsg>>
    BY <1>12, ReceiveStep
  <2>2. /\ response' = toClient[1] /\ 1 \in 1..Len(toClient)
        /\ \A i \in 1..Len(toClient') :
              i + 1 \in 1..Len(toClient) /\ toClient'[i] = toClient[i + 1]
        /\ \A i \in 1..Len(toClient') : i \in Nat /\ i + 1 # 1
    BY <1>0, <2>1, Tailed
  <2>3. NoAnswer => NoAnswer'
    BY <2>1, <2>2 DEF NoAnswer
  <2>4. Quiet => Quiet'
    BY <2>1, <2>3 DEF Quiet
  <2>5. pc'["keyboard"] \in Carries => Quiet'
    BY <1>b, <2>1, <2>4
  <2>6. pc'["keyboard"] = "send" =>
          \/ \A i \in 1..Len(frames') : frames'[i].type = "SEND"
          \/ /\ Quiet' /\ Len(frames') = 1 /\ frames'[1].type \in Receipted
             /\ Noted(frames[1])'
    BY <2>1, <2>4 DEF OneAtATime, Noted
  <2>7. ASSUME NEW i \in 1..Len(toServer'), toServer'[i].type # "SEND"
        PROVE  /\ pc'["keyboard"] = "idle" /\ Len(toServer') = 1 /\ NoAnswer'
               /\ toServer'[i].type \in Receipted => Noted(toServer[i])'
    BY <2>1, <2>3, <2>7 DEF OneAtATime, Noted
  <2>8. ASSUME NEW i \in 1..Len(toClient'),
               toClient'[i].type \in {"CONNECTED", "RECEIPT"}
        PROVE  /\ pc'["keyboard"] = "idle" /\ toServer' = <<>>
               /\ \A k \in 1..Len(toClient') : k # i => ~ IsAnswer(toClient'[k])
               /\ ~ IsAnswer(response')
               /\ toClient'[i].type = "RECEIPT" => Noted(toClient[i])'
    <3>1. i + 1 \in 1..Len(toClient) /\ toClient'[i] = toClient[i + 1] /\ i + 1 # 1
      BY <2>2
    <3>2. /\ pc["keyboard"] = "idle" /\ toServer = <<>>
          /\ \A k \in 1..Len(toClient) : k # i + 1 => ~ IsAnswer(toClient[k])
          /\ toClient[i + 1].type = "RECEIPT" => Noted(toClient[i + 1])
      BY <2>8, <3>1 DEF OneAtATime
    <3>3. \A k \in 1..Len(toClient') : k # i => k + 1 # i + 1
      OBVIOUS
    <3> QED BY <2>1, <2>2, <3>1, <3>2, <3>3 DEF Noted
  <2>9. ASSUME pc'["main"] \in {"CONNECTED", "RECEIPT"}
        PROVE  /\ pc'["keyboard"] = "idle" /\ toServer' = <<>>
               /\ \A k \in 1..Len(toClient') : ~ IsAnswer(toClient'[k])
               /\ pc'["main"] = "RECEIPT" => Noted(response)'
    <3>1. /\ pc["keyboard"] = "idle" /\ toServer = <<>>
          /\ \A k \in 1..Len(toClient) : k # 1 => ~ IsAnswer(toClient[k])
          /\ toClient[1].type = "RECEIPT" => Noted(toClient[1])
      BY <2>1, <2>2, <2>9 DEF OneAtATime
    <3> QED BY <2>1, <2>2, <3>1 DEF Noted
  <2> QED BY <2>5, <2>6, <2>7, <2>8, <2>9 DEF OneAtATime, Carries
<1>13. CASE ServerAnswer
  <2>1. /\ toServer # <<>> /\ toServer' = Tail(toServer)
        /\ UNCHANGED <<pc, response, frames, receiptIdToMsg>>
    BY <1>13, AnswerStep
  <2>2. PICK a \in Response :
           /\ toClient' = Append(toClient, a)
           /\ a.receipt = Head(toServer).receipt /\ a.text = Head(toServer).text
           /\ a.type = "CONNECTED" => Head(toServer).type = "CONNECT"
           /\ a.type = "RECEIPT" => Head(toServer).type \in Receipted
    BY <1>13, AnswerStep
  <2>3. /\ \A i \in 1..Len(toClient) :
              toClient[i].type \notin {"CONNECTED", "RECEIPT"}
        /\ pc["main"] \notin {"CONNECTED", "RECEIPT"}
        /\ pc["keyboard"] \notin Carries
    BY <1>b, <2>1, CalmBusy DEF Quiet
  <2>4. pc["keyboard"] = "send" => \A i \in 1..Len(frames) : frames[i].type = "SEND"
    BY <2>1 DEF OneAtATime, Quiet
  <2>5. /\ Head(toServer) = toServer[1] /\ 1 \in 1..Len(toServer)
        /\ Len(toServer') = Len(toServer) - 1 /\ Len(toServer) \in Nat
        /\ \A i \in 1..Len(toServer') :
              i + 1 \in 1..Len(toServer) /\ toServer'[i] = toServer[i + 1]
    BY <1>0, <2>1, Tailed
  <2>6. /\ Len(toClient) \in Nat
        /\ \A i \in 1..Len(toClient') :
              \/ i \in 1..Len(toClient) /\ toClient'[i] = toClient[i]
              \/ i = Len(toClient) + 1 /\ toClient'[i] = a
    BY <1>0, <2>2, Appended
  <2>7. CASE toServer[1].type = "SEND"
    <3>1. a.type \notin {"CONNECTED", "RECEIPT"}
      BY <2>2, <2>5, <2>7 DEF Receipted
    <3>2. \A i \in 1..Len(toServer) : toServer[i].type = "SEND"
      <4>1. SUFFICES ASSUME NEW i \in 1..Len(toServer), toServer[i].type # "SEND"
                     PROVE  FALSE
        OBVIOUS
      <4>2. Len(toServer) = 1
        BY <4>1 DEF OneAtATime
      <4> QED BY <2>7, <4>1, <4>2
    <3>3. Calm'
      BY <2>1, <2>3, <2>5, <2>6, <3>1, <3>2 DEF Calm
    <3> QED BY <2>1, <2>3, <2>4, <3>3 DEF OneAtATime, Calm, Carries
  <2>8. CASE toServer[1].type # "SEND"
    <3>1. /\ pc["keyboard"] = "idle" /\ Len(toServer) = 1 /\ NoAnswer
          /\ toServer[1].type \in Receipted => Noted(toServer[1])
      BY <2>5, <2>8 DEF OneAtATime
    <3>2. toServer' = <<>>
      BY <1>0, <2>1, <3>1
    <3>3. a.type = "RECEIPT" => Noted(a)'
      BY <2>1, <2>2, <2>5, <3>1 DEF Noted
    <3>4. ASSUME NEW i \in 1..Len(toClient'),
                 toClient'[i].type \in {"CONNECTED", "RECEIPT"}
          PROVE  /\ \A k \in 1..Len(toClient') : k # i => ~ IsAnswer(toClient'[k])
                 /\ toClient'[i].type = "RECEIPT" => Noted(toClient[i])'
      <4>1. i = Len(toClient) + 1 /\ toClient'[i] = a
        BY <2>3, <2>6, <3>4
      <4>2. \A k \in 1..Len(toClient') : k # i => ~ IsAnswer(toClient'[k])
        BY <2>6, <3>1, <4>1 DEF NoAnswer
      <4>3. toClient'[i].type = "RECEIPT" => Noted(toClient[i])'
        BY <3>3, <4>1 DEF Noted
      <4> QED BY <4>2, <4>3
    <3>5. pc'["main"] = "idle" \/ ~ IsAnswer(response')
      BY <2>1, <3>1 DEF NoAnswer
    <3>6. /\ pc'["keyboard"] = "idle" /\ pc'["main"] \notin {"CONNECTED", "RECEIPT"}
          /\ Len(toServer') = 0
      BY <1>e, <2>1, <2>3, <3>1, <3>2
    <3>7. ASSUME NEW i \in 1..Len(toClient'),
                 toClient'[i].type \in {"CONNECTED", "RECEIPT"}
          PROVE  /\ pc'["keyboard"] = "idle" /\ toServer' = <<>>
                 /\ \A k \in 1..Len(toClient') : k # i => ~ IsAnswer(toClient'[k])
                 /\ pc'["main"] = "idle" \/ ~ IsAnswer(response')
                 /\ toClient'[i].type = "RECEIPT" => Noted(toClient[i])'
      BY <3>2, <3>4, <3>5, <3>6, <3>7
    <3> QED BY <3>6, <3>7 DEF OneAtATime
  <2> QED BY <2>7, <2>8
<1>14. ASSUME NEW u \in Others, NEW ch \in Channels, ServerMessage(u, ch)
       PROVE  OneAtATime'
  <2>1. UNCHANGED <<toServer, pc, response, frames, receiptIdToMsg>>
    BY <1>14, MessageStep
  <2>2. PICK a \in Response :
           toClient' = Append(toClient, a) /\ a.type = "MESSAGE" /\ a.user = u
    BY <1>14, MessageStep
  <2>3. ~ IsAnswer(a)
    BY <2>2, ClientAssumption DEF IsAnswer
  <2>4. /\ Len(toClient) \in Nat
        /\ \A i \in 1..Len(toClient') :
              \/ i \in 1..Len(toClient) /\ toClient'[i] = toClient[i]
              \/ i = Len(toClient) + 1 /\ toClient'[i] = a
    BY <1>0, <2>2, Appended
  <2>5. NoAnswer => NoAnswer'
    BY <2>1, <2>3, <2>4 DEF NoAnswer
  <2>6. Quiet => Quiet'
    BY <2>1, <2>5 DEF Quiet
  <2>7. pc'["keyboard"] \in Carries => Quiet'
    BY <1>b, <2>1, <2>6
  <2>8. pc'["keyboard"] = "send" =>
          \/ \A i \in 1..Len(frames') : frames'[i].type = "SEND"
          \/ /\ Quiet' /\ Len(frames') = 1 /\ frames'[1].type \in Receipted
             /\ Noted(frames[1])'
    BY <2>1, <2>6 DEF OneAtATime, Noted
  <2>9. ASSUME NEW i \in 1..Len(toServer'), toServer'[i].type # "SEND"
        PROVE  /\ pc'["keyboard"] = "idle" /\ Len(toServer') = 1 /\ NoAnswer'
               /\ toServer'[i].type \in Receipted => Noted(toServer[i])'
    BY <2>1, <2>5, <2>9 DEF OneAtATime, Noted
  <2>10. ASSUME NEW i \in 1..Len(toClient'),
                toClient'[i].type \in {"CONNECTED", "RECEIPT"}
         PROVE  /\ pc'["keyboard"] = "idle" /\ toServer' = <<>>
                /\ \A k \in 1..Len(toClient') : k # i => ~ IsAnswer(toClient'[k])
                /\ pc'["main"] = "idle" \/ ~ IsAnswer(response')
                /\ toClient'[i].type = "RECEIPT" => Noted(toClient[i])'
    <3>1. i \in 1..Len(toClient) /\ toClient'[i] = toClient[i]
      BY <2>2, <2>4, <2>10
    <3>2. /\ pc["keyboard"] = "idle" /\ toServer = <<>>
          /\ \A k \in 1..Len(toClient) : k # i => ~ IsAnswer(toClient[k])
          /\ pc["main"] = "idle" \/ ~ IsAnswer(response)
          /\ toClient[i].type = "RECEIPT" => Noted(toClient[i])
      BY <2>10, <3>1 DEF OneAtATime
    <3>3. \A k \in 1..Len(toClient') : k # i => ~ IsAnswer(toClient'[k])
      BY <2>3, <2>4, <3>2
    <3>4. toClient'[i].type = "RECEIPT" => Noted(toClient[i])'
      BY <2>1, <3>1, <3>2 DEF Noted
    <3> QED BY <2>1, <3>2, <3>3, <3>4
  <2>11. pc'["main"] \in {"CONNECTED", "RECEIPT"} =>
           /\ pc'["keyboard"] = "idle" /\ toServer' = <<>>
           /\ \A k \in 1..Len(toClient') : ~ IsAnswer(toClient'[k])
           /\ pc'["main"] = "RECEIPT" => Noted(response)'
    BY <2>1, <2>3, <2>4 DEF OneAtATime, Noted
  <2> QED BY <2>7, <2>8, <2>9, <2>10, <2>11 DEF OneAtATime, Carries
<1>15. CASE Cut \/ UNCHANGED vars
  <2>1. /\ toServer' \in {toServer, <<>>} /\ toClient' \in {toClient, <<>>}
        /\ UNCHANGED <<frames, response, receiptIdToMsg, pc>>
    BY <1>15 DEF Cut, vars
  <2> QED BY <2>1, LessAlone
<1>16. CASE KeyboardStep
  BY <1>2, <1>3, <1>4, <1>5, <1>6, <1>7, <1>8, <1>9, <1>16
  DEF KeyboardStep, Asks, Threads
<1>17. CASE MainStep
  <2>1. CASE Disconnect("main")
    BY <1>9, <2>1 DEF Threads
  <2> QED BY <1>10, <1>11, <1>12, <1>17, <2>1 DEF MainStep
<1> QED BY <1>1, <1>13, <1>14, <1>15, <1>16, <1>17 DEF Next

\* A step that closes the connection ends the session.
LEMMA SessionStep ==
    ASSUME TypeInv, OneAtATime, SessionEnds, [Next]_vars
    PROVE  SessionEnds'
<1> USE DEF Threads, linkVars, stateVars, dataVars, inputVars
<1>0. TypeOK /\ Named /\ pc \in [Threads -> Steps]
  BY Typed
<1>b. /\ pc["keyboard"] \in Carries => pc["main"] # "CONNECTED"
      /\ pc["keyboard"] # "idle" => pc["main"] # "CONNECTED"
  BY CalmBusy DEF Calm, Carries
<1>1. ASSUME NEW op \in Commands, NEW u \in Users, NEW ch \in Channels,
             ReadCommand(op, u, ch)
      PROVE  SessionEnds'
  <2>1. op \in Steps /\ op # "hello" /\ Goto("keyboard", op)
    BY <1>1 DEF ReadCommand, Commands, Steps
  <2>2. pc'["keyboard"] = op /\ pc'["main"] = pc["main"]
    BY <1>0, <2>1, Went
  <2> QED BY <1>1, <2>1, <2>2 DEF ReadCommand, SessionEnds
<1>2. CASE LoginRefused
  <2>1. pc'["keyboard"] = "idle" /\ pc'["main"] = pc["main"]
    BY <1>0, <1>2, Went DEF LoginRefused, Steps
  <2> QED BY <1>2, <2>1 DEF LoginRefused, SessionEnds
<1>3. CASE LoginConnect
  <2>1. PICK s \in {"idle", "hello"} : Goto("keyboard", s)
    BY <1>3 DEF LoginConnect
  <2>2. pc'["main"] = pc["main"] /\ pc'["keyboard"] = s
    BY <1>0, <2>1, Went DEF Steps
  <2>3. pc["keyboard"] = "login" /\ isLoggedIn' = FALSE
    BY <1>0, <1>3 DEF LoginConnect, TypeOK
  <2> QED BY <1>b, <2>2, <2>3 DEF SessionEnds
<1>4. CASE LoginSend
  <2>1. /\ pc["keyboard"] = "hello" /\ pc'["main"] = pc["main"]
        /\ pc'["keyboard"] = "idle" /\ isLoggedIn' = isLoggedIn
    BY <1>4, LoginSendStep
  <2> QED BY <1>b, <2>1 DEF SessionEnds
<1>5. CASE Asks \/ Report
  <2>1. /\ pc["keyboard"] \in {"join", "exit", "logout", "report"}
        /\ pc'["keyboard"] \in {"idle", "send"} /\ pc'["main"] = pc["main"]
        /\ linked' = linked /\ isLoggedIn' = isLoggedIn
    BY <1>5, AsksStep, ReportStep
  <2> QED BY <2>1 DEF SessionEnds
<1>6. CASE SendFrame
  <2>1. /\ pc["keyboard"] = "send" /\ pc'["keyboard"] \in {"idle", "send"}
        /\ pc'["main"] = pc["main"] /\ linked' = linked /\ isLoggedIn' = isLoggedIn
    BY <1>6, SendFrameStep
  <2> QED BY <2>1 DEF SessionEnds
<1>7. CASE SendFails
  <2>1. pc'["keyboard"] = "clear" /\ pc'["main"] = pc["main"]
    BY <1>0, <1>7, Went DEF SendFails, Steps
  <2> QED BY <1>7, <2>1 DEF SendFails, SessionEnds
<1>8. ASSUME NEW t \in Threads, Clear(t) PROVE SessionEnds'
  <2>1. /\ pc[t] = "clear" /\ pc'[t] = "drop"
        /\ \A u \in Threads \ {t} : pc'[u] = pc[u]
    BY <1>0, <1>8, Went DEF Clear, Steps
  <2> QED BY <1>8, <2>1 DEF Clear, SessionEnds
<1>9. ASSUME NEW t \in Threads, Drop(t) PROVE SessionEnds'
  <2>1. /\ pc[t] = "drop" /\ pc'[t] = "logoff"
        /\ \A u \in Threads \ {t} : pc'[u] = pc[u]
    BY <1>0, <1>9, Went DEF Drop, Steps
  <2>2. pc["main"] # "CONNECTED" \/ pc["keyboard"] = "idle"
    BY <1>b
  <2>3. /\ pc'["main"] # "CONNECTED"
        /\ pc'["keyboard"] = "hello" => pc["keyboard"] = "hello"
    BY <2>1, <2>2
  <2>4. isLoggedIn' = isLoggedIn
    BY <1>9 DEF Drop
  <2> QED BY <2>1, <2>3, <2>4 DEF SessionEnds
<1>10. ASSUME NEW t \in Threads, LogOff(t) PROVE SessionEnds'
  <2>1. /\ pc[t] = "logoff" /\ pc'[t] = "idle"
        /\ \A u \in Threads \ {t} : pc'[u] = pc[u]
    BY <1>0, <1>10, Went DEF LogOff, Steps
  <2> QED BY <1>10, <2>1 DEF LogOff, SessionEnds
<1>11. CASE Receive
  <2>1. /\ pc["main"] = "idle" /\ linked /\ pc'["keyboard"] = pc["keyboard"]
        /\ linked' = linked /\ isLoggedIn' = isLoggedIn
    BY <1>11, ReceiveStep
  <2> QED BY <2>1 DEF SessionEnds
<1>12. CASE HandleConnected
  <2>1. /\ pc'["main"] = "idle" /\ pc'["keyboard"] = pc["keyboard"]
        /\ pc["main"] = "CONNECTED" /\ pc["keyboard"] # "hello" /\ linked' = linked
    BY <1>0, <1>12, Went DEF HandleConnected, Steps
  <2> QED BY <2>1 DEF SessionEnds
<1>13. CASE HandleError \/ HandleReceipt \/ HandleMessage
  <2>1. PICK s \in {"idle", "clear"} : Goto("main", s)
    BY <1>13 DEF HandleError, HandleReceipt, HandleMessage
  <2>2. pc'["main"] = s /\ pc'["keyboard"] = pc["keyboard"]
    BY <1>0, <2>1, Went DEF Steps
  <2>3. /\ pc["main"] \in {"ERROR", "RECEIPT", "MESSAGE"}
        /\ linked' = linked /\ isLoggedIn' = isLoggedIn
    BY <1>13 DEF HandleError, HandleReceipt, HandleMessage
  <2> QED BY <2>2, <2>3 DEF SessionEnds
<1>14. CASE ServerAnswer
  <2>1. UNCHANGED <<linked, isLoggedIn, pc>>
    BY <1>14, AnswerStep
  <2> QED BY <2>1 DEF SessionEnds
<1>15. ASSUME NEW u \in Others, NEW ch \in Channels, ServerMessage(u, ch)
       PROVE  SessionEnds'
  <2>1. UNCHANGED <<linked, isLoggedIn, pc>>
    BY <1>15, MessageStep
  <2> QED BY <2>1 DEF SessionEnds
<1>16. CASE Cut \/ UNCHANGED vars
  BY <1>16 DEF Cut, vars, SessionEnds
<1>17. CASE KeyboardStep
  BY <1>2, <1>3, <1>4, <1>5, <1>6, <1>7, <1>8, <1>9, <1>10, <1>17
  DEF KeyboardStep, Asks, Disconnect
<1>18. CASE MainStep
  BY <1>8, <1>9, <1>10, <1>11, <1>12, <1>13, <1>18 DEF MainStep, Disconnect
<1> QED BY <1>1, <1>14, <1>15, <1>16, <1>17, <1>18 DEF Next

\* A step that shows a receipt shows the text of its request.
LEMMA NamedStep ==
    ASSUME TypeInv, OneAtATime, ReceiptNamesItsRequest, [Next]_vars
    PROVE  ReceiptNamesItsRequest'
<1> USE DEF linkVars, stateVars, dataVars, inputVars
<1>1. CASE HandleReceipt
  <2>1. pc["main"] = "RECEIPT"
    BY <1>1 DEF HandleReceipt
  <2>2. MsgOf(response.receipt) = response.text
    BY <2>1 DEF OneAtATime, Noted, MsgOf
  <2>3. shown' = shown \cup {[for |-> response.text, said |-> response.text]}
    BY <1>1, <2>2 DEF HandleReceipt
  <2> QED BY <2>3 DEF ReceiptNamesItsRequest
<1>2. CASE ~ HandleReceipt
  <2>1. CASE KeyboardStep \/ MainStep
    <3>1. CASE LoginSend \/ Asks \/ Report \/ SendFrame
      BY <3>1, LoginSendStep, AsksStep, ReportStep, SendFrameStep
      DEF ReceiptNamesItsRequest
    <3>2. CASE LoginRefused \/ LoginConnect \/ SendFails
      BY <3>2 DEF LoginRefused, LoginConnect, SendFails, ReceiptNamesItsRequest
    <3>3. ASSUME NEW t \in Threads, Disconnect(t) PROVE ReceiptNamesItsRequest'
      BY <3>3 DEF Disconnect, Clear, Drop, LogOff, ReceiptNamesItsRequest
    <3>4. CASE Receive \/ HandleConnected \/ HandleError \/ HandleMessage
      BY <3>4 DEF Receive, HandleConnected, HandleError, HandleMessage,
                  ReceiptNamesItsRequest
    <3> QED BY <1>2, <2>1, <3>1, <3>2, <3>3, <3>4
            DEF KeyboardStep, MainStep, Asks, Threads
  <2>2. ASSUME NEW op \in Commands, NEW u \in Users, NEW ch \in Channels,
               ReadCommand(op, u, ch)
        PROVE  ReceiptNamesItsRequest'
    BY <2>2 DEF ReadCommand, ReceiptNamesItsRequest
  <2>3. CASE ServerAnswer \/ Cut \/ UNCHANGED vars
    BY <2>3 DEF ServerAnswer, Cut, vars, ReceiptNamesItsRequest
  <2>4. ASSUME NEW u \in Others, NEW ch \in Channels, ServerMessage(u, ch)
        PROVE  ReceiptNamesItsRequest'
    BY <2>4 DEF ServerMessage, ReceiptNamesItsRequest
  <2> QED BY <2>1, <2>2, <2>3, <2>4 DEF Next
<1> QED BY <1>1, <1>2

\* For a user who waits, this holds at all times.
LEMMA WaitInvariance == Spec => []WaitInv
<1>1. Init => WaitInv
  BY InitAlone DEF WaitInv
<1>2. TypeInv /\ WaitInv /\ [Next]_vars => WaitInv'
  BY AloneStep, SessionStep, NamedStep DEF WaitInv
<1> QED BY <1>1, <1>2, TypeInvariance, PTL DEF Spec

\* What a user who waits for each answer is told of a receipt is what the
\* request was: the text that join, exit or logout noted under the receipt is
\* neither replaced nor taken before the receipt is handled.
THEOREM ReceiptsNamed ==
    ASSUME Window = 1
    PROVE  Spec => []ReceiptNamesItsRequest
<1>1. WaitInv => ReceiptNamesItsRequest
  BY DEF WaitInv
<1> QED BY <1>1, WaitInvariance, PTL

\* A client whose threads are idle and that has no connection is logged out, for
\* a user who waits for each answer: a late CONNECTED is not handled after
\* disconnect, and who closes the connection ends the session.
THEOREM OfflineLoggedOut ==
    ASSUME Window = 1
    PROVE  Spec => []OfflineIsLoggedOut
<1>1. WaitInv => OfflineIsLoggedOut
  <2>1. SUFFICES ASSUME SessionEnds PROVE OfflineIsLoggedOut
    BY DEF WaitInv
  <2>2. pc = [t \in {"keyboard", "main"} |-> "idle"] =>
           \A t \in {"keyboard", "main"} : pc[t] = "idle"
    OBVIOUS
  <2> QED BY <2>1, <2>2 DEF SessionEnds, OfflineIsLoggedOut
<1> QED BY <1>1, WaitInvariance, PTL
-----------------------------------------------------------------------------
(* Events *)

\* Steps that bring no message and save no event.
Sheds ==
    \/ \E op \in Commands, u \in Users, ch \in Channels : ReadCommand(op, u, ch)
    \/ LoginRefused \/ LoginConnect \/ SendFails
    \/ \E t \in Threads : Disconnect(t)
    \/ HandleConnected \/ HandleError \/ HandleReceipt \/ Cut \/ UNCHANGED vars

\* A step that neither sends nor saves at most drops what is on its way.
LEMMA ShedsStep ==
    ASSUME TypeInv, Sheds
    PROVE  /\ toServer' \in {toServer, <<>>} /\ toClient' \in {toClient, <<>>}
           /\ frames' \in {frames, <<>>}
           /\ pc'["main"] = pc["main"] \/ pc'["main"] # "MESSAGE"
           /\ UNCHANGED <<response, currentUsername, userChannelEvents, nextEvent>>
<1> USE DEF Threads, linkVars, stateVars, dataVars, inputVars
<1>0. TypeOK
  BY Typed
<1>1. ASSUME NEW op \in Commands, NEW u \in Users, NEW ch \in Channels,
             ReadCommand(op, u, ch)
      PROVE  pc'["main"] = pc["main"]
  <2>1. op \in Steps /\ Goto("keyboard", op)
    BY <1>1 DEF ReadCommand, Commands, Steps
  <2> QED BY <1>0, <2>1, Went
<1>2. CASE LoginRefused \/ LoginConnect \/ SendFails
  <2>1. PICK s \in {"idle", "hello", "clear"} : Goto("keyboard", s)
    BY <1>2 DEF LoginRefused, LoginConnect, SendFails
  <2>2. pc'["main"] = pc["main"]
    BY <1>0, <2>1, Went DEF Steps
  <2> QED BY <1>2, <2>2 DEF LoginRefused, LoginConnect, SendFails
<1>3. ASSUME NEW t \in Threads, Disconnect(t)
      PROVE  pc'["main"] = pc["main"] \/ pc'["main"] # "MESSAGE"
  <2>1. PICK s \in {"drop", "logoff", "idle"} : Goto(t, s)
    BY <1>3 DEF Disconnect, Clear, Drop, LogOff
  <2> QED BY <1>0, <2>1, Went DEF Steps
<1>4. CASE HandleConnected \/ HandleError \/ HandleReceipt
  <2>1. PICK s \in {"idle", "clear"} : Goto("main", s)
    BY <1>4 DEF HandleConnected, HandleError, HandleReceipt
  <2>2. pc'["main"] # "MESSAGE"
    BY <1>0, <2>1, Went DEF Steps
  <2> QED BY <1>4, <2>2 DEF HandleConnected, HandleError, HandleReceipt
<1>5. CASE Cut \/ UNCHANGED vars
  BY <1>5 DEF Cut, vars
<1>6. CASE \E op \in Commands, u \in Users, ch \in Channels : ReadCommand(op, u, ch)
  BY <1>1, <1>6 DEF ReadCommand
<1>7. CASE \E t \in Threads : Disconnect(t)
  BY <1>3, <1>7 DEF Disconnect, Clear, Drop, LogOff
<1> QED BY <1>2, <1>4, <1>5, <1>6, <1>7 DEF Sheds

\* Every step is of one of these kinds.
LEMMA StepsAre ==
    ASSUME [Next]_vars
    PROVE  \/ Sheds \/ LoginSend \/ Asks \/ Report \/ SendFrame \/ Receive
           \/ HandleMessage \/ ServerAnswer
           \/ \E u \in Others, ch \in Channels : ServerMessage(u, ch)
  BY DEF Next, KeyboardStep, MainStep, Sheds, Asks, Threads

\* A step brings back to the user only what is the user's.
LEMMA OwnStep ==
    ASSUME TypeInv, Window = 1 => OneAtATime, Window = 1 \/ OneName,
           OwnComesBack, [Next]_vars
    PROVE  OwnComesBack'
<1> USE DEF linkVars, stateVars, dataVars, inputVars
<1>0. /\ Named /\ toServer \in Seq(Request) /\ toClient \in Seq(Response)
      /\ frames \in Seq(Request) /\ cmd.user \in Users
  BY Typed
<1>e. Len(<<>>) = 0
  BY EmptyTyped
<1>1. CASE Sheds
  <2>1. /\ toServer' \in {toServer, <<>>} /\ toClient' \in {toClient, <<>>}
        /\ frames' \in {frames, <<>>}
        /\ pc'["main"] = pc["main"] \/ pc'["main"] # "MESSAGE"
        /\ UNCHANGED <<response, currentUsername>>
    BY <1>1, ShedsStep
  <2> QED BY <1>e, <2>1 DEF OwnComesBack
<1>2. CASE LoginSend
  <2>1. /\ pc["keyboard"] = "hello" /\ pc'["main"] = pc["main"]
        /\ currentUsername' \in {currentUsername, cmd.user}
        /\ toClient' \in {toClient, <<>>} /\ UNCHANGED <<frames, response>>
        /\ \/ toServer' = toServer
           \/ \E r \in Request : r.type = "CONNECT" /\ toServer' = Append(toServer, r)
    BY <1>2, LoginSendStep
  <2>2. frames = <<>>
    BY <1>0, <2>1 DEF Named
  <2>3. \A i \in 1..Len(toServer') : toServer'[i].type = "SEND" =>
           i \in 1..Len(toServer) /\ toServer'[i] = toServer[i]
    <3>1. ASSUME NEW r \in Request, r.type = "CONNECT", toServer' = Append(toServer, r)
          PROVE  \A i \in 1..Len(toServer') : toServer'[i].type = "SEND" =>
                    i \in 1..Len(toServer) /\ toServer'[i] = toServer[i]
      BY <1>0, <3>1, Appended
    <3> QED BY <2>1, <3>1
  <2>4. CASE Window = 1
    <3>1. Quiet
      BY <2>1, <2>4 DEF OneAtATime
    <3>2. Len(toServer) = 0
      BY <1>e, <3>1 DEF Quiet
    <3> QED BY <1>e, <2>1, <2>2, <2>3, <3>1, <3>2
            DEF OwnComesBack, Quiet, NoAnswer, IsAnswer
  <2>5. CASE OneName
    <3>1. \A u \in Users : u = cmd.user
      BY <1>0, <2>5 DEF OneName
    <3>2. \A i \in 1..Len(toServer) : toServer[i].type = "SEND" =>
             toServer[i].user = cmd.user
      BY <1>0, <3>1 DEF Named, AllName, Names
    <3>3. \A i \in 1..Len(toServer) : toServer[i].type = "SEND" =>
             toServer[i].user = currentUsername'
      BY <2>1, <3>2 DEF OwnComesBack
    <3>4. \A i \in 1..Len(toServer') : toServer'[i].type = "SEND" =>
             toServer'[i].user = currentUsername'
      BY <2>3, <3>3
    <3>5. \A u \in Users : u = currentUsername => u = currentUsername'
      BY <2>1, <3>1
    <3> QED BY <1>e, <2>1, <2>2, <3>4, <3>5 DEF OwnComesBack
  <2> QED BY <2>4, <2>5
<1>3. CASE Asks
  <2>1. /\ pc'["main"] = pc["main"]
        /\ UNCHANGED <<toServer, toClient, response, currentUsername>>
        /\ \/ frames' = frames
           \/ \E r \in Request : frames' = <<r>> /\ r.type \in Receipted
    BY <1>3, AsksStep
  <2>2. \A i \in 1..Len(frames') : frames'[i].type = "SEND" =>
           frames'[i].user = currentUsername
    <3>1. ASSUME NEW r \in Request, frames' = <<r>>, r.type \in Receipted
          PROVE  \A i \in 1..Len(frames') : frames'[i].type # "SEND"
      BY <3>1 DEF Receipted
    <3> QED BY <2>1, <3>1 DEF OwnComesBack
  <2> QED BY <2>1, <2>2 DEF OwnComesBack
<1>4. CASE Report
  <2>1. /\ pc'["main"] = pc["main"]
        /\ UNCHANGED <<toServer, toClient, response, currentUsername>>
        /\ \A i \in 1..Len(frames') : frames'[i].user = currentUsername
    BY <1>4, ReportStep
  <2> QED BY <2>1 DEF OwnComesBack
<1>5. CASE SendFrame
  <2>1. /\ frames # <<>> /\ pc'["main"] = pc["main"]
        /\ toServer' = toServer \/ toServer' = Append(toServer, Head(frames))
        /\ frames' = Tail(frames)
        /\ UNCHANGED <<toClient, response, currentUsername>>
    BY <1>5, SendFrameStep
  <2>2. PICK r \in Request : r = Head(frames) /\ r = frames[1] /\ 1 \in 1..Len(frames)
    BY <1>0, <2>1, Tailed
  <2>3. r.type = "SEND" => r.user = currentUsername
    BY <2>2 DEF OwnComesBack
  <2>4. \A i \in 1..Len(frames') : frames'[i].type = "SEND" =>
           frames'[i].user = currentUsername
    <3>1. \A i \in 1..Len(frames') :
             i + 1 \in 1..Len(frames) /\ frames'[i] = frames[i + 1]
      BY <1>0, <2>1, Tailed
    <3> QED BY <3>1 DEF OwnComesBack
  <2>5. \A i \in 1..Len(Append(toServer, r)) :
           Append(toServer, r)[i].type = "SEND" =>
              Append(toServer, r)[i].user = currentUsername
    BY <1>0, <2>3, Appended DEF OwnComesBack
  <2> QED BY <2>1, <2>2, <2>4, <2>5 DEF OwnComesBack
<1>6. CASE Receive
  <2>1. /\ toClient # <<>> /\ response' = Head(toClient) /\ toClient' = Tail(toClient)
        /\ pc'["main"] = response'.type
        /\ UNCHANGED <<toServer, frames, currentUsername>>
    BY <1>6, ReceiveStep
  <2>2. /\ response' = toClient[1] /\ 1 \in 1..Len(toClient)
        /\ \A i \in 1..Len(toClient') :
              i + 1 \in 1..Len(toClient) /\ toClient'[i] = toClient[i + 1]
    BY <1>0, <2>1, Tailed
  <2> QED BY <2>1, <2>2 DEF OwnComesBack
<1>7. CASE HandleMessage
  <2>1. pc'["main"] = "idle"
    BY <1>7, Typed, Went DEF HandleMessage, Threads, Steps
  <2> QED BY <1>7, <2>1 DEF HandleMessage, OwnComesBack
<1>8. CASE ServerAnswer
  <2>1. /\ toServer # <<>> /\ toServer' = Tail(toServer)
        /\ UNCHANGED <<pc, response, frames, currentUsername>>
    BY <1>8, AnswerStep
  <2>2. PICK a \in Response :
           /\ toClient' = Append(toClient, a) /\ a.user = Head(toServer).user
           /\ a.type = "MESSAGE" => Head(toServer).type = "SEND"
    BY <1>8, AnswerStep
  <2>3. /\ Head(toServer) = toServer[1] /\ 1 \in 1..Len(toServer)
        /\ \A i \in 1..Len(toServer') :
              i + 1 \in 1..Len(toServer) /\ toServer'[i] = toServer[i + 1]
    BY <1>0, <2>1, Tailed
  <2>4. a.type = "MESSAGE" => a.user = currentUsername
    BY <2>2, <2>3 DEF OwnComesBack
  <2>5. \A i \in 1..Len(toClient') :
           (i \in 1..Len(toClient) /\ toClient'[i] = toClient[i]) \/ toClient'[i] = a
    BY <1>0, <2>2, Appended
  <2> QED BY <2>1, <2>3, <2>4, <2>5 DEF OwnComesBack
<1>9. ASSUME NEW u \in Others, NEW ch \in Channels, ServerMessage(u, ch)
      PROVE  OwnComesBack'
  <2>1. UNCHANGED <<toServer, pc, response, frames, currentUsername>>
    BY <1>9, MessageStep
  <2>2. PICK a \in Response : toClient' = Append(toClient, a) /\ a.user = u
    BY <1>9, MessageStep
  <2>3. \A i \in 1..Len(toClient') :
           (i \in 1..Len(toClient) /\ toClient'[i] = toClient[i]) \/ toClient'[i] = a
    BY <1>0, <2>2, Appended
  <2>4. a.user \notin Users
    BY <2>2, ClientAssumption
  <2> QED BY <2>1, <2>3, <2>4 DEF OwnComesBack
<1> QED BY <1>1, <1>2, <1>3, <1>4, <1>5, <1>6, <1>7, <1>8, <1>9, StepsAre

\* Where no events are added, the saved ones stay.
LEMMA OthersSaved ==
    ASSUME TypeInv, NEW ch \in Channels, NEW u \in Users \cup Others,
           userChannelEvents'[ch][u] = userChannelEvents[ch][u]
    PROVE  Saved(ch, u)' = Saved(ch, u)
  BY DEF Saved

\* A step brings no message that was saved already.
LEMMA NewStep ==
    ASSUME TypeInv, OwnComesBack, NewComes, SavedOnce, [Next]_vars
    PROVE  NewComes'
<1> USE DEF linkVars, stateVars, dataVars, inputVars
<1>0. /\ Named /\ toServer \in Seq(Request) /\ toClient \in Seq(Response)
      /\ frames \in Seq(Request) /\ nextEvent \in Nat
      /\ Users \cap Others = {}
  BY Typed, ClientAssumption
<1>e. Len(<<>>) = 0
  BY EmptyTyped
<1>n. \A i \in 1..Len(toClient) : Foreign(toClient[i]) =>
         /\ toClient[i].channel \in Channels /\ toClient[i].user \in Others
         /\ toClient[i].event \in 1..nextEvent
  BY <1>0 DEF Named, AllName, Names, Foreign
\* The messages are the same or fewer, and no event of another user is saved.
<1>s. ASSUME \A ch \in Channels, u \in Others : Saved(ch, u)' = Saved(ch, u),
             toClient' \in {toClient, <<>>}, UNCHANGED response,
             pc'["main"] = pc["main"] \/ pc'["main"] # "MESSAGE"
      PROVE  NewComes'
  <2>1. \A i \in 1..Len(toClient') : i \in 1..Len(toClient) /\ toClient'[i] = toClient[i]
    BY <1>e, <1>s
  <2>2. ASSUME NEW i \in 1..Len(toClient'), Foreign(toClient'[i])
        PROVE  /\ toClient'[i].event \notin Saved(toClient[i].channel, toClient[i].user)'
               /\ \A k \in 1..Len(toClient') :
                     Foreign(toClient'[k]) /\ toClient'[i].event = toClient'[k].event
                        => i = k
    BY <1>n, <1>s, <2>1, <2>2 DEF NewComes
  <2>3. ASSUME pc'["main"] = "MESSAGE", response'.user \in Others
        PROVE  /\ response'.event \notin Saved(response.channel, response.user)'
               /\ \A i \in 1..Len(toClient') :
                     Foreign(toClient'[i]) => toClient'[i].event # response'.event
    <3>1. response.channel \in Channels /\ pc["main"] = "MESSAGE"
      BY <1>0, <1>s, <2>3 DEF Named, Names
    <3> QED BY <1>s, <2>1, <2>3, <3>1 DEF NewComes
  <2> QED BY <2>2, <2>3 DEF NewComes
<1>1. CASE Sheds
  BY <1>1, <1>s, ShedsStep DEF Saved
<1>2. CASE LoginSend
  BY <1>2, <1>s, LoginSendStep DEF Saved
<1>3. CASE Asks
  BY <1>3, <1>s, AsksStep DEF Saved
<1>4. CASE Report
  <2>1. /\ currentUsername \in Users /\ cmd.channel \in Channels
        /\ pc'["main"] = pc["main"] /\ UNCHANGED <<toClient, response>>
    BY <1>4, ReportStep, Typed
  <2>2. PICK n \in Nat \ {0} :
           SaveEvents(cmd.channel, currentUsername, [i \in 1..n |-> nextEvent + i])
    BY <1>4, ReportStep
  <2>a. [i \in 1..n |-> nextEvent + i] \in Seq(Nat)
    BY <1>0
  <2>3. PICK s \in Seq(Nat) : s = [i \in 1..n |-> nextEvent + i]
    BY <2>a, Zenon
  <2>4. PICK v \in Users, c \in Channels : v = currentUsername /\ c = cmd.channel
    BY <2>1
  <2>5. SaveEvents(c, v, s)
    BY <2>2, <2>3, <2>4
  <2>6. \A ch \in Channels, u \in Users \cup Others : ch # c \/ u # v =>
           userChannelEvents'[ch][u] = userChannelEvents[ch][u]
    BY <2>5, Saves
  <2>7. \A ch \in Channels, u \in Others :
           userChannelEvents'[ch][u] = userChannelEvents[ch][u]
    BY <1>0, <2>6
  <2> QED BY <1>s, <2>1, <2>7, OthersSaved
<1>5. CASE SendFrame
  BY <1>5, <1>s, SendFrameStep DEF Saved
<1>6. CASE Receive
  <2>1. /\ toClient # <<>> /\ response' = Head(toClient) /\ toClient' = Tail(toClient)
        /\ pc'["main"] = response'.type /\ UNCHANGED userChannelEvents
    BY <1>6, ReceiveStep
  <2>2. /\ response' = toClient[1] /\ 1 \in 1..Len(toClient)
        /\ \A i \in 1..Len(toClient') :
              i + 1 \in 1..Len(toClient) /\ toClient'[i] = toClient[i + 1]
    BY <1>0, <2>1, Tailed
  <2>3. \A ch, u : Saved(ch, u)' = Saved(ch, u)
    BY <2>1 DEF Saved
  <2>4. ASSUME NEW i \in 1..Len(toClient'), Foreign(toClient'[i])
        PROVE  /\ toClient'[i].event \notin Saved(toClient[i].channel, toClient[i].user)'
               /\ \A k \in 1..Len(toClient') :
                     Foreign(toClient'[k]) /\ toClient'[i].event = toClient'[k].event
                        => i = k
    <3>1. i + 1 \in 1..Len(toClient) /\ Foreign(toClient[i + 1])
      BY <2>2, <2>4
    <3>2. toClient'[i].event \notin Saved(toClient[i].channel, toClient[i].user)'
      BY <2>2, <2>3, <3>1 DEF NewComes
    <3>3. ASSUME NEW k \in 1..Len(toClient'), Foreign(toClient'[k]),
                 toClient'[i].event = toClient'[k].event
          PROVE  i = k
      <4>1. k + 1 \in 1..Len(toClient) /\ toClient'[k] = toClient[k + 1]
        BY <2>2
      <4>2. i + 1 = k + 1
        BY <2>2, <3>1, <3>3, <4>1 DEF NewComes
      <4> QED BY <4>2
    <3> QED BY <3>2, <3>3
  <2>5. ASSUME pc'["main"] = "MESSAGE", response'.user \in Others
        PROVE  /\ response'.event \notin Saved(response.channel, response.user)'
               /\ \A i \in 1..Len(toClient') :
                     Foreign(toClient'[i]) => toClient'[i].event # response'.event
    <3>1. Foreign(toClient[1]) /\ response' = toClient[1] /\ 1 \in 1..Len(toClient)
      BY <2>1, <2>2, <2>5 DEF Foreign
    <3>2. response'.event \notin Saved(response.channel, response.user)'
      BY <2>3, <3>1 DEF NewComes
    <3>3. ASSUME NEW i \in 1..Len(toClient'), Foreign(toClient'[i])
          PROVE  toClient'[i].event # response'.event
      <4>1. i + 1 \in 1..Len(toClient) /\ toClient'[i] = toClient[i + 1] /\ i + 1 # 1
        BY <2>2
      <4> QED BY <3>1, <3>3, <4>1 DEF NewComes
    <3> QED BY <3>2, <3>3
  <2> QED BY <2>4, <2>5 DEF NewComes
<1>7. CASE HandleMessage
  <2>1. pc["main"] = "MESSAGE" /\ pc'["main"] = "idle" /\ UNCHANGED <<toClient, response>>
    BY <1>7, Typed, Went DEF HandleMessage, Threads, Steps
  <2>2. \/ UNCHANGED userChannelEvents
        \/ /\ response.user # currentUsername
           /\ SaveEvents(response.channel, response.user, <<response.event>>)
    BY <1>7 DEF HandleMessage
  <2>3. CASE UNCHANGED userChannelEvents
    BY <1>s, <2>1, <2>3 DEF Saved
  <2>4. CASE /\ response.user # currentUsername
             /\ SaveEvents(response.channel, response.user, <<response.event>>)
    <3>1. PICK u \in Others, ch \in Channels, e \in Nat :
             u = response.user /\ ch = response.channel /\ e = response.event
      BY <1>0, <2>1, <2>4 DEF Named, Names, OwnComesBack
    <3>2. /\ userChannelEvents[ch][u] \in Seq(Nat)
          /\ userChannelEvents'[ch][u] = userChannelEvents[ch][u] \o <<e>>
          /\ \A c \in Channels, v \in Users \cup Others :
                c # ch \/ v # u => userChannelEvents'[c][v] = userChannelEvents[c][v]
      <4>a. <<e>> \in Seq(Nat)
        OBVIOUS
      <4>1. PICK s \in Seq(Nat) : s = <<e>>
        BY <4>a, Zenon
      <4>2. SaveEvents(ch, u, s)
        BY <2>4, <3>1, <4>1
      <4>3. /\ userChannelEvents[ch][u] \in Seq(Nat)
            /\ userChannelEvents'[ch][u] = userChannelEvents[ch][u] \o s
            /\ \A c \in Channels, v \in Users \cup Others :
                  c # ch \/ v # u =>
                     userChannelEvents'[c][v] = userChannelEvents[c][v]
        BY <4>2, Saves
      <4> QED BY <4>1, <4>3
    <3>3. Saved(ch, u)' \subseteq Saved(ch, u) \cup {e}
      BY <3>2, SMTT(20) DEF Saved
    <3>4. \A c \in Channels, v \in Others : Saved(c, v)' \subseteq Saved(c, v) \cup {e}
      BY <3>2, <3>3, OthersSaved
    <3>5. \A i \in 1..Len(toClient) : Foreign(toClient[i]) => toClient[i].event # e
      BY <2>1, <3>1 DEF NewComes
    <3>6. ASSUME NEW i \in 1..Len(toClient'), Foreign(toClient'[i])
          PROVE  toClient'[i].event \notin Saved(toClient[i].channel, toClient[i].user)'
      BY <1>n, <2>1, <3>4, <3>5, <3>6 DEF NewComes
    <3> QED BY <2>1, <3>6 DEF NewComes
  <2> QED BY <2>2, <2>3, <2>4
<1>8. CASE ServerAnswer
  <2>1. toServer # <<>> /\ UNCHANGED <<pc, response, userChannelEvents>>
    BY <1>8, AnswerStep
  <2>2. PICK a \in Response :
           /\ toClient' = Append(toClient, a) /\ a.user = Head(toServer).user
           /\ a.type = "MESSAGE" => Head(toServer).type = "SEND"
    BY <1>8, AnswerStep
  <2>3. ~ Foreign(a)
    <3>1. Head(toServer).type = "SEND" => Head(toServer).user \in Users
      BY <1>0, <2>1, Tailed DEF Named, AllName, Names
    <3> QED BY <1>0, <2>2, <3>1 DEF Foreign
  <2>4. \A i \in 1..Len(toClient') :
           (i \in 1..Len(toClient) /\ toClient'[i] = toClient[i]) \/ toClient'[i] = a
    BY <1>0, <2>2, Appended
  <2>5. \A i \in 1..Len(toClient') : Foreign(toClient'[i]) =>
           i \in 1..Len(toClient) /\ toClient'[i] = toClient[i]
    BY <2>3, <2>4
  <2>6. \A ch, u : Saved(ch, u)' = Saved(ch, u)
    BY <2>1 DEF Saved
  <2> QED BY <2>1, <2>5, <2>6 DEF NewComes
<1>9. ASSUME NEW u \in Others, NEW ch \in Channels, ServerMessage(u, ch)
      PROVE  NewComes'
  <2>1. UNCHANGED <<pc, response, userChannelEvents>>
    BY <1>9, MessageStep
  <2>2. PICK a \in Response :
           /\ toClient' = Append(toClient, a) /\ a.type = "MESSAGE" /\ a.user = u
           /\ a.channel = ch /\ a.event = nextEvent + 1
    BY <1>9, MessageStep
  <2>3. /\ Len(toClient) \in Nat
        /\ \A i \in 1..Len(toClient') :
              \/ i \in 1..Len(toClient) /\ toClient'[i] = toClient[i]
              \/ i = Len(toClient) + 1 /\ toClient'[i] = a
    BY <1>0, <2>2, Appended
  <2>4. \A c, v : Saved(c, v)' = Saved(c, v)
    BY <2>1 DEF Saved
  <2>5. a.event \notin Saved(ch, u)
    BY <1>0, <2>2 DEF SavedOnce
  <2>6. \A i \in 1..Len(toClient) : Foreign(toClient[i]) => toClient[i].event # a.event
    BY <1>0, <1>n, <2>2
  <2>7. ASSUME NEW i \in 1..Len(toClient'), Foreign(toClient'[i])
        PROVE  toClient'[i].event \notin Saved(toClient[i].channel, toClient[i].user)'
    BY <2>2, <2>3, <2>4, <2>5, <2>7 DEF NewComes
  <2>8. ASSUME NEW i \in 1..Len(toClient'), Foreign(toClient'[i]),
               NEW k \in 1..Len(toClient'), Foreign(toClient'[k]),
               toClient'[i].event = toClient'[k].event
        PROVE  i = k
    BY <2>3, <2>6, <2>8 DEF NewComes
  <2>9. ASSUME pc'["main"] = "MESSAGE", response'.user \in Others
        PROVE  /\ response'.event \notin Saved(response.channel, response.user)'
               /\ \A i \in 1..Len(toClient') :
                     Foreign(toClient'[i]) => toClient'[i].event # response'.event
    <3>1. response.event # a.event
      BY <1>0, <2>1, <2>2, <2>9 DEF Named, Names
    <3> QED BY <2>1, <2>3, <2>4, <2>9, <3>1 DEF NewComes
  <2> QED BY <2>7, <2>8, <2>9 DEF NewComes
<1> QED BY <1>1, <1>2, <1>3, <1>4, <1>5, <1>6, <1>7, <1>8, <1>9, StepsAre

\* A sequence of numbers up to top stays free of repetitions.
Distinct(q, top) ==
    /\ \A i \in 1..Len(q) : q[i] \in 1..top
    /\ \A i, k \in 1..Len(q) : q[i] = q[k] => i = k

\* The entries of two sequences, one after the other
LEMMA Concatenated ==
    ASSUME NEW q \in Seq(Nat), NEW s \in Seq(Nat)
    PROVE  /\ Len(q) \in Nat /\ Len(s) \in Nat /\ Len(q \o s) = Len(q) + Len(s)
           /\ \A i \in 1..Len(q) + Len(s) :
                 (q \o s)[i] = IF i <= Len(q) THEN q[i] ELSE s[i - Len(q)]
  OBVIOUS

\* An event that is not there, or events that are new, can be added.
LEMMA DistinctMore ==
    ASSUME NEW q \in Seq(Nat), NEW top \in Nat, Distinct(q, top)
    PROVE  /\ \A m \in Nat : top <= m => Distinct(q, m)
           /\ \A e \in 1..top :
                 (\A i \in 1..Len(q) : q[i] # e) => Distinct(q \o <<e>>, top)
           /\ \A n \in Nat : Distinct(q \o [i \in 1..n |-> top + i], top + n)
<1>1. \A m \in Nat : top <= m => Distinct(q, m)
  BY DEF Distinct
<1>2. ASSUME NEW e \in 1..top, \A i \in 1..Len(q) : q[i] # e
      PROVE  Distinct(q \o <<e>>, top)
  <2>1. /\ Len(q) \in Nat /\ Len(q \o <<e>>) = Len(q) + 1
        /\ \A i \in 1..Len(q) + 1 :
              (q \o <<e>>)[i] = IF i <= Len(q) THEN q[i] ELSE e
    OBVIOUS
  <2>2. PICK r : r = q \o <<e>>
    OBVIOUS
  <2>3. /\ Len(r) = Len(q) + 1
        /\ \A i \in 1..Len(q) + 1 : r[i] = IF i <= Len(q) THEN q[i] ELSE e
    BY <2>1, <2>2
  <2>4. \A i \in 1..Len(r) : r[i] \in 1..top
    BY <2>1, <2>3 DEF Distinct
  <2>5. \A i, k \in 1..Len(r) : r[i] = r[k] => i = k
    <3> SUFFICES ASSUME NEW i \in 1..Len(r), NEW k \in 1..Len(r), r[i] = r[k]
                 PROVE  i = k
      OBVIOUS
    <3> QED BY <1>2, <2>1, <2>3 DEF Distinct
  <2> QED BY <2>2, <2>4, <2>5 DEF Distinct
<1>3. ASSUME NEW n \in Nat
      PROVE  Distinct(q \o [i \in 1..n |-> top + i], top + n)
  <2> DEFINE s == [i \in 1..n |-> top + i]
  <2>1. s \in Seq(Nat) /\ Len(s) = n /\ \A i \in 1..n : s[i] = top + i
    OBVIOUS
  <2> HIDE DEF s
  <2>a. /\ Len(q) \in Nat /\ Len(q \o s) = Len(q) + n
        /\ \A i \in 1..Len(q) + n :
              (q \o s)[i] = IF i <= Len(q) THEN q[i] ELSE s[i - Len(q)]
    <3>1. /\ Len(q) \in Nat /\ Len(q \o s) = Len(q) + Len(s)
          /\ \A i \in 1..Len(q) + Len(s) :
                (q \o s)[i] = IF i <= Len(q) THEN q[i] ELSE s[i - Len(q)]
      BY <2>1, Concatenated
    <3> QED BY <2>1, <3>1
  <2>2. /\ Len(q) \in Nat /\ Len(q \o s) = Len(q) + n
        /\ \A i \in 1..Len(q) : (q \o s)[i] = q[i]
        /\ \A i \in Len(q) + 1..Len(q) + n : (q \o s)[i] = top + (i - Len(q))
    BY <2>1, <2>a
  <2>3. PICK k, r : k = Len(q) /\ r = q \o s
    OBVIOUS
  <2>4. /\ k \in Nat /\ top \in Nat /\ n \in Nat /\ Len(r) = k + n
        /\ \A i \in 1..k : r[i] = q[i]
        /\ \A i \in k + 1..k + n : r[i] = top + (i - k)
    BY <2>2, <2>3
  <2>5. /\ \A i \in 1..k : q[i] \in 1..top
        /\ \A i, j \in 1..k : q[i] = q[j] => i = j
    BY <2>3 DEF Distinct
  <2>6. \A i \in 1..Len(r) : \/ i \in 1..k /\ r[i] = q[i] /\ r[i] \in 1..top
                            \/ /\ i \in k + 1..k + n /\ r[i] = top + (i - k)
                               /\ r[i] \in top + 1..top + n
    <3> SUFFICES ASSUME NEW i \in 1..Len(r)
                 PROVE  \/ i \in 1..k /\ r[i] = q[i] /\ r[i] \in 1..top
                        \/ /\ i \in k + 1..k + n /\ r[i] = top + (i - k)
                           /\ r[i] \in top + 1..top + n
      OBVIOUS
    <3>1. i \in 1..k \/ i \in k + 1..k + n
      BY <2>4
    <3>2. CASE i \in 1..k
      BY <2>4, <2>5, <3>2
    <3>3. CASE i \in k + 1..k + n
      <4>1. r[i] = top + (i - k)
        BY <2>4, <3>3
      <4>2. top + (i - k) \in top + 1..top + n
        BY <2>4, <3>3
      <4> QED BY <3>3, <4>1, <4>2
    <3> QED BY <3>1, <3>2, <3>3
  <2>7. \A i \in 1..Len(r) : r[i] \in 1..top + n
    BY <2>4, <2>6
  <2>8. \A i, j \in k + 1..k + n : top + (i - k) = top + (j - k) => i = j
    <3>1. k \in Nat /\ top \in Nat /\ n \in Nat
      BY <2>4
    <3> QED BY <3>1
  <2>9. \A i, j \in 1..Len(r) : r[i] = r[j] => i = j
    <3> SUFFICES ASSUME NEW i \in 1..Len(r), NEW j \in 1..Len(r), r[i] = r[j]
                 PROVE  i = j
      OBVIOUS
    <3>1. CASE i \in 1..k /\ j \in 1..k
      BY <2>4, <2>5, <3>1
    <3>2. CASE i \in k + 1..k + n /\ j \in k + 1..k + n
      <4>1. r[i] = top + (i - k) /\ r[j] = top + (j - k)
        BY <2>4, <3>2
      <4>2. top + (i - k) = top + (j - k)
        BY <4>1, Zenon
      <4> QED BY <2>8, <3>2, <4>2, Zenon
    <3>3. r[i] \in 1..top /\ r[j] \in top + 1..top + n => FALSE
      BY <2>4
    <3>4. r[j] \in 1..top /\ r[i] \in top + 1..top + n => FALSE
      BY <2>4
    <3> QED BY <2>6, <3>1, <3>2, <3>3, <3>4
  <2>10. Distinct(r, top + n)
    BY <2>7, <2>9 DEF Distinct
  <2> QED BY <2>3, <2>10 DEF s
<1> QED BY <1>1, <1>2, <1>3

\* SavedOnce in terms of Distinct
LEMMA SavedDistinct ==
    ASSUME TypeInv
    PROVE  SavedOnce <=> \A ch \in Channels, u \in Users \cup Others :
                            Distinct(userChannelEvents[ch][u], nextEvent)
  BY DEF SavedOnce, Saved, Distinct

\* A step saves no event a second time.
LEMMA SavedStep ==
    ASSUME TypeInv, OwnComesBack, NewComes, SavedOnce, [Next]_vars
    PROVE  SavedOnce'
<1> USE DEF linkVars, stateVars, dataVars, inputVars
<1>0. /\ Named /\ nextEvent \in Nat /\ cmd.channel \in Channels
      /\ userChannelEvents \in [Channels -> [Users \cup Others -> Seq(Nat)]]
      /\ \A ch \in Channels, u \in Users \cup Others :
            /\ userChannelEvents[ch][u] \in Seq(Nat)
            /\ Distinct(userChannelEvents[ch][u], nextEvent)
  BY Typed, SavedDistinct
<1>s. ASSUME \A ch \in Channels, u \in Users \cup Others :
                Distinct(userChannelEvents'[ch][u], nextEvent')
      PROVE  SavedOnce'
  BY <1>s DEF SavedOnce, Saved, Distinct
<1>u. ASSUME UNCHANGED userChannelEvents, nextEvent' \in Nat, nextEvent <= nextEvent'
      PROVE  SavedOnce'
  BY <1>0, <1>s, <1>u, DistinctMore
<1>1. CASE Sheds
  BY <1>0, <1>1, <1>u, ShedsStep
<1>2. CASE LoginSend \/ Asks \/ SendFrame \/ Receive \/ ServerAnswer
  <2>1. UNCHANGED <<userChannelEvents, nextEvent>>
    BY <1>2, LoginSendStep, AsksStep, SendFrameStep, ReceiveStep, AnswerStep
  <2> QED BY <1>0, <1>u, <2>1
<1>3. CASE Report
  <2>1. PICK v \in Users, c \in Channels : v = currentUsername /\ c = cmd.channel
    BY <1>0, <1>3, ReportStep
  <2>2. PICK n \in Nat \ {0} :
           /\ nextEvent' = nextEvent + n
           /\ SaveEvents(c, v, [i \in 1..n |-> nextEvent + i])
    BY <1>3, <2>1, ReportStep
  <2>3. [i \in 1..n |-> nextEvent + i] \in Seq(Nat)
    BY <1>0
  <2>4. PICK s \in Seq(Nat) : s = [i \in 1..n |-> nextEvent + i]
    BY <2>3, Zenon
  <2>5. SaveEvents(c, v, s)
    BY <2>2, <2>4
  <2>6. /\ userChannelEvents'[c][v] = userChannelEvents[c][v] \o s
        /\ \A ch \in Channels, u \in Users \cup Others : ch # c \/ u # v =>
              userChannelEvents'[ch][u] = userChannelEvents[ch][u]
    BY <2>5, Saves
  <2>7. Distinct(userChannelEvents[c][v] \o s, nextEvent + n)
    BY <1>0, <2>4, DistinctMore
  <2>8. \A ch \in Channels, u \in Users \cup Others :
           Distinct(userChannelEvents[ch][u], nextEvent + n)
    BY <1>0, DistinctMore
  <2> QED BY <1>s, <2>2, <2>6, <2>7, <2>8
<1>4. CASE HandleMessage
  <2>1. pc["main"] = "MESSAGE" /\ nextEvent' = nextEvent
    BY <1>4 DEF HandleMessage
  <2>2. CASE UNCHANGED userChannelEvents
    BY <1>0, <1>u, <2>1, <2>2
  <2>3. CASE /\ response.user # currentUsername
             /\ SaveEvents(response.channel, response.user, <<response.event>>)
    <3>1. PICK u \in Others, ch \in Channels, e \in 1..nextEvent :
             u = response.user /\ ch = response.channel /\ e = response.event
      BY <1>0, <2>1, <2>3 DEF Named, Names, OwnComesBack
    <3>2. <<e>> \in Seq(Nat)
      BY <1>0
    <3>3. PICK s \in Seq(Nat) : s = <<e>>
      BY <3>2, Zenon
    <3>4. SaveEvents(ch, u, s)
      BY <2>3, <3>1, <3>3
    <3>5. /\ userChannelEvents'[ch][u] = userChannelEvents[ch][u] \o s
          /\ \A c \in Channels, v \in Users \cup Others : c # ch \/ v # u =>
                userChannelEvents'[c][v] = userChannelEvents[c][v]
      BY <3>4, Saves
    <3>6. \A i \in 1..Len(userChannelEvents[ch][u]) : userChannelEvents[ch][u][i] # e
      BY <2>1, <3>1 DEF NewComes, Saved
    <3>7. Distinct(userChannelEvents[ch][u] \o s, nextEvent)
      BY <1>0, <3>3, <3>6, DistinctMore
    <3> QED BY <1>0, <1>s, <2>1, <3>5, <3>7
  <2> QED BY <1>4, <2>2, <2>3 DEF HandleMessage
<1>5. ASSUME NEW u \in Others, NEW ch \in Channels, ServerMessage(u, ch)
      PROVE  SavedOnce'
  <2>1. /\ nextEvent' = nextEvent + 1 /\ nextEvent' \in Nat
        /\ UNCHANGED userChannelEvents
    BY <1>5, MessageStep
  <2> QED BY <1>0, <1>u, <2>1
<1> QED BY <1>1, <1>2, <1>3, <1>4, <1>5, StepsAre

\* This holds at all times.
LEMMA EventInvariance == Spec => []EventInv
<1>1. Init => EventInv
  <2>1. SUFFICES ASSUME Init PROVE OwnComesBack /\ NewComes /\ SavedOnce
    BY DEF EventInv
  <2>2. Len(<<>>) = 0
    BY EmptyTyped
  <2>3. OwnComesBack /\ NewComes
    BY <2>1, <2>2 DEF Init, OwnComesBack, NewComes
  <2>4. \A ch \in Channels, u \in Users \cup Others :
           userChannelEvents[ch][u] = <<>>
    BY <2>1 DEF Init
  <2>5. SavedOnce
    BY <2>2, <2>4 DEF SavedOnce, Saved
  <2> QED BY <2>3, <2>5
<1>2. TypeInv /\ WaitInv /\ EventInv /\ [Next]_vars => EventInv'
  BY OwnStep, NewStep, SavedStep DEF EventInv, WaitInv
<1> QED BY <1>1, <1>2, TypeInvariance, WaitInvariance, PTL DEF Spec

\* An event is saved once, if the user waits for each answer or has one name.
\* A user who does neither can log in under another name while an event that
\* was reported under the first is on its way back: it is then taken for
\* another user's and saved a second time.
THEOREM EventsOnce ==
    ASSUME Window = 1 \/ OneName
    PROVE  Spec => []EventsSavedOnce
<1>1. EventInv => EventsSavedOnce
  BY DEF EventInv, SavedOnce, EventsSavedOnce
<1> QED BY <1>1, EventInvariance, PTL
=============================================================================
