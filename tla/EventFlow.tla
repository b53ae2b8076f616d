------------------------------ MODULE EventFlow ------------------------------
(***************************************************************************)
(* Events on their way: a client reports a file, the server passes every   *)
(* event on to the subscribers of its channel, a client that receives one  *)
(* notes it, and any client writes summaries of what a user reported.      *)
(*                                                                         *)
(* StompClient has the threads of one client and StompBroker the server;   *)
(* here are several clients, each of which handles a command or a frame in *)
(* one step (dataMutex), and a server that handles the frames of a         *)
(* connection in order (InRequestOrder of StompBroker).  What matters here *)
(* is what becomes of an event: EventText.                                 *)
(***************************************************************************)
EXTENDS EventText

CONSTANTS Clients,     \* processes of the client
          Users,       \* texts
          Channels,
          Files,       \* event files
          MaxCommands, \* bound: join, exit and report in a behaviour
          MaxEvents    \* bound: events reported in a behaviour

\* What a file has of an event.  No information has the key "escription": the
\* constructor takes the line "description:" for information under that key.
ItemAssumption(item) ==
    /\ ~item.event_name.colon
    /\ item.description \in Seq(Nat)
    /\ IsFiniteSet(DOMAIN InformationIn(item))
    /\ "escription" \notin DOMAIN InformationIn(item)

\* The user names and the names of events have no colon, and neither they nor
\* the channels contain "_", which joins them to the key of userChannelEvents.
ASSUME EventAssumption ==
    /\ {MaxCommands, MaxEvents} \subseteq Nat
    /\ Empty \notin Users
    /\ \A u \in Users : ~u.colon
    /\ \A f \in Files : /\ f.channel_name \in Channels
                        /\ f.events \in Seq(Range(f.events))
                        /\ CanParse(f) =>
                              \A i \in DOMAIN f.events : ItemAssumption(f.events[i])

VARIABLES
    currentUsername,    \* [Clients -> Users \cup {Empty}]
    online,             \* [Clients -> BOOLEAN]
    channelToSubId,     \* [Clients -> SUBSET Channels], its keys
    userChannelEvents,  \* [Clients -> [Channels \X Users -> Seq([no, event])]]
    file,               \* the summary that was written, or <<>>
    toServer,           \* [Clients -> Seq(frame)]
    toClient,           \* [Clients -> Seq(MESSAGE or ERROR)]
    subscribers,        \* [Channels -> SUBSET Clients], connections of the server
    \* bound and history
    typed,              \* number of commands
    loggedIn,           \* users who logged in once
    reported,           \* Seq([channel, user, event, by]), numbered by place
    audience            \* [1..MaxEvents -> SUBSET Clients], who was sent it, and
                        \* is still connected

clientVars == <<currentUsername, online, channelToSubId, userChannelEvents, file>>
serverVars == <<subscribers, audience>>
netVars    == <<toServer, toClient>>
vars == <<clientVars, serverVars, netVars, typed, loggedIn, reported>>

TypeOK ==
    /\ currentUsername \in [Clients -> Users \cup {Empty}]
    /\ online \in [Clients -> BOOLEAN]
    /\ channelToSubId \in [Clients -> SUBSET Channels]
    /\ \A p \in Clients :
          /\ DOMAIN userChannelEvents[p] = Channels \X Users
          /\ \A key \in Channels \X Users :
                \A i \in DOMAIN userChannelEvents[p][key] :
                    userChannelEvents[p][key][i].no \in 1..Len(reported)
          /\ \A i \in DOMAIN toServer[p] :
                toServer[p][i].type \in {"SUBSCRIBE", "UNSUBSCRIBE", "SEND"}
          /\ \A i \in DOMAIN toClient[p] :
                toClient[p][i].type = "MESSAGE"
                    => toClient[p][i].no \in 1..Len(reported)
          /\ toServer[p] # <<>> \/ toClient[p] # <<>> => online[p]
    /\ subscribers \in [Channels -> SUBSET {p \in Clients : online[p]}]
    /\ typed \in 0..MaxCommands
    /\ loggedIn \in SUBSET Users
    /\ Len(reported) <= MaxEvents
    /\ audience \in [1..MaxEvents -> SUBSET Clients]

Init ==
    /\ currentUsername = [p \in Clients |-> Empty]
    /\ online = [p \in Clients |-> FALSE]
    /\ channelToSubId = [p \in Clients |-> {}]
    /\ userChannelEvents = [p \in Clients |-> [key \in Channels \X Users |-> <<>>]]
    /\ file = <<>>
    /\ toServer = [p \in Clients |-> <<>>]
    /\ toClient = [p \in Clients |-> <<>>]
    /\ subscribers = [ch \in Channels |-> {}]
    /\ typed = 0
    /\ loggedIn = {}
    /\ reported = <<>>
    /\ audience = [n \in 1..MaxEvents |-> {}]
-----------------------------------------------------------------------------
(* Commands of a client *)

\* The server lets nobody in twice (StompBroker).  Which user comes first makes
\* no difference: they come in the order of their names.
Login(p, u) ==
    /\ ~online[p]
    /\ u \notin loggedIn
    /\ \A v \in Users \ loggedIn : u.order <= v.order
    /\ loggedIn' = loggedIn \cup {u}
    /\ online' = [online EXCEPT ![p] = TRUE]
    /\ currentUsername' = [currentUsername EXCEPT ![p] = u]
    /\ UNCHANGED <<channelToSubId, userChannelEvents, file, serverVars, netVars,
                   typed, reported>>

\* p's user types a command that needs a connection.
Types(p) ==
    /\ online[p]
    /\ typed < MaxCommands
    /\ typed' = typed + 1

Sends(p, frames) == toServer' = [toServer EXCEPT ![p] = @ \o frames]

Join(p, ch) ==
    /\ Types(p)
    /\ ch \notin channelToSubId[p]
    /\ channelToSubId' = [channelToSubId EXCEPT ![p] = @ \cup {ch}]
    /\ Sends(p, <<[type |-> "SUBSCRIBE", channel |-> ch]>>)
    /\ UNCHANGED <<currentUsername, online, userChannelEvents, file, serverVars,
                   toClient, loggedIn, reported>>

Exit(p, ch) ==
    /\ Types(p)
    /\ ch \in channelToSubId[p]
    /\ channelToSubId' = [channelToSubId EXCEPT ![p] = @ \ {ch}]
    /\ Sends(p, <<[type |-> "UNSUBSCRIBE", channel |-> ch]>>)
    /\ UNCHANGED <<currentUsername, online, userChannelEvents, file, serverVars,
                   toClient, loggedIn, reported>>

\* saveEventForUser, for each of the events
SaveEvents(p, ch, u, entries) ==
    userChannelEvents' =
        [userChannelEvents EXCEPT ![p][<<ch, u>>] = @ \o entries]

\* report of a file that cannot be read, even in its last event, does nothing.
ReportFails(p, f) ==
    /\ Types(p)
    /\ ~CanParse(f)
    /\ UNCHANGED <<clientVars, serverVars, netVars, loggedIn, reported>>

\* report: the events are saved as they are in the file, and sent as messages.
\* It is not asked whether the user joined the channel.
Report(p, f) ==
    LET ch     == f.channel_name
        u      == currentUsername[p]
        events == ParseEventsFile(f)
        no(i)  == Len(reported) + i
    IN
    /\ Types(p)
    /\ CanParse(f)
    /\ Len(reported) + Len(events) <= MaxEvents
    /\ SaveEvents(p, ch, u,
          [i \in DOMAIN events |-> [no |-> no(i), event |-> events[i]]])
    /\ Sends(p, [i \in DOMAIN events |->
          [type |-> "SEND", channel |-> ch, no |-> no(i),
           body |-> FormatEvent(u, events[i])]])
    /\ reported' = reported \o [i \in DOMAIN events |->
          [channel |-> ch, user |-> u, event |-> events[i], by |-> p]]
    /\ UNCHANGED <<currentUsername, online, channelToSubId, file, serverVars,
                   toClient, loggedIn>>

EventsOf(entries) == [i \in DOMAIN entries |-> entries[i].event]

\* summary, whether or not the user joined the channel.
Summary(p, ch, u) ==
    /\ online[p]
    /\ \E sorted \in Sortings(EventsOf(userChannelEvents[p][<<ch, u>>])) :
          file' = SummaryOf(ch, u, sorted)
    /\ UNCHANGED <<currentUsername, online, channelToSubId, userChannelEvents,
                   serverVars, netVars, typed, loggedIn, reported>>

\* Mutant: what the old connection received is handled in the new one.
DisconnectKeepsFrames(p) ==
    /\ online[p]
    /\ online' = [online EXCEPT ![p] = FALSE]
    /\ channelToSubId' = [channelToSubId EXCEPT ![p] = {}]
    /\ toServer' = [toServer EXCEPT ![p] = <<>>]
    /\ subscribers' = [ch \in Channels |-> subscribers[ch] \ {p}]
    /\ audience' = [n \in DOMAIN audience |-> audience[n] \ {p}]
    /\ UNCHANGED <<currentUsername, userChannelEvents, file, toClient, typed,
                   loggedIn, reported>>

\* disconnect, after a receipt, an ERROR or a failed send: what was not handled
\* yet is lost, the events are kept.
Disconnect(p) ==
    /\ online[p]
    /\ online' = [online EXCEPT ![p] = FALSE]
    /\ channelToSubId' = [channelToSubId EXCEPT ![p] = {}]
    /\ toServer' = [toServer EXCEPT ![p] = <<>>]
    /\ toClient' = [toClient EXCEPT ![p] = <<>>]
    /\ subscribers' = [ch \in Channels |-> subscribers[ch] \ {p}]
    /\ audience' = [n \in DOMAIN audience |-> audience[n] \ {p}]
    /\ UNCHANGED <<currentUsername, userChannelEvents, file, typed, loggedIn,
                   reported>>
-----------------------------------------------------------------------------
(* Frames *)

\* The server handles the next frame of a connection, until it has sent an ERROR.
Serves(p, type) ==
    /\ toServer[p] # <<>>
    /\ Head(toServer[p]).type = type
    /\ \A i \in DOMAIN toClient[p] : toClient[p][i].type # "ERROR"
    /\ toServer' = [toServer EXCEPT ![p] = Tail(@)]
    /\ UNCHANGED <<clientVars, typed, loggedIn, reported>>

\* Receipts are left out.
Refuse(p) ==
    /\ toClient' = [toClient EXCEPT ![p] = Append(@, [type |-> "ERROR"])]
    /\ UNCHANGED serverVars

Subscribe(p) ==
    LET ch == Head(toServer[p]).channel IN
    /\ Serves(p, "SUBSCRIBE")
    /\ \/ /\ p \notin subscribers[ch]
          /\ subscribers' = [subscribers EXCEPT ![ch] = @ \cup {p}]
          /\ UNCHANGED <<audience, toClient>>
       \/ p \in subscribers[ch] /\ Refuse(p)

\* The first channel that is met is left, whichever was meant (StompBroker).
Unsubscribe(p) ==
    /\ Serves(p, "UNSUBSCRIBE")
    /\ \/ /\ \E ch \in Channels :
                /\ p \in subscribers[ch]
                /\ subscribers' = [subscribers EXCEPT ![ch] = @ \ {p}]
          /\ UNCHANGED <<audience, toClient>>
       \/ (\A ch \in Channels : p \notin subscribers[ch]) /\ Refuse(p)

Send(p) ==
    LET frame == Head(toServer[p])
        to    == subscribers[frame.channel]
        msg   == [type |-> "MESSAGE", channel |-> frame.channel, no |-> frame.no,
                  body |-> ThroughServer(frame.body)]
    IN
    /\ Serves(p, "SEND")
    /\ \/ /\ p \in to
          /\ toClient' = [q \in Clients |->
                IF q \in to THEN Append(toClient[q], msg) ELSE toClient[q]]
          /\ audience' = [audience EXCEPT ![frame.no] = to]
          /\ UNCHANGED subscribers
       \/ p \notin to /\ Refuse(p)

\* Mutant: the user's own events are saved again when they come back.
ReceiveOwn(p) ==
    /\ toClient[p] # <<>>
    /\ Head(toClient[p]).type = "MESSAGE"
    /\ LET msg   == Head(toClient[p])
           event == ParseEvent(msg.body)
           user  == event.eventOwnerUser
       IN
       \/ /\ user # Empty
          /\ SaveEvents(p, msg.channel, user, <<[no |-> msg.no, event |-> event]>>)
       \/ /\ user = Empty
          /\ UNCHANGED userChannelEvents
    /\ toClient' = [toClient EXCEPT ![p] = Tail(@)]
    /\ UNCHANGED <<currentUsername, online, channelToSubId, file, serverVars,
                   toServer, typed, loggedIn, reported>>

\* processResponse of a MESSAGE: an event of another user is saved.
Receive(p) ==
    /\ toClient[p] # <<>>
    /\ Head(toClient[p]).type = "MESSAGE"
    /\ LET msg   == Head(toClient[p])
           event == ParseEvent(msg.body)
           user  == event.eventOwnerUser
       IN
       \/ /\ user \notin {Empty, currentUsername[p]}
          /\ SaveEvents(p, msg.channel, user, <<[no |-> msg.no, event |-> event]>>)
       \/ /\ user \in {Empty, currentUsername[p]}
          /\ UNCHANGED userChannelEvents
    /\ toClient' = [toClient EXCEPT ![p] = Tail(@)]
    /\ UNCHANGED <<currentUsername, online, channelToSubId, file, serverVars,
                   toServer, typed, loggedIn, reported>>

\* processResponse of an ERROR
ReceiveError(p) ==
    /\ toClient[p] # <<>>
    /\ Head(toClient[p]).type = "ERROR"
    /\ Disconnect(p)
-----------------------------------------------------------------------------
Step(p) ==
    \/ \E u \in Users : Login(p, u)
    \/ \E ch \in Channels : Join(p, ch) \/ Exit(p, ch)
    \/ \E f \in Files : Report(p, f) \/ ReportFails(p, f)
    \/ Disconnect(p)
    \/ Subscribe(p)
    \/ Unsubscribe(p)
    \/ Send(p)
    \/ Receive(p)
    \/ ReceiveError(p)

\* Nothing reads the file: a behaviour of the model ends with one summary,
\* written at any time.
Next ==
    /\ file = <<>>
    /\ \E p \in Clients :
          \/ Step(p)
          \/ \E ch \in Channels, u \in Users : Summary(p, ch, u)

Spec == Init /\ [][Next]_vars
-----------------------------------------------------------------------------
(* Properties *)

\* Events of u on ch, by their numbers
Reports(ch, u) ==
    {n \in 1..Len(reported) : reported[n].channel = ch /\ reported[n].user = u}

\* The texts agree, but a receiver has nothing where there was a colon.
Arrived(text, original) ==
    text = original \/ (original.colon /\ text = Empty)

\* What a client notes under a channel and a user was reported by that user on
\* that channel, is noted once and in the order of the reports, and its fields
\* are those of the file: the text of a message is parsed into what it was made
\* of, on whichever client and after whatever logins (event.cpp: "map of all
\* the general information").
NotedAsReported ==
    \A p \in Clients : \A ch \in Channels, u \in Users :
        LET q == userChannelEvents[p][<<ch, u>>] IN
        \A i \in DOMAIN q :
            LET got == q[i].event
                was == reported[q[i].no].event
            IN
            /\ q[i].no \in Reports(ch, u)
            /\ \A k \in 1..(i - 1) : q[k].no < q[i].no
            /\ got.name = was.name /\ got.date_time = was.date_time
            /\ Arrived(got.city, was.city)
            /\ \A key \in DOMAIN was.general_information :
                  /\ key \in DOMAIN got.general_information
                  /\ Arrived(got.general_information[key],
                             was.general_information[key])

\* p has noted report n, as its own or as it was passed on.
Noted(p, n) ==
    LET q == userChannelEvents[p][<<reported[n].channel, reported[n].user>>] IN
    \E i \in DOMAIN q : q[i].no = n

\* A line of a summary shows an event of a file.  A description of 27 characters
\* is shown in full where it was reported only: a receiver has a line break more.
Shows(line, event) ==
    /\ Arrived(line.city, event.city)
    /\ line.name = event.name
    /\ line.time = event.date_time \div 60
    /\ \/ /\ Length(event.description) < 27
          /\ line.summary \in {event.description, Append(event.description, 0)}
       \/ /\ Length(event.description) = 27
          /\ line.summary \in {event.description, <<>>}
       \/ /\ Length(event.description) > 27
          /\ line.summary = <<>>

\* A summary by a client that missed nothing tells what the user reported, as
\* it stands in the files: how many events, how many of them active or with
\* forces at the scene, and each of them once, by time and name.
SummaryIsExact ==
    [][\A p \in Clients : \A ch \in Channels, u \in Users :
        file # file' /\ Summary(p, ch, u) /\ (\A n \in Reports(ch, u) : Noted(p, n)) =>
            LET s == file'
                of(key) == {n \in Reports(ch, u) :
                    /\ key \in DOMAIN reported[n].event.general_information
                    /\ reported[n].event.general_information[key] = Text(TrueText)}
            IN
            /\ s.total = Cardinality(Reports(ch, u))
            /\ s.active = Cardinality(of("active"))
            /\ s.forces = Cardinality(of("forces_arrival_at_scene"))
            /\ \E order \in SetToSeqs(Reports(ch, u)) :
                  /\ Len(s.reports) = Len(order)
                  /\ \A i \in DOMAIN order :
                        Shows(s.reports[i], reported[order[i]].event)
                  /\ \A i, k \in DOMAIN order : i < k =>
                        LET a == reported[order[i]].event
                            b == reported[order[k]].event
                        IN \/ a.date_time < b.date_time
                           \/ /\ a.date_time = b.date_time
                              /\ a.name.order <= b.name.order
      ]_vars

\* What the server passes on to a client that stays is noted there, or on its
\* way, or its own: no text of an event makes it disappear.
NothingMissed ==
    \A n \in 1..Len(reported) : \A p \in audience[n] :
        \/ Noted(p, n)
        \/ \E i \in DOMAIN toClient[p] :
              toClient[p][i].type = "MESSAGE" /\ toClient[p][i].no = n
=============================================================================
