--------------------------- MODULE ThreadPerClient ---------------------------
(***************************************************************************)
(* The thread-per-client server: BaseServer, whose serve thread accepts    *)
(* clients, and BlockingConnectionHandler, a thread for each of them, which *)
(* reads byte by byte, processes a frame when it is complete, and writes   *)
(* answers.  A message for a topic is written by the thread of its sender  *)
(* to the streams of the others.                                           *)
(*                                                                         *)
(* There is one topic; what StompMessagingProtocolImpl does with a frame   *)
(* is cut down to what it sends, in which order, and when it terminates    *)
(* (see StompBroker for the rest).                                         *)
(*                                                                         *)
(* BufferedOutputStream is code of the library: write and flush each hold  *)
(* its lock, a flush blocks while the client does not read, and what could *)
(* not be flushed stays in the buffer.                                     *)
(***************************************************************************)
EXTENDS Naturals, Sequences, FiniteSets, FrameCodec

CONSTANTS Conns,
          Leaving,      \* those whose clients may leave
          None,         \* no connection
          Kinds,        \* frames that clients use
          Room,         \* bytes a socket takes before the client reads
          MaxRequests   \* bound: frames that clients send in a behaviour

ASSUME ServerAssumption ==
    /\ None \notin Conns
    /\ Leaving \subseteq Conns
    /\ Kinds \subseteq {"SUBSCRIBE", "SEND", "DISCONNECT"}
    /\ Kinds # {}
    /\ Room \in Nat \ {0}
    /\ MaxRequests \in Nat

VARIABLES
    serving,          \* the server socket is open
    clients,          \* handlers in the table of ConnectionsImpl
    subscribers,      \* of the topic
    \* the handler of a connection
    pc,               \* [Conns -> step of its thread]
    streams,          \* [Conns -> BOOLEAN], in and out are set
    decoder,          \* [Conns -> Seq(Byte)], the bytes of an unfinished frame
    shouldTerminate,  \* [Conns -> BOOLEAN]
    req,              \* [Conns -> Frame], the frame processed now or last
    goals,            \* [Conns -> SUBSET Conns], who gets the message next
    to, msg,          \* [Conns -> handler written to], [Conns -> what]
    buffered, lock,   \* [Conns -> Seq(Byte)], [Conns -> thread], of out
    \* the sockets and the clients
    inbound,          \* [Conns -> Seq(Byte)], not yet read by the server
    outbound,         \* [Conns -> Seq(Byte)], not yet read by the client
    requests,         \* number of frames sent
    gone,             \* clients that left
    frame,            \* [Conns -> Seq(Byte)], what the client read of a frame
    got               \* [Conns -> Seq(Seq(Byte))], the frames it received

serverVars == <<serving, clients>>
threadVars == <<subscribers, shouldTerminate, req, goals, to, msg>>
outVars    == <<buffered, lock>>
readVars   == <<inbound, decoder>>
clientVars == <<requests, gone, frame, got>>
vars == <<serverVars, pc, streams, threadVars, outVars, readVars, outbound,
          clientVars>>

\* The text of a frame, one symbol: of a client's, its number and what it is;
\* of the server's, which of them caused it.
Frame == [type : Kinds \cup {"RECEIPT", "ERROR", "MESSAGE"}, from : Conns,
          n : Nat]
Byte  == Frame \cup {NUL}

ASSUME TextAssumption == NUL \notin Frame

Steps == {"connecting", "added", "run", "loop", "process",
          "write", "flush", "flushing", "terminate", "close", "closed"}

TypeOK ==
    /\ serving \in BOOLEAN
    /\ clients \in SUBSET Conns
    /\ subscribers \in SUBSET Conns
    /\ pc \in [Conns -> Steps]
    /\ streams \in [Conns -> BOOLEAN]
    /\ decoder \in [Conns -> Seq(Byte)]
    /\ shouldTerminate \in [Conns -> BOOLEAN]
    /\ req \in [Conns -> Byte]
    /\ goals \in [Conns -> SUBSET Conns]
    /\ to \in [Conns -> Conns]
    /\ msg \in [Conns -> Frame \cup {NUL}]
    /\ buffered \in [Conns -> Seq(Byte)]
    /\ lock \in [Conns -> Conns \cup {None}]
    /\ \A c, d \in Conns : lock[d] = c <=> pc[c] = "flushing" /\ to[c] = d
    /\ inbound \in [Conns -> Seq(Byte)]
    /\ outbound \in [Conns -> Seq(Byte)]
    /\ requests \in Nat
    /\ gone \in SUBSET Conns
    /\ frame \in [Conns -> Seq(Byte)]
    /\ got \in [Conns -> Seq(Seq(Byte))]

Init ==
    /\ serving = TRUE
    /\ clients = {}
    /\ subscribers = {}
    /\ pc = [c \in Conns |-> "connecting"]
    /\ streams = [c \in Conns |-> FALSE]
    /\ decoder = [c \in Conns |-> <<>>]
    /\ shouldTerminate = [c \in Conns |-> FALSE]
    /\ req = [c \in Conns |-> NUL]
    /\ goals = [c \in Conns |-> {}]
    /\ to = [c \in Conns |-> c]
    /\ msg = [c \in Conns |-> NUL]
    /\ buffered = [c \in Conns |-> <<>>]
    /\ lock = [c \in Conns |-> None]
    /\ inbound = [c \in Conns |-> <<>>]
    /\ outbound = [c \in Conns |-> <<>>]
    /\ requests = 0
    /\ gone = {}
    /\ frame = [c \in Conns |-> <<>>]
    /\ got = [c \in Conns |-> <<>>]
-----------------------------------------------------------------------------
(* The clients *)

\* A text and its end.  What c sends before its handler runs waits for it.
Sends(c, k, end) ==
    /\ pc[c] # "closed"
    /\ c \notin gone
    /\ requests < MaxRequests
    /\ requests' = requests + 1
    /\ inbound' = [inbound EXCEPT ![c] =
          @ \o <<[type |-> k, from |-> c, n |-> requests']>> \o end]

\* sendFrameAscii: the text and then the delimiter, by two calls of sendBytes.
\* What comes between is seen by nobody, unless it is the end of the client.
SendFrameAscii(c, k) ==
    /\ Sends(c, k, <<NUL>>)
    /\ UNCHANGED <<serverVars, pc, streams, threadVars, outVars, decoder,
                   outbound, gone, frame, got>>

\* What a client sent may still be read, or lost when the read throws.
Gone(c) ==
    /\ c \in Leaving
    /\ gone' = gone \cup {c}
    /\ outbound' = [outbound EXCEPT ![c] = <<>>]

\* The second call of sendBytes does not come to pass.  Nobody reads that text.
SendHalf(c) ==
    /\ Sends(c, CHOOSE k \in Kinds : TRUE, <<>>)
    /\ Gone(c)
    /\ UNCHANGED <<serverVars, pc, streams, threadVars, outVars, decoder, frame,
                   got>>

\* close, or the end of the process
ClientLeaves(c) ==
    /\ pc[c] # "closed"
    /\ c \notin gone
    /\ Gone(c)
    /\ UNCHANGED <<serverVars, pc, streams, threadVars, outVars, readVars,
                   requests, frame, got>>

\* getBytes of one byte, which waits for it.
GetBytes(c) ==
    /\ c \notin gone
    /\ outbound[c] # <<>>
    /\ outbound' = [outbound EXCEPT ![c] = Tail(@)]

\* getFrameAscii: the bytes up to the delimiter, which is left out.  It answers
\* true if they are a text.
GetFrameAscii(c) ==
    /\ GetBytes(c)
    /\ LET d == DecodeNextByte(frame[c], Head(outbound[c])) IN
          /\ frame' = [frame EXCEPT ![c] = d.buffer]
          /\ \/ /\ d.frames \in {<<>>, << <<>> >>}
                /\ UNCHANGED got
             \/ /\ d.frames \notin {<<>>, << <<>> >>}
                /\ got' = [got EXCEPT ![c] = @ \o d.frames]
    /\ UNCHANGED <<serverVars, pc, streams, threadVars, outVars, readVars,
                   requests, gone>>
-----------------------------------------------------------------------------
(* The serve thread *)

\* accept, the new handler, and addClient: from here on it can be sent to.
Accept(c) ==
    /\ serving
    /\ pc[c] = "connecting"
    /\ \A d \in Conns : pc[d] # "added"
    /\ clients' = clients \cup {c}
    /\ pc' = [pc EXCEPT ![c] = "added"]
    /\ UNCHANGED <<serving, streams, threadVars, outVars, readVars, outbound,
                   clientVars>>

\* execute: a thread of its own.
Execute(c) ==
    /\ pc[c] = "added"
    /\ pc' = [pc EXCEPT ![c] = "run"]
    /\ UNCHANGED <<serverVars, streams, threadVars, outVars, readVars, outbound,
                   clientVars>>

\* close: the clients that wait are not accepted, those that were go on.
StopServer ==
    /\ serving
    /\ \E c \in Conns : pc[c] = "connecting"
    /\ serving' = FALSE
    /\ UNCHANGED <<clients, pc, streams, threadVars, outVars, readVars, outbound,
                   clientVars>>
-----------------------------------------------------------------------------
(* The thread of a handler *)

Goto(c, step) == pc' = [pc EXCEPT ![c] = step]

\* Mutant: out is left to be set when it is first needed.
RunReadsOnly(c) ==
    /\ pc[c] = "run"
    /\ Goto(c, "loop")
    /\ UNCHANGED <<serverVars, streams, threadVars, outVars, readVars, outbound,
                   clientVars>>

Run(c) ==
    /\ pc[c] = "run"
    /\ streams' = [streams EXCEPT ![c] = TRUE]
    /\ Goto(c, "loop")
    /\ UNCHANGED <<serverVars, threadVars, outVars, readVars, outbound,
                   clientVars>>

\* A byte is read and given to the decoder.  At the end of the stream read
\* answers -1 and the loop goes on: that changes nothing, and is no action.
Read(c) ==
    /\ pc[c] = "loop"
    /\ ~shouldTerminate[c]
    /\ inbound[c] # <<>>
    /\ LET d == DecodeNextByte(decoder[c], Head(inbound[c])) IN
          /\ decoder' = [decoder EXCEPT ![c] = d.buffer]
          /\ \/ /\ d.frames = <<>>
                /\ UNCHANGED <<pc, req>>
             \/ /\ d.frames # <<>>
                /\ req' = [req EXCEPT ![c] = Head(Head(d.frames))]
                /\ Goto(c, "process")
    /\ inbound' = [inbound EXCEPT ![c] = Tail(@)]
    /\ UNCHANGED <<serverVars, streams, subscribers, shouldTerminate, goals, to,
                   msg, outVars, outbound, clientVars>>

LeaveLoop(c) ==
    /\ pc[c] = "loop"
    /\ shouldTerminate[c]
    /\ Goto(c, "close")
    /\ UNCHANGED <<serverVars, streams, threadVars, outVars, readVars, outbound,
                   clientVars>>

\* A client that left may have reset its connection, or just closed it: then
\* nothing throws, and the loop goes on for ever.
ReadThrows(c) ==
    /\ pc[c] = "loop"
    /\ ~shouldTerminate[c]
    /\ c \in gone
    /\ Goto(c, "close")
    /\ UNCHANGED <<serverVars, streams, threadVars, outVars, readVars, outbound,
                   clientVars>>

\* c writes a frame to d's stream.
Address(c, d, type) ==
    /\ to' = [to EXCEPT ![c] = d]
    /\ msg' = [msg EXCEPT ![c] = [type |-> type, from |-> c, n |-> req[c].n]]
    /\ Goto(c, "write")

\* process: what is sent of it, and to whom first.  A DISCONNECT sets
\* shouldTerminate before it is answered, an ERROR is sent before.
Process(c) ==
    /\ pc[c] = "process"
    /\ \/ /\ req[c].type = "SUBSCRIBE" /\ c \notin subscribers
          /\ subscribers' = subscribers \cup {c}
          /\ Address(c, c, "RECEIPT")
          /\ UNCHANGED <<shouldTerminate, goals>>
       \/ /\ req[c].type = "SEND" /\ c \in subscribers
          /\ \E d \in subscribers :
                /\ goals' = [goals EXCEPT ![c] = subscribers \ {d}]
                /\ Address(c, d, "MESSAGE")
          /\ UNCHANGED <<subscribers, shouldTerminate>>
       \/ /\ req[c].type = "DISCONNECT"
          /\ shouldTerminate' = [shouldTerminate EXCEPT ![c] = TRUE]
          /\ Address(c, c, "RECEIPT")
          /\ UNCHANGED <<subscribers, goals>>
       \/ /\ \/ req[c].type = "SUBSCRIBE" /\ c \in subscribers
             \/ req[c].type = "SEND" /\ c \notin subscribers
          /\ Address(c, c, "ERROR")
          /\ UNCHANGED <<subscribers, shouldTerminate, goals>>
    /\ UNCHANGED <<serverVars, streams, req, outVars, readVars, outbound,
                   clientVars>>

\* Mutant: the loop over the subscribers ends with the first of them.
ContinueOnce(c) ==
    /\ goals' = [goals EXCEPT ![c] = {}]
    /\ to' = [to EXCEPT ![c] = c]
    /\ Goto(c, IF msg[c].type = "ERROR" THEN "terminate" ELSE "loop")

\* After a frame was written: the loop of send(channel, msg) goes on, or the
\* thread returns from process.  Who leaves the topic meanwhile is left out.
Continue(c) ==
    \/ /\ goals[c] # {}
       /\ \E d \in goals[c] :
             /\ to' = [to EXCEPT ![c] = d]
             /\ goals' = [goals EXCEPT ![c] = @ \ {d}]
       /\ Goto(c, "write")
    \/ /\ goals[c] = {}
       /\ Goto(c, IF msg[c].type = "ERROR" THEN "terminate" ELSE "loop")
       /\ to' = [to EXCEPT ![c] = c]
       /\ UNCHANGED goals

\* Mutant: the text and the NUL are written one after the other.
WriteInTwo(c) ==
    LET d == to[c] IN
    /\ pc[c] = "write"
    /\ lock[d] = None
    /\ LET text == buffered[d] = <<>> \/ buffered[d][Len(buffered[d])] # msg[c] IN
          /\ buffered' = [buffered EXCEPT ![d] = Append(@, IF text THEN msg[c] ELSE NUL)]
          /\ Goto(c, IF text THEN "write" ELSE "flush")
    /\ UNCHANGED <<serverVars, streams, threadVars, lock, readVars, outbound,
                   clientVars>>

\* out.write(encdec.encode(msg)), in run and in send.
Write(c) ==
    LET d == to[c] IN
    /\ pc[c] = "write"
    /\ lock[d] = None
    /\ buffered' = [buffered EXCEPT ![d] = @ \o Encode(<<msg[c]>>)]
    /\ Goto(c, "flush")
    /\ UNCHANGED <<serverVars, streams, threadVars, lock, readVars, outbound,
                   clientVars>>

\* Mutant: an answer is not flushed, the stream is closed soon anyway.
FlushMessagesOnly(c) ==
    /\ pc[c] = "flush"
    /\ lock[to[c]] = None
    /\ \/ /\ msg[c].type = "RECEIPT"
          /\ Goto(c, "loop")
          /\ UNCHANGED lock
       \/ /\ msg[c].type # "RECEIPT"
          /\ lock' = [lock EXCEPT ![to[c]] = c]
          /\ Goto(c, "flushing")
    /\ UNCHANGED <<serverVars, streams, threadVars, buffered, readVars, outbound,
                   clientVars>>

\* out.flush()
Flush(c) ==
    /\ pc[c] = "flush"
    /\ lock[to[c]] = None
    /\ lock' = [lock EXCEPT ![to[c]] = c]
    /\ Goto(c, "flushing")
    /\ UNCHANGED <<serverVars, streams, threadVars, buffered, readVars, outbound,
                   clientVars>>

\* The socket takes a byte, if there is room; that of a client that left may
\* take it for nothing.
FlushByte(c) ==
    LET d == to[c] IN
    /\ pc[c] = "flushing"
    /\ buffered[d] # <<>>
    /\ pc[d] # "closed"
    /\ \/ /\ d \notin gone
          /\ Len(outbound[d]) < Room
          /\ outbound' = [outbound EXCEPT ![d] = Append(@, Head(buffered[d]))]
       \/ /\ d \in gone
          /\ UNCHANGED outbound
    /\ buffered' = [buffered EXCEPT ![d] = Tail(@)]
    /\ UNCHANGED <<serverVars, pc, streams, threadVars, lock, readVars,
                   clientVars>>

FlushEnds(c) ==
    /\ pc[c] = "flushing"
    /\ buffered[to[c]] = <<>>
    /\ lock' = [lock EXCEPT ![to[c]] = None]
    /\ Continue(c)
    /\ UNCHANGED <<serverVars, streams, subscribers, shouldTerminate, req,
                   msg, buffered, readVars, outbound, clientVars>>

\* Mutant: a lock of one's own that is not released in a finally block.
FlushFailsLocked(c) ==
    /\ pc[c] = "flushing"
    /\ buffered[to[c]] # <<>>
    /\ to[c] \in gone \/ pc[to[c]] = "closed"
    /\ \/ /\ msg[c].type = "RECEIPT"
          /\ Goto(c, "close")
          /\ UNCHANGED <<to, goals>>
       \/ /\ msg[c].type # "RECEIPT"
          /\ Continue(c)
    /\ UNCHANGED <<serverVars, streams, subscribers, shouldTerminate, req,
                   msg, outVars, readVars, outbound, clientVars>>

\* The client left, or the socket was closed by the thread of d.  send catches
\* the exception; run, which writes what process returned, does not.
FlushFails(c) ==
    /\ pc[c] = "flushing"
    /\ buffered[to[c]] # <<>>
    /\ to[c] \in gone \/ pc[to[c]] = "closed"
    /\ lock' = [lock EXCEPT ![to[c]] = None]
    /\ \/ /\ msg[c].type = "RECEIPT"
          /\ Goto(c, "close")
          /\ UNCHANGED <<to, goals>>
       \/ /\ msg[c].type # "RECEIPT"
          /\ Continue(c)
    /\ UNCHANGED <<serverVars, streams, subscribers, shouldTerminate, req,
                   msg, buffered, readVars, outbound, clientVars>>

\* End of handleError.
Terminate(c) ==
    /\ pc[c] = "terminate"
    /\ shouldTerminate' = [shouldTerminate EXCEPT ![c] = TRUE]
    /\ Goto(c, "loop")
    /\ UNCHANGED <<serverVars, streams, subscribers, req, goals, to, msg,
                   outVars, readVars, outbound, clientVars>>

\* The try of run closes the socket; the handler stays in clients.
Close(c) ==
    /\ pc[c] = "close"
    /\ Goto(c, "closed")
    /\ UNCHANGED <<serverVars, streams, threadVars, outVars, readVars, outbound,
                   clientVars>>
-----------------------------------------------------------------------------
ThreadStep(c) ==
    \/ Run(c)
    \/ Read(c)
    \/ LeaveLoop(c)
    \/ Process(c)
    \/ Write(c)
    \/ Flush(c)
    \/ FlushByte(c)
    \/ FlushEnds(c)
    \/ FlushFails(c)
    \/ Terminate(c)
    \/ Close(c)

Next ==
    \/ StopServer
    \/ \E c \in Conns :
          \/ \E k \in Kinds : SendFrameAscii(c, k)
          \/ SendHalf(c)
          \/ GetFrameAscii(c)
          \/ ClientLeaves(c)
          \/ Accept(c)
          \/ Execute(c)
          \/ ThreadStep(c)
          \/ ReadThrows(c)

Spec == Init /\ [][Next]_vars

\* Every thread runs, and a client that stays reads what it is sent.
FairSpec ==
    Spec /\ \A c \in Conns : /\ WF_vars(Execute(c))
                             /\ WF_vars(ThreadStep(c))
                             /\ WF_vars(GetFrameAscii(c))
-----------------------------------------------------------------------------
(* Properties *)

\* send uses out, which only the thread of the handler sets, after the handler
\* was put into the table: no other thread comes before it.
StreamsAreSet == \A c \in Conns : pc[c] = "write" => streams[to[c]]

\* Frames that several threads write to a client at once reach it whole, each
\* of them once.
FramesStayWhole ==
    \A c \in Conns : \A i, k \in 1..Len(got[c]) :
        /\ Len(got[c][i]) = 1
        /\ got[c][i] = got[c][k] => i = k

\* A handler that closed its socket left none of its own answers in the buffer:
\* the receipt of a DISCONNECT and an ERROR go out although it terminates.
LastAnswerIsSent ==
    \A c \in Conns \ gone :
        pc[c] = "closed"
            => \A i \in 1..Len(buffered[c]) :
                  buffered[c][i] = NUL \/ buffered[c][i].from # c

\* c's client did not yet receive what answers the frame processed last.
Owes(c) ==
    \A k \in 1..Len(got[c]) :
        got[c][k][1].from # c \/ got[c][k][1].n # req[c].n

\* Every frame that is processed is answered, a SEND with the message itself,
\* although threads wait for the locks and for the sockets of each other.
FrameIsAnswered ==
    \A c \in Conns :
        pc[c] = "process" ~> c \in gone \/ ~Owes(c)
=============================================================================
