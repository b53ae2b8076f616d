------------------------------ MODULE Reactor ------------------------------
(***************************************************************************)
(* The reactor server's transport: the selector thread of srv/Reactor.java *)
(* and the handlers of srv/NonBlockingConnectionHandler.java.              *)
(*                                                                         *)
(* One selector thread selects, runs the queued selector tasks, accepts,   *)
(* reads and writes.  What a connection sent is processed by a worker,     *)
(* one at a time per connection (the promise of SerialActors), so there    *)
(* is one worker per connection here.  A worker adds frames to the write   *)
(* queue of its own handler or, for a SEND, of every subscriber's handler, *)
(* and asks the selector thread to watch for writability.                  *)
(*                                                                         *)
(* A step is one access to state that two threads share: a concurrent      *)
(* queue, the wakeup of the selector, the field shouldTerminate, a socket. *)
(* Frames carry no text: only what kind of answer they are.                *)
(***************************************************************************)
EXTENDS Naturals, Sequences, FiniteSets

CONSTANTS Conns,      \* connections, by connection id
          None,       \* no connection
          Outcomes,   \* what process may do with a frame, see Process
          Events,     \* what may happen besides: "leave", a client drops its
                      \* connection; "close", the server's close is called
          Frames,     \* bound: [Conns -> frames the client sends]
          SockCap     \* bound: frames a socket's send buffer holds

ASSUME ReactorAssumption ==
    /\ None \notin Conns
    /\ Outcomes \subseteq {"reply", "error", "disconnect", "send"}
    /\ Events \subseteq {"leave", "close"}
    /\ Frames \in [Conns -> Nat]
    /\ SockCap \in Nat \ {0}

VARIABLES
    \* the environment: clients and sockets
    peer,          \* [Conns -> "new", "backlog", "up", "gone"]
    budget,        \* [Conns -> frames the client may still send]
    unread,        \* [Conns -> frames in the socket's receive buffer]
    inSocket,      \* [Conns -> frames in the socket's send buffer]
    \* the selector and the selector thread
    sel,           \* where the selector thread is
    cur,           \* the connection whose key it handles, or None
    key,           \* [Conns -> "none", "valid", "cancelled"], the SelectionKey
    interest,      \* [Conns -> SUBSET {"R", "W"}], its interestOps
    ready,         \* [Conns -> SUBSET {"R", "W"}], selected and not handled yet
    acceptReady,   \* the server socket is selected and not handled yet
    wakeup,        \* a wakeup that select has not consumed
    selectorTasks, \* Seq(Conns): set the interest of this one to {"R", "W"}
    stopped,       \* the selector was closed
    \* the handlers and their workers
    writeQueue,    \* [Conns -> Seq(Kinds)]
    toProcess,     \* [Conns -> frames read and submitted, not yet processed]
    pc,            \* [Conns -> where the worker of the connection is]
    kind,          \* [Conns -> kind of the frame it sends]
    todo,          \* [Conns -> handlers it still has to send the frame to]
    target,        \* [Conns -> the handler it is sending to, or None]
    term,          \* [Conns -> shouldTerminate of the protocol]
    termSeen       \* [Conns -> the selector thread is bound to see term]

clientVars == <<peer, budget, inSocket>>
selVars    == <<sel, cur, ready, acceptReady>>
workerVars == <<pc, kind, todo, target, term>>
vars == <<clientVars, unread, selVars, key, interest, wakeup, selectorTasks,
          stopped, writeQueue, toProcess, workerVars, termSeen>>

Kinds == {"reply", "error", "receipt", "message"}
Ops   == {"R", "W"}

SelectorSteps == {"select", "tasks", "keys", "write", "written", "decide",
                  "ended", "crashed"}
WorkerSteps   == {"idle", "add", "task", "wake", "terminate"}

TypeOK ==
    /\ peer \in [Conns -> {"new", "backlog", "up", "gone"}]
    /\ budget \in [Conns -> Nat]
    /\ unread \in [Conns -> Nat]
    /\ inSocket \in [Conns -> 0..SockCap]
    /\ sel \in SelectorSteps
    /\ cur \in Conns \cup {None}
    /\ sel \in {"write", "written", "decide"} => cur \in Conns
    /\ key \in [Conns -> {"none", "valid", "cancelled"}]
    /\ interest \in [Conns -> SUBSET Ops]
    /\ ready \in [Conns -> SUBSET Ops]
    /\ acceptReady \in BOOLEAN
    /\ wakeup \in BOOLEAN
    /\ selectorTasks \in Seq(Conns)
    /\ stopped \in BOOLEAN
    /\ writeQueue \in [Conns -> Seq(Kinds)]
    /\ toProcess \in [Conns -> Nat]
    /\ pc \in [Conns -> WorkerSteps]
    /\ kind \in [Conns -> Kinds]
    /\ todo \in [Conns -> SUBSET Conns]
    /\ target \in [Conns -> Conns \cup {None}]
    /\ \A c \in Conns : pc[c] \in {"task", "wake"} => target[c] \in Conns
    /\ term \in [Conns -> BOOLEAN]
    /\ termSeen \in [Conns -> BOOLEAN]

Init ==
    /\ peer = [c \in Conns |-> "new"]
    /\ budget = Frames
    /\ unread = [c \in Conns |-> 0]
    /\ inSocket = [c \in Conns |-> 0]
    /\ sel = "select"
    /\ cur = None
    /\ key = [c \in Conns |-> "none"]
    /\ interest = [c \in Conns |-> {}]
    /\ ready = [c \in Conns |-> {}]
    /\ acceptReady = FALSE
    /\ wakeup = FALSE
    /\ selectorTasks = <<>>
    /\ stopped = FALSE
    /\ writeQueue = [c \in Conns |-> <<>>]
    /\ toProcess = [c \in Conns |-> 0]
    /\ pc = [c \in Conns |-> "idle"]
    /\ kind = [c \in Conns |-> "reply"]
    /\ todo = [c \in Conns |-> {}]
    /\ target = [c \in Conns |-> None]
    /\ term = [c \in Conns |-> FALSE]
    /\ termSeen = [c \in Conns |-> FALSE]
-----------------------------------------------------------------------------
(* Clients *)

Connect(c) ==
    /\ peer[c] = "new"
    /\ peer' = [peer EXCEPT ![c] = "backlog"]
    /\ UNCHANGED <<budget, inSocket, unread, selVars, key, interest, wakeup,
                   selectorTasks, stopped, writeQueue, toProcess, workerVars,
                   termSeen>>

ClientSend(c) ==
    /\ peer[c] \in {"backlog", "up"}
    /\ budget[c] > 0
    /\ budget' = [budget EXCEPT ![c] = @ - 1]
    /\ unread' = [unread EXCEPT ![c] = @ + 1]
    /\ UNCHANGED <<peer, inSocket, selVars, key, interest, wakeup,
                   selectorTasks, stopped, writeQueue, toProcess, workerVars,
                   termSeen>>

\* The client reads: room for one more frame in the send buffer.
ClientReceive(c) ==
    /\ peer[c] = "up"
    /\ inSocket[c] > 0
    /\ inSocket' = [inSocket EXCEPT ![c] = @ - 1]
    /\ UNCHANGED <<peer, budget, unread, selVars, key, interest, wakeup,
                   selectorTasks, stopped, writeQueue, toProcess, workerVars,
                   termSeen>>

\* The client closes its socket or is cut off; what it sent may still arrive.
ClientLeave(c) ==
    /\ "leave" \in Events
    /\ peer[c] = "up"
    /\ peer' = [peer EXCEPT ![c] = "gone"]
    /\ UNCHANGED <<budget, inSocket, unread, selVars, key, interest, wakeup,
                   selectorTasks, stopped, writeQueue, toProcess, workerVars,
                   termSeen>>
-----------------------------------------------------------------------------
(* The selector thread *)

\* handler.close: the channel's close cancels its key.
Close(c) == key' = [key EXCEPT ![c] = IF @ = "valid" THEN "cancelled" ELSE @]

HasRoom(c) == inSocket[c] < SockCap

ReadyOps(c) ==
    IF key[c] # "valid" THEN {}
    ELSE {o \in interest[c] :
            \/ peer[c] = "gone"
            \/ o = "R" /\ unread[c] > 0
            \/ o = "W" /\ HasRoom(c)}

Backlog == {c \in Conns : peer[c] = "backlog"}

\* select returns when a key is ready or after a wakeup; it drops the keys
\* that were cancelled from the selector, and keyFor answers null from then.
Select ==
    /\ sel = "select"
    /\ ~stopped
    /\ wakeup \/ Backlog # {} \/ \E c \in Conns : ReadyOps(c) # {}
    /\ wakeup' = FALSE
    /\ ready' = [c \in Conns |-> ReadyOps(c)]
    /\ acceptReady' = (Backlog # {})
    /\ key' = [c \in Conns |-> IF key[c] = "cancelled" THEN "none" ELSE key[c]]
    /\ sel' = "tasks"
    /\ UNCHANGED <<clientVars, unread, cur, interest, selectorTasks, stopped,
                   writeQueue, toProcess, workerVars, termSeen>>

\* runSelectionThreadTasks: interestOps throws on a key that is cancelled and
\* on null; nothing in serve catches that, and the loop is left.
RunTask ==
    /\ sel = "tasks"
    /\ selectorTasks # <<>>
    /\ LET c == Head(selectorTasks) IN
       \/ /\ key[c] = "valid"
          /\ interest' = [interest EXCEPT ![c] = Ops]
          /\ UNCHANGED sel
       \/ /\ key[c] # "valid"
          /\ sel' = "crashed"
          /\ UNCHANGED interest
    /\ selectorTasks' = Tail(selectorTasks)
    /\ UNCHANGED <<clientVars, unread, cur, ready, acceptReady, key, wakeup,
                   stopped, writeQueue, toProcess, workerVars, termSeen>>

TasksDone ==
    /\ sel = "tasks"
    /\ selectorTasks = <<>>
    /\ sel' = "keys"
    /\ UNCHANGED <<clientVars, unread, cur, ready, acceptReady, key, interest,
                   wakeup, selectorTasks, stopped, writeQueue, toProcess,
                   workerVars, termSeen>>

\* handleAccept: the handler is added to the connections, its protocol is
\* started and its channel is registered for reading.
Accept ==
    /\ sel = "keys"
    /\ acceptReady
    /\ \E c \in Backlog :
          /\ peer' = [peer EXCEPT ![c] = "up"]
          /\ key' = [key EXCEPT ![c] = "valid"]
          /\ interest' = [interest EXCEPT ![c] = {"R"}]
    /\ acceptReady' = FALSE
    /\ UNCHANGED <<budget, inSocket, unread, sel, cur, ready, wakeup,
                   selectorTasks, stopped, writeQueue, toProcess, workerVars,
                   termSeen>>

\* continueRead: what was read is submitted to the pool; at the end of the
\* stream, or when the read throws, the channel is closed.
ContinueRead(c) ==
    /\ unread' = [unread EXCEPT ![c] = 0]
    /\ \/ /\ unread[c] > 0
          /\ toProcess' = [toProcess EXCEPT ![c] = @ + unread[c]]
          /\ UNCHANGED key
       \/ /\ peer[c] = "gone"
          /\ Close(c)
          /\ UNCHANGED toProcess

\* handleReadWrite, up to the call of continueWrite.
HandleKey(c) ==
    /\ sel = "keys"
    /\ ready[c] # {}
    /\ ready' = [ready EXCEPT ![c] = {}]
    /\ \/ "R" \notin ready[c] /\ UNCHANGED <<toProcess, unread, key>>
       \/ "R" \in ready[c] /\ ContinueRead(c)
    /\ \/ /\ key'[c] = "valid"
          /\ "W" \in ready[c]
          /\ sel' = "write"
          /\ cur' = c
       \/ /\ key'[c] # "valid" \/ "W" \notin ready[c]
          /\ UNCHANGED <<sel, cur>>
    /\ UNCHANGED <<clientVars, acceptReady, interest, wakeup, selectorTasks,
                   stopped, writeQueue, workerVars, termSeen>>

KeysDone ==
    /\ sel = "keys"
    /\ ~acceptReady
    /\ \A c \in Conns : ready[c] = {}
    /\ sel' = "select"
    /\ UNCHANGED <<clientVars, unread, cur, ready, acceptReady, key, interest,
                   wakeup, selectorTasks, stopped, writeQueue, toProcess,
                   workerVars, termSeen>>

\* Mutant: the test of top.hasRemaining() is dropped.
WriteFrameUnchecked ==
    /\ sel = "write"
    /\ writeQueue[cur] # <<>>
    /\ key[cur] = "valid"
    /\ inSocket' = [inSocket EXCEPT ![cur] = @ + 1]
    /\ writeQueue' = [writeQueue EXCEPT ![cur] = Tail(@)]
    /\ UNCHANGED <<peer, budget, unread, selVars, key, interest, wakeup,
                   selectorTasks, stopped, toProcess, workerVars, termSeen>>

\* Mutant: the frame that was written is not removed.
WriteFrameKept ==
    /\ sel = "write"
    /\ writeQueue[cur] # <<>>
    /\ key[cur] = "valid"
    /\ HasRoom(cur)
    /\ inSocket' = [inSocket EXCEPT ![cur] = @ + 1]
    /\ UNCHANGED <<peer, budget, unread, selVars, key, interest, wakeup,
                   selectorTasks, stopped, writeQueue, toProcess, workerVars,
                   termSeen>>

\* continueWrite, the loop: the whole top frame goes to the socket.  Draining
\* the receipt of a DISCONNECT orders the read of shouldTerminate after its
\* assignment, which came before the frame was added.
WriteFrame ==
    /\ sel = "write"
    /\ writeQueue[cur] # <<>>
    /\ key[cur] = "valid"
    /\ HasRoom(cur)
    /\ inSocket' = [inSocket EXCEPT ![cur] = @ + 1]
    /\ writeQueue' = [writeQueue EXCEPT ![cur] = Tail(@)]
    /\ termSeen' = [termSeen EXCEPT ![cur] =
                       @ \/ Head(writeQueue[cur]) = "receipt"]
    /\ UNCHANGED <<peer, budget, unread, selVars, key, interest, wakeup,
                   selectorTasks, stopped, toProcess, workerVars>>

\* Mutant: after a partial write the interest is reset as after a full one.
WritePartResets ==
    /\ sel = "write"
    /\ writeQueue[cur] # <<>>
    /\ key[cur] = "valid"
    /\ ~HasRoom(cur)
    /\ interest' = [interest EXCEPT ![cur] = {"R"}]
    /\ sel' = "keys"
    /\ cur' = None
    /\ UNCHANGED <<clientVars, unread, ready, acceptReady, key, wakeup,
                   selectorTasks, stopped, writeQueue, toProcess, workerVars,
                   termSeen>>

\* The socket takes part of the frame only: continueWrite returns.
WritePart ==
    /\ sel = "write"
    /\ writeQueue[cur] # <<>>
    /\ key[cur] = "valid"
    /\ ~HasRoom(cur)
    /\ sel' = "keys"
    /\ cur' = None
    /\ UNCHANGED <<clientVars, unread, ready, acceptReady, key, interest,
                   wakeup, selectorTasks, stopped, writeQueue, toProcess,
                   workerVars, termSeen>>

\* The write throws: the channel is closed, and the loop goes on with the same
\* frame at the top.
WriteFails ==
    /\ sel = "write"
    /\ writeQueue[cur] # <<>>
    /\ key[cur] # "valid" \/ peer[cur] = "gone"
    /\ Close(cur)
    /\ UNCHANGED <<clientVars, unread, selVars, interest, wakeup,
                   selectorTasks, stopped, writeQueue, toProcess, workerVars,
                   termSeen>>

\* The loop's test finds the queue empty.
WriteLoopEnds ==
    /\ sel = "write"
    /\ writeQueue[cur] = <<>>
    /\ sel' = "written"
    /\ UNCHANGED <<clientVars, unread, cur, ready, acceptReady, key, interest,
                   wakeup, selectorTasks, stopped, writeQueue, toProcess,
                   workerVars, termSeen>>

\* The second test of the queue, after the loop.
WriteRetest ==
    /\ sel = "written"
    /\ \/ writeQueue[cur] = <<>> /\ sel' = "decide" /\ UNCHANGED cur
       \/ writeQueue[cur] # <<>> /\ sel' = "keys" /\ cur' = None
    /\ UNCHANGED <<clientVars, unread, ready, acceptReady, key, interest,
                   wakeup, selectorTasks, stopped, writeQueue, toProcess,
                   workerVars, termSeen>>

\* Mutant: shouldTerminate is not asked, the connection is always kept.
WriteDecideKeeps ==
    /\ sel = "decide"
    /\ key[cur] = "valid"
    /\ interest' = [interest EXCEPT ![cur] = {"R"}]
    /\ sel' = "keys"
    /\ cur' = None
    /\ UNCHANGED <<clientVars, unread, ready, acceptReady, key, wakeup,
                   selectorTasks, stopped, writeQueue, toProcess, workerVars,
                   termSeen>>

\* shouldTerminate is a plain field that the worker writes: unless a frame
\* ordered the two accesses, the selector thread may read the old value.
WriteDecide ==
    /\ sel = "decide"
    /\ \/ /\ term[cur]
          /\ Close(cur)
          /\ sel' = "keys"
          /\ UNCHANGED interest
       \/ /\ ~termSeen[cur]
          /\ key[cur] = "valid"
          /\ interest' = [interest EXCEPT ![cur] = {"R"}]
          /\ sel' = "keys"
          /\ UNCHANGED key
       \/ /\ ~termSeen[cur]
          /\ key[cur] # "valid"
          /\ sel' = "crashed"
          /\ UNCHANGED <<interest, key>>
    /\ cur' = None
    /\ UNCHANGED <<clientVars, unread, ready, acceptReady, wakeup,
                   selectorTasks, stopped, writeQueue, toProcess, workerVars,
                   termSeen>>

\* Reactor.close closes the selector, which drops every key; select throws.
\* Nothing in the repository calls it, and it is modelled only while the
\* selector thread selects.
StopServer ==
    /\ "close" \in Events
    /\ ~stopped
    /\ sel = "select"
    /\ stopped' = TRUE
    /\ key' = [c \in Conns |-> "none"]
    /\ UNCHANGED <<clientVars, unread, selVars, interest, wakeup,
                   selectorTasks, writeQueue, toProcess, workerVars, termSeen>>

ServeEnds ==
    /\ sel = "select"
    /\ stopped
    /\ sel' = "ended"
    /\ UNCHANGED <<clientVars, unread, cur, ready, acceptReady, key, interest,
                   wakeup, selectorTasks, stopped, writeQueue, toProcess,
                   workerVars, termSeen>>
-----------------------------------------------------------------------------
(* The workers *)

\* The connections that were added and are never removed (disconnect has no
\* caller), whether or not their channel is still open.
Clients == {c \in Conns : peer[c] \in {"up", "gone"}}

\* protocol.process of the next frame, up to its first send.  A SEND goes to
\* the subscribers of a channel, and its sender is one of them.
Process(c) ==
    /\ pc[c] = "idle"
    /\ toProcess[c] > 0
    /\ toProcess' = [toProcess EXCEPT ![c] = @ - 1]
    /\ \/ /\ "reply" \in Outcomes
          /\ kind' = [kind EXCEPT ![c] = "reply"]
          /\ todo' = [todo EXCEPT ![c] = {c}]
          /\ UNCHANGED term
       \/ /\ "error" \in Outcomes
          /\ kind' = [kind EXCEPT ![c] = "error"]
          /\ todo' = [todo EXCEPT ![c] = {c}]
          /\ UNCHANGED term
       \/ /\ "disconnect" \in Outcomes
          /\ kind' = [kind EXCEPT ![c] = "receipt"]
          /\ todo' = [todo EXCEPT ![c] = {c}]
          /\ term' = [term EXCEPT ![c] = TRUE]
       \/ /\ "send" \in Outcomes
          /\ kind' = [kind EXCEPT ![c] = "message"]
          /\ \E S \in SUBSET Clients : todo' = [todo EXCEPT ![c] = S \cup {c}]
          /\ UNCHANGED term
    /\ pc' = [pc EXCEPT ![c] = "add"]
    /\ UNCHANGED <<clientVars, unread, selVars, key, interest, wakeup,
                   selectorTasks, stopped, writeQueue, target, termSeen>>

\* writeQueue.add of one of the handlers.
AddFrame(c) ==
    /\ pc[c] = "add"
    /\ \E d \in todo[c] :
          /\ writeQueue' = [writeQueue EXCEPT ![d] = Append(@, kind[c])]
          /\ target' = [target EXCEPT ![c] = d]
    /\ pc' = [pc EXCEPT ![c] = "task"]
    /\ UNCHANGED <<clientVars, unread, selVars, key, interest, wakeup,
                   selectorTasks, stopped, toProcess, kind, todo, term,
                   termSeen>>

\* Mutant: no task is queued when a wakeup is already on its way.
QueueTaskUnlessWoken(c) ==
    /\ pc[c] = "task"
    /\ selectorTasks' = IF wakeup THEN selectorTasks
                                  ELSE Append(selectorTasks, target[c])
    /\ pc' = [pc EXCEPT ![c] = "wake"]
    /\ UNCHANGED <<clientVars, unread, selVars, key, interest, wakeup, stopped,
                   writeQueue, toProcess, kind, todo, target, term, termSeen>>

\* updateInterestedOps off the selector thread: the task is queued, ...
QueueTask(c) ==
    /\ pc[c] = "task"
    /\ selectorTasks' = Append(selectorTasks, target[c])
    /\ pc' = [pc EXCEPT ![c] = "wake"]
    /\ UNCHANGED <<clientVars, unread, selVars, key, interest, wakeup, stopped,
                   writeQueue, toProcess, kind, todo, target, term, termSeen>>

\* Mutant: the selector is not woken up.
NoWakeup(c) ==
    /\ pc[c] = "wake"
    /\ todo' = [todo EXCEPT ![c] = @ \ {target[c]}]
    /\ pc' = [pc EXCEPT ![c] = IF todo'[c] # {} THEN "add" ELSE "idle"]
    /\ target' = [target EXCEPT ![c] = None]
    /\ UNCHANGED <<clientVars, unread, selVars, key, interest, wakeup,
                   selectorTasks, stopped, writeQueue, toProcess, kind, term,
                   termSeen>>

\* ... then the selector is woken up.
Wakeup(c) ==
    /\ pc[c] = "wake"
    /\ wakeup' = TRUE
    /\ todo' = [todo EXCEPT ![c] = @ \ {target[c]}]
    /\ pc' = [pc EXCEPT ![c] = IF todo'[c] # {} THEN "add"
                               ELSE IF kind[c] = "error" THEN "terminate"
                               ELSE "idle"]
    /\ target' = [target EXCEPT ![c] = None]
    /\ UNCHANGED <<clientVars, unread, selVars, key, interest, selectorTasks,
                   stopped, writeQueue, toProcess, kind, term, termSeen>>

\* handleError sets shouldTerminate after it sent the ERROR frame.
Terminate(c) ==
    /\ pc[c] = "terminate"
    /\ term' = [term EXCEPT ![c] = TRUE]
    /\ pc' = [pc EXCEPT ![c] = "idle"]
    /\ UNCHANGED <<clientVars, unread, selVars, key, interest, wakeup,
                   selectorTasks, stopped, writeQueue, toProcess, kind, todo,
                   target, termSeen>>
-----------------------------------------------------------------------------
SelectorStep ==
    \/ Select
    \/ RunTask
    \/ TasksDone
    \/ Accept
    \/ \E c \in Conns : HandleKey(c)
    \/ KeysDone
    \/ WriteFrame
    \/ WritePart
    \/ WriteFails
    \/ WriteLoopEnds
    \/ WriteRetest
    \/ WriteDecide
    \/ ServeEnds

WorkerStep(c) ==
    \/ Process(c)
    \/ AddFrame(c)
    \/ QueueTask(c)
    \/ Wakeup(c)
    \/ Terminate(c)

ClientStep(c) ==
    \/ Connect(c)
    \/ ClientSend(c)
    \/ ClientReceive(c)
    \/ ClientLeave(c)

Next ==
    \/ SelectorStep
    \/ \E c \in Conns : WorkerStep(c)
    \/ \E c \in Conns : ClientStep(c)
    \/ StopServer

Spec == Init /\ [][Next]_vars

\* The threads run, and a client that is up reads what arrives.
Fairness ==
    /\ WF_vars(SelectorStep)
    /\ \A c \in Conns : WF_vars(WorkerStep(c)) /\ WF_vars(ClientReceive(c))

FairSpec == Spec /\ Fairness
-----------------------------------------------------------------------------
(* Properties *)

TaskQueued(c) ==
    \E i \in 1..Len(selectorTasks) : selectorTasks[i] = c

\* A frame in the write queue of an open connection is never forgotten: its
\* key waits for writability, or a task that makes it wait is queued or about
\* to be, or the selector thread is in the write loop of that connection.  A
\* worker adds to the queue while continueWrite tests it and resets the
\* interest, in any order.
NoLostWrite ==
    \A c \in Conns :
        key[c] = "valid" /\ writeQueue[c] # <<>> =>
            \/ "W" \in interest[c]
            \/ TaskQueued(c)
            \/ \E d \in Conns : pc[d] = "task" /\ target[d] = c
            \/ sel = "crashed"

\* The selector thread does not go to sleep on a queued selector task.
NoLostWakeup ==
    sel = "select" /\ selectorTasks # <<>> =>
        wakeup \/ \E d \in Conns : pc[d] = "wake"

\* serve returns when the server was asked to close (Reactor.java: "do nothing
\* - server was requested to be closed"), not for any other reason.
LoopEndsOnRequestOnly == sel # "crashed"

\* Every frame added to a write queue leaves it, or its connection closes.
\* (Once the loop was left nothing is written: that is LoopEndsOnRequestOnly.)
FramesAreWritten ==
    \A c \in Conns :
        writeQueue[c] # <<>> ~>
            (writeQueue[c] = <<>> \/ key[c] # "valid" \/ sel = "crashed")

\* The selector thread comes back to select, unless the loop is left: no turn
\* of the loop lasts for ever ("The main loop of the server, Starts listening
\* and handling new clients", Server.java).
SelectorReturns == []<>(sel \in {"select", "ended", "crashed"})

\* shouldTerminate is "true if the connection should be terminated"
\* (MessagingProtocol.java): once it is, the connection gets closed.
TerminatedIsClosed ==
    \A c \in Conns : term[c] ~> (key[c] # "valid" \/ sel = "crashed")
=============================================================================
