------------------------ MODULE ThreadPerClientProofs ------------------------
(***************************************************************************)
(* Proofs about ThreadPerClient for any connections, any room in the       *)
(* sockets and any number of requests.                                     *)
(***************************************************************************)
EXTENDS ThreadPerClient, SequenceTheorems, TLAPS

(* Texts and delimiters *)

\* What is held of a frame and the bytes that are still to come: a text and a
\* delimiter by turns.
InStep(held, coming) ==
    /\ held \in {<<>>} \cup {<<f>> : f \in Frame}
    /\ coming # <<>> => (coming[1] = NUL <=> held # <<>>)
    /\ \A i \in 1..(Len(coming) - 1) : coming[i] = NUL <=> coming[i + 1] # NUL

\* They end with a delimiter.
Complete(held, coming) ==
    IF coming = <<>> THEN held = <<>> ELSE coming[Len(coming)] = NUL

\* What a decoder in step holds is a sequence of bytes.
LEMMA HeldIsSeq ==
    ASSUME NEW held, NEW coming, InStep(held, coming)
    PROVE  held \in Seq(Byte)
<1>1. CASE held = <<>>
  BY <1>1
<1>2. ASSUME NEW f \in Frame, held = <<f>> PROVE held \in Seq(Byte)
  <2>1. f \in Byte
    BY DEF Byte
  <2> QED BY <1>2, <2>1
<1> QED BY <1>1, <1>2 DEF InStep

\* A frame is encoded as its text and the delimiter.
LEMMA EncodeOne ==
    ASSUME NEW f \in Byte, NUL \in Byte
    PROVE  Encode(<<f>>) = <<f, NUL>> /\ <<f, NUL>> \in Seq(Byte)
<1>1. <<f>> \in Seq(Byte) /\ <<f, NUL>> \in Seq(Byte)
  OBVIOUS
<1>2. /\ Encode(<<f>>) \in Seq(Byte) /\ Len(Encode(<<f>>)) = 2
      /\ Encode(<<f>>)[1] = f /\ Encode(<<f>>)[2] = NUL
  BY <1>1 DEF Encode
<1>3. Len(<<f, NUL>>) = 2 /\ <<f, NUL>>[1] = f /\ <<f, NUL>>[2] = NUL
  OBVIOUS
<1>4. \A i \in 1..2 : i = 1 \/ i = 2
  OBVIOUS
<1> HIDE DEF Encode
<1> QED BY <1>1, <1>2, <1>3, <1>4, SeqEqual

\* A decoder that takes the next byte takes a text into its empty buffer, or a
\* delimiter that completes the text it holds.
LEMMA Decoded ==
    ASSUME NEW held, NEW coming \in Seq(Byte),
           InStep(held, coming), coming # <<>>
    PROVE  LET d == DecodeNextByte(held, Head(coming)) IN
           /\ InStep(d.buffer, Tail(coming))
           /\ Complete(held, coming) => Complete(d.buffer, Tail(coming))
           /\ \/ /\ held = <<>> /\ Head(coming) \in Frame
                 /\ d.frames = <<>> /\ d.buffer = <<Head(coming)>>
              \/ /\ \E f \in Frame : held = <<f>> /\ d.frames = << <<f>> >>
                 /\ Head(coming) = NUL /\ d.buffer = <<>>
<1> DEFINE d == DecodeNextByte(held, Head(coming))
           t == Tail(coming)
<1>1. /\ Head(coming) = coming[1] /\ coming[1] \in Byte
      /\ t \in Seq(Byte) /\ Len(t) = Len(coming) - 1 /\ Len(coming) \in Nat \ {0}
      /\ \A i \in 1..Len(t) : t[i] = coming[i + 1]
  OBVIOUS
<1>2. \A i \in 1..(Len(t) - 1) : t[i] = NUL <=> t[i + 1] # NUL
  BY <1>1 DEF InStep
<1>3. t # <<>> => /\ 1 \in 1..(Len(coming) - 1) /\ t[1] = coming[2]
                  /\ t[Len(t)] = coming[Len(coming)]
  BY <1>1
<1>4. t # <<>> => (t[1] = NUL <=> coming[1] # NUL)
  BY <1>3 DEF InStep
<1>5. t = <<>> => coming[Len(coming)] = coming[1]
  <2>1. ASSUME t = <<>> PROVE Len(coming) = 1
    <3>1. \A s \in Seq(Byte) : s = <<>> => Len(s) = 0
      OBVIOUS
    <3>2. Len(t) = 0
      BY <1>1, <2>1, <3>1
    <3> QED BY <1>1, <3>2
  <2> QED BY <2>1
<1>6. CASE Head(coming) = NUL
  <2>1. PICK f \in Frame : held = <<f>>
    BY <1>1, <1>6 DEF InStep
  <2>2. d = [frames |-> <<held>>, buffer |-> <<>>]
    BY <1>6 DEF DecodeNextByte
  <2>3. InStep(<<>>, t)
    BY <1>1, <1>2, <1>4, <1>6 DEF InStep
  <2>4. Complete(held, coming) => Complete(<<>>, t)
    BY <1>3 DEF Complete
  <2> QED BY <1>6, <2>1, <2>2, <2>3, <2>4
<1>7. CASE Head(coming) # NUL
  <2>1. Head(coming) \in Frame /\ held = <<>>
    BY <1>1, <1>7 DEF InStep, Byte
  <2>2. d = [frames |-> <<>>, buffer |-> <<Head(coming)>>]
    BY <1>7, <2>1 DEF DecodeNextByte
  <2>3. InStep(<<Head(coming)>>, t)
    BY <1>1, <1>2, <1>4, <1>7, <2>1 DEF InStep
  <2>4. Complete(held, coming) => Complete(<<Head(coming)>>, t)
    BY <1>1, <1>3, <1>5, <1>7 DEF Complete
  <2> QED BY <2>1, <2>2, <2>3, <2>4
<1> QED BY <1>6, <1>7

\* A text, or a whole frame, behind what is complete.
LEMMA TextAdded ==
    ASSUME NEW held, NEW coming \in Seq(Byte), NEW f \in Frame,
           InStep(held, coming), Complete(held, coming)
    PROVE  InStep(held, coming \o <<f>>)
<1> DEFINE s == coming \o <<f>>
<1>1. f # NUL
  BY TextAssumption
<1>2. /\ Len(s) = Len(coming) + 1 /\ s # <<>> /\ Len(coming) \in Nat
      /\ \A i \in 1..Len(coming) : s[i] = coming[i]
      /\ s[Len(coming) + 1] = f
  OBVIOUS
<1>3. CASE coming = <<>>
  BY <1>1, <1>2, <1>3 DEF InStep, Complete
<1>4. CASE coming # <<>>
  <2>1. coming[Len(coming)] = NUL /\ s[1] = coming[1]
    BY <1>2, <1>4 DEF Complete
  <2>2. ASSUME NEW i \in 1..(Len(s) - 1) PROVE s[i] = NUL <=> s[i + 1] # NUL
    <3>1. CASE i = Len(coming)
      BY <1>1, <1>2, <2>1, <3>1
    <3>2. CASE i # Len(coming)
      <4>1. i \in 1..(Len(coming) - 1)
        BY <1>2, <3>2
      <4> QED BY <1>2, <4>1 DEF InStep
    <3> QED BY <3>1, <3>2
  <2> QED BY <1>4, <2>1, <2>2 DEF InStep
<1> QED BY <1>3, <1>4

\* A whole frame at the end of a stream keeps its decoder in step.
LEMMA FrameAdded ==
    ASSUME NEW held, NEW coming \in Seq(Byte), NEW f \in Frame,
           InStep(held, coming), Complete(held, coming)
    PROVE  /\ InStep(held, coming \o <<f, NUL>>)
           /\ Complete(held, coming \o <<f, NUL>>)
<1> DEFINE s == coming \o <<f>>
           t == coming \o <<f, NUL>>
<1>1. f # NUL /\ f \in Byte /\ NUL \in Byte
  BY TextAssumption DEF Byte
<1>2. InStep(held, s)
  BY TextAdded
<1>3. /\ Len(s) = Len(coming) + 1 /\ Len(coming) \in Nat /\ s # <<>>
      /\ Len(t) = Len(coming) + 2 /\ t # <<>>
      /\ \A i \in 1..Len(s) : t[i] = s[i]
      /\ s[Len(s)] = f /\ t[Len(t)] = NUL
  BY <1>1
<1>4. Complete(held, t)
  BY <1>3 DEF Complete
<1>5. ASSUME NEW i \in 1..(Len(t) - 1) PROVE t[i] = NUL <=> t[i + 1] # NUL
  <2>1. CASE i = Len(s)
    BY <1>1, <1>3, <2>1
  <2>2. CASE i # Len(s)
    <3>1. i \in 1..(Len(s) - 1)
      BY <1>3, <2>2
    <3> QED BY <1>2, <1>3, <3>1 DEF InStep
  <2> QED BY <2>1, <2>2
<1> QED BY <1>2, <1>3, <1>4, <1>5 DEF InStep
-----------------------------------------------------------------------------
(* Types *)

\* What a client sent is frames, of which the last may lack its end if the
\* client left.
InputWhole ==
    \A c \in Conns : /\ InStep(decoder[c], inbound[c])
                     /\ c \notin gone => Complete(decoder[c], inbound[c])

Writing == {"write", "flush", "flushing"}

\* A thread processes a frame, and writes what that frame causes: to one
\* connection after the other, if it is a message.
Answering ==
    \A c \in Conns :
        /\ pc[c] = "process" => req[c] \in Frame
        /\ pc[c] \in Writing =>
              /\ req[c] \in Frame /\ msg[c] \in Frame
              /\ msg[c].from = c /\ msg[c].n = req[c].n
              /\ to[c] \notin goals[c]
              /\ msg[c].type # "MESSAGE" => goals[c] = {}
        /\ pc[c] \notin Writing => goals[c] = {}

TypeInv == TypeOK /\ InputWhole /\ Answering

\* What a client sends: the next number, its text, and perhaps the delimiter
LEMMA SendsTyped ==
    ASSUME TypeOK, NEW c \in Conns, NEW k \in Kinds,
           NEW end \in {<<>>, <<NUL>>}, Sends(c, k, end)
    PROVE  /\ requests' \in Nat /\ inbound' \in [Conns -> Seq(Byte)]
           /\ \E f \in Frame :
                 /\ f.from = c /\ f.n = requests + 1
                 /\ inbound'[c] = inbound[c] \o (<<f>> \o end)
           /\ \A d \in Conns \ {c} : inbound'[d] = inbound[d]
<1>1. requests' = requests + 1 /\ requests \in Nat
  BY DEF Sends, TypeOK
<1>0. [type |-> k, from |-> c, n |-> requests + 1] \in Frame
  BY <1>1 DEF Frame
<1> PICK f \in Frame : f = [type |-> k, from |-> c, n |-> requests + 1]
  BY <1>0, Zenon
<1>2. f \in Byte /\ NUL \in Byte
  BY DEF Byte
<1>3. inbound' = [inbound EXCEPT ![c] = (@ \o <<f>>) \o end]
  BY <1>1 DEF Sends
<1>4. inbound \in [Conns -> Seq(Byte)] /\ inbound[c] \in Seq(Byte)
  BY DEF TypeOK
<1>5. /\ <<f>> \in Seq(Byte) /\ end \in Seq(Byte)
      /\ <<f>> \o end \in Seq(Byte)
  <2>1. end = <<>> \/ end = <<NUL>>
    OBVIOUS
  <2>2. <<f>> \in Seq(Byte) /\ <<NUL>> \in Seq(Byte) /\ <<>> \in Seq(Byte)
    BY <1>2
  <2> QED BY <2>1, <2>2, ConcatProperties
<1>6. /\ (inbound[c] \o <<f>>) \o end = inbound[c] \o (<<f>> \o end)
      /\ inbound[c] \o (<<f>> \o end) \in Seq(Byte)
  BY <1>4, <1>5, ConcatAssociative, ConcatProperties
<1>7. /\ inbound'[c] = inbound[c] \o (<<f>> \o end)
      /\ inbound' \in [Conns -> Seq(Byte)]
      /\ \A d \in Conns \ {c} : inbound'[d] = inbound[d]
  BY <1>3, <1>4, <1>5, <1>6
<1>8. /\ f.from = c /\ f.n = requests + 1
      /\ inbound'[c] = inbound[c] \o (<<f>> \o end)
  BY <1>7
<1>9. \E g \in Frame : /\ g.from = c /\ g.n = requests + 1
                        /\ inbound'[c] = inbound[c] \o (<<g>> \o end)
  BY <1>8, Zenon
<1>10. requests' \in Nat
  BY <1>1
<1> QED BY <1>7, <1>9, <1>10

\* Whom a thread writes to next.
LEMMA ContinueTyped ==
    ASSUME TypeOK, NEW c \in Conns, Continue(c)
    PROVE  /\ pc' \in [Conns -> Steps] /\ to' \in [Conns -> Conns]
           /\ goals' \in [Conns -> SUBSET Conns]
           /\ pc'[c] \in {"write", "terminate", "loop"}
           /\ \A d \in Conns \ {c} : /\ pc'[d] = pc[d] /\ to'[d] = to[d]
                                     /\ goals'[d] = goals[d]
           /\ pc'[c] = "write" => /\ to'[c] \in goals[c]
                                  /\ goals'[c] = goals[c] \ {to'[c]}
           /\ pc'[c] # "write" => goals'[c] = {}
<1>0. /\ pc \in [Conns -> Steps] /\ to \in [Conns -> Conns]
      /\ goals \in [Conns -> SUBSET Conns]
  BY DEF TypeOK
<1>1. CASE goals[c] # {}
  <2>1. PICK d \in goals[c] : /\ to' = [to EXCEPT ![c] = d]
                              /\ goals' = [goals EXCEPT ![c] = @ \ {d}]
                              /\ pc' = [pc EXCEPT ![c] = "write"]
    BY <1>1 DEF Continue, Goto
  <2>2. d \in Conns /\ "write" \in Steps
    BY <1>0 DEF Steps
  <2> QED BY <1>0, <2>1, <2>2
<1>2. CASE goals[c] = {}
  <2>1. PICK step \in {"terminate", "loop"} : pc' = [pc EXCEPT ![c] = step]
    BY <1>2 DEF Continue, Goto
  <2>2. step \in Steps
    BY DEF Steps
  <2>3. to' = [to EXCEPT ![c] = c] /\ goals' = goals
    BY <1>2 DEF Continue
  <2> QED BY <1>0, <1>2, <2>1, <2>2, <2>3
<1> QED BY <1>1, <1>2

\* The connections that other threads flush stay locked by them.
LEMMA LockKept ==
    ASSUME TypeOK, NEW c \in Conns, lock' \in [Conns -> Conns \cup {None}],
           \A d \in Conns \ {c} : pc'[d] = pc[d] /\ to'[d] = to[d],
           \/ /\ pc[c] # "flushing" /\ pc'[c] # "flushing" /\ lock' = lock
           \/ /\ pc[c] = "flushing" /\ pc'[c] # "flushing"
              /\ lock' = [lock EXCEPT ![to[c]] = None]
           \/ /\ pc[c] # "flushing" /\ pc'[c] = "flushing" /\ to' = to
              /\ lock[to[c]] = None
              /\ lock' = [lock EXCEPT ![to[c]] = c]
    PROVE  \A b, d \in Conns : lock'[d] = b <=> pc'[b] = "flushing" /\ to'[b] = d
<1>1. /\ \A b, d \in Conns : lock[d] = b <=> pc[b] = "flushing" /\ to[b] = d
      /\ to[c] \in Conns /\ None \notin Conns
  BY ServerAssumption DEF TypeOK
<1>2. CASE pc[c] # "flushing" /\ pc'[c] # "flushing" /\ lock' = lock
  BY <1>1, <1>2
<1>3. CASE /\ pc[c] = "flushing" /\ pc'[c] # "flushing"
           /\ lock' = [lock EXCEPT ![to[c]] = None]
  <2>1. /\ lock'[to[c]] = None
        /\ \A d \in Conns \ {to[c]} : lock'[d] = lock[d]
    BY <1>3 DEF TypeOK
  <2> QED BY <1>1, <1>3, <2>1
<1>4. CASE /\ pc[c] # "flushing" /\ pc'[c] = "flushing" /\ to' = to
           /\ lock[to[c]] = None
           /\ lock' = [lock EXCEPT ![to[c]] = c]
  <2>1. /\ lock'[to[c]] = c
        /\ \A d \in Conns \ {to[c]} : lock'[d] = lock[d]
    BY <1>4 DEF TypeOK
  <2> QED BY <1>1, <1>4, <2>1
<1> QED BY <1>2, <1>3, <1>4

\* The steps of a handler that move its thread and nothing else.
Moves(c) == Accept(c) \/ Execute(c) \/ Run(c) \/ LeaveLoop(c) \/ ReadThrows(c)
                \/ Terminate(c) \/ Close(c)

\* A step of a handler that touches no buffer or stream
LEMMA Moved ==
    ASSUME TypeOK, NEW c \in Conns, Moves(c)
    PROVE  /\ UNCHANGED <<serving, subscribers, decoder, req, goals, to, msg,
                          buffered, lock, inbound, outbound, clientVars>>
           /\ clients \subseteq clients' /\ clients' \in SUBSET Conns
           /\ streams' \in [Conns -> BOOLEAN]
           /\ shouldTerminate' \in [Conns -> BOOLEAN]
           /\ pc' \in [Conns -> Steps]
           /\ pc[c] \notin {"process", "write", "flush", "flushing", "closed"}
           /\ pc'[c] \notin {"connecting", "process", "write", "flush", "flushing"}
           /\ \A d \in Conns \ {c} : pc'[d] = pc[d] /\ streams'[d] = streams[d]
           /\ \/ pc[c] = "run" /\ streams'[c] = TRUE
              \/ pc[c] # "run" /\ streams' = streams
           /\ pc[c] \in {"connecting", "added"} => pc'[c] \in {"added", "run"}
<1>0. /\ pc \in [Conns -> Steps] /\ clients \in SUBSET Conns
      /\ streams \in [Conns -> BOOLEAN] /\ shouldTerminate \in [Conns -> BOOLEAN]
  BY DEF TypeOK
<1> USE DEF serverVars, threadVars, outVars, readVars, Goto, Steps
<1>1. CASE Accept(c)
  BY <1>0, <1>1 DEF Accept
<1>2. CASE Execute(c)
  BY <1>0, <1>2 DEF Execute
<1>3. CASE Run(c)
  <2>1. /\ streams' \in [Conns -> BOOLEAN] /\ streams'[c] = TRUE
        /\ \A d \in Conns \ {c} : streams'[d] = streams[d]
    BY <1>0, <1>3, Zenon DEF Run
  <2> QED BY <1>0, <1>3, <2>1 DEF Run
<1>4. CASE LeaveLoop(c)
  BY <1>0, <1>4 DEF LeaveLoop
<1>5. CASE ReadThrows(c)
  BY <1>0, <1>5 DEF ReadThrows
<1>6. CASE Terminate(c)
  <2>1. shouldTerminate' \in [Conns -> BOOLEAN]
    BY <1>0, <1>6, Zenon DEF Terminate
  <2> QED BY <1>0, <1>6, <2>1 DEF Terminate
<1>7. CASE Close(c)
  BY <1>0, <1>7 DEF Close
<1> QED BY <1>1, <1>2, <1>3, <1>4, <1>5, <1>6, <1>7 DEF Moves

\* What Read takes from the socket, and what it hands to process.
LEMMA ReadStep ==
    ASSUME TypeInv, NEW c \in Conns, Read(c)
    PROVE  /\ decoder' \in [Conns -> Seq(Byte)] /\ inbound' \in [Conns -> Seq(Byte)]
           /\ pc[c] = "loop" /\ inbound[c] # <<>>
           /\ inbound'[c] = Tail(inbound[c])
           /\ InStep(decoder'[c], inbound'[c])
           /\ Complete(decoder[c], inbound[c]) => Complete(decoder'[c], inbound'[c])
           /\ \A d \in Conns \ {c} : /\ decoder'[d] = decoder[d]
                                     /\ inbound'[d] = inbound[d]
           /\ \/ /\ decoder[c] = <<>> /\ Head(inbound[c]) \in Frame
                 /\ decoder'[c] = <<Head(inbound[c])>>
                 /\ UNCHANGED <<pc, req>>
              \/ /\ Head(inbound[c]) = NUL /\ decoder'[c] = <<>>
                 /\ \E f \in Frame : /\ decoder[c] = <<f>>
                                     /\ req' = [req EXCEPT ![c] = f]
                                     /\ pc' = [pc EXCEPT ![c] = "process"]
<1> DEFINE d == DecodeNextByte(decoder[c], Head(inbound[c]))
<1>1. /\ pc[c] = "loop" /\ inbound[c] # <<>>
      /\ decoder' = [decoder EXCEPT ![c] = d.buffer]
      /\ inbound' = [inbound EXCEPT ![c] = Tail(@)]
      /\ \/ d.frames = <<>> /\ UNCHANGED <<pc, req>>
         \/ /\ d.frames # <<>>
            /\ req' = [req EXCEPT ![c] = Head(Head(d.frames))]
            /\ pc' = [pc EXCEPT ![c] = "process"]
  BY DEF Read, Goto
<1>2. /\ decoder \in [Conns -> Seq(Byte)] /\ inbound \in [Conns -> Seq(Byte)]
      /\ InStep(decoder[c], inbound[c])
  BY DEF TypeInv, TypeOK, InputWhole
<1>3. /\ InStep(d.buffer, Tail(inbound[c]))
      /\ Complete(decoder[c], inbound[c]) => Complete(d.buffer, Tail(inbound[c]))
      /\ \/ /\ decoder[c] = <<>> /\ Head(inbound[c]) \in Frame
            /\ d.frames = <<>> /\ d.buffer = <<Head(inbound[c])>>
         \/ /\ \E f \in Frame : decoder[c] = <<f>> /\ d.frames = << <<f>> >>
            /\ Head(inbound[c]) = NUL /\ d.buffer = <<>>
  BY <1>1, <1>2, Decoded
<1>4. d.buffer \in Seq(Byte) /\ Tail(inbound[c]) \in Seq(Byte)
  BY <1>1, <1>2, <1>3, HeldIsSeq, HeadTailProperties
<1> HIDE DEF d
<1>5. /\ decoder' \in [Conns -> Seq(Byte)] /\ inbound' \in [Conns -> Seq(Byte)]
      /\ decoder'[c] = d.buffer /\ inbound'[c] = Tail(inbound[c])
      /\ \A e \in Conns \ {c} : decoder'[e] = decoder[e] /\ inbound'[e] = inbound[e]
  BY <1>1, <1>2, <1>4
<1>6. CASE d.frames = <<>>
  <2>1. \A f : << <<f>> >> # <<>>
    OBVIOUS
  <2>2. UNCHANGED <<pc, req>>
    BY <1>1, <1>6
  <2>3. decoder[c] = <<>> /\ Head(inbound[c]) \in Frame /\ d.buffer = <<Head(inbound[c])>>
    BY <1>3, <1>6, <2>1, Zenon
  <2> QED BY <1>1, <1>3, <1>5, <2>2, <2>3
<1>7. CASE d.frames # <<>>
  <2>1. PICK f \in Frame : decoder[c] = <<f>> /\ d.frames = << <<f>> >>
    BY <1>3, <1>7
  <2>2. Head(Head(d.frames)) = f
    BY <2>1
  <2>3. req' = [req EXCEPT ![c] = f] /\ pc' = [pc EXCEPT ![c] = "process"]
    BY <1>1, <1>7, <2>2
  <2>4. Head(inbound[c]) = NUL /\ d.buffer = <<>>
    BY <1>3, <1>7
  <2> QED BY <1>1, <1>3, <1>5, <2>1, <2>3, <2>4
<1> QED BY <1>6, <1>7

\* A frame is answered to its sender, or passed on to all that subscribed.
LEMMA ProcessStep ==
    ASSUME TypeInv, NEW c \in Conns, Process(c)
    PROVE  /\ pc[c] = "process" /\ pc' = [pc EXCEPT ![c] = "write"]
           /\ shouldTerminate' \in [Conns -> BOOLEAN]
           /\ subscribers' \in {subscribers, subscribers \cup {c}}
           /\ to' \in [Conns -> Conns] /\ goals' \in [Conns -> SUBSET Conns]
           /\ msg' \in [Conns -> Frame \cup {NUL}]
           /\ msg'[c] \in Frame /\ msg'[c].from = c /\ msg'[c].n = req[c].n
           /\ \/ /\ msg'[c].type = "MESSAGE" /\ to'[c] \in subscribers
                 /\ goals'[c] = subscribers \ {to'[c]}
              \/ msg'[c].type # "MESSAGE" /\ to'[c] = c /\ goals'[c] = {}
           /\ \A d \in Conns \ {c} : /\ to'[d] = to[d] /\ msg'[d] = msg[d]
                                     /\ goals'[d] = goals[d]
           /\ UNCHANGED <<serverVars, streams, req, outVars, readVars, outbound,
                          clientVars>>
<1>1. /\ pc[c] = "process" /\ req[c] \in Frame /\ goals[c] = {}
      /\ UNCHANGED <<serverVars, streams, req, outVars, readVars, outbound,
                     clientVars>>
  BY DEF Process, TypeInv, Answering, Writing
<1>2. /\ shouldTerminate \in [Conns -> BOOLEAN] /\ subscribers \in SUBSET Conns
      /\ to \in [Conns -> Conns] /\ goals \in [Conns -> SUBSET Conns]
      /\ msg \in [Conns -> Frame \cup {NUL}]
  BY DEF TypeInv, TypeOK
<1>3. ASSUME NEW d \in Conns, NEW type \in {"RECEIPT", "ERROR", "MESSAGE"},
             Address(c, d, type)
      PROVE  /\ pc' = [pc EXCEPT ![c] = "write"] /\ to' \in [Conns -> Conns]
             /\ to'[c] = d /\ msg' \in [Conns -> Frame \cup {NUL}]
             /\ msg'[c] \in Frame /\ msg'[c].type = type
             /\ msg'[c].from = c /\ msg'[c].n = req[c].n
             /\ \A e \in Conns \ {c} : to'[e] = to[e] /\ msg'[e] = msg[e]
  <2> DEFINE f == [type |-> type, from |-> c, n |-> req[c].n]
  <2>1. f \in Frame
    BY <1>1 DEF Frame
  <2>2. to' = [to EXCEPT ![c] = d] /\ msg' = [msg EXCEPT ![c] = f]
        /\ pc' = [pc EXCEPT ![c] = "write"]
    BY <1>3 DEF Address, Goto
  <2>3. msg'[c] = f
    BY <1>2, <2>2
  <2> QED BY <1>2, <2>1, <2>2, <2>3
<1>4. CASE /\ req[c].type = "SUBSCRIBE" /\ c \notin subscribers
           /\ subscribers' = subscribers \cup {c}
           /\ Address(c, c, "RECEIPT")
           /\ UNCHANGED <<shouldTerminate, goals>>
  BY <1>1, <1>2, <1>3, <1>4
<1>5. CASE /\ req[c].type = "SEND" /\ c \in subscribers
           /\ \E d \in subscribers :
                 /\ goals' = [goals EXCEPT ![c] = subscribers \ {d}]
                 /\ Address(c, d, "MESSAGE")
           /\ UNCHANGED <<subscribers, shouldTerminate>>
  <2>1. PICK d \in subscribers :
           /\ goals' = [goals EXCEPT ![c] = subscribers \ {d}]
           /\ Address(c, d, "MESSAGE")
    BY <1>5
  <2>2. /\ goals'[c] = subscribers \ {d} /\ goals' \in [Conns -> SUBSET Conns]
        /\ \A e \in Conns \ {c} : goals'[e] = goals[e]
    BY <1>2, <2>1
  <2> QED BY <1>1, <1>2, <1>3, <1>5, <2>1, <2>2
<1>6. CASE /\ req[c].type = "DISCONNECT"
           /\ shouldTerminate' = [shouldTerminate EXCEPT ![c] = TRUE]
           /\ Address(c, c, "RECEIPT")
           /\ UNCHANGED <<subscribers, goals>>
  <2>1. shouldTerminate' \in [Conns -> BOOLEAN]
    BY <1>2, <1>6, Zenon
  <2> QED BY <1>1, <1>2, <1>3, <1>6, <2>1
<1>7. CASE /\ \/ req[c].type = "SUBSCRIBE" /\ c \in subscribers
              \/ req[c].type = "SEND" /\ c \notin subscribers
           /\ Address(c, c, "ERROR")
           /\ UNCHANGED <<subscribers, shouldTerminate, goals>>
  BY <1>1, <1>2, <1>3, <1>7
<1> QED BY <1>4, <1>5, <1>6, <1>7 DEF Process

\* After a frame was written, or could not be.
LEMMA AfterFlush ==
    ASSUME TypeInv, NEW c \in Conns, FlushEnds(c) \/ FlushFails(c)
    PROVE  /\ pc[c] = "flushing"
           /\ lock' = [lock EXCEPT ![to[c]] = None]
           /\ pc' \in [Conns -> Steps] /\ to' \in [Conns -> Conns]
           /\ goals' \in [Conns -> SUBSET Conns]
           /\ pc'[c] \in {"write", "terminate", "loop", "close"}
           /\ \A d \in Conns \ {c} : /\ pc'[d] = pc[d] /\ to'[d] = to[d]
                                     /\ goals'[d] = goals[d]
           /\ pc'[c] = "write" => /\ to'[c] \in goals[c]
                                  /\ goals'[c] = goals[c] \ {to'[c]}
           /\ pc'[c] # "write" => goals'[c] = {}
           /\ buffered[to[c]] = <<>> \/ to[c] \in gone \/ pc[to[c]] = "closed"
           /\ UNCHANGED <<serverVars, streams, subscribers, shouldTerminate, req,
                          msg, buffered, readVars, outbound, clientVars>>
<1>1. CASE Continue(c)
  BY <1>1, ContinueTyped DEF TypeInv, FlushEnds, FlushFails
<1>2. CASE ~ Continue(c)
  <2>1. FlushFails(c) /\ msg[c].type = "RECEIPT" /\ UNCHANGED <<to, goals>>
        /\ pc' = [pc EXCEPT ![c] = "close"]
    BY <1>2 DEF FlushEnds, FlushFails, Goto
  <2>2. goals[c] = {}
    BY <2>1 DEF FlushFails, TypeInv, Answering, Writing
  <2>3. /\ pc \in [Conns -> Steps] /\ to \in [Conns -> Conns]
        /\ goals \in [Conns -> SUBSET Conns] /\ "close" \in Steps
    BY DEF TypeInv, TypeOK, Steps
  <2> QED BY <2>1, <2>2, <2>3 DEF FlushFails
<1> QED BY <1>1, <1>2

\* Bytes in a buffer and in a socket.
LEMMA WriteStep ==
    ASSUME TypeInv, NEW c \in Conns, Write(c)
    PROVE  /\ pc[c] = "write" /\ pc' = [pc EXCEPT ![c] = "flush"]
           /\ msg[c] \in Frame
           /\ buffered' = [buffered EXCEPT ![to[c]] = @ \o <<msg[c], NUL>>]
           /\ buffered' \in [Conns -> Seq(Byte)]
           /\ UNCHANGED <<serverVars, streams, threadVars, lock, readVars,
                          outbound, clientVars>>
<1>1. pc[c] = "write" /\ msg[c] \in Frame
  BY DEF Write, TypeInv, Answering, Writing
<1>2. Encode(<<msg[c]>>) = <<msg[c], NUL>> /\ <<msg[c], NUL>> \in Seq(Byte)
  BY <1>1, EncodeOne DEF Byte
<1>3. /\ buffered' = [buffered EXCEPT ![to[c]] = @ \o <<msg[c], NUL>>]
      /\ pc' = [pc EXCEPT ![c] = "flush"]
  BY <1>2 DEF Write, Goto
<1>5. buffered \in [Conns -> Seq(Byte)] /\ to[c] \in Conns
  BY DEF TypeInv, TypeOK
<1>6. buffered[to[c]] \o <<msg[c], NUL>> \in Seq(Byte)
  BY <1>2, <1>5, ConcatProperties
<1>7. buffered' \in [Conns -> Seq(Byte)]
  BY <1>3, <1>5, <1>6
<1> QED BY <1>1, <1>3, <1>7 DEF Write

\* A flush moves the first byte of the buffer, or drops it.
LEMMA FlushByteStep ==
    ASSUME TypeInv, NEW c \in Conns, FlushByte(c)
    PROVE  /\ buffered' \in [Conns -> Seq(Byte)]
           /\ outbound' \in [Conns -> Seq(Byte)]
           /\ pc[c] = "flushing" /\ buffered[to[c]] # <<>>
           /\ buffered' = [buffered EXCEPT ![to[c]] = Tail(@)]
           /\ to[c] \notin gone =>
                 outbound' = [outbound EXCEPT ![to[c]] =
                                 Append(@, Head(buffered[to[c]]))]
           /\ to[c] \in gone => outbound' = outbound
           /\ UNCHANGED <<serverVars, pc, streams, threadVars, lock, readVars,
                          clientVars>>
<1>1. /\ buffered \in [Conns -> Seq(Byte)] /\ outbound \in [Conns -> Seq(Byte)]
      /\ to[c] \in Conns
  BY DEF TypeInv, TypeOK
<1>2. buffered[to[c]] # <<>> /\ buffered' = [buffered EXCEPT ![to[c]] = Tail(@)]
  BY DEF FlushByte
<1>3. Tail(buffered[to[c]]) \in Seq(Byte) /\ Head(buffered[to[c]]) \in Byte
  BY <1>1, <1>2, HeadTailProperties
<1>4. Append(outbound[to[c]], Head(buffered[to[c]])) \in Seq(Byte)
  BY <1>1, <1>3, AppendProperties
<1>5. /\ to[c] \notin gone =>
            outbound' = [outbound EXCEPT ![to[c]] = Append(@, Head(buffered[to[c]]))]
      /\ to[c] \in gone => outbound' = outbound
  BY DEF FlushByte
<1>6. buffered' \in [Conns -> Seq(Byte)] /\ outbound' \in [Conns -> Seq(Byte)]
  BY <1>1, <1>2, <1>3, <1>4, <1>5
<1> QED BY <1>2, <1>5, <1>6 DEF FlushByte

\* A client reads one byte, and has a frame when it is the delimiter.
LEMMA GetStep ==
    ASSUME TypeOK, NEW c \in Conns, GetFrameAscii(c)
    PROVE  /\ frame' \in [Conns -> Seq(Byte)] /\ got' \in [Conns -> Seq(Seq(Byte))]
           /\ outbound' \in [Conns -> Seq(Byte)]
           /\ c \notin gone /\ outbound[c] # <<>>
           /\ outbound' = [outbound EXCEPT ![c] = Tail(@)]
           /\ frame' = [frame EXCEPT ![c] =
                            DecodeNextByte(@, Head(outbound[c])).buffer]
           /\ \/ Head(outbound[c]) = NUL /\ frame[c] # <<>>
                    /\ got' = [got EXCEPT ![c] = @ \o <<frame[c]>>]
              \/ (Head(outbound[c]) # NUL \/ frame[c] = <<>>) /\ got' = got
           /\ UNCHANGED <<serverVars, pc, streams, threadVars, outVars, readVars,
                          requests, gone>>
<1> DEFINE d == DecodeNextByte(frame[c], Head(outbound[c]))
<1>1. /\ frame \in [Conns -> Seq(Byte)] /\ got \in [Conns -> Seq(Seq(Byte))]
      /\ outbound \in [Conns -> Seq(Byte)]
  BY DEF TypeOK
<1>2. /\ outbound[c] # <<>> /\ outbound' = [outbound EXCEPT ![c] = Tail(@)]
      /\ frame' = [frame EXCEPT ![c] = d.buffer]
      /\ \/ d.frames \in {<<>>, << <<>> >>} /\ UNCHANGED got
         \/ /\ d.frames \notin {<<>>, << <<>> >>}
            /\ got' = [got EXCEPT ![c] = @ \o d.frames]
      /\ c \notin gone
  BY DEF GetFrameAscii, GetBytes
<1>3. Head(outbound[c]) \in Byte /\ Tail(outbound[c]) \in Seq(Byte)
  BY <1>1, <1>2, HeadTailProperties
<1>4. outbound' \in [Conns -> Seq(Byte)]
  BY <1>1, <1>2, <1>3
<1>5. CASE Head(outbound[c]) = NUL
  <2>1. d = [frames |-> <<frame[c]>>, buffer |-> <<>>]
    BY <1>5 DEF DecodeNextByte
  <2>2. d.frames = <<frame[c]>> /\ d.buffer = <<>>
    BY <2>1
  <2>3. /\ <<>> \in Seq(Byte) /\ <<frame[c]>> \in Seq(Seq(Byte))
        /\ \A x : <<x>> # <<>> /\ (<<x>> = << <<>> >> <=> x = <<>>)
    BY <1>1
  <2>4. got[c] \o <<frame[c]>> \in Seq(Seq(Byte))
    BY <1>1, <2>3, ConcatProperties
  <2>5. /\ frame[c] # <<>> => got' = [got EXCEPT ![c] = @ \o <<frame[c]>>]
        /\ frame[c] = <<>> => got' = got
    BY <1>2, <2>2, <2>3
  <2>6. got' \in [Conns -> Seq(Seq(Byte))] /\ frame' \in [Conns -> Seq(Byte)]
    BY <1>1, <1>2, <2>2, <2>3, <2>4, <2>5
  <2> QED BY <1>2, <1>4, <1>5, <2>5, <2>6 DEF GetFrameAscii
<1>6. CASE Head(outbound[c]) # NUL
  <2>1. d = [frames |-> <<>>, buffer |-> Append(frame[c], Head(outbound[c]))]
    BY <1>6 DEF DecodeNextByte
  <2>0. frame[c] \in Seq(Byte) /\ Append(frame[c], Head(outbound[c])) \in Seq(Byte)
    BY <1>1, <1>3, AppendProperties
  <2>2. d.frames = <<>> /\ d.buffer \in Seq(Byte)
    BY <2>0, <2>1, SMTT(20)
  <2>3. got' = got
    BY <1>2, <2>2
  <2>4. frame' \in [Conns -> Seq(Byte)]
    BY <1>1, <1>2, <2>2
  <2> QED BY <1>1, <1>2, <1>4, <1>6, <2>3, <2>4 DEF GetFrameAscii
<1> QED BY <1>5, <1>6

\* A client sends, or leaves.
ClientStep(c) == \/ \E k \in Kinds : SendFrameAscii(c, k)
                 \/ SendHalf(c) \/ ClientLeaves(c)

\* What a client sends, and what is lost when it leaves
LEMMA ClientStepTyped ==
    ASSUME TypeOK, NEW c \in Conns, ClientStep(c)
    PROVE  /\ requests' \in Nat /\ inbound' \in [Conns -> Seq(Byte)]
           /\ outbound' \in [Conns -> Seq(Byte)] /\ gone' \in SUBSET Conns
           /\ \/ inbound' = inbound /\ requests' = requests /\ gone' = gone \cup {c}
              \/ /\ c \notin gone /\ requests' = requests + 1
                 /\ \A d \in Conns \ {c} : inbound'[d] = inbound[d]
                 /\ \E f \in Frame :
                       /\ f.from = c /\ f.n = requests + 1
                       /\ \/ gone' = gone /\ inbound'[c] = inbound[c] \o <<f, NUL>>
                          \/ /\ gone' = gone \cup {c}
                             /\ inbound'[c] = inbound[c] \o <<f>>
           /\ \A d \in Conns \ gone' : outbound'[d] = outbound[d]
           /\ outbound' = outbound \/ outbound' = [outbound EXCEPT ![c] = <<>>]
           /\ UNCHANGED <<serverVars, pc, streams, threadVars, outVars, decoder,
                          frame, got>>
<1>1. /\ outbound \in [Conns -> Seq(Byte)] /\ gone \in SUBSET Conns
      /\ requests \in Nat /\ inbound \in [Conns -> Seq(Byte)]
  BY DEF TypeOK
<1>2. ASSUME NEW k \in Kinds, SendFrameAscii(c, k)
      PROVE  /\ requests' \in Nat /\ inbound' \in [Conns -> Seq(Byte)]
             /\ c \notin gone /\ requests' = requests + 1
             /\ \A d \in Conns \ {c} : inbound'[d] = inbound[d]
             /\ \E f \in Frame : /\ f.from = c /\ f.n = requests + 1
                                 /\ inbound'[c] = inbound[c] \o <<f, NUL>>
             /\ UNCHANGED <<serverVars, pc, streams, threadVars, outVars, decoder,
                            frame, got, gone, outbound>>
  <2>1. Sends(c, k, <<NUL>>)
    BY <1>2 DEF SendFrameAscii
  <2>2. PICK f \in Frame : /\ f.from = c /\ f.n = requests + 1
                           /\ inbound'[c] = inbound[c] \o (<<f>> \o <<NUL>>)
    BY <2>1, SendsTyped
  <2>3. <<f>> \o <<NUL>> = <<f, NUL>>
    <3>1. f \in Byte /\ NUL \in Byte
      BY DEF Byte
    <3>2. <<f>> \in Seq(Byte)
      BY <3>1
    <3> QED BY <3>1, <3>2, EncodeOne, AppendIsConcat DEF Encode
  <2>4. /\ requests' \in Nat /\ inbound' \in [Conns -> Seq(Byte)]
        /\ \A d \in Conns \ {c} : inbound'[d] = inbound[d]
    BY <2>1, SendsTyped
  <2>5. c \notin gone /\ requests' = requests + 1
    BY <2>1 DEF Sends
  <2> QED BY <1>2, <2>2, <2>3, <2>4, <2>5 DEF SendFrameAscii
<1>3. ASSUME Gone(c)
      PROVE  /\ outbound' \in [Conns -> Seq(Byte)] /\ gone' \in SUBSET Conns
             /\ gone' = gone \cup {c}
             /\ outbound' = [outbound EXCEPT ![c] = <<>>]
             /\ \A d \in Conns \ gone' : outbound'[d] = outbound[d]
  BY <1>1, <1>3 DEF Gone
<1>4. ASSUME SendHalf(c)
      PROVE  /\ requests' \in Nat /\ inbound' \in [Conns -> Seq(Byte)]
             /\ c \notin gone /\ requests' = requests + 1
             /\ \A d \in Conns \ {c} : inbound'[d] = inbound[d]
             /\ \E f \in Frame : /\ f.from = c /\ f.n = requests + 1
                                 /\ inbound'[c] = inbound[c] \o <<f>>
  <2>1. PICK k \in Kinds : Sends(c, k, <<>>)
    BY <1>4, ServerAssumption DEF SendHalf
  <2>2. PICK f \in Frame : /\ f.from = c /\ f.n = requests + 1
                           /\ inbound'[c] = inbound[c] \o (<<f>> \o <<>>)
    BY <2>1, SendsTyped
  <2>3. <<f>> \o <<>> = <<f>>
    <3>1. <<f>> \in Seq(Frame)
      OBVIOUS
    <3> QED BY <3>1, ConcatEmptySeq
  <2>4. /\ requests' \in Nat /\ inbound' \in [Conns -> Seq(Byte)]
        /\ \A d \in Conns \ {c} : inbound'[d] = inbound[d]
    BY <2>1, SendsTyped
  <2>5. c \notin gone /\ requests' = requests + 1
    BY <2>1 DEF Sends
  <2> QED BY <2>2, <2>3, <2>4, <2>5
<1>5. CASE \E k \in Kinds : SendFrameAscii(c, k)
  BY <1>1, <1>2, <1>5
<1>6. CASE SendHalf(c)
  <2>1. Gone(c)
    BY <1>6 DEF SendHalf
  <2> QED BY <1>3, <1>4, <1>6, <2>1 DEF SendHalf
<1>7. CASE ClientLeaves(c)
  <2>1. Gone(c)
    BY <1>7 DEF ClientLeaves
  <2> QED BY <1>1, <1>3, <1>7, <2>1 DEF ClientLeaves, readVars
<1> QED BY <1>5, <1>6, <1>7 DEF ClientStep

\* A step keeps the types,
LEMMA TypeStep == ASSUME TypeInv, [Next]_vars PROVE TypeOK'
<1>0. TypeOK
  BY DEF TypeInv
<1> USE ServerAssumption
<1>1. ASSUME NEW c \in Conns, Moves(c) PROVE TypeOK'
  <2>1. /\ UNCHANGED <<serving, subscribers, decoder, req, goals, to, msg,
                       buffered, lock, inbound, outbound, clientVars>>
        /\ clients' \in SUBSET Conns
        /\ streams' \in [Conns -> BOOLEAN]
        /\ shouldTerminate' \in [Conns -> BOOLEAN]
        /\ pc' \in [Conns -> Steps]
        /\ pc[c] # "flushing" /\ pc'[c] # "flushing"
        /\ \A d \in Conns \ {c} : pc'[d] = pc[d]
    BY <1>0, <1>1, Moved
  <2>2. lock' \in [Conns -> Conns \cup {None}] /\ to' = to
    BY <1>0, <2>1 DEF TypeOK
  <2>3. \A b, d \in Conns : lock'[d] = b <=> pc'[b] = "flushing" /\ to'[b] = d
    BY <1>0, <2>1, <2>2, LockKept
  <2> QED BY <1>0, <2>1, <2>3 DEF TypeOK, clientVars
<1>2. ASSUME NEW c \in Conns, ClientStep(c) PROVE TypeOK'
  <2>1. /\ requests' \in Nat /\ inbound' \in [Conns -> Seq(Byte)]
        /\ outbound' \in [Conns -> Seq(Byte)] /\ gone' \in SUBSET Conns
        /\ UNCHANGED <<serverVars, pc, streams, threadVars, outVars, decoder,
                       frame, got>>
    BY <1>0, <1>2, ClientStepTyped
  <2> QED BY <1>0, <2>1 DEF TypeOK, serverVars, threadVars, outVars
<1>3. ASSUME NEW c \in Conns, GetFrameAscii(c) PROVE TypeOK'
  <2>1. /\ frame' \in [Conns -> Seq(Byte)] /\ got' \in [Conns -> Seq(Seq(Byte))]
        /\ outbound' \in [Conns -> Seq(Byte)]
        /\ UNCHANGED <<serverVars, pc, streams, threadVars, outVars, readVars,
                       requests, gone>>
    BY <1>0, <1>3, GetStep
  <2> QED
    BY <1>0, <2>1 DEF TypeOK, serverVars, threadVars, outVars, readVars
<1>4. CASE StopServer
  BY <1>0, <1>4, ZenonT(30)
  DEF StopServer, TypeOK, threadVars, outVars, readVars, clientVars
<1>5. ASSUME NEW c \in Conns, Read(c) PROVE TypeOK'
  <2>1. /\ decoder' \in [Conns -> Seq(Byte)] /\ inbound' \in [Conns -> Seq(Byte)]
        /\ pc[c] = "loop"
    BY <1>5, ReadStep
  <2>2. /\ pc' \in [Conns -> Steps] /\ req' \in [Conns -> Byte]
        /\ pc'[c] # "flushing" /\ \A d \in Conns \ {c} : pc'[d] = pc[d]
    <3>1. pc \in [Conns -> Steps] /\ req \in [Conns -> Byte]
      BY <1>0 DEF TypeOK
    <3>2. \/ UNCHANGED <<pc, req>>
          \/ \E f \in Frame : /\ req' = [req EXCEPT ![c] = f]
                              /\ pc' = [pc EXCEPT ![c] = "process"]
      BY <1>5, ReadStep
    <3>3. CASE UNCHANGED <<pc, req>>
      BY <2>1, <3>1, <3>3
    <3>4. ASSUME NEW f \in Frame, req' = [req EXCEPT ![c] = f],
                 pc' = [pc EXCEPT ![c] = "process"]
          PROVE  /\ pc' \in [Conns -> Steps] /\ req' \in [Conns -> Byte]
                 /\ pc'[c] # "flushing" /\ \A d \in Conns \ {c} : pc'[d] = pc[d]
      <4>1. f \in Byte /\ "process" \in Steps
        BY DEF Byte, Steps
      <4> QED BY <3>1, <3>4, <4>1
    <3> QED BY <3>2, <3>3, <3>4
  <2>3. UNCHANGED <<serverVars, streams, subscribers, shouldTerminate, goals, to,
                    msg, outVars, outbound, clientVars>>
    BY <1>5 DEF Read
  <2>4. lock' \in [Conns -> Conns \cup {None}] /\ to' = to /\ lock' = lock
    BY <1>0, <2>3 DEF TypeOK, outVars
  <2>5. \A b, d \in Conns : lock'[d] = b <=> pc'[b] = "flushing" /\ to'[b] = d
    BY <1>0, <2>1, <2>2, <2>4, LockKept
  <2> QED
    BY <1>0, <2>1, <2>2, <2>3, <2>5 DEF TypeOK, serverVars, outVars, clientVars
<1>6. ASSUME NEW c \in Conns, Process(c) PROVE TypeOK'
  <2>1. /\ pc[c] = "process" /\ pc' = [pc EXCEPT ![c] = "write"]
        /\ shouldTerminate' \in [Conns -> BOOLEAN]
        /\ subscribers' \in {subscribers, subscribers \cup {c}}
        /\ to' \in [Conns -> Conns] /\ goals' \in [Conns -> SUBSET Conns]
        /\ msg' \in [Conns -> Frame \cup {NUL}]
        /\ \A d \in Conns \ {c} : to'[d] = to[d]
        /\ UNCHANGED <<serverVars, streams, req, outVars, readVars, outbound,
                       clientVars>>
    BY <1>6, ProcessStep
  <2>2. /\ pc' \in [Conns -> Steps] /\ pc'[c] # "flushing"
        /\ \A d \in Conns \ {c} : pc'[d] = pc[d]
    BY <1>0, <2>1 DEF TypeOK, Steps
  <2>3. lock' \in [Conns -> Conns \cup {None}] /\ lock' = lock
    BY <1>0, <2>1 DEF TypeOK, outVars
  <2>4. \A b, d \in Conns : lock'[d] = b <=> pc'[b] = "flushing" /\ to'[b] = d
    BY <1>0, <2>1, <2>2, <2>3, LockKept
  <2>5. subscribers' \in SUBSET Conns
    BY <1>0, <2>1 DEF TypeOK
  <2> QED
    BY <1>0, <2>1, <2>2, <2>4, <2>5
    DEF TypeOK, serverVars, outVars, readVars, clientVars
<1>7. ASSUME NEW c \in Conns, Write(c) PROVE TypeOK'
  <2>1. /\ pc[c] = "write" /\ pc' = [pc EXCEPT ![c] = "flush"]
        /\ buffered' \in [Conns -> Seq(Byte)]
        /\ UNCHANGED <<serverVars, streams, threadVars, lock, readVars,
                       outbound, clientVars>>
    BY <1>7, WriteStep
  <2>2. /\ pc' \in [Conns -> Steps] /\ pc'[c] # "flushing"
        /\ \A d \in Conns \ {c} : pc'[d] = pc[d]
    BY <1>0, <2>1 DEF TypeOK, Steps
  <2>3. lock' \in [Conns -> Conns \cup {None}] /\ to' = to
    BY <1>0, <2>1 DEF TypeOK, threadVars
  <2>4. \A b, d \in Conns : lock'[d] = b <=> pc'[b] = "flushing" /\ to'[b] = d
    BY <1>0, <2>1, <2>2, <2>3, LockKept
  <2> QED
    BY <1>0, <2>1, <2>2, <2>4
    DEF TypeOK, serverVars, threadVars, readVars, clientVars
<1>8. ASSUME NEW c \in Conns, Flush(c) PROVE TypeOK'
  <2>1. /\ pc[c] = "flush" /\ pc' = [pc EXCEPT ![c] = "flushing"]
        /\ lock[to[c]] = None /\ lock' = [lock EXCEPT ![to[c]] = c]
        /\ UNCHANGED <<serverVars, streams, threadVars, buffered, readVars,
                       outbound, clientVars>>
    BY <1>8 DEF Flush, Goto
  <2>2. /\ pc' \in [Conns -> Steps] /\ pc'[c] = "flushing"
        /\ \A d \in Conns \ {c} : pc'[d] = pc[d]
    BY <1>0, <2>1 DEF TypeOK, Steps
  <2>3. lock' \in [Conns -> Conns \cup {None}] /\ to' = to
    BY <1>0, <2>1 DEF TypeOK, threadVars
  <2>4. \A b, d \in Conns : lock'[d] = b <=> pc'[b] = "flushing" /\ to'[b] = d
    BY <1>0, <2>1, <2>2, <2>3, LockKept
  <2> QED
    BY <1>0, <2>1, <2>2, <2>3, <2>4
    DEF TypeOK, serverVars, threadVars, readVars, clientVars
<1>9. ASSUME NEW c \in Conns, FlushByte(c) PROVE TypeOK'
  <2>1. /\ buffered' \in [Conns -> Seq(Byte)]
        /\ outbound' \in [Conns -> Seq(Byte)]
        /\ UNCHANGED <<serverVars, pc, streams, threadVars, lock, readVars,
                       clientVars>>
    BY <1>9, FlushByteStep
  <2> QED
    BY <1>0, <2>1 DEF TypeOK, serverVars, threadVars, readVars, clientVars
<1>10. ASSUME NEW c \in Conns, FlushEnds(c) \/ FlushFails(c) PROVE TypeOK'
  <2>1. /\ pc[c] = "flushing" /\ pc'[c] # "flushing"
        /\ lock' = [lock EXCEPT ![to[c]] = None]
        /\ pc' \in [Conns -> Steps] /\ to' \in [Conns -> Conns]
        /\ goals' \in [Conns -> SUBSET Conns]
        /\ \A d \in Conns \ {c} : pc'[d] = pc[d] /\ to'[d] = to[d]
        /\ UNCHANGED <<serverVars, streams, subscribers, shouldTerminate, req,
                       msg, buffered, readVars, outbound, clientVars>>
    BY <1>10, AfterFlush
  <2>2. lock' \in [Conns -> Conns \cup {None}]
    BY <1>0, <2>1 DEF TypeOK
  <2>3. \A b, d \in Conns : lock'[d] = b <=> pc'[b] = "flushing" /\ to'[b] = d
    BY <1>0, <2>1, <2>2, LockKept
  <2> QED
    BY <1>0, <2>1, <2>2, <2>3 DEF TypeOK, serverVars, readVars, clientVars
<1>11. CASE UNCHANGED vars
  BY <1>0, <1>11
  DEF TypeOK, vars, serverVars, threadVars, outVars, readVars, clientVars
<1> QED
  BY <1>1, <1>2, <1>3, <1>4, <1>5, <1>6, <1>7, <1>8, <1>9, <1>10, <1>11
  DEF Next, ThreadStep, Moves, ClientStep

\* and the streams to the server in frames of a text and a delimiter,
LEMMA InputStep == ASSUME TypeInv, [Next]_vars PROVE InputWhole'
<1>0. TypeOK /\ InputWhole
  BY DEF TypeInv
<1>1. CASE UNCHANGED <<inbound, decoder, gone>>
  BY <1>0, <1>1 DEF InputWhole
<1>2. ASSUME NEW c \in Conns, ClientStep(c) PROVE InputWhole'
  <2>1. decoder' = decoder /\ gone \subseteq gone'
    BY <1>0, <1>2, ClientStepTyped
  <2>2. CASE inbound' = inbound
    BY <1>0, <2>1, <2>2 DEF InputWhole
  <2>3. CASE inbound' # inbound
    <3>1. PICK f \in Frame :
             \/ gone' = gone /\ inbound'[c] = inbound[c] \o <<f, NUL>>
             \/ gone' = gone \cup {c} /\ inbound'[c] = inbound[c] \o <<f>>
      BY <1>0, <1>2, <2>3, ClientStepTyped, ZenonT(30)
    <3>2. c \notin gone /\ \A d \in Conns \ {c} : inbound'[d] = inbound[d]
      BY <1>0, <1>2, <2>3, ClientStepTyped
    <3>3. /\ inbound[c] \in Seq(Byte)
          /\ InStep(decoder[c], inbound[c]) /\ Complete(decoder[c], inbound[c])
      BY <1>0, <3>2 DEF TypeOK, InputWhole
    <3>4. /\ InStep(decoder[c], inbound'[c])
          /\ c \notin gone' => Complete(decoder[c], inbound'[c])
      <4>1. CASE gone' = gone /\ inbound'[c] = inbound[c] \o <<f, NUL>>
        BY <3>3, <4>1, FrameAdded
      <4>2. CASE gone' = gone \cup {c} /\ inbound'[c] = inbound[c] \o <<f>>
        BY <3>3, <4>2, TextAdded
      <4> QED BY <3>1, <4>1, <4>2
    <3> QED BY <1>0, <2>1, <3>2, <3>4 DEF InputWhole
  <2> QED BY <2>2, <2>3
<1>3. ASSUME NEW c \in Conns, Read(c) PROVE InputWhole'
  <2>1. /\ InStep(decoder'[c], inbound'[c])
        /\ Complete(decoder[c], inbound[c]) => Complete(decoder'[c], inbound'[c])
        /\ \A d \in Conns \ {c} : decoder'[d] = decoder[d] /\ inbound'[d] = inbound[d]
    BY <1>3, ReadStep
  <2>2. gone' = gone
    BY <1>3 DEF Read, clientVars
  <2> QED BY <1>0, <2>1, <2>2 DEF InputWhole
<1>4. ASSUME NEW c \in Conns, Moves(c) \/ FlushEnds(c) \/ FlushFails(c)
      PROVE  UNCHANGED <<inbound, decoder, gone>>
  BY <1>0, <1>4, Moved, AfterFlush DEF readVars, clientVars
<1>5. ASSUME NEW c \in Conns, \/ Process(c) \/ Write(c) \/ Flush(c)
                              \/ FlushByte(c) \/ GetFrameAscii(c)
      PROVE  UNCHANGED <<inbound, decoder, gone>>
  BY <1>5
  DEF Process, Write, Flush, FlushByte, GetFrameAscii, readVars, clientVars
<1>6. CASE StopServer \/ UNCHANGED vars
  BY <1>1, <1>6 DEF StopServer, vars, readVars, clientVars
<1> QED
  BY <1>1, <1>2, <1>3, <1>4, <1>5, <1>6 DEF Next, ThreadStep, Moves, ClientStep

\* and what a handler is about to write.
LEMMA AnsweringStep == ASSUME TypeInv, [Next]_vars PROVE Answering'
<1>0. TypeOK /\ Answering /\ pc \in [Conns -> Steps]
  BY DEF TypeInv, TypeOK
<1>1. CASE UNCHANGED <<pc, req, msg, to, goals>>
  BY <1>0, <1>1 DEF Answering
<1>2. ASSUME NEW c \in Conns, Moves(c) PROVE Answering'
  <2>1. /\ UNCHANGED <<req, msg, to, goals>>
        /\ pc[c] \notin Writing /\ pc'[c] \notin Writing \cup {"process"}
        /\ \A d \in Conns \ {c} : pc'[d] = pc[d]
    BY <1>0, <1>2, Moved DEF Writing
  <2> QED BY <1>0, <2>1 DEF Answering
<1>3. ASSUME NEW c \in Conns, Read(c) PROVE Answering'
  <2>1. UNCHANGED <<msg, to, goals>> /\ pc[c] = "loop"
    BY <1>3 DEF Read
  <2>2. CASE UNCHANGED <<pc, req>>
    BY <1>0, <2>1, <2>2 DEF Answering
  <2>3. ASSUME NEW f \in Frame, req' = [req EXCEPT ![c] = f],
               pc' = [pc EXCEPT ![c] = "process"]
        PROVE  Answering'
    <3>1. /\ req'[c] \in Frame /\ pc'[c] = "process"
          /\ \A d \in Conns \ {c} : req'[d] = req[d] /\ pc'[d] = pc[d]
      BY <1>0, <2>3 DEF TypeOK
    <3> QED BY <1>0, <2>1, <3>1 DEF Answering, Writing
  <2> QED BY <1>3, <2>2, <2>3, ReadStep
<1>4. ASSUME NEW c \in Conns, Process(c) PROVE Answering'
  <2>1. /\ pc[c] = "process" /\ pc' = [pc EXCEPT ![c] = "write"] /\ req' = req
        /\ msg'[c] \in Frame /\ msg'[c].from = c /\ msg'[c].n = req[c].n
        /\ to'[c] \notin goals'[c]
        /\ msg'[c].type # "MESSAGE" => goals'[c] = {}
        /\ \A d \in Conns \ {c} : /\ to'[d] = to[d] /\ msg'[d] = msg[d]
                                  /\ goals'[d] = goals[d]
    BY <1>4, ProcessStep
  <2>2. pc'[c] = "write" /\ \A d \in Conns \ {c} : pc'[d] = pc[d]
    BY <1>0, <2>1
  <2> QED BY <1>0, <2>1, <2>2 DEF Answering, Writing
<1>5. ASSUME NEW c \in Conns, Write(c) \/ Flush(c) PROVE Answering'
  <2>1. /\ pc[c] \in {"write", "flush"} /\ UNCHANGED <<req, msg, to, goals>>
        /\ pc'[c] \in {"flush", "flushing"}
        /\ \A d \in Conns \ {c} : pc'[d] = pc[d]
    BY <1>0, <1>5 DEF Write, Flush, Goto, threadVars
  <2> QED BY <1>0, <2>1 DEF Answering, Writing
<1>6. ASSUME NEW c \in Conns, FlushEnds(c) \/ FlushFails(c) PROVE Answering'
  <2>1. /\ pc[c] = "flushing" /\ UNCHANGED <<req, msg>>
        /\ pc'[c] \in {"write", "terminate", "loop", "close"}
        /\ \A d \in Conns \ {c} : /\ pc'[d] = pc[d] /\ to'[d] = to[d]
                                  /\ goals'[d] = goals[d]
        /\ pc'[c] = "write" => /\ to'[c] \in goals[c]
                               /\ goals'[c] = goals[c] \ {to'[c]}
        /\ pc'[c] # "write" => goals'[c] = {}
    BY <1>6, AfterFlush
  <2> QED BY <1>0, <2>1 DEF Answering, Writing
<1>7. ASSUME NEW c \in Conns, ClientStep(c) PROVE UNCHANGED <<pc, threadVars>>
  BY <1>0, <1>7, ClientStepTyped
<1>8. ASSUME NEW c \in Conns, FlushByte(c) \/ GetFrameAscii(c)
      PROVE  UNCHANGED <<pc, threadVars>>
  BY <1>8 DEF FlushByte, GetFrameAscii
<1>9. CASE StopServer \/ UNCHANGED vars
  BY <1>1, <1>9 DEF StopServer, vars, threadVars
<1> QED
  BY <1>1, <1>2, <1>3, <1>4, <1>5, <1>6, <1>7, <1>8, <1>9
  DEF Next, ThreadStep, Moves, ClientStep, threadVars

\* All three hold at all times.
LEMMA TypeInvariance == Spec => []TypeInv
<1>1. Init => TypeInv
  <2> SUFFICES ASSUME Init PROVE TypeInv
    OBVIOUS
  <2>1. /\ streams \in [Conns -> BOOLEAN]
        /\ shouldTerminate \in [Conns -> BOOLEAN]
    BY Zenon DEF Init
  <2>2. /\ decoder \in [Conns -> Seq(Byte)] /\ buffered \in [Conns -> Seq(Byte)]
        /\ inbound \in [Conns -> Seq(Byte)] /\ outbound \in [Conns -> Seq(Byte)]
        /\ frame \in [Conns -> Seq(Byte)] /\ got \in [Conns -> Seq(Seq(Byte))]
    BY DEF Init
  <2>3. /\ req \in [Conns -> Byte] /\ msg \in [Conns -> Frame \cup {NUL}]
        /\ to \in [Conns -> Conns] /\ goals \in [Conns -> SUBSET Conns]
        /\ pc \in [Conns -> Steps] /\ lock \in [Conns -> Conns \cup {None}]
        /\ \A c \in Conns : pc[c] = "connecting" /\ goals[c] = {} /\ lock[c] = None
    BY DEF Init, Byte, Steps
  <2>4. TypeOK
    BY <2>1, <2>2, <2>3, ServerAssumption DEF Init, TypeOK
  <2>5. InputWhole
    <3>1. \A c \in Conns : decoder[c] = <<>> /\ inbound[c] = <<>>
      BY DEF Init
    <3>2. InStep(<<>>, <<>>) /\ Complete(<<>>, <<>>)
      BY DEF InStep, Complete
    <3> QED BY <3>1, <3>2 DEF InputWhole
  <2>6. Answering
    BY <2>3 DEF Answering, Writing
  <2> QED BY <2>4, <2>5, <2>6 DEF TypeInv
<1>2. TypeInv /\ [Next]_vars => TypeInv'
  BY TypeStep, InputStep, AnsweringStep DEF TypeInv
<1> QED BY <1>1, <1>2, PTL DEF Spec

(***************************************************************************)
(* Every variable keeps its type; the lock of a stream is held by exactly  *)
(* the thread that flushes to it (BufferedOutputStream).                   *)
(***************************************************************************)
THEOREM TypeCorrect == Spec => []TypeOK
<1>1. TypeInv => TypeOK
  BY DEF TypeInv
<1> QED BY <1>1, TypeInvariance, PTL
-----------------------------------------------------------------------------
(* Streams *)

\* Who is written to, or will be, has subscribed, and so its thread has set
\* its streams.
StreamInv ==
    /\ \A c \in Conns : pc[c] \notin {"connecting", "added", "run"} => streams[c]
    /\ \A d \in subscribers : streams[d]
    /\ \A c \in Conns : /\ \A d \in goals[c] : streams[d]
                        /\ pc[c] \in Writing => streams[to[c]]

\* A step keeps the streams set where another thread writes.
LEMMA StreamStep == ASSUME TypeInv, StreamInv, [Next]_vars PROVE StreamInv'
<1>0. /\ TypeOK /\ pc \in [Conns -> Steps] /\ subscribers \in SUBSET Conns
      /\ goals \in [Conns -> SUBSET Conns] /\ to \in [Conns -> Conns]
      /\ streams \in [Conns -> BOOLEAN]
  BY DEF TypeInv, TypeOK
<1>1. CASE UNCHANGED <<pc, streams, subscribers, to, goals>>
  BY <1>1 DEF StreamInv
<1>2. ASSUME NEW c \in Conns, Moves(c) PROVE StreamInv'
  <2>1. /\ UNCHANGED <<subscribers, to, goals>> /\ pc'[c] \notin Writing
        /\ \A d \in Conns \ {c} : pc'[d] = pc[d] /\ streams'[d] = streams[d]
        /\ \/ pc[c] = "run" /\ streams'[c]
           \/ pc[c] # "run" /\ streams' = streams
        /\ pc[c] \in {"connecting", "added"} => pc'[c] \in {"added", "run"}
    BY <1>0, <1>2, Moved DEF Writing
  <2>2. \A d \in Conns : streams[d] => streams'[d]
    BY <2>1
  <2> QED BY <1>0, <2>1, <2>2 DEF StreamInv
<1>3. ASSUME NEW c \in Conns, Read(c) PROVE StreamInv'
  <2>1. /\ pc[c] = "loop" /\ UNCHANGED <<streams, subscribers, to, goals>>
    BY <1>3 DEF Read
  <2>2. CASE pc' = pc
    BY <1>1, <2>1, <2>2
  <2>3. CASE pc' = [pc EXCEPT ![c] = "process"]
    BY <1>0, <2>1, <2>3 DEF StreamInv, Writing
  <2> QED BY <1>3, <2>2, <2>3, ReadStep
<1>4. ASSUME NEW c \in Conns, Process(c) PROVE StreamInv'
  <2>1. /\ pc[c] = "process" /\ pc' = [pc EXCEPT ![c] = "write"]
        /\ streams' = streams
        /\ subscribers' \in {subscribers, subscribers \cup {c}}
        /\ \/ to'[c] \in subscribers /\ goals'[c] = subscribers \ {to'[c]}
           \/ to'[c] = c /\ goals'[c] = {}
        /\ \A d \in Conns \ {c} : to'[d] = to[d] /\ goals'[d] = goals[d]
    BY <1>4, ProcessStep
  <2>2. /\ streams[c] /\ pc'[c] = "write"
        /\ \A d \in Conns \ {c} : pc'[d] = pc[d]
    BY <1>0, <2>1 DEF StreamInv
  <2> QED BY <1>0, <2>1, <2>2 DEF StreamInv
<1>5. ASSUME NEW c \in Conns, Write(c) \/ Flush(c) PROVE StreamInv'
  <2>1. /\ pc[c] \in Writing /\ pc'[c] \in Writing
        /\ UNCHANGED <<streams, subscribers, to, goals>>
        /\ \A d \in Conns \ {c} : pc'[d] = pc[d]
    BY <1>0, <1>5 DEF Write, Flush, Goto, threadVars, Writing
  <2> QED BY <1>0, <2>1 DEF StreamInv, Writing
<1>6. ASSUME NEW c \in Conns, FlushEnds(c) \/ FlushFails(c) PROVE StreamInv'
  <2>1. /\ pc[c] = "flushing" /\ UNCHANGED <<streams, subscribers>>
        /\ pc'[c] \in {"write", "terminate", "loop", "close"}
        /\ \A d \in Conns \ {c} : /\ pc'[d] = pc[d] /\ to'[d] = to[d]
                                  /\ goals'[d] = goals[d]
        /\ pc'[c] = "write" => /\ to'[c] \in goals[c]
                               /\ goals'[c] = goals[c] \ {to'[c]}
        /\ pc'[c] # "write" => goals'[c] = {}
    BY <1>6, AfterFlush
  <2> QED BY <1>0, <2>1 DEF StreamInv, Writing
<1>7. ASSUME NEW c \in Conns, ClientStep(c)
      PROVE  UNCHANGED <<pc, streams, threadVars>>
  BY <1>0, <1>7, ClientStepTyped
<1>8. ASSUME NEW c \in Conns, FlushByte(c) \/ GetFrameAscii(c)
      PROVE  UNCHANGED <<pc, streams, threadVars>>
  BY <1>8 DEF FlushByte, GetFrameAscii
<1>9. CASE StopServer \/ UNCHANGED vars
  BY <1>1, <1>9 DEF StopServer, vars, threadVars
<1> QED
  BY <1>1, <1>2, <1>3, <1>4, <1>5, <1>6, <1>7, <1>8, <1>9
  DEF Next, ThreadStep, Moves, ClientStep, threadVars

(***************************************************************************)
(* Nobody writes to a handler whose thread did not set its streams,        *)
(* although it is in the table before that (run, ConnectionsImpl.send).    *)
(***************************************************************************)
THEOREM StreamsSet == Spec => []StreamsAreSet
<1>1. Init => StreamInv
  BY DEF Init, StreamInv, Writing
<1>2. TypeInv /\ StreamInv /\ [Next]_vars => StreamInv'
  BY StreamStep
<1>3. StreamInv => StreamsAreSet
  BY DEF StreamInv, StreamsAreSet, Writing
<1> QED BY <1>1, <1>2, <1>3, TypeInvariance, PTL DEF Spec
-----------------------------------------------------------------------------
(* Answers *)

\* What a handler has in its buffer of its own it is about to flush.
OwnIsFlushed ==
    \A c \in Conns \ gone : \A i \in 1..Len(buffered[c]) :
        buffered[c][i] # NUL /\ buffered[c][i].from = c
            => pc[c] \in {"flush", "flushing"} /\ to[c] = c

\* A step leaves nothing of a handler's own that it is not about to flush.
LEMMA OwnStep == ASSUME TypeInv, OwnIsFlushed, [Next]_vars PROVE OwnIsFlushed'
<1>0. /\ TypeOK /\ pc \in [Conns -> Steps] /\ to \in [Conns -> Conns]
      /\ buffered \in [Conns -> Seq(Byte)]
  BY DEF TypeInv, TypeOK
<1>1. CASE UNCHANGED <<pc, to, buffered>> /\ gone \subseteq gone'
  BY <1>1 DEF OwnIsFlushed
<1>2. ASSUME NEW c \in Conns, UNCHANGED <<to, buffered, gone>>,
             pc[c] \notin {"flush", "flushing"},
             \A d \in Conns \ {c} : pc'[d] = pc[d]
      PROVE  OwnIsFlushed'
  BY <1>0, <1>2 DEF OwnIsFlushed
<1>3. ASSUME NEW c \in Conns, Moves(c) PROVE OwnIsFlushed'
  <2>1. /\ UNCHANGED <<to, buffered, gone>> /\ pc[c] \notin {"flush", "flushing"}
        /\ \A d \in Conns \ {c} : pc'[d] = pc[d]
    BY <1>0, <1>3, Moved DEF clientVars
  <2> QED BY <1>2, <2>1
<1>4. ASSUME NEW c \in Conns, Read(c) PROVE OwnIsFlushed'
  <2>1. UNCHANGED <<to, buffered, gone>> /\ pc[c] = "loop"
    BY <1>4 DEF Read, outVars, clientVars
  <2>2. pc' = pc \/ pc' = [pc EXCEPT ![c] = "process"]
    BY <1>4, ReadStep
  <2>3. \A d \in Conns \ {c} : pc'[d] = pc[d]
    BY <1>0, <2>2
  <2> QED BY <1>2, <2>1, <2>3
<1>5. ASSUME NEW c \in Conns, Process(c) PROVE OwnIsFlushed'
  <2>1. /\ pc[c] = "process" /\ pc' = [pc EXCEPT ![c] = "write"]
        /\ UNCHANGED <<buffered, gone>>
        /\ \A d \in Conns \ {c} : to'[d] = to[d]
    BY <1>5, ProcessStep DEF outVars, clientVars
  <2> QED BY <1>0, <2>1 DEF OwnIsFlushed
<1>6. ASSUME NEW c \in Conns, Write(c) PROVE OwnIsFlushed'
  <2>1. /\ pc[c] = "write" /\ pc' = [pc EXCEPT ![c] = "flush"]
        /\ msg[c] \in Frame /\ msg[c].from = c
        /\ buffered' = [buffered EXCEPT ![to[c]] = @ \o <<msg[c], NUL>>]
        /\ UNCHANGED <<to, gone>>
    BY <1>6, WriteStep DEF TypeInv, Answering, Writing, threadVars, clientVars
  <2> PICK d \in Conns : d = to[c]
    BY <1>0
  <2>2. /\ pc'[c] = "flush" /\ \A b \in Conns \ {c} : pc'[b] = pc[b]
        /\ \A b \in Conns \ {d} : buffered'[b] = buffered[b]
        /\ buffered'[d] = buffered[d] \o <<msg[c], NUL>>
    BY <1>0, <2>1
  <2>3. \A i \in 1..Len(buffered'[d]) :
           \/ i \in 1..Len(buffered[d]) /\ buffered'[d][i] = buffered[d][i]
           \/ buffered'[d][i] \in {msg[c], NUL}
    <3>1. msg[c] \in Byte /\ NUL \in Byte
      BY <2>1 DEF Byte
    <3>2. buffered[d] \in Seq(Byte) /\ <<msg[c], NUL>> \in Seq(Byte)
      BY <1>0, <3>1
    <3> QED BY <2>2, <3>2
  <2>4. ASSUME NEW b \in Conns \ gone', NEW i \in 1..Len(buffered'[b]),
               buffered'[b][i] # NUL, buffered'[b][i].from = b
        PROVE  pc'[b] \in {"flush", "flushing"} /\ to'[b] = b
    <3>1. CASE i \in 1..Len(buffered[b]) /\ buffered'[b][i] = buffered[b][i]
      BY <2>1, <2>2, <2>4, <3>1 DEF OwnIsFlushed
    <3>2. CASE b = d /\ buffered'[b][i] = msg[c]
      BY <2>1, <2>2, <2>4, <3>2
    <3>3. b # d => i \in 1..Len(buffered[b]) /\ buffered'[b][i] = buffered[b][i]
      BY <2>2
    <3> QED BY <2>3, <2>4, <3>1, <3>2, <3>3
  <2> QED BY <2>4 DEF OwnIsFlushed
<1>7. ASSUME NEW c \in Conns, Flush(c) PROVE OwnIsFlushed'
  <2>1. /\ pc[c] = "flush" /\ pc'[c] = "flushing" /\ UNCHANGED <<to, buffered, gone>>
        /\ \A d \in Conns \ {c} : pc'[d] = pc[d]
    BY <1>0, <1>7 DEF Flush, Goto, threadVars, clientVars
  <2> QED BY <1>0, <2>1, SMTT(20) DEF OwnIsFlushed
<1>8. ASSUME NEW c \in Conns, FlushByte(c) PROVE OwnIsFlushed'
  <2>1. /\ buffered[to[c]] # <<>> /\ buffered' = [buffered EXCEPT ![to[c]] = Tail(@)]
        /\ UNCHANGED <<pc, to, gone>>
    BY <1>8, FlushByteStep DEF threadVars, clientVars
  <2>2. \A d \in Conns : \A i \in 1..Len(buffered'[d]) :
           \E k \in 1..Len(buffered[d]) : buffered'[d][i] = buffered[d][k]
    <3> SUFFICES ASSUME NEW d \in Conns, NEW i \in 1..Len(buffered'[d])
                 PROVE  \E k \in 1..Len(buffered[d]) :
                           buffered'[d][i] = buffered[d][k]
      OBVIOUS
    <3>1. CASE d # to[c]
      BY <1>0, <2>1, <3>1
    <3>2. CASE d = to[c]
      <4>1. /\ Len(buffered'[d]) = Len(buffered[d]) - 1
            /\ buffered'[d][i] = buffered[d][i + 1]
            /\ Len(buffered[d]) \in Nat
        BY <1>0, <2>1, <3>2
      <4>2. i + 1 \in 1..Len(buffered[d])
        BY <4>1
      <4> QED BY <4>1, <4>2
    <3> QED BY <3>1, <3>2
  <2> QED BY <2>1, <2>2 DEF OwnIsFlushed
<1>9. ASSUME NEW c \in Conns, FlushEnds(c) \/ FlushFails(c) PROVE OwnIsFlushed'
  <2>1. /\ pc[c] = "flushing"
        /\ \A d \in Conns \ {c} : pc'[d] = pc[d] /\ to'[d] = to[d]
        /\ buffered[to[c]] = <<>> \/ to[c] \in gone \/ pc[to[c]] = "closed"
        /\ UNCHANGED <<buffered, gone>>
    BY <1>9, AfterFlush DEF clientVars
  <2>2. c \notin gone => \A i \in 1..Len(buffered[c]) :
            ~ (buffered[c][i] # NUL /\ buffered[c][i].from = c)
    <3>1. CASE to[c] = c
      BY <1>0, <2>1, <3>1
    <3>2. CASE to[c] # c
      BY <3>2 DEF OwnIsFlushed
    <3> QED BY <3>1, <3>2
  <2> QED BY <2>1, <2>2 DEF OwnIsFlushed
<1>10. ASSUME NEW c \in Conns, ClientStep(c) PROVE OwnIsFlushed'
  <2>1. UNCHANGED <<pc, to, buffered>> /\ gone \subseteq gone'
    BY <1>0, <1>10, ClientStepTyped DEF threadVars, outVars
  <2> QED BY <1>1, <2>1
<1>11. ASSUME NEW c \in Conns, GetFrameAscii(c) PROVE OwnIsFlushed'
  BY <1>1, <1>11 DEF GetFrameAscii, threadVars, outVars
<1>12. CASE StopServer \/ UNCHANGED vars
  BY <1>1, <1>12 DEF StopServer, vars, threadVars, outVars, clientVars
<1> QED
  BY <1>3, <1>4, <1>5, <1>6, <1>7, <1>8, <1>9, <1>10, <1>11, <1>12
  DEF Next, ThreadStep, Moves, ClientStep

(***************************************************************************)
(* A handler that closed its socket left none of its own answers behind:   *)
(* run flushes what process returned before it looks at shouldTerminate,   *)
(* and send flushes an ERROR before handleError sets it.                   *)
(***************************************************************************)
THEOREM AnswersSent == Spec => []LastAnswerIsSent
<1>1. Init => OwnIsFlushed
  BY DEF Init, OwnIsFlushed
<1>2. TypeInv /\ OwnIsFlushed /\ [Next]_vars => OwnIsFlushed'
  BY OwnStep
<1>3. OwnIsFlushed => LastAnswerIsSent
  BY DEF OwnIsFlushed, LastAnswerIsSent
<1> QED BY <1>1, <1>2, <1>3, TypeInvariance, PTL DEF Spec
-----------------------------------------------------------------------------
(* Numbers of requests *)

Num(c) == IF req[c] = NUL THEN 0 ELSE req[c].n

\* What is held of a frame and still to come is numbered in its order, above
\* num and up to top.
Ordered(num, held, coming, top) ==
    /\ num <= top
    /\ \A i \in 1..Len(coming) : coming[i] # NUL =>
          /\ num < coming[i].n /\ coming[i].n <= top
          /\ held # <<>> => held[1].n < coming[i].n
    /\ \A i, k \in 1..Len(coming) :
          coming[i] # NUL /\ coming[k] # NUL /\ i < k => coming[i].n < coming[k].n
    /\ held # <<>> => num < held[1].n /\ held[1].n <= top

\* A client's frames come in the order of their numbers.
InputOrder ==
    \A c \in Conns : Ordered(Num(c), decoder[c], inbound[c], requests)

\* What is not the delimiter is the text of a frame.
LEMMA TextType ==
    ASSUME NEW s \in Seq(Byte), NEW i \in 1..Len(s), s[i] # NUL
    PROVE  s[i] \in Frame /\ s[i].n \in Nat /\ s[i].from \in Conns
<1>1. s[i] \in Frame
  BY DEF Byte
<1> QED BY <1>1 DEF Frame

\* The number of a byte
LEMMA ByteNumber ==
    ASSUME NEW x \in Byte
    PROVE  (IF x = NUL THEN 0 ELSE x.n) \in Nat
<1>1. CASE x = NUL
  BY <1>1
<1>2. CASE x # NUL
  <2>1. x \in Frame
    BY <1>2 DEF Byte
  <2>2. x.n \in Nat
    BY <2>1 DEF Frame
  <2> QED BY <1>2, <2>2
<1> QED BY <1>1, <1>2

\* The number a handler is at
LEMMA NumType == ASSUME TypeOK, NEW c \in Conns PROVE Num(c) \in Nat
<1>1. req[c] \in Byte
  BY DEF TypeOK
<1> QED BY <1>1, ByteNumber DEF Num

\* What a decoder holds is one text.
LEMMA HeldType ==
    ASSUME NEW held, NEW coming, InStep(held, coming), held # <<>>
    PROVE  held[1] \in Frame /\ held[1].n \in Nat /\ held = <<held[1]>>
<1>1. PICK f \in Frame : held = <<f>>
  BY DEF InStep
<1>2. held[1] = f
  BY <1>1
<1>3. f.n \in Nat
  BY DEF Frame
<1> QED BY <1>1, <1>2, <1>3

\* A new request has the highest number.
LEMMA OrderedGrows ==
    ASSUME NEW num \in Nat, NEW held, NEW s \in Seq(Byte), NEW top \in Nat,
           NEW f \in Frame, f.n = top + 1, InStep(held, s),
           Ordered(num, held, s, top),
           NEW t \in {s, s \o <<f>>, s \o <<f, NUL>>}
    PROVE  Ordered(num, held, t, top + 1)
<1>1. f \in Byte /\ NUL \in Byte
  BY DEF Byte
<1>2. t \in Seq(Byte) /\ \A i \in 1..Len(t) :
            \/ i \in 1..Len(s) /\ t[i] = s[i]
            \/ i = Len(s) + 1 /\ t[i] = f
            \/ t[i] = NUL
  <2>1. CASE t = s
    BY <2>1
  <2>2. CASE t = s \o <<f>>
    BY <1>1, <2>2
  <2>3. CASE t = s \o <<f, NUL>>
    BY <1>1, <2>3
  <2> QED BY <2>1, <2>2, <2>3
<1>3. \A i \in 1..Len(t) : t[i] # NUL => t[i].n \in Nat
  BY <1>2, TextType
<1>4. held # <<>> => held[1].n \in Nat
  BY HeldType
<1>5. Len(s) \in Nat
  OBVIOUS
<1>6. ASSUME NEW i \in 1..Len(t), t[i] # NUL
      PROVE  /\ num < t[i].n /\ t[i].n <= top + 1
             /\ held # <<>> => held[1].n < t[i].n
  <2>1. CASE i \in 1..Len(s) /\ t[i] = s[i]
    BY <1>3, <1>4, <1>6, <2>1 DEF Ordered
  <2>2. CASE t[i] = f
    BY <1>4, <2>2 DEF Ordered
  <2> QED BY <1>2, <1>6, <2>1, <2>2
<1>7. ASSUME NEW i \in 1..Len(t), NEW k \in 1..Len(t),
             t[i] # NUL, t[k] # NUL, i < k
      PROVE  t[i].n < t[k].n
  <2>1. CASE k \in 1..Len(s) /\ t[k] = s[k]
    <3>1. i \in 1..Len(s) /\ t[i] = s[i]
      BY <1>2, <1>5, <1>7, <2>1
    <3> QED BY <1>7, <2>1, <3>1 DEF Ordered
  <2>2. CASE k = Len(s) + 1 /\ t[k] = f
    <3>1. i \in 1..Len(s) /\ t[i] = s[i]
      BY <1>2, <1>5, <1>7, <2>2
    <3>2. t[i].n <= top
      BY <1>7, <3>1 DEF Ordered
    <3> QED BY <1>3, <1>7, <2>2, <3>2
  <2> QED BY <1>2, <1>7, <2>1, <2>2
<1>8. num <= top + 1 /\ (held # <<>> => num < held[1].n /\ held[1].n <= top + 1)
  BY <1>4 DEF Ordered
<1> QED BY <1>6, <1>7, <1>8 DEF Ordered

\* A step keeps the frames of a client in the order of their numbers.
LEMMA InputOrderStep ==
    ASSUME TypeInv, InputOrder, [Next]_vars
    PROVE  InputOrder'
<1>0. /\ TypeOK /\ requests \in Nat /\ req \in [Conns -> Byte]
      /\ \A c \in Conns : /\ inbound[c] \in Seq(Byte) /\ Num(c) \in Nat
                          /\ InStep(decoder[c], inbound[c])
  BY NumType DEF TypeInv, TypeOK, InputWhole
<1>1. CASE UNCHANGED <<inbound, decoder, req, requests>>
  BY <1>1 DEF InputOrder, Num
<1>2. ASSUME NEW c \in Conns, ClientStep(c) PROVE InputOrder'
  <2>1. UNCHANGED <<decoder, req>>
    BY <1>0, <1>2, ClientStepTyped DEF threadVars
  <2>2. CASE inbound' = inbound /\ requests' = requests
    BY <1>1, <2>1, <2>2
  <2>3. CASE ~ (inbound' = inbound /\ requests' = requests)
    <3>1. PICK f \in Frame :
             /\ f.from = c /\ f.n = requests + 1
             /\ \/ gone' = gone /\ inbound'[c] = inbound[c] \o <<f, NUL>>
                \/ gone' = gone \cup {c} /\ inbound'[c] = inbound[c] \o <<f>>
      BY <1>0, <1>2, <2>3, ClientStepTyped
    <3>2. /\ requests' = requests + 1
          /\ \A d \in Conns \ {c} : inbound'[d] = inbound[d]
      BY <1>0, <1>2, <2>3, ClientStepTyped
    <3>3. ASSUME NEW d \in Conns
          PROVE  Ordered(Num(d), decoder[d], inbound'[d], requests + 1)
      <4>1. Ordered(Num(d), decoder[d], inbound[d], requests)
        BY DEF InputOrder
      <4>2. inbound'[d] \in {inbound[d], inbound[d] \o <<f>>,
                             inbound[d] \o <<f, NUL>>}
        BY <3>1, <3>2
      <4> QED BY <1>0, <3>1, <4>1, <4>2, OrderedGrows
    <3> QED BY <2>1, <3>2, <3>3 DEF InputOrder, Num
  <2> QED BY <2>2, <2>3
<1>3. ASSUME NEW c \in Conns, Read(c) PROVE InputOrder'
  <2> DEFINE s == inbound[c]
             t == Tail(s)
  <2>1. /\ inbound[c] # <<>> /\ inbound'[c] = t
        /\ \A d \in Conns \ {c} : /\ decoder'[d] = decoder[d]
                                  /\ inbound'[d] = inbound[d]
    BY <1>3, ReadStep
  <2>2. requests' = requests
    BY <1>3 DEF Read, clientVars
  <2>3. /\ t \in Seq(Byte) /\ Len(t) = Len(s) - 1 /\ Len(s) \in Nat \ {0}
        /\ \A i \in 1..Len(t) : t[i] = s[i + 1] /\ i + 1 \in 1..Len(s)
        /\ Head(s) = s[1] /\ 1 \in 1..Len(s)
    BY <1>0, <2>1
  <2>4. Ordered(Num(c), decoder[c], s, requests)
    BY DEF InputOrder
  <2>5. CASE /\ decoder[c] = <<>> /\ Head(s) \in Frame
             /\ decoder'[c] = <<Head(s)>>
             /\ UNCHANGED <<pc, req>>
    <3>1. decoder'[c] # <<>> /\ decoder'[c][1] = s[1] /\ s[1] # NUL
      BY <2>3, <2>5, TextAssumption
    <3>2. Ordered(Num(c), decoder'[c], t, requests)
      BY <2>3, <2>4, <3>1 DEF Ordered
    <3>3. Num(c)' = Num(c) /\ \A d \in Conns : Num(d)' = Num(d)
      BY <2>5 DEF Num
    <3> QED BY <2>1, <2>2, <3>2, <3>3 DEF InputOrder
  <2>6. CASE /\ Head(s) = NUL /\ decoder'[c] = <<>>
             /\ \E f \in Frame : /\ decoder[c] = <<f>>
                                 /\ req' = [req EXCEPT ![c] = f]
                                 /\ pc' = [pc EXCEPT ![c] = "process"]
    <3>1. PICK f \in Frame : decoder[c] = <<f>> /\ req' = [req EXCEPT ![c] = f]
      BY <2>6
    <3>2. decoder[c] # <<>> /\ decoder[c][1] = f
      BY <3>1
    <3>3. req'[c] = f /\ f # NUL /\ \A d \in Conns \ {c} : req'[d] = req[d]
      BY <1>0, <3>1, TextAssumption
    <3>4. Num(c)' = f.n /\ \A d \in Conns \ {c} : Num(d)' = Num(d)
      BY <3>3 DEF Num
    <3>5. Ordered(f.n, <<>>, t, requests)
      BY <2>3, <2>4, <3>2 DEF Ordered
    <3> QED BY <2>1, <2>2, <2>6, <3>4, <3>5 DEF InputOrder
  <2> QED BY <1>3, <2>5, <2>6, ReadStep
<1>4. ASSUME NEW c \in Conns, Moves(c) \/ FlushEnds(c) \/ FlushFails(c)
      PROVE  UNCHANGED <<inbound, decoder, req, requests>>
  BY <1>0, <1>4, Moved, AfterFlush DEF readVars, clientVars
<1>5. ASSUME NEW c \in Conns, \/ Process(c) \/ Write(c) \/ Flush(c)
                              \/ FlushByte(c) \/ GetFrameAscii(c)
      PROVE  UNCHANGED <<inbound, decoder, req, requests>>
  BY <1>5
  DEF Process, Write, Flush, FlushByte, GetFrameAscii, readVars, clientVars,
      threadVars
<1>6. CASE StopServer \/ UNCHANGED vars
  BY <1>1, <1>6 DEF StopServer, vars, readVars, clientVars, threadVars
<1> QED
  BY <1>1, <1>2, <1>3, <1>4, <1>5, <1>6 DEF Next, ThreadStep, Moves, ClientStep
-----------------------------------------------------------------------------
(* What a client gets *)

\* The bytes that are on their way to the client of d.
Pending(d) == outbound[d] \o buffered[d]

\* A client that stays got frames, and the rest of what was written to it is
\* frames, too.
OutputWhole ==
    \A d \in Conns \ gone : /\ InStep(frame[d], Pending(d))
                            /\ Complete(frame[d], Pending(d))

\* f was written to d.
WrittenTo(d, f) == \/ \E i \in 1..Len(got[d]) : got[d][i] = <<f>>
                   \/ frame[d] = <<f>>
                   \/ \E i \in 1..Len(Pending(d)) : Pending(d)[i] = f

\* c does not write what it processes to d any more.
Past(c, d) == /\ pc[c] # "process" /\ d \notin goals[c]
              /\ ~ (pc[c] = "write" /\ to[c] = d)

\* f comes from a request that was processed, or from the one that is if its
\* thread was at d.
Settled(d, f) == /\ f.n <= Num(f.from)
                 /\ f.n = Num(f.from) => Past(f.from, d)

WrittenOnce ==
    \A d \in Conns \ gone : \A f \in Frame : WrittenTo(d, f) => Settled(d, f)

\* A frame is at one place of what a client got and is still to get.
Apart(held, coming, whole) ==
    /\ \A i, k \in 1..Len(coming) :
          coming[i] # NUL /\ coming[i] = coming[k] => i = k
    /\ \A i \in 1..Len(coming) : held # <<coming[i]>>
    /\ \A i \in 1..Len(whole) : /\ whole[i] # held
                                /\ \A k \in 1..Len(coming) : whole[i] # <<coming[k]>>

AllApart == \A d \in Conns \ gone : Apart(frame[d], Pending(d), got[d])

GotOnce ==
    \A d \in Conns : /\ \A i \in 1..Len(got[d]) : \E f \in Frame : got[d][i] = <<f>>
                     /\ \A i, k \in 1..Len(got[d]) : got[d][i] = got[d][k] => i = k

OutputInv == OutputWhole /\ WrittenOnce /\ AllApart /\ GotOnce

\* What is on its way to a client is a sequence of bytes.
LEMMA PendingType == ASSUME TypeOK, NEW d \in Conns PROVE Pending(d) \in Seq(Byte)
  BY ConcatProperties DEF TypeOK, Pending

\* A byte goes from the buffer of a stream into the socket.
LEMMA ByteMoved ==
    ASSUME NEW s \in Seq(Byte), NEW t \in Seq(Byte), t # <<>>
    PROVE  Append(s, Head(t)) \o Tail(t) = s \o t
<1> DEFINE l == Append(s, Head(t)) \o Tail(t)
           r == s \o t
<1>1. /\ Head(t) = t[1] /\ t[1] \in Byte
      /\ Tail(t) \in Seq(Byte) /\ Len(Tail(t)) = Len(t) - 1
      /\ Len(t) \in Nat \ {0} /\ Len(s) \in Nat
      /\ \A i \in 1..(Len(t) - 1) : Tail(t)[i] = t[i + 1]
  OBVIOUS
<1>2. /\ Append(s, Head(t)) \in Seq(Byte)
      /\ Len(Append(s, Head(t))) = Len(s) + 1
      /\ Append(s, Head(t))[Len(s) + 1] = t[1]
      /\ \A i \in 1..Len(s) : Append(s, Head(t))[i] = s[i]
  BY <1>1, AppendProperties
<1>3. /\ l \in Seq(Byte) /\ Len(l) = Len(s) + Len(t)
      /\ \A i \in 1..(Len(s) + Len(t)) :
            l[i] = IF i <= Len(s) + 1 THEN Append(s, Head(t))[i]
                                      ELSE Tail(t)[i - (Len(s) + 1)]
  BY <1>1, <1>2, ConcatProperties
<1>4. /\ r \in Seq(Byte) /\ Len(r) = Len(s) + Len(t)
      /\ \A i \in 1..(Len(s) + Len(t)) :
            r[i] = IF i <= Len(s) THEN s[i] ELSE t[i - Len(s)]
  BY ConcatProperties
<1> HIDE DEF l, r
<1>5. ASSUME NEW i \in 1..(Len(s) + Len(t)) PROVE l[i] = r[i]
  <2>1. CASE i <= Len(s)
    BY <1>1, <1>2, <1>3, <1>4, <2>1
  <2>2. CASE i = Len(s) + 1
    BY <1>1, <1>2, <1>3, <1>4, <2>2
  <2>3. CASE i > Len(s) + 1
    <3>1. /\ i - (Len(s) + 1) \in 1..(Len(t) - 1)
          /\ (i - (Len(s) + 1)) + 1 = i - Len(s)
      BY <1>1, <2>3
    <3> QED BY <1>1, <1>3, <1>4, <2>3, <3>1
  <2> QED BY <1>1, <2>1, <2>2, <2>3
<1>6. l = r
  BY <1>3, <1>4, <1>5, SeqEqual
<1> QED BY <1>6 DEF l, r

\* A client takes the first byte that is on its way to it.
LEMMA FirstTaken ==
    ASSUME NEW s \in Seq(Byte), NEW t \in Seq(Byte), s # <<>>
    PROVE  /\ s \o t # <<>> /\ Head(s \o t) = Head(s)
           /\ Tail(s) \o t = Tail(s \o t)
<1> DEFINE l == Tail(s) \o t
           r == s \o t
<1>1. /\ Head(s) = s[1] /\ Len(s) \in Nat \ {0} /\ Len(t) \in Nat
      /\ Tail(s) \in Seq(Byte) /\ Len(Tail(s)) = Len(s) - 1
      /\ \A i \in 1..(Len(s) - 1) : Tail(s)[i] = s[i + 1]
  OBVIOUS
<1>2. /\ r \in Seq(Byte) /\ Len(r) = Len(s) + Len(t)
      /\ \A i \in 1..(Len(s) + Len(t)) :
            r[i] = IF i <= Len(s) THEN s[i] ELSE t[i - Len(s)]
  BY ConcatProperties
<1>3. /\ l \in Seq(Byte) /\ Len(l) = (Len(s) - 1) + Len(t)
      /\ \A i \in 1..((Len(s) - 1) + Len(t)) :
            l[i] = IF i <= Len(s) - 1 THEN Tail(s)[i] ELSE t[i - (Len(s) - 1)]
  BY <1>1, ConcatProperties
<1> HIDE DEF l, r
<1>4. r # <<>> /\ Head(r) = s[1]
  BY <1>1, <1>2
<1>5. /\ Tail(r) \in Seq(Byte) /\ Len(Tail(r)) = Len(r) - 1
      /\ \A i \in 1..(Len(r) - 1) : Tail(r)[i] = r[i + 1]
  BY <1>2, <1>4
<1>6. ASSUME NEW i \in 1..Len(l) PROVE l[i] = Tail(r)[i]
  <2>0. i \in Nat /\ i \in 1..((Len(s) - 1) + Len(t)) /\ Len(s) - 1 \in Nat
    BY <1>1, <1>3
  <2>1. Tail(r)[i] = r[i + 1] /\ i + 1 \in 1..(Len(s) + Len(t))
    BY <1>1, <1>2, <1>3, <1>5
  <2>2. CASE i <= Len(s) - 1
    BY <1>1, <1>2, <1>3, <2>1, <2>2
  <2>3. CASE ~ (i <= Len(s) - 1)
    <3>1. PICK j \in Nat : j = i - (Len(s) - 1) /\ j = (i + 1) - Len(s)
      <4>1. i > Len(s) - 1
        BY <1>1, <2>0, <2>3
      <4> QED BY <1>1, <2>0, <4>1
    <3>2. l[i] = t[j]
      BY <1>3, <2>0, <2>3, <3>1
    <3>3. r[i + 1] = t[j]
      BY <1>1, <1>2, <2>0, <2>1, <2>3, <3>1
    <3>4. Tail(r)[i] = r[i + 1]
      BY <2>1
    <3> QED BY <3>2, <3>3, <3>4, Zenon
  <2> QED BY <2>2, <2>3
<1>7. Len(l) = Len(Tail(r))
  BY <1>1, <1>2, <1>3, <1>5
<1>8. l = Tail(r)
  BY <1>3, <1>5, <1>6, <1>7, SeqEqual
<1> QED BY <1>1, <1>4, <1>8 DEF l, r

\* Only a write and a read change what is on its way to a client that stays,
LEMMA OutputKept ==
    ASSUME TypeInv, [Next]_vars, ~ \E c \in Conns : Write(c) \/ GetFrameAscii(c)
    PROVE  /\ gone \subseteq gone' /\ UNCHANGED <<frame, got>>
           /\ \A d \in Conns \ gone' : Pending(d)' = Pending(d)
<1>0. TypeOK
  BY DEF TypeInv
<1>1. CASE UNCHANGED <<buffered, outbound, gone, frame, got>>
  BY <1>1 DEF Pending
<1>2. ASSUME NEW c \in Conns, \/ Moves(c) \/ Read(c) \/ Process(c) \/ Flush(c)
                              \/ FlushEnds(c) \/ FlushFails(c)
      PROVE  UNCHANGED <<buffered, outbound, gone, frame, got>>
  <2>1. CASE Moves(c)
    BY <1>0, <2>1, Moved DEF clientVars
  <2>2. CASE Read(c) \/ Process(c) \/ Flush(c)
    BY <2>2 DEF Read, Process, Flush, clientVars, outVars
  <2>3. CASE FlushEnds(c) \/ FlushFails(c)
    BY <2>3, AfterFlush DEF clientVars
  <2> QED BY <1>2, <2>1, <2>2, <2>3
<1>3. ASSUME NEW c \in Conns, ClientStep(c)
      PROVE  /\ gone \subseteq gone' /\ UNCHANGED <<frame, got>>
             /\ \A d \in Conns \ gone' : Pending(d)' = Pending(d)
  <2>1. /\ UNCHANGED <<buffered, frame, got>> /\ gone \subseteq gone'
        /\ \A d \in Conns \ gone' : outbound'[d] = outbound[d]
    BY <1>0, <1>3, ClientStepTyped DEF outVars
  <2> QED BY <2>1 DEF Pending
<1>4. ASSUME NEW c \in Conns, FlushByte(c)
      PROVE  /\ UNCHANGED <<gone, frame, got>>
             /\ \A d \in Conns \ gone' : Pending(d)' = Pending(d)
  <2> PICK e \in Conns : e = to[c]
    BY <1>0 DEF TypeOK
  <2>1. /\ buffered \in [Conns -> Seq(Byte)] /\ outbound \in [Conns -> Seq(Byte)]
        /\ buffered[e] # <<>> /\ buffered' = [buffered EXCEPT ![e] = Tail(@)]
        /\ e \notin gone =>
              outbound' = [outbound EXCEPT ![e] = Append(@, Head(buffered[e]))]
        /\ e \in gone => outbound' = outbound
        /\ UNCHANGED <<gone, frame, got>>
    BY <1>0, <1>4, FlushByteStep DEF clientVars, TypeOK
  <2>2. ASSUME NEW d \in Conns \ gone' PROVE Pending(d)' = Pending(d)
    <3>1. CASE d # e
      BY <2>1, <3>1 DEF Pending
    <3>2. CASE d = e
      <4>1. /\ outbound'[d] = Append(outbound[d], Head(buffered[d]))
            /\ buffered'[d] = Tail(buffered[d])
        BY <2>1, <3>2
      <4>2. /\ outbound[d] \in Seq(Byte) /\ buffered[d] \in Seq(Byte)
            /\ buffered[d] # <<>>
        BY <2>1, <3>2
      <4>3. Append(outbound[d], Head(buffered[d])) \o Tail(buffered[d])
                = outbound[d] \o buffered[d]
        BY <4>2, ByteMoved
      <4> QED BY <4>1, <4>3 DEF Pending
    <3> QED BY <3>1, <3>2
  <2> QED BY <2>1, <2>2
<1>5. CASE StopServer \/ UNCHANGED vars
  BY <1>1, <1>5 DEF StopServer, vars, outVars, clientVars
<1> QED
  BY <1>1, <1>2, <1>3, <1>4, <1>5 DEF Next, ThreadStep, Moves, ClientStep

\* and a write adds a whole frame at its end.
LEMMA FrameWritten ==
    ASSUME TypeInv, NEW c \in Conns, Write(c), NEW d \in Conns, d = to[c]
    PROVE  /\ Pending(d)' = Pending(d) \o <<msg[c], NUL>>
           /\ \A e \in Conns \ {d} : Pending(e)' = Pending(e)
           /\ UNCHANGED <<gone, frame, got>>
<1>1. /\ msg[c] \in Frame
      /\ buffered' = [buffered EXCEPT ![d] = @ \o <<msg[c], NUL>>]
      /\ UNCHANGED <<outbound, gone, frame, got>>
  BY WriteStep DEF clientVars
<1>2. /\ buffered \in [Conns -> Seq(Byte)] /\ buffered[d] \in Seq(Byte)
      /\ outbound[d] \in Seq(Byte)
  BY DEF TypeInv, TypeOK
<1>3. <<msg[c], NUL>> \in Seq(Byte)
  BY <1>1 DEF Byte
<1>4. /\ buffered'[d] = buffered[d] \o <<msg[c], NUL>>
      /\ \A e \in Conns \ {d} : buffered'[e] = buffered[e]
  BY <1>1, <1>2
<1>5. outbound[d] \o (buffered[d] \o <<msg[c], NUL>>)
          = (outbound[d] \o buffered[d]) \o <<msg[c], NUL>>
  <2>1. \A s, t, u \in Seq(Byte) : s \o (t \o u) = (s \o t) \o u
    BY ConcatAssociative, SMTT(20)
  <2> QED BY <1>2, <1>3, <2>1, Zenon
<1> QED BY <1>1, <1>4, <1>5 DEF Pending

\* A client takes a text, or the delimiter of the one that it holds.
LEMMA ByteTaken ==
    ASSUME TypeInv, OutputWhole, NEW c \in Conns, GetFrameAscii(c)
    PROVE  /\ c \notin gone /\ UNCHANGED <<gone, pc, threadVars>>
           /\ Pending(c) # <<>> /\ Pending(c)' = Tail(Pending(c))
           /\ InStep(frame'[c], Pending(c)') /\ Complete(frame'[c], Pending(c)')
           /\ \A d \in Conns \ {c} : /\ Pending(d)' = Pending(d)
                                     /\ frame'[d] = frame[d] /\ got'[d] = got[d]
           /\ \/ /\ frame[c] = <<>> /\ Head(Pending(c)) \in Frame
                 /\ frame'[c] = <<Head(Pending(c))>> /\ got' = got
              \/ /\ \E f \in Frame : frame[c] = <<f>>
                 /\ frame'[c] = <<>> /\ got'[c] = got[c] \o <<frame[c]>>
<1>0. /\ TypeOK /\ outbound \in [Conns -> Seq(Byte)] /\ buffered[c] \in Seq(Byte)
      /\ frame \in [Conns -> Seq(Byte)] /\ got \in [Conns -> Seq(Seq(Byte))]
      /\ Pending(c) \in Seq(Byte)
  BY PendingType DEF TypeInv, TypeOK
<1>1. /\ c \notin gone /\ outbound[c] # <<>>
      /\ outbound' = [outbound EXCEPT ![c] = Tail(@)]
      /\ frame' = [frame EXCEPT ![c] = DecodeNextByte(@, Head(outbound[c])).buffer]
      /\ \/ Head(outbound[c]) = NUL /\ frame[c] # <<>>
               /\ got' = [got EXCEPT ![c] = @ \o <<frame[c]>>]
         \/ (Head(outbound[c]) # NUL \/ frame[c] = <<>>) /\ got' = got
      /\ UNCHANGED <<gone, pc, threadVars, buffered>>
  BY <1>0, GetStep DEF outVars
<1>2. /\ Pending(c) # <<>> /\ Head(Pending(c)) = Head(outbound[c])
      /\ Tail(outbound[c]) \o buffered[c] = Tail(Pending(c))
  BY <1>0, <1>1, FirstTaken DEF Pending
<1>3. outbound'[c] = Tail(outbound[c])
      /\ \A d \in Conns \ {c} : outbound'[d] = outbound[d]
  BY <1>0, <1>1
<1>4. Pending(c)' = Tail(Pending(c))
      /\ \A d \in Conns \ {c} : Pending(d)' = Pending(d)
  BY <1>1, <1>2, <1>3 DEF Pending
<1>5. InStep(frame[c], Pending(c)) /\ Complete(frame[c], Pending(c))
  BY <1>1 DEF OutputWhole
<1> DEFINE d == DecodeNextByte(frame[c], Head(Pending(c)))
<1>6. /\ InStep(d.buffer, Tail(Pending(c))) /\ Complete(d.buffer, Tail(Pending(c)))
      /\ \/ /\ frame[c] = <<>> /\ Head(Pending(c)) \in Frame
            /\ d.frames = <<>> /\ d.buffer = <<Head(Pending(c))>>
         \/ /\ \E f \in Frame : frame[c] = <<f>> /\ d.frames = << <<f>> >>
            /\ Head(Pending(c)) = NUL /\ d.buffer = <<>>
  BY <1>0, <1>2, <1>5, Decoded
<1>7. d.buffer = DecodeNextByte(frame[c], Head(outbound[c])).buffer
  BY <1>2
<1> HIDE DEF d
<1>8. frame'[c] = d.buffer /\ \A e \in Conns \ {c} : frame'[e] = frame[e]
  BY <1>0, <1>1, <1>7
<1>9. CASE /\ frame[c] = <<>> /\ Head(Pending(c)) \in Frame
           /\ d.buffer = <<Head(Pending(c))>>
  <2>1. got' = got
    BY <1>1, <1>2, <1>9, TextAssumption
  <2> QED BY <1>1, <1>2, <1>4, <1>6, <1>8, <1>9, <2>1
<1>10. CASE /\ \E f \in Frame : frame[c] = <<f>>
            /\ Head(Pending(c)) = NUL /\ d.buffer = <<>>
  <2>1. frame[c] # <<>>
    BY <1>10
  <2>2. got'[c] = got[c] \o <<frame[c]>> /\ \A e \in Conns \ {c} : got'[e] = got[e]
    BY <1>0, <1>1, <1>2, <1>10, <2>1
  <2> QED BY <1>1, <1>2, <1>4, <1>6, <1>8, <1>10, <2>2
<1> QED BY <1>6, <1>9, <1>10

\* A step keeps whole frames on their way.
LEMMA OutputWholeStep == ASSUME TypeInv, OutputWhole, [Next]_vars PROVE OutputWhole'
<1>1. ASSUME NEW c \in Conns, Write(c) PROVE OutputWhole'
  <2> PICK d \in Conns : d = to[c]
    BY DEF TypeInv, TypeOK
  <2>1. /\ Pending(d)' = Pending(d) \o <<msg[c], NUL>>
        /\ \A e \in Conns \ {d} : Pending(e)' = Pending(e)
        /\ UNCHANGED <<gone, frame, got>>
    BY <1>1, FrameWritten
  <2>2. msg[c] \in Frame /\ Pending(d) \in Seq(Byte)
    BY <1>1, WriteStep, PendingType DEF TypeInv
  <2>3. d \notin gone => /\ InStep(frame[d], Pending(d)')
                         /\ Complete(frame[d], Pending(d)')
    BY <2>1, <2>2, FrameAdded DEF OutputWhole
  <2> QED BY <2>1, <2>3 DEF OutputWhole
<1>2. ASSUME NEW c \in Conns, GetFrameAscii(c) PROVE OutputWhole'
  <2>1. /\ InStep(frame'[c], Pending(c)') /\ Complete(frame'[c], Pending(c)')
        /\ \A d \in Conns \ {c} : Pending(d)' = Pending(d) /\ frame'[d] = frame[d]
        /\ gone' = gone
    BY <1>2, ByteTaken
  <2> QED BY <2>1 DEF OutputWhole
<1>3. CASE ~ \E c \in Conns : Write(c) \/ GetFrameAscii(c)
  BY <1>3, OutputKept DEF OutputWhole
<1> QED BY <1>1, <1>2, <1>3

\* A thread goes to the next request, or does not return to whom it wrote.
LEMMA PastKept ==
    ASSUME TypeInv, InputOrder, [Next]_vars, NEW b \in Conns, NEW d \in Conns
    PROVE  \/ Num(b) < Num(b)'
           \/ Num(b)' = Num(b) /\ (Past(b, d) => Past(b, d)')
<1>0. /\ TypeOK /\ pc \in [Conns -> Steps] /\ req \in [Conns -> Byte]
      /\ to \in [Conns -> Conns] /\ goals \in [Conns -> SUBSET Conns]
  BY DEF TypeInv, TypeOK
<1>1. CASE pc'[b] = pc[b] /\ to'[b] = to[b] /\ goals'[b] = goals[b] /\ req'[b] = req[b]
  BY <1>1 DEF Past, Num
<1>2. ASSUME NEW c \in Conns, \/ Moves(c) \/ FlushEnds(c) \/ FlushFails(c)
      PROVE  Num(b)' = Num(b) /\ (Past(b, d) => Past(b, d)')
  <2>1. /\ req' = req /\ pc'[c] # "process"
        /\ \A e \in Conns \ {c} : /\ pc'[e] = pc[e] /\ to'[e] = to[e]
                                  /\ goals'[e] = goals[e]
        /\ pc'[c] = "write" => /\ to'[c] \in goals[c]
                               /\ goals'[c] = goals[c] \ {to'[c]}
        /\ pc'[c] # "write" => goals'[c] = {} \/ goals'[c] = goals[c]
    BY <1>0, <1>2, Moved, AfterFlush
  <2>2. Num(b)' = Num(b)
    BY <2>1 DEF Num
  <2>3. CASE b = c
    BY <2>1, <2>2, <2>3 DEF Past
  <2>4. CASE b # c
    BY <2>1, <2>2, <2>4 DEF Past
  <2> QED BY <2>3, <2>4
<1>3. ASSUME NEW c \in Conns, Write(c) \/ Flush(c)
      PROVE  Num(b)' = Num(b) /\ (Past(b, d) => Past(b, d)')
  <2>1. /\ UNCHANGED <<req, to, goals>> /\ pc[c] # "process"
        /\ pc'[c] \notin {"process", "write"}
        /\ \A e \in Conns \ {c} : pc'[e] = pc[e]
    BY <1>0, <1>3 DEF Write, Flush, Goto, threadVars
  <2> QED BY <2>1 DEF Past, Num
<1>4. ASSUME NEW c \in Conns, Process(c)
      PROVE  Num(b)' = Num(b) /\ (Past(b, d) => Past(b, d)')
  <2>1. /\ pc[c] = "process" /\ pc' = [pc EXCEPT ![c] = "write"] /\ req' = req
        /\ \A e \in Conns \ {c} : to'[e] = to[e] /\ goals'[e] = goals[e]
    BY <1>4, ProcessStep
  <2>2. CASE b = c
    BY <2>1, <2>2 DEF Past, Num
  <2>3. CASE b # c
    BY <1>0, <2>1, <2>3 DEF Past, Num
  <2> QED BY <2>2, <2>3
<1>5. ASSUME NEW c \in Conns, Read(c)
      PROVE  \/ Num(b) < Num(b)'
             \/ Num(b)' = Num(b) /\ (Past(b, d) => Past(b, d)')
  <2>1. UNCHANGED <<to, goals>>
    BY <1>5 DEF Read
  <2>2. CASE UNCHANGED <<pc, req>>
    BY <2>1, <2>2 DEF Past, Num
  <2>3. ASSUME NEW f \in Frame, decoder[c] = <<f>>, req' = [req EXCEPT ![c] = f],
               pc' = [pc EXCEPT ![c] = "process"]
        PROVE  \/ Num(b) < Num(b)'
               \/ Num(b)' = Num(b) /\ (Past(b, d) => Past(b, d)')
    <3>1. CASE b # c
      BY <1>0, <2>1, <2>3, <3>1 DEF Past, Num
    <3>2. CASE b = c
      <4>1. req'[c] = f /\ f # NUL /\ decoder[c] # <<>> /\ decoder[c][1] = f
        BY <1>0, <2>3, TextAssumption
      <4>2. Num(c) < f.n
        BY <4>1 DEF InputOrder, Ordered
      <4> QED BY <3>2, <4>1, <4>2 DEF Num
    <3> QED BY <3>1, <3>2
  <2> QED BY <1>5, <2>2, <2>3, ReadStep
<1>6. ASSUME NEW c \in Conns, ClientStep(c) PROVE UNCHANGED <<pc, req, to, goals>>
  BY <1>0, <1>6, ClientStepTyped DEF threadVars
<1>7. ASSUME NEW c \in Conns, FlushByte(c) \/ GetFrameAscii(c)
      PROVE  UNCHANGED <<pc, req, to, goals>>
  BY <1>7 DEF FlushByte, GetFrameAscii, threadVars
<1>8. CASE StopServer \/ UNCHANGED vars
  BY <1>1, <1>8 DEF StopServer, vars, threadVars
<1> QED
  BY <1>1, <1>2, <1>3, <1>4, <1>5, <1>6, <1>7, <1>8
  DEF Next, ThreadStep, Moves, ClientStep

\* What will not be written again to a client will not be.
LEMMA SettledKept ==
    ASSUME TypeInv, InputOrder, [Next]_vars, TypeOK', NEW d \in Conns,
           NEW f \in Frame, Settled(d, f)
    PROVE  Settled(d, f)'
<1>1. f.from \in Conns /\ f.n \in Nat
  BY DEF Frame
<1> PICK b \in Conns : b = f.from
  BY <1>1
<1>2. Num(b) \in Nat /\ Num(b)' \in Nat
  <2>1. req[b] \in Byte /\ req'[b] \in Byte
    BY DEF TypeInv, TypeOK
  <2> QED BY <2>1, ByteNumber DEF Num
<1>3. \/ Num(b) < Num(b)'
      \/ Num(b)' = Num(b) /\ (Past(b, d) => Past(b, d)')
  BY PastKept
<1>4. f.n <= Num(b) /\ (f.n = Num(b) => Past(b, d))
  BY DEF Settled
<1>5. f.n <= Num(b)' /\ (f.n = Num(b)' => Past(b, d)')
  BY <1>1, <1>2, <1>3, <1>4
<1> QED BY <1>5 DEF Settled

\* What is at the end of a stream when a frame was written to it.
LEMMA WrittenAt ==
    ASSUME NEW s \in Seq(Byte), NEW f \in Frame, NEW t, t = s \o <<f, NUL>>,
           NEW i \in 1..Len(t)
    PROVE  /\ \/ i \in 1..Len(s) /\ t[i] = s[i]
              \/ i = Len(s) + 1 /\ t[i] = f
              \/ i = Len(s) + 2 /\ t[i] = NUL
           /\ t \in Seq(Byte) /\ Len(s) \in Nat
<1>1. f \in Byte /\ NUL \in Byte
  BY DEF Byte
<1> QED BY <1>1

\* A step writes a frame that will not be written again.
LEMMA WrittenOnceStep ==
    ASSUME TypeInv, InputOrder, OutputInv, [Next]_vars, TypeOK'
    PROVE  WrittenOnce'
<1>0. /\ TypeOK /\ WrittenOnce /\ OutputWhole
      /\ \A d \in Conns : Pending(d) \in Seq(Byte)
      /\ pc \in [Conns -> Steps] /\ to \in [Conns -> Conns]
      /\ got \in [Conns -> Seq(Seq(Byte))] /\ frame \in [Conns -> Seq(Byte)]
  BY PendingType DEF TypeInv, OutputInv, TypeOK
<1>1. SUFFICES ASSUME NEW d \in Conns, d \notin gone', NEW f \in Frame,
                      WrittenTo(d, f)'
               PROVE  Settled(d, f)'
  BY DEF WrittenOnce
<1>2. CASE d \notin gone /\ WrittenTo(d, f)
  BY <1>0, <1>2, SettledKept DEF WrittenOnce
<1>3. ASSUME NEW c \in Conns, Write(c) PROVE Settled(d, f)'
  <2>1. /\ UNCHANGED <<gone, frame, got>>
        /\ d # to[c] => Pending(d)' = Pending(d)
        /\ d = to[c] => Pending(d)' = Pending(d) \o <<msg[c], NUL>>
    <3> PICK e \in Conns : e = to[c]
      BY <1>0
    <3> QED BY <1>3, FrameWritten
  <2>2. CASE f = msg[c] /\ d = to[c]
    <3>1. /\ f.from = c /\ f.n = req[c].n /\ to[c] \notin goals[c]
          /\ req[c] \in Frame
      BY <1>3, <2>2 DEF Write, TypeInv, Answering, Writing
    <3>2. UNCHANGED <<req, goals>> /\ pc'[c] = "flush"
      BY <1>0, <1>3 DEF Write, Goto, threadVars
    <3>3. Num(c)' = f.n /\ f.n \in Nat
      BY <3>1, <3>2, TextAssumption DEF Num, Frame
    <3>4. Past(c, d)'
      BY <2>2, <3>1, <3>2 DEF Past
    <3> QED BY <3>1, <3>3, <3>4 DEF Settled
  <2>3. CASE ~ (f = msg[c] /\ d = to[c])
    <3>1. msg[c] \in Frame /\ f # NUL /\ Pending(d) \in Seq(Byte)
      BY <1>0, <1>3, WriteStep, TextAssumption
    <3>2. ASSUME NEW i \in 1..Len(Pending(d)'), Pending(d)'[i] = f
          PROVE  i \in 1..Len(Pending(d)) /\ Pending(d)[i] = f
      <4>1. CASE d # to[c]
        BY <2>1, <3>2, <4>1
      <4>2. CASE d = to[c]
        BY <2>1, <2>3, <3>1, <3>2, <4>2, WrittenAt
      <4> QED BY <4>1, <4>2
    <3>3. WrittenTo(d, f)
      BY <1>1, <2>1, <3>2 DEF WrittenTo
    <3> QED BY <1>1, <1>2, <2>1, <3>3
  <2> QED BY <2>2, <2>3
<1>4. ASSUME NEW c \in Conns, GetFrameAscii(c) PROVE Settled(d, f)'
  <2>1. gone' = gone /\ Pending(c)' = Tail(Pending(c)) /\ Pending(c) # <<>>
    BY <1>0, <1>4, ByteTaken
  <2>2. CASE d # c
    <3>1. Pending(d)' = Pending(d) /\ frame'[d] = frame[d] /\ got'[d] = got[d]
      BY <1>0, <1>4, <2>2, ByteTaken
    <3> QED BY <1>1, <1>2, <2>1, <3>1 DEF WrittenTo
  <2>3. CASE d = c
    <3>1. /\ Tail(Pending(d)) \in Seq(Byte) /\ Head(Pending(d)) = Pending(d)[1]
          /\ 1 \in 1..Len(Pending(d))
          /\ \A i \in 1..Len(Tail(Pending(d))) :
                /\ i + 1 \in 1..Len(Pending(d))
                /\ Tail(Pending(d))[i] = Pending(d)[i + 1]
      BY <1>0, <2>1, <2>3
    <3>2. ASSUME NEW i \in 1..Len(Pending(d)'), Pending(d)'[i] = f
          PROVE  WrittenTo(d, f)
      BY <2>1, <2>3, <3>1, <3>2 DEF WrittenTo
    <3>3. CASE /\ frame[c] = <<>> /\ Head(Pending(c)) \in Frame
               /\ frame'[c] = <<Head(Pending(c))>> /\ got' = got
      <4>1. frame'[c] = <<f>> => Pending(d)[1] = f
        BY <2>3, <3>1, <3>3
      <4> QED BY <1>1, <1>2, <2>1, <2>3, <3>1, <3>2, <3>3, <4>1 DEF WrittenTo
    <3>4. CASE /\ \E g \in Frame : frame[c] = <<g>>
               /\ frame'[c] = <<>> /\ got'[c] = got[c] \o <<frame[c]>>
      <4>0. <<>> # <<f>>
        OBVIOUS
      <4>1. /\ got[c] \in Seq(Seq(Byte)) /\ frame[c] \in Seq(Byte)
            /\ frame'[c] # <<f>>
        BY <1>0, <3>4, <4>0
      <4>2. \A i \in 1..Len(got'[c]) : \/ i \in 1..Len(got[c]) /\ got'[c][i] = got[c][i]
                                       \/ got'[c][i] = frame[c]
        BY <3>4, <4>1
      <4>3. WrittenTo(d, f)
        BY <1>1, <2>3, <3>2, <4>1, <4>2 DEF WrittenTo
      <4> QED BY <1>1, <1>2, <2>1, <4>3
    <3> QED BY <1>0, <1>4, <3>3, <3>4, ByteTaken
  <2> QED BY <2>2, <2>3
<1>5. CASE ~ \E c \in Conns : Write(c) \/ GetFrameAscii(c)
  BY <1>1, <1>2, <1>5, OutputKept DEF WrittenTo
<1> QED BY <1>3, <1>4, <1>5

\* A frame that was not written before is written.
LEMMA ApartWritten ==
    ASSUME NEW held, NEW s \in Seq(Byte), NEW whole, NEW f \in Frame,
           Apart(held, s, whole), held = <<>> \/ \E g \in Frame : held = <<g>>,
           \A i \in 1..Len(whole) : \E g \in Frame : whole[i] = <<g>>,
           held # <<f>>,
           \A i \in 1..Len(s) : s[i] # f,
           \A i \in 1..Len(whole) : whole[i] # <<f>>
    PROVE  Apart(held, s \o <<f, NUL>>, whole)
<1> DEFINE t == s \o <<f, NUL>>
<1>1. f # NUL /\ f \in Byte
  BY TextAssumption DEF Byte
<1>2. \A i \in 1..Len(t) : \/ i \in 1..Len(s) /\ t[i] = s[i]
                           \/ i = Len(s) + 1 /\ t[i] = f
                           \/ t[i] = NUL
  BY WrittenAt
<1> HIDE DEF t
<1>3. held # <<NUL>> /\ \A i \in 1..Len(whole) : whole[i] # <<NUL>>
  <2>1. \A g \in Frame : <<g>> # <<NUL>>
    BY TextAssumption
  <2>2. <<>> # <<NUL>>
    OBVIOUS
  <2> QED BY <2>1, <2>2
<1>4. ASSUME NEW i \in 1..Len(t), NEW k \in 1..Len(t), t[i] # NUL, t[i] = t[k]
      PROVE  i = k
  BY <1>2, <1>4 DEF Apart
<1>5. ASSUME NEW i \in 1..Len(t) PROVE held # <<t[i]>>
  BY <1>2, <1>3 DEF Apart
<1>6. ASSUME NEW i \in 1..Len(whole), NEW k \in 1..Len(t) PROVE whole[i] # <<t[k]>>
  BY <1>2, <1>3 DEF Apart
<1>7. \A i \in 1..Len(whole) : whole[i] # held
  BY DEF Apart
<1>8. Apart(held, t, whole)
  BY <1>4, <1>5, <1>6, <1>7 DEF Apart
<1> QED BY <1>8 DEF t

\* A text is taken.
LEMMA ApartTaken ==
    ASSUME NEW s \in Seq(Byte), s # <<>>, Head(s) \in Frame, NEW whole,
           Apart(<<>>, s, whole)
    PROVE  Apart(<<Head(s)>>, Tail(s), whole)
<1>1. /\ Head(s) = s[1] /\ s[1] # NUL /\ 1 \in 1..Len(s)
      /\ \A i \in 1..Len(Tail(s)) : /\ Tail(s)[i] = s[i + 1] /\ i + 1 \in 1..Len(s)
                                    /\ i \in Nat \ {0}
  BY TextAssumption
<1>2. ASSUME NEW i \in 1..Len(Tail(s)), NEW k \in 1..Len(Tail(s)),
             Tail(s)[i] # NUL, Tail(s)[i] = Tail(s)[k]
      PROVE  i = k
  BY <1>1, <1>2 DEF Apart
<1>3. ASSUME NEW i \in 1..Len(Tail(s)) PROVE Tail(s)[i] # s[1]
  BY <1>1 DEF Apart
<1>4. \A x, y : <<x>> = <<y>> => x = y
  OBVIOUS
<1>5. \A i \in 1..Len(Tail(s)) : <<Head(s)>> # <<Tail(s)[i]>>
  BY <1>1, <1>3, <1>4
<1>6. \A i \in 1..Len(whole) : /\ whole[i] # <<Head(s)>>
                               /\ \A k \in 1..Len(Tail(s)) : whole[i] # <<Tail(s)[k]>>
  BY <1>1 DEF Apart
<1> QED BY <1>2, <1>5, <1>6 DEF Apart

\* A text is complete.
LEMMA ApartCompleted ==
    ASSUME NEW s \in Seq(Byte), s # <<>>, NEW f \in Frame,
           NEW whole \in Seq(Seq(Byte)), Apart(<<f>>, s, whole),
           \A i \in 1..Len(whole) : \E g \in Frame : whole[i] = <<g>>
    PROVE  Apart(<<>>, Tail(s), whole \o << <<f>> >>)
<1> DEFINE w == whole \o << <<f>> >>
<1>1. \A i \in 1..Len(Tail(s)) : /\ Tail(s)[i] = s[i + 1] /\ i + 1 \in 1..Len(s)
                                 /\ i \in Nat \ {0}
  OBVIOUS
<1>2. \A i \in 1..Len(w) : \/ i \in 1..Len(whole) /\ w[i] = whole[i]
                           \/ w[i] = <<f>>
  <2>1. << <<f>> >> \in Seq(Seq(Byte))
    BY DEF Byte
  <2> QED BY <2>1
<1>3. \A x : <<x>> # <<>>
  OBVIOUS
<1>4. ASSUME NEW i \in 1..Len(Tail(s)), NEW k \in 1..Len(Tail(s)),
             Tail(s)[i] # NUL, Tail(s)[i] = Tail(s)[k]
      PROVE  i = k
  BY <1>1, <1>4 DEF Apart
<1> HIDE DEF w
<1>5. \A i \in 1..Len(w) : w[i] # <<>>
  BY <1>2, <1>3
<1>6. ASSUME NEW i \in 1..Len(w), NEW k \in 1..Len(Tail(s)) PROVE w[i] # <<Tail(s)[k]>>
  BY <1>1, <1>2, ZenonT(30) DEF Apart
<1>7. Apart(<<>>, Tail(s), w)
  BY <1>3, <1>4, <1>5, <1>6 DEF Apart
<1> QED BY <1>7 DEF w

\* A step keeps what is on its way, and what arrived, apart.
LEMMA ApartStep == ASSUME TypeInv, OutputInv, [Next]_vars PROVE AllApart' /\ GotOnce'
<1>0. /\ TypeOK /\ WrittenOnce /\ OutputWhole /\ AllApart /\ GotOnce
      /\ \A d \in Conns : Pending(d) \in Seq(Byte)
      /\ got \in [Conns -> Seq(Seq(Byte))] /\ to \in [Conns -> Conns]
  BY PendingType DEF TypeInv, OutputInv, TypeOK
<1>1. ASSUME NEW c \in Conns, Write(c) PROVE AllApart' /\ GotOnce'
  <2> PICK d \in Conns : d = to[c]
    BY <1>0
  <2>1. /\ Pending(d)' = Pending(d) \o <<msg[c], NUL>>
        /\ \A e \in Conns \ {d} : Pending(e)' = Pending(e)
        /\ UNCHANGED <<gone, frame, got>>
    BY <1>1, FrameWritten
  <2>2. /\ pc[c] = "write" /\ msg[c] \in Frame /\ req[c] \in Frame
        /\ msg[c].from = c /\ msg[c].n = req[c].n
    BY <1>1 DEF Write, TypeInv, Answering, Writing
  <2> PICK f \in Frame : f = msg[c]
    BY <2>2
  <2>3. ~ Settled(d, f)
    BY <2>2, TextAssumption DEF Settled, Past, Num
  <2>4. d \notin gone => ~ WrittenTo(d, f)
    BY <1>0, <2>3 DEF WrittenOnce
  <2>5. ASSUME d \notin gone PROVE Apart(frame[d], Pending(d)', got[d])
    <3>1. /\ Apart(frame[d], Pending(d), got[d])
          /\ frame[d] = <<>> \/ \E g \in Frame : frame[d] = <<g>>
          /\ \A i \in 1..Len(got[d]) : \E g \in Frame : got[d][i] = <<g>>
      BY <1>0, <2>5 DEF AllApart, OutputWhole, InStep, GotOnce
    <3>2. /\ frame[d] # <<f>>
          /\ \A i \in 1..Len(Pending(d)) : Pending(d)[i] # f
          /\ \A i \in 1..Len(got[d]) : got[d][i] # <<f>>
      BY <2>4, <2>5 DEF WrittenTo
    <3>3. Pending(d)' = Pending(d) \o <<f, NUL>> /\ Pending(d) \in Seq(Byte)
      BY <1>0, <2>1
    <3>4. Apart(frame[d], Pending(d) \o <<f, NUL>>, got[d])
      BY <3>1, <3>2, <3>3, ApartWritten
    <3> QED BY <3>3, <3>4
  <2>6. AllApart'
    BY <1>0, <2>1, <2>5 DEF AllApart
  <2>7. GotOnce'
    BY <1>0, <2>1 DEF GotOnce
  <2> QED BY <2>6, <2>7
<1>2. ASSUME NEW c \in Conns, GetFrameAscii(c) PROVE AllApart' /\ GotOnce'
  <2>1. /\ c \notin gone /\ gone' = gone
        /\ Pending(c) # <<>> /\ Pending(c)' = Tail(Pending(c))
        /\ \A d \in Conns \ {c} : /\ Pending(d)' = Pending(d)
                                  /\ frame'[d] = frame[d] /\ got'[d] = got[d]
    BY <1>0, <1>2, ByteTaken
  <2>2. Apart(frame[c], Pending(c), got[c]) /\ Pending(c) \in Seq(Byte)
    BY <1>0, <2>1 DEF AllApart
  <2>3. /\ \A i \in 1..Len(got[c]) : \E g \in Frame : got[c][i] = <<g>>
        /\ \A i, k \in 1..Len(got[c]) : got[c][i] = got[c][k] => i = k
        /\ got[c] \in Seq(Seq(Byte))
    BY <1>0 DEF GotOnce
  <2>4. CASE /\ frame[c] = <<>> /\ Head(Pending(c)) \in Frame
             /\ frame'[c] = <<Head(Pending(c))>> /\ got' = got
    <3>1. Apart(frame'[c], Pending(c)', got[c])
      BY <2>1, <2>2, <2>4, ApartTaken
    <3>2. AllApart'
      BY <1>0, <2>1, <2>4, <3>1 DEF AllApart
    <3>3. GotOnce'
      BY <1>0, <2>4 DEF GotOnce
    <3> QED BY <3>2, <3>3
  <2>5. CASE /\ \E f \in Frame : frame[c] = <<f>>
             /\ frame'[c] = <<>> /\ got'[c] = got[c] \o <<frame[c]>>
    <3> PICK f \in Frame : frame[c] = <<f>>
      BY <2>5
    <3>1. Apart(frame'[c], Pending(c)', got'[c])
      BY <2>1, <2>2, <2>3, <2>5, ApartCompleted
    <3>2. \A i \in 1..Len(got[c]) : got[c][i] # <<f>>
      BY <2>2 DEF Apart
    <3>3. /\ \A i \in 1..Len(got'[c]) :
                \/ i \in 1..Len(got[c]) /\ got'[c][i] = got[c][i]
                \/ i = Len(got[c]) + 1 /\ got'[c][i] = <<f>>
      <4>1. << <<f>> >> \in Seq(Seq(Byte))
        BY DEF Byte
      <4>2. got'[c] = got[c] \o << <<f>> >>
        BY <2>5
      <4> QED BY <2>3, <4>1, <4>2
    <3>4. \A i \in 1..Len(got'[c]) : \E g \in Frame : got'[c][i] = <<g>>
      BY <2>3, <3>3
    <3>5. \A i, k \in 1..Len(got'[c]) : got'[c][i] = got'[c][k] => i = k
      BY <2>3, <3>2, <3>3
    <3>6. AllApart'
      BY <1>0, <2>1, <3>1 DEF AllApart
    <3>7. GotOnce'
      <4>1. ASSUME NEW d \in Conns
            PROVE  /\ \A i \in 1..Len(got'[d]) : \E g \in Frame : got'[d][i] = <<g>>
                   /\ \A i, k \in 1..Len(got'[d]) :
                         got'[d][i] = got'[d][k] => i = k
        <5>1. CASE d = c
          BY <3>4, <3>5, <5>1
        <5>2. CASE d # c
          BY <1>0, <2>1, <5>2, SMTT(20) DEF GotOnce
        <5> QED BY <5>1, <5>2
      <4> QED BY <4>1 DEF GotOnce
    <3> QED BY <3>6, <3>7
  <2> QED BY <1>0, <1>2, <2>4, <2>5, ByteTaken
<1>3. CASE ~ \E c \in Conns : Write(c) \/ GetFrameAscii(c)
  BY <1>0, <1>3, OutputKept DEF AllApart, GotOnce
<1> QED BY <1>1, <1>2, <1>3

\* Frames are on their way whole and once at all times.
LEMMA OutputInvariance == Spec => []OutputInv
<1>1. Init => InputOrder /\ OutputInv
  <2> SUFFICES ASSUME Init PROVE InputOrder /\ OutputInv
    OBVIOUS
  <2>1. \A c \in Conns : /\ decoder[c] = <<>> /\ inbound[c] = <<>> /\ req[c] = NUL
                         /\ outbound[c] = <<>> /\ buffered[c] = <<>>
                         /\ frame[c] = <<>> /\ got[c] = <<>> /\ requests = 0
    BY DEF Init
  <2>2. \A c \in Conns : Pending(c) = <<>> /\ Num(c) = 0
    <3>1. <<>> \o <<>> = <<>>
      OBVIOUS
    <3> QED BY <2>1, <3>1 DEF Pending, Num
  <2>3. InStep(<<>>, <<>>) /\ Complete(<<>>, <<>>) /\ Ordered(0, <<>>, <<>>, 0)
        /\ Apart(<<>>, <<>>, <<>>)
    BY DEF InStep, Complete, Ordered, Apart
  <2>4. InputOrder /\ OutputWhole /\ AllApart
    BY <2>1, <2>2, <2>3 DEF InputOrder, OutputWhole, AllApart
  <2>5. WrittenOnce /\ GotOnce
    BY <2>1, <2>2 DEF WrittenOnce, WrittenTo, GotOnce
  <2> QED BY <2>4, <2>5 DEF OutputInv
<1>2. TypeInv /\ TypeInv' /\ InputOrder /\ OutputInv /\ [Next]_vars
          => InputOrder' /\ OutputInv'
  <2>1. TypeInv' => TypeOK'
    BY DEF TypeInv
  <2> QED
    BY <2>1, InputOrderStep, OutputWholeStep, WrittenOnceStep, ApartStep
    DEF OutputInv
<1> QED BY <1>1, <1>2, TypeInvariance, PTL DEF Spec

(***************************************************************************)
(* Frames that several threads write to one client, each with one call of  *)
(* write, reach it whole, and each of them once, whatever is flushed when  *)
(* and by whom (BlockingConnectionHandler.send, run).                      *)
(***************************************************************************)
THEOREM FramesWhole == Spec => []FramesStayWhole
<1>1. OutputInv => FramesStayWhole
  <2>1. \A f : Len(<<f>>) = 1
    OBVIOUS
  <2> QED BY <2>1 DEF OutputInv, GotOnce, FramesStayWhole
<1> QED BY <1>1, OutputInvariance, PTL
=============================================================================
