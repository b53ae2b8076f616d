----------------------- MODULE ActorThreadPoolProofs -----------------------
(***************************************************************************)
(* Proofs about ActorThreadPool for any number of actors, submitters,      *)
(* workers and tasks.  Each invariant is proved from those before it:      *)
(* types, ownership of the monitors, the mark in playingNow, the queues.   *)
(***************************************************************************)
EXTENDS ActorThreadPool, TLAPS

(***************************************************************************)
(* Every variable keeps its type; a submitter is never at a step of        *)
(* complete, nor a worker at one of submit.                                *)
(***************************************************************************)
THEOREM TypeCorrect == Spec => []TypeOK
<1>1. Init => TypeOK
  <2> SUFFICES ASSUME Init PROVE TypeOK
    OBVIOUS
  <2>1. pending \in [Acts -> Seq(Nat)]
    BY DEF Init
  <2>2. monitor \in [Acts -> Threads \cup {None}]
    BY DEF Init
  <2>3. /\ pc \in [Threads -> SubmitterSteps \cup WorkerSteps]
        /\ \A t \in Threads : pc[t] = "idle"
    BY DEF Init, SubmitterSteps
  <2>4. act \in [Threads -> Acts \cup {None}]
    BY DEF Init
  <2>5. task \in [Threads -> Nat]
    BY DEF Init
  <2>6. /\ \A s \in Submitters : pc[s] \in SubmitterSteps
        /\ \A w \in Workers : pc[w] \in WorkerSteps
        /\ \A t \in Threads : pc[t] # "idle" => act[t] \in Acts
    BY <2>3 DEF Threads, SubmitterSteps, WorkerSteps
  <2>7. playingNow \in SUBSET Acts /\ hasQueue \in SUBSET Acts
    BY DEF Init
  <2>8. executor \in SUBSET Job /\ down \in BOOLEAN
    BY Zenon DEF Init
  <2>9. nextTask \in Nat \ {0}
    BY DEF Init
  <2> QED
    BY <2>1, <2>2, <2>3, <2>4, <2>5, <2>6, <2>7, <2>8,
       <2>9 DEF TypeOK
<1>2. TypeOK /\ [Next]_vars => TypeOK'
  <2> SUFFICES ASSUME TypeOK, [Next]_vars PROVE TypeOK'
    OBVIOUS
  <2> USE PoolAssumption DEF TypeOK, Threads, SubmitterSteps, WorkerSteps
  <2>1. ASSUME NEW s \in Submitters, NEW a \in Acts, SubmitEnter(s, a)
        PROVE  TypeOK'
    BY <2>1 DEF SubmitEnter
  <2>2. ASSUME NEW s \in Submitters, SubmitPlay(s) PROVE TypeOK'
    BY <2>2 DEF SubmitPlay, Leave, Execute, Job
  <2>3. ASSUME NEW s \in Submitters, SubmitAdd(s) PROVE TypeOK'
    BY <2>3 DEF SubmitAdd, Leave
  <2>4. ASSUME NEW t \in Threads, FindQueue(t) PROVE TypeOK'
    BY <2>4 DEF FindQueue, AfterLookup
  <2>5. ASSUME NEW t \in Threads, CreateQueue(t) PROVE TypeOK'
    BY <2>5 DEF CreateQueue, AfterLookup
  <2>6. ASSUME NEW w \in Workers, NEW j \in executor, Take(w, j) PROVE TypeOK'
    BY <2>6 DEF Take, Job
  <2>7. ASSUME NEW w \in Workers, Return(w) PROVE TypeOK'
    BY <2>7 DEF Return
  <2>8. ASSUME NEW w \in Workers, CompleteEnter(w) PROVE TypeOK'
    BY <2>8 DEF CompleteEnter
  <2>9. ASSUME NEW w \in Workers, CompleteIdle(w) PROVE TypeOK'
    BY <2>9 DEF CompleteIdle, Leave
  <2>10. ASSUME NEW w \in Workers, CompleteNext(w) PROVE TypeOK'
    BY <2>10 DEF CompleteNext, Leave, Execute, Job
  <2>11. ASSUME NEW s \in Submitters, Shutdown(s) PROVE TypeOK'
    BY <2>11 DEF Shutdown
  <2>12. CASE UNCHANGED vars
    BY <2>12 DEF vars
  <2> QED
    BY <2>1, <2>2, <2>3, <2>4, <2>5, <2>6, <2>7, <2>8, <2>9, <2>10, <2>11,
       <2>12 DEF Next, SubmitterStep, WorkerStep
<1> QED BY <1>1, <1>2, PTL DEF Spec
-----------------------------------------------------------------------------
\* Inside synchronized (act).
Holds(t) == pc[t] \in {"submit", "create", "add", "complete", "test"}

Owns == \A t \in Threads : Holds(t) => monitor[act[t]] = t

(***************************************************************************)
(* A thread inside a synchronized block owns the monitor of its actor, so  *)
(* that no two threads are inside for the same actor.                      *)
(***************************************************************************)
LEMMA Ownership == Spec => []Owns
<1>1. Init => Owns
  BY DEF Init, Owns, Holds
<1>2. TypeOK /\ Owns /\ [Next]_vars => Owns'
  <2> SUFFICES ASSUME TypeOK, Owns, [Next]_vars PROVE Owns'
    OBVIOUS
  <2> USE PoolAssumption DEF TypeOK, Threads, Owns, Holds
  <2>1. ASSUME NEW s \in Submitters, NEW a \in Acts, SubmitEnter(s, a)
        PROVE  Owns'
    BY <2>1 DEF SubmitEnter
  <2>2. ASSUME NEW s \in Submitters, SubmitPlay(s) PROVE Owns'
    BY <2>2 DEF SubmitPlay, Leave
  <2>3. ASSUME NEW s \in Submitters, SubmitAdd(s) PROVE Owns'
    BY <2>3 DEF SubmitAdd, Leave
  <2>4. ASSUME NEW t \in Threads, FindQueue(t) PROVE Owns'
    BY <2>4 DEF FindQueue, AfterLookup
  <2>5. ASSUME NEW t \in Threads, CreateQueue(t) PROVE Owns'
    BY <2>5 DEF CreateQueue, AfterLookup
  <2>6. ASSUME NEW w \in Workers, NEW j \in executor, Take(w, j) PROVE Owns'
    BY <2>6 DEF Take, Job
  <2>7. ASSUME NEW w \in Workers, Return(w) PROVE Owns'
    BY <2>7 DEF Return
  <2>8. ASSUME NEW w \in Workers, CompleteEnter(w) PROVE Owns'
    BY <2>8 DEF CompleteEnter
  <2>9. ASSUME NEW w \in Workers, CompleteIdle(w) PROVE Owns'
    BY <2>9 DEF CompleteIdle, Leave
  <2>10. ASSUME NEW w \in Workers, CompleteNext(w) PROVE Owns'
    BY <2>10 DEF CompleteNext, Leave
  <2>11. ASSUME NEW s \in Submitters, Shutdown(s) PROVE Owns'
    BY <2>11 DEF Shutdown
  <2>12. CASE UNCHANGED vars
    BY <2>12 DEF vars
  <2> QED
    BY <2>1, <2>2, <2>3, <2>4, <2>5, <2>6, <2>7, <2>8, <2>9, <2>10, <2>11,
       <2>12 DEF Next, SubmitterStep, WorkerStep
<1> QED BY <1>1, <1>2, TypeCorrect, PTL DEF Spec
-----------------------------------------------------------------------------
\* Whoever has a task in flight, or is queueing one, is marked as playing.
Marked ==
    /\ \A j \in executor : j.act \in playingNow
    /\ \A w \in Workers : Busy(w) => act[w] \in playingNow
    /\ \A s \in Submitters : pc[s] \in {"create", "add"} => act[s] \in playingNow

\* A step keeps the marks of the actors that have a task in flight.
LEMMA MarkedStep == TypeOK /\ Owns /\ Marked /\ OneAtATime /\ [Next]_vars
                        => Marked' /\ OneAtATime'
<1> SUFFICES ASSUME TypeOK, Owns, Marked, OneAtATime, [Next]_vars
             PROVE  Marked' /\ OneAtATime'
  OBVIOUS
<1> USE PoolAssumption
    DEF TypeOK, Threads, Owns, Holds, Marked, OneAtATime, Busy
<1>1. ASSUME NEW s \in Submitters, NEW a \in Acts, SubmitEnter(s, a)
      PROVE  Marked' /\ OneAtATime'
  BY <1>1 DEF SubmitEnter
<1>2. ASSUME NEW s \in Submitters, SubmitPlay(s)
      PROVE  Marked' /\ OneAtATime'
  BY <1>2 DEF SubmitPlay, Leave, Execute, Job
<1>3. ASSUME NEW s \in Submitters, SubmitAdd(s)
      PROVE  Marked' /\ OneAtATime'
  BY <1>3 DEF SubmitAdd, Leave
<1>4. ASSUME NEW t \in Threads, FindQueue(t)
      PROVE  Marked' /\ OneAtATime'
  BY <1>4 DEF FindQueue, AfterLookup, SubmitterSteps, WorkerSteps
<1>5. ASSUME NEW t \in Threads, CreateQueue(t)
      PROVE  Marked' /\ OneAtATime'
  BY <1>5 DEF CreateQueue, AfterLookup
<1>6. ASSUME NEW w \in Workers, NEW j \in executor, Take(w, j)
      PROVE  Marked' /\ OneAtATime'
  BY <1>6 DEF Take, Job
<1>7. ASSUME NEW w \in Workers, Return(w)
      PROVE  Marked' /\ OneAtATime'
  BY <1>7 DEF Return
<1>8. ASSUME NEW w \in Workers, CompleteEnter(w)
      PROVE  Marked' /\ OneAtATime'
  BY <1>8 DEF CompleteEnter
<1>9. ASSUME NEW w \in Workers, CompleteIdle(w)
      PROVE  Marked' /\ OneAtATime'
  BY <1>9 DEF CompleteIdle, Leave
<1>10. ASSUME NEW w \in Workers, CompleteNext(w)
       PROVE  Marked' /\ OneAtATime'
  BY <1>10 DEF CompleteNext, Leave, Execute, Job
<1>11. ASSUME NEW s \in Submitters, Shutdown(s)
       PROVE  Marked' /\ OneAtATime'
  BY <1>11 DEF Shutdown
<1>12. CASE UNCHANGED vars
  BY <1>12 DEF vars
<1> QED
  BY <1>1, <1>2, <1>3, <1>4, <1>5, <1>6, <1>7, <1>8, <1>9, <1>10, <1>11,
     <1>12 DEF Next, SubmitterStep, WorkerStep

(***************************************************************************)
(* No two tasks of one actor are in flight: a connection handler is never  *)
(* run by two threads of the pool.                                         *)
(***************************************************************************)
THEOREM Exclusion == Spec => [](Marked /\ OneAtATime)
<1>1. Init => Marked /\ OneAtATime
  BY DEF Init, Marked, OneAtATime, Busy, Threads
<1> QED BY <1>1, MarkedStep, TypeCorrect, Ownership, PTL DEF Spec
-----------------------------------------------------------------------------
\* A step leaves nothing marked without a task in flight.
LEMMA ExactStep ==
    TypeOK /\ Owns /\ Marked /\ OneAtATime /\ PlayingNowIsExact /\ [Next]_vars
        => PlayingNowIsExact'
<1> SUFFICES ASSUME TypeOK, Owns, Marked, OneAtATime, PlayingNowIsExact,
                    [Next]_vars
             PROVE  PlayingNowIsExact'
  OBVIOUS
<1> USE PoolAssumption
    DEF TypeOK, Threads, Owns, Holds, PlayingNowIsExact, InFlight, Busy
<1>1. ASSUME NEW s \in Submitters, NEW a \in Acts, SubmitEnter(s, a)
      PROVE  PlayingNowIsExact'
  BY <1>1 DEF SubmitEnter
<1>2. ASSUME NEW s \in Submitters, SubmitPlay(s)
      PROVE  PlayingNowIsExact'
  <2> DEFINE job == [act |-> act[s], r |-> task[s]]
  <2> SUFFICES ASSUME ~down PROVE PlayingNowIsExact'
    BY <1>2 DEF SubmitPlay
  <2>1. executor' = executor \cup {job} /\ job.act = act[s]
    BY <1>2 DEF SubmitPlay, Execute
  <2>2. \A w \in Workers : pc'[w] = pc[w] /\ act'[w] = act[w]
    BY <1>2 DEF SubmitPlay, Leave
  <2>3. \A a \in Acts : InFlight(a)' <=> InFlight(a) \/ a = act[s]
    <3> HIDE DEF job
    <3> QED BY <2>1, <2>2
  <2> QED
    BY <1>2, <2>3 DEF SubmitPlay
<1>3. ASSUME NEW s \in Submitters, SubmitAdd(s)
      PROVE  PlayingNowIsExact'
  <2>1. \A w \in Workers : pc'[w] = pc[w] /\ act'[w] = act[w]
    BY <1>3 DEF SubmitAdd, Leave
  <2>2. \A a \in Acts : InFlight(a)' <=> InFlight(a)
    BY <1>3, <2>1 DEF SubmitAdd
  <2>3. act[s] \in playingNow
    BY <1>3 DEF SubmitAdd, Marked
  <2>4. \A a \in Acts : a # act[s] => pending'[a] = pending[a]
    BY <1>3 DEF SubmitAdd
  <2> QED
    BY <1>3, <2>2, <2>3, <2>4 DEF SubmitAdd
<1>4. ASSUME NEW t \in Threads, FindQueue(t)
      PROVE  PlayingNowIsExact'
  BY <1>4 DEF FindQueue, AfterLookup, SubmitterSteps, WorkerSteps
<1>5. ASSUME NEW t \in Threads, CreateQueue(t)
      PROVE  PlayingNowIsExact'
  <2>1. \A w \in Workers : Busy(w)' <=> Busy(w)
    BY <1>5 DEF CreateQueue, AfterLookup
  <2>2. \A a \in Acts : InFlight(a)' <=> InFlight(a)
    BY <1>5, <2>1 DEF CreateQueue
  <2>3. \A a \in Acts : pending'[a] = pending[a] \/ pending'[a] = <<>>
    BY <1>5 DEF CreateQueue
  <2> QED
    BY <1>5, <2>2, <2>3 DEF CreateQueue
<1>6. ASSUME NEW w \in Workers, NEW j \in executor, Take(w, j)
      PROVE  PlayingNowIsExact'
  <2>1. \A v \in Workers : /\ Busy(v)' <=> Busy(v) \/ v = w
                           /\ act'[v] = IF v = w THEN j.act ELSE act[v]
    BY <1>6 DEF Take, Job
  <2>2. executor' = executor \ {j} /\ ~Busy(w)
    BY <1>6 DEF Take
  <2>3. ASSUME NEW a \in Acts PROVE InFlight(a)' <=> InFlight(a)
    <3>1. CASE a = j.act
      <4>1. InFlight(a)
        BY <3>1
      <4>2. InFlight(a)'
        BY <2>1, <3>1
      <4> QED BY <4>1, <4>2
    <3>2. CASE a # j.act
      <4>1. (\E k \in executor' : k.act = a) <=> (\E k \in executor : k.act = a)
        BY <2>2, <3>2
      <4>2. \A v \in Workers :
               (Busy(v)' /\ act'[v] = a) <=> (Busy(v) /\ act[v] = a)
        BY <2>1, <2>2, <3>2
      <4> QED BY <4>1, <4>2
    <3> QED BY <3>1, <3>2
  <2> QED
    BY <1>6, <2>3 DEF Take
<1>7. ASSUME NEW w \in Workers, Return(w)
      PROVE  PlayingNowIsExact'
  BY <1>7 DEF Return
<1>8. ASSUME NEW w \in Workers, CompleteEnter(w)
      PROVE  PlayingNowIsExact'
  BY <1>8 DEF CompleteEnter
<1>9. ASSUME NEW w \in Workers, CompleteIdle(w)
      PROVE  PlayingNowIsExact'
  <2>1. \A v \in Workers : /\ Busy(v)' <=> Busy(v) /\ v # w
                           /\ v # w => act'[v] = act[v]
    BY <1>9 DEF CompleteIdle, Leave
  <2>2. /\ \A j \in executor : j.act # act[w]
        /\ \A v \in Workers : Busy(v) /\ v # w => act[v] # act[w]
        /\ executor' = executor
    BY <1>9 DEF CompleteIdle, OneAtATime
  <2>3. \A a \in Acts : InFlight(a)' <=> InFlight(a) /\ a # act[w]
    BY <2>1, <2>2
  <2> QED
    BY <1>9, <2>3 DEF CompleteIdle
<1>10. ASSUME NEW w \in Workers, CompleteNext(w)
       PROVE  PlayingNowIsExact'
  <2> DEFINE job == [act |-> act[w], r |-> Head(pending[act[w]])]
  <2> SUFFICES ASSUME ~down PROVE PlayingNowIsExact'
    BY <1>10 DEF CompleteNext
  <2>1. executor' = executor \cup {job} /\ job.act = act[w]
    BY <1>10 DEF CompleteNext, Execute
  <2>2. \A v \in Workers : /\ Busy(v)' <=> Busy(v) /\ v # w
                           /\ v # w => act'[v] = act[v]
    BY <1>10 DEF CompleteNext, Leave
  <2>3. InFlight(act[w]) /\ act[w] \in Acts
    BY <1>10 DEF CompleteNext
  <2>4. \A a \in Acts : InFlight(a)' <=> InFlight(a)
    <3> HIDE DEF job
    <3> QED BY <2>1, <2>2, <2>3
  <2>5. \A a \in Acts : a # act[w] => pending'[a] = pending[a]
    BY <1>10 DEF CompleteNext
  <2> QED
    BY <1>10, <2>3, <2>4, <2>5 DEF CompleteNext
<1>11. ASSUME NEW s \in Submitters, Shutdown(s)
       PROVE  PlayingNowIsExact'
  BY <1>11 DEF Shutdown
<1>12. CASE UNCHANGED vars
  BY <1>12 DEF vars
<1> QED
  BY <1>1, <1>2, <1>3, <1>4, <1>5, <1>6, <1>7, <1>8, <1>9, <1>10, <1>11,
     <1>12 DEF Next, SubmitterStep, WorkerStep

(***************************************************************************)
(* Until the shutdown playingNow is the set of actors with a task in       *)
(* flight, and only their queues hold tasks: complete finds every task     *)
(* that submit queued.                                                     *)
(***************************************************************************)
THEOREM MarkIsExact == Spec => []PlayingNowIsExact
<1>1. Init => PlayingNowIsExact
  BY DEF Init, PlayingNowIsExact, InFlight, Busy, Threads
<1> QED
  BY <1>1, ExactStep, TypeCorrect, Ownership, Exclusion, PTL DEF Spec
-----------------------------------------------------------------------------
\* Everything about actor a is older than task n.
OlderThan(a, n) ==
    /\ \A j \in executor : j.act = a => j.r < n
    /\ \A w \in Workers : Busy(w) /\ act[w] = a => task[w] < n
    /\ \A i \in 1..Len(pending[a]) : pending[a][i] < n

\* Tasks are numbered as they are submitted, and a task on its way through
\* submit is the newest of its actor.
Newest ==
    /\ \A a \in Acts : OlderThan(a, nextTask)
    /\ \A s \in Submitters :
          pc[s] # "idle" => task[s] < nextTask /\ OlderThan(act[s], task[s])

\* A younger task at the end of a queue keeps it sorted.
LEMMA SortedAppend ==
    ASSUME NEW q \in Seq(Nat), NEW n \in Nat, Sorted(q),
           \A i \in 1..Len(q) : q[i] < n
    PROVE  Sorted(Append(q, n)) /\ \A i \in 1..Len(Append(q, n)) :
              (i \in 1..Len(q) /\ Append(q, n)[i] = q[i]) \/ Append(q, n)[i] = n
  BY DEF Sorted

\* The first task of a sorted queue is the oldest of it.
LEMMA SortedTail ==
    ASSUME NEW q \in Seq(Nat), q # <<>>, Sorted(q)
    PROVE  /\ Sorted(Tail(q))
           /\ 1 \in 1..Len(q) /\ Head(q) = q[1]
           /\ \A i \in 1..Len(Tail(q)) : /\ Tail(q)[i] = q[i + 1]
                                         /\ i + 1 \in 1..Len(q)
                                         /\ Head(q) < Tail(q)[i]
  BY DEF Sorted

\* A step keeps the order of the tasks and the youngest of them.
LEMMA OrderStep ==
    TypeOK /\ Owns /\ Marked /\ OneAtATime /\ PlayingNowIsExact
        /\ Newest /\ InSubmissionOrder /\ [Next]_vars
        => Newest' /\ InSubmissionOrder'
<1> SUFFICES ASSUME TypeOK, Owns, Marked, OneAtATime, PlayingNowIsExact,
                    Newest, InSubmissionOrder, [Next]_vars
             PROVE  Newest' /\ InSubmissionOrder'
  OBVIOUS
<1> USE PoolAssumption
    DEF TypeOK, Threads, Owns, Holds, Newest, OlderThan, InSubmissionOrder,
        Busy
<1>1. ASSUME NEW s \in Submitters, NEW a \in Acts, SubmitEnter(s, a)
      PROVE  Newest' /\ InSubmissionOrder'
  BY <1>1, SMTT(20) DEF SubmitEnter, Job
<1>2. ASSUME NEW s \in Submitters, SubmitPlay(s)
      PROVE  Newest' /\ InSubmissionOrder'
  <2> DEFINE job == [act |-> act[s], r |-> task[s]]
  <2>1. job.act = act[s] /\ job.r = task[s] /\ act[s] \in Acts /\ task[s] < nextTask
    BY <1>2 DEF SubmitPlay
  <2>2. executor' = executor \/ (executor' = executor \cup {job} /\ ~down)
    BY <1>2 DEF SubmitPlay, Execute
  <2>3. ~down => pending[act[s]] = <<>>
    BY <1>2 DEF SubmitPlay, PlayingNowIsExact
  <2>4. /\ \A t \in Threads : t # s => /\ pc'[t] = pc[t]
                                       /\ act'[t] = act[t]
                                       /\ task'[t] = task[t]
        /\ pc'[s] = "idle"
        /\ pending' = pending /\ nextTask' = nextTask
    BY <1>2 DEF SubmitPlay, Leave
  <2>5. \A u \in Submitters : u # s /\ pc[u] # "idle" => act[u] # act[s]
    BY <1>2 DEF SubmitPlay, SubmitterSteps
  <2>6. \A j \in executor' : j \in executor \/ (j = job /\ ~down)
    BY <2>2
  <2> HIDE DEF job
  <2>7. Newest'
    <3>1. \A a \in Acts : OlderThan(a, nextTask)'
      BY <2>1, <2>4, <2>6
    <3>2. ASSUME NEW u \in Submitters, pc'[u] # "idle"
          PROVE  (task[u] < nextTask /\ OlderThan(act[u], task[u]))'
      <4>1. /\ u # s /\ act'[u] = act[u] /\ task'[u] = task[u]
            /\ pc[u] # "idle" /\ act[u] # act[s]
        BY <2>4, <2>5, <3>2
      <4> QED BY <2>1, <2>4, <2>6, <4>1
    <3> QED BY <3>1, <3>2
  <2>8. InSubmissionOrder'
    <3> SUFFICES ASSUME NEW a \in Acts, NEW i \in 1..Len(pending[a]),
                        NEW j \in executor', j.act = a
                 PROVE  j.r < pending[a][i]
      BY <2>4
    <3>1. CASE j \in executor
      BY <3>1
    <3>2. CASE j = job /\ ~down
      BY <2>1, <2>3, <3>2
    <3> QED BY <2>6, <3>1, <3>2
  <2> QED BY <2>7, <2>8
<1>3. ASSUME NEW s \in Submitters, SubmitAdd(s)
      PROVE  Newest' /\ InSubmissionOrder'
  <2> DEFINE q == pending[act[s]]
  <2>1. act[s] \in Acts /\ q \in Seq(Nat) /\ task[s] \in Nat
    BY <1>3 DEF SubmitAdd
  <2>2. /\ Sorted(Append(q, task[s]))
        /\ \A i \in 1..Len(Append(q, task[s])) :
              \/ i \in 1..Len(q) /\ Append(q, task[s])[i] = q[i]
              \/ Append(q, task[s])[i] = task[s]
    BY <1>3, <2>1, SortedAppend DEF SubmitAdd
  <2>3. /\ pending'[act[s]] = Append(q, task[s])
        /\ \A a \in Acts : a # act[s] => pending'[a] = pending[a]
    BY <1>3, <2>1 DEF SubmitAdd
  <2>4. /\ \A t \in Threads : t # s => /\ pc'[t] = pc[t]
                                       /\ act'[t] = act[t]
                                       /\ task'[t] = task[t]
        /\ pc'[s] = "idle"
        /\ executor' = executor /\ nextTask' = nextTask
    BY <1>3 DEF SubmitAdd, Leave
  <2>5. \A u \in Submitters : u # s /\ pc[u] # "idle" => act[u] # act[s]
    BY <1>3 DEF SubmitAdd, SubmitterSteps
  <2>6. task[s] < nextTask /\ OlderThan(act[s], task[s])
    BY <1>3 DEF SubmitAdd
  <2>7. \A a \in Acts : \A i \in 1..Len(pending'[a]) :
            \/ i \in 1..Len(pending[a]) /\ pending'[a][i] = pending[a][i]
            \/ a = act[s] /\ pending'[a][i] = task[s]
    BY <2>2, <2>3
  <2>8. Newest'
    <3>1. \A a \in Acts : OlderThan(a, nextTask)'
      <4>1. \A w \in Workers : /\ Busy(w)' <=> Busy(w)
                               /\ act'[w] = act[w] /\ task'[w] = task[w]
        BY <2>4
      <4>2. \A a \in Acts : \A i \in 1..Len(pending'[a]) : pending'[a][i] < nextTask
        BY <2>6, <2>7
      <4> QED BY <2>4, <4>1, <4>2
    <3>2. ASSUME NEW u \in Submitters, pc'[u] # "idle"
          PROVE  (task[u] < nextTask /\ OlderThan(act[u], task[u]))'
      <4>1. /\ u # s /\ act'[u] = act[u] /\ task'[u] = task[u]
            /\ pc[u] # "idle" /\ act[u] # act[s] /\ act[u] \in Acts
        BY <2>4, <2>5, <3>2
      <4> QED BY <2>4, <2>7, <4>1
    <3> QED BY <3>1, <3>2
  <2>9. InSubmissionOrder'
    <3>1. \A a \in Acts : Sorted(pending'[a])
      BY <2>2, <2>3
    <3>2. ASSUME NEW a \in Acts, NEW i \in 1..Len(pending'[a])
          PROVE  /\ pending'[a][i] < nextTask
                 /\ \A j \in executor : j.act = a => j.r < pending'[a][i]
                 /\ \A w \in Workers :
                       Busy(w) /\ act[w] = a => task[w] < pending'[a][i]
      BY <2>6, <2>7, <3>2
    <3>3. \A w \in Workers : Busy(w)' <=> Busy(w)
      BY <2>4
    <3> QED BY <2>4, <3>1, <3>2, <3>3
  <2> QED BY <2>8, <2>9
<1>4. ASSUME NEW t \in Threads, FindQueue(t)
      PROVE  Newest' /\ InSubmissionOrder'
  BY <1>4 DEF FindQueue, AfterLookup, SubmitterSteps, WorkerSteps
<1>5. ASSUME NEW t \in Threads, CreateQueue(t)
      PROVE  Newest' /\ InSubmissionOrder'
  <2>1. \A a \in Acts : /\ Sorted(pending'[a])
                        /\ \A i \in 1..Len(pending'[a]) :
                              /\ i \in 1..Len(pending[a])
                              /\ pending'[a][i] = pending[a][i]
    <3>1. Sorted(<<>>) /\ Len(<<>>) = 0
      BY DEF Sorted
    <3>2. ASSUME NEW a \in Acts
          PROVE  pending'[a] = pending[a] \/ pending'[a] = <<>>
      BY <1>5 DEF CreateQueue
    <3>3. ASSUME NEW a \in Acts
          PROVE  /\ Sorted(pending'[a])
                 /\ \A i \in 1..Len(pending'[a]) :
                       /\ i \in 1..Len(pending[a])
                       /\ pending'[a][i] = pending[a][i]
      <4>1. CASE pending'[a] = pending[a]
        BY <4>1
      <4>2. CASE pending'[a] = <<>>
        <5>1. Sorted(pending'[a]) /\ Len(pending'[a]) = 0
          BY <3>1, <4>2
        <5>2. 1..Len(pending'[a]) = {}
          BY <5>1
        <5> QED BY <5>1, <5>2
      <4> QED BY <3>2, <4>1, <4>2
    <3> QED BY <3>3
  <2>2. /\ \A w \in Workers : Busy(w)' <=> Busy(w)
        /\ \A s \in Submitters : pc'[s] # "idle" => pc[s] # "idle"
        /\ executor' = executor /\ nextTask' = nextTask
        /\ act' = act /\ task' = task
    BY <1>5 DEF CreateQueue, AfterLookup
  <2>3. Newest'
    <3>1. ASSUME NEW a \in Acts, NEW n, OlderThan(a, n)
          PROVE  /\ \A i \in 1..Len(pending'[a]) : pending'[a][i] < n
                 /\ \A w \in Workers : Busy(w)' /\ act[w] = a => task[w] < n
      BY <2>1, <2>2, <3>1
    <3>2. /\ \A a \in Acts : OlderThan(a, nextTask)
          /\ \A s \in Submitters : pc'[s] # "idle" =>
                task[s] < nextTask /\ OlderThan(act[s], task[s]) /\ act[s] \in Acts
      BY <2>2
    <3> QED BY <2>2, <3>1, <3>2
  <2>4. InSubmissionOrder'
    BY <2>1, <2>2
  <2> QED BY <2>3, <2>4
<1>6. ASSUME NEW w \in Workers, NEW j \in executor, Take(w, j)
      PROVE  Newest' /\ InSubmissionOrder'
  BY <1>6 DEF Take, Job
<1>7. ASSUME NEW w \in Workers, Return(w)
      PROVE  Newest' /\ InSubmissionOrder'
  BY <1>7 DEF Return
<1>8. ASSUME NEW w \in Workers, CompleteEnter(w)
      PROVE  Newest' /\ InSubmissionOrder'
  BY <1>8 DEF CompleteEnter
<1>9. ASSUME NEW w \in Workers, CompleteIdle(w)
      PROVE  Newest' /\ InSubmissionOrder'
  BY <1>9 DEF CompleteIdle, Leave
<1>10. ASSUME NEW w \in Workers, CompleteNext(w)
       PROVE  Newest' /\ InSubmissionOrder'
  <2> DEFINE a == act[w]
             q == pending[a]
             job == [act |-> a, r |-> Head(q)]
  <2>1. a \in Acts /\ q \in Seq(Nat) /\ q # <<>>
    BY <1>10 DEF CompleteNext
  <2>2. /\ Sorted(Tail(q))
        /\ 1 \in 1..Len(q) /\ Head(q) = q[1]
        /\ \A i \in 1..Len(Tail(q)) : /\ Tail(q)[i] = q[i + 1]
                                      /\ i + 1 \in 1..Len(q)
                                      /\ Head(q) < Tail(q)[i]
    BY <2>1, SortedTail
  <2>3. /\ pending'[a] = Tail(q)
        /\ \A b \in Acts : b # a => pending'[b] = pending[b]
    BY <1>10, <2>1 DEF CompleteNext
  <2>4. /\ \A t \in Threads : t # w => /\ pc'[t] = pc[t]
                                       /\ act'[t] = act[t]
                                       /\ task'[t] = task[t]
        /\ pc'[w] = "idle" /\ nextTask' = nextTask
    BY <1>10 DEF CompleteNext, Leave
  <2>5. \A u \in Submitters : pc[u] # "idle" => act[u] # a
    BY <1>10 DEF CompleteNext, SubmitterSteps
  <2>6. job.act = a /\ job.r = q[1] /\ \A j \in executor' : j \in executor \/ j = job
    BY <1>10, <2>2 DEF CompleteNext, Execute
  <2> HIDE DEF job
  <2>7. \A b \in Acts : \A i \in 1..Len(pending'[b]) :
            \E k \in 1..Len(pending[b]) : pending'[b][i] = pending[b][k]
    <3>1. ASSUME NEW i \in 1..Len(Tail(q))
          PROVE  \E k \in 1..Len(q) : Tail(q)[i] = q[k]
      BY <2>2
    <3>2. ASSUME NEW b \in Acts, b # a
          PROVE  \A i \in 1..Len(pending'[b]) :
                    \E k \in 1..Len(pending[b]) : pending'[b][i] = pending[b][k]
      BY <2>3, <3>2
    <3>3. \A i \in 1..Len(pending'[a]) :
                    \E k \in 1..Len(pending[a]) : pending'[a][i] = pending[a][k]
      BY <2>3, <3>1
    <3> QED BY <3>2, <3>3
  <2>8. Newest'
    <3>1. \A b \in Acts : OlderThan(b, nextTask)'
      <4>1. q[1] < nextTask
        <5>1. OlderThan(a, nextTask)
          BY <2>1
        <5> QED BY <2>2, <5>1
      <4>2. \A j \in executor' : j.r < nextTask
        BY <2>6, <4>1 DEF Job
      <4>3. \A v \in Workers : Busy(v)' => /\ Busy(v)
                                           /\ act'[v] = act[v]
                                           /\ task'[v] = task[v]
        BY <2>4
      <4>4. ASSUME NEW b \in Acts, NEW i \in 1..Len(pending'[b])
            PROVE  pending'[b][i] < nextTask
        <5>1. PICK k \in 1..Len(pending[b]) : pending'[b][i] = pending[b][k]
          BY <2>7
        <5> QED BY <5>1
      <4>5. \A b \in Acts : \A i \in 1..Len(pending'[b]) : pending'[b][i] < nextTask
        BY <4>4
      <4>6. \A v \in Workers : Busy(v)' => task'[v] < nextTask
        BY <4>3
      <4> QED BY <2>4, <4>2, <4>5, <4>6
    <3>2. ASSUME NEW u \in Submitters, pc'[u] # "idle"
          PROVE  (task[u] < nextTask /\ OlderThan(act[u], task[u]))'
      <4>1. /\ act'[u] = act[u] /\ task'[u] = task[u]
            /\ pc[u] # "idle" /\ act[u] # a /\ act[u] \in Acts
        BY <2>4, <2>5, <3>2
      <4>2. \A v \in Workers : Busy(v)' => /\ Busy(v)
                                           /\ act'[v] = act[v]
                                           /\ task'[v] = task[v]
        BY <2>4
      <4>3. pending'[act[u]] = pending[act[u]]
        BY <2>3, <4>1
      <4> QED BY <2>4, <2>6, <4>1, <4>2, <4>3
    <3> QED BY <3>1, <3>2
  <2>9. InSubmissionOrder'
    <3>1. \A b \in Acts : Sorted(pending'[b])
      BY <2>2, <2>3
    <3>2. ASSUME NEW b \in Acts, NEW i \in 1..Len(pending'[b])
          PROVE  /\ pending'[b][i] < nextTask
                 /\ \A j \in executor' : j.act = b => j.r < pending'[b][i]
                 /\ \A v \in Workers :
                       v # w /\ Busy(v) /\ act[v] = b => task[v] < pending'[b][i]
      <4>1. CASE b = a
        BY <1>10, <2>2, <2>3, <2>6, <2>7, <4>1, SMTT(20) DEF OneAtATime, CompleteNext
      <4>2. CASE b # a
        BY <2>3, <2>6, <4>2
      <4> QED BY <4>1, <4>2
    <3> QED BY <2>4, <3>1, <3>2
  <2> QED BY <2>8, <2>9
<1>11. ASSUME NEW s \in Submitters, Shutdown(s)
       PROVE  Newest' /\ InSubmissionOrder'
  BY <1>11 DEF Shutdown
<1>12. CASE UNCHANGED vars
  BY <1>12 DEF vars
<1> QED
  BY <1>1, <1>2, <1>3, <1>4, <1>5, <1>6, <1>7, <1>8, <1>9, <1>10, <1>11,
     <1>12 DEF Next, SubmitterStep, WorkerStep

(***************************************************************************)
(* The tasks of an actor are kept in the order of the calls of submit, the *)
(* one in flight being the oldest: the chunks of a connection are decoded  *)
(* in the order in which they were read.                                   *)
(***************************************************************************)
THEOREM Order == Spec => []InSubmissionOrder
<1>1. Init => Newest /\ InSubmissionOrder
  BY DEF Init, Newest, OlderThan, InSubmissionOrder, Sorted, Busy, Threads
<1> QED
  BY <1>1, OrderStep, TypeCorrect, Ownership, Exclusion, MarkIsExact, PTL
  DEF Spec
-----------------------------------------------------------------------------
(* The refinement of SerialActors *)

\* A queue that is not in the map is empty, so creating it loses no task; only
\* calls of submit before the bound are made; a pool that is down has no job.
LookedUp ==
    /\ \A a \in Acts : a \notin hasQueue => pending[a] = <<>>
    /\ \A t \in Threads : pc[t] = "create" => act[t] \notin hasQueue
    /\ \A s \in Submitters : pc[s] # "idle" => task[s] \in 1..MaxTasks
    /\ \A s \in Submitters : pc[s] = "add" => act[s] \in hasQueue
    /\ down => executor = {}

\* A step gives no task to an actor without a queue in the map.
LEMMA LookupStep ==
    TypeOK /\ Owns /\ LookedUp /\ [Next]_vars => LookedUp'
<1> SUFFICES ASSUME TypeOK, Owns, LookedUp, [Next]_vars PROVE LookedUp'
  OBVIOUS
<1> USE PoolAssumption DEF TypeOK, Threads, Owns, Holds, LookedUp
<1>1. ASSUME NEW s \in Submitters, NEW a \in Acts, SubmitEnter(s, a)
      PROVE  LookedUp'
  BY <1>1 DEF SubmitEnter
<1>2. ASSUME NEW s \in Submitters, SubmitPlay(s) PROVE LookedUp'
  BY <1>2 DEF SubmitPlay, Leave, Execute
<1>3. ASSUME NEW s \in Submitters, SubmitAdd(s) PROVE LookedUp'
  BY <1>3 DEF SubmitAdd, Leave
<1>4. ASSUME NEW t \in Threads, FindQueue(t) PROVE LookedUp'
  BY <1>4 DEF FindQueue, AfterLookup, SubmitterSteps, WorkerSteps
<1>5. ASSUME NEW t \in Threads, CreateQueue(t) PROVE LookedUp'
  BY <1>5 DEF CreateQueue, AfterLookup, SubmitterSteps, WorkerSteps
<1>6. ASSUME NEW w \in Workers, NEW j \in executor, Take(w, j) PROVE LookedUp'
  BY <1>6 DEF Take
<1>7. ASSUME NEW w \in Workers, Return(w) PROVE LookedUp'
  BY <1>7 DEF Return
<1>8. ASSUME NEW w \in Workers, CompleteEnter(w) PROVE LookedUp'
  BY <1>8 DEF CompleteEnter
<1>9. ASSUME NEW w \in Workers, CompleteIdle(w) PROVE LookedUp'
  BY <1>9 DEF CompleteIdle, Leave
<1>10. ASSUME NEW w \in Workers, CompleteNext(w) PROVE LookedUp'
  BY <1>10 DEF CompleteNext, Leave, Execute
<1>11. ASSUME NEW s \in Submitters, Shutdown(s) PROVE LookedUp'
  BY <1>11 DEF Shutdown
<1>12. CASE UNCHANGED vars
  BY <1>12 DEF vars
<1> QED
  BY <1>1, <1>2, <1>3, <1>4, <1>5, <1>6, <1>7, <1>8, <1>9, <1>10, <1>11,
     <1>12 DEF Next, SubmitterStep, WorkerStep

\* No jobs are no tasks.
LEMMA NoJobs == TasksOf({}) = <<>>
  BY DEF TasksOf

\* The task of a job
LEMMA OneJob == ASSUME NEW j PROVE TasksOf({j}) = <<j.r>>
  BY Zenon DEF TasksOf

\* Nothing before a queue
LEMMA EmptyPrefix == ASSUME NEW q \in Seq(Nat) PROVE <<>> \o q = q
  OBVIOUS

\* Adding to the end of a queue that has others before it
LEMMA PrefixAppend ==
    ASSUME NEW p \in Seq(Nat), NEW q \in Seq(Nat), NEW n \in Nat
    PROVE  p \o Append(q, n) = Append(p \o q, n)
  OBVIOUS

\* A queue with one task before it
LEMMA PrefixOne ==
    ASSUME NEW q \in Seq(Nat), NEW n \in Nat
    PROVE  /\ <<n>> \o q # <<>>
           /\ Head(<<n>> \o q) = n
           /\ Tail(<<n>> \o q) = q
  OBVIOUS

\* A queue is its first task and the rest.
LEMMA HeadTail ==
    ASSUME NEW q \in Seq(Nat), q # <<>> PROVE <<Head(q)>> \o Tail(q) = q
  OBVIOUS

\* No worker starts or leaves a task.
SameRuns ==
    \A w \in Workers : /\ pc'[w] = "running" <=> pc[w] = "running"
                       /\ pc[w] = "running" => /\ act'[w] = act[w]
                                               /\ task'[w] = task[w]

\* The step concerns the mailbox of no actor but a.
OtherMail(a) == \A b \in Acts \ {a} : Mailbox(b)' = Mailbox(b)

OtherRuns(a) == \A b \in Acts \ {a} : Running(b)' = Running(b)

\* When the jobs and their workers stay, so does what runs.
LEMMA RunsHidden ==
    ASSUME SameRuns PROVE \A a \in Acts : Running(a)' = Running(a)
<1> SUFFICES ASSUME NEW a \in Acts PROVE Running(a)' = Running(a)
  OBVIOUS
<1> QED BY DEF SameRuns, Running

\* When the jobs and the queues stay, so do the mailboxes.
LEMMA MailHidden ==
    ASSUME executor' = executor, pending' = pending, down' = down
    PROVE  \A a \in Acts : Mailbox(a)' = Mailbox(a)
  BY DEF Mailbox, Queued

\* A step that changes no mailbox and nothing that runs is a stutter.
LEMMA NothingShows ==
    ASSUME \A a \in Acts : Mailbox(a)' = Mailbox(a), SameRuns, down' = down
    PROVE  UNCHANGED Serial!vars
<1>1. \A a \in Acts : Running(a)' = Running(a)
  BY RunsHidden
<1>2. [a \in Acts |-> Mailbox(a)'] = [a \in Acts |-> Mailbox(a)]
  OBVIOUS
<1>3. [a \in Acts |-> Running(a)'] = [a \in Acts |-> Running(a)]
  BY <1>1
<1> QED BY <1>2, <1>3 DEF Serial!vars

\* A task at the end of one mailbox is a Submit of SerialActors,
LEMMA SubmitShows ==
    ASSUME NEW a \in Acts, NEW r \in 1..MaxTasks, ~down, down' = down, SameRuns,
           Mailbox(a)' = Append(Mailbox(a), r), OtherMail(a)
    PROVE  Serial!Next
<1>1. [b \in Acts |-> Mailbox(b)']
        = [[b \in Acts |-> Mailbox(b)] EXCEPT ![a] = Append(@, r)]
  BY DEF OtherMail
<1>2. [b \in Acts |-> Running(b)'] = [b \in Acts |-> Running(b)]
  BY RunsHidden
<1>3. Serial!Submit(a, r)
  BY <1>1, <1>2 DEF Serial!Submit
<1> QED BY <1>3 DEF Serial!Next

\* the first task of a mailbox that begins to run is a Start,
LEMMA StartShows ==
    ASSUME NEW a \in Acts, NEW r, ~down, down' = down,
           Mailbox(a) # <<>>, r = Head(Mailbox(a)),
           Mailbox(a)' = Tail(Mailbox(a)), OtherMail(a),
           Running(a) = {}, Running(a)' = {r}, OtherRuns(a)
    PROVE  Serial!Next
<1>1. [b \in Acts |-> Mailbox(b)']
        = [[b \in Acts |-> Mailbox(b)] EXCEPT ![a] = Tail(@)]
  BY DEF OtherMail
<1>2. [b \in Acts |-> Running(b)']
        = [[b \in Acts |-> Running(b)] EXCEPT ![a] = {r}]
  BY DEF OtherRuns
<1>3. Serial!Start(a)
  BY <1>1, <1>2 DEF Serial!Start
<1> QED BY <1>3 DEF Serial!Next

\* and the end of what an actor runs is a Finish.
LEMMA FinishShows ==
    ASSUME NEW a \in Acts, \A b \in Acts : Mailbox(b)' = Mailbox(b), down' = down,
           Running(a) # {}, Running(a)' = {}, OtherRuns(a)
    PROVE  Serial!Next
<1>1. [b \in Acts |-> Mailbox(b)'] = [b \in Acts |-> Mailbox(b)]
  OBVIOUS
<1>2. [b \in Acts |-> Running(b)']
        = [[b \in Acts |-> Running(b)] EXCEPT ![a] = {}]
  BY DEF OtherRuns
<1>3. Serial!Finish(a)
  BY <1>1, <1>2 DEF Serial!Finish
<1> QED BY <1>3 DEF Serial!Next

\* A mailbox without a job at the executor is the queue; with one job, the job
\* comes first; after the shutdown it is empty.
LEMMA MailboxIs ==
    ASSUME NEW a \in Acts, TypeOK
    PROVE  /\ down => Mailbox(a) = <<>>
           /\ ~down /\ Queued(a) = {} => Mailbox(a) = pending[a]
           /\ \A j : ~down /\ Queued(a) = {j}
                        => Mailbox(a) = <<j.r>> \o pending[a]
<1>1. pending[a] \in Seq(Nat)
  BY DEF TypeOK
<1> QED BY <1>1, NoJobs, OneJob, EmptyPrefix DEF Mailbox

\* A mailbox is the job that is queued for an actor and what waits behind it.
LEMMA MailboxBecomes ==
    ASSUME NEW a \in Acts, TypeOK'
    PROVE  /\ down' => Mailbox(a)' = <<>>
           /\ ~down' /\ Queued(a)' = {} => Mailbox(a)' = pending'[a]
           /\ \A j : ~down' /\ Queued(a)' = {j}
                        => Mailbox(a)' = <<j.r>> \o pending'[a]
<1>1. pending'[a] \in Seq(Nat)
  BY DEF TypeOK
<1> QED BY <1>1, NoJobs, OneJob, EmptyPrefix DEF Mailbox

\* The step leaves the mailbox of an actor alone when it leaves its job at the
\* executor and its queue alone.
LEMMA MailStays ==
    ASSUME NEW a \in Acts, Queued(a)' = Queued(a), pending'[a] = pending[a],
           down' = down
    PROVE  Mailbox(a)' = Mailbox(a)
  BY DEF Mailbox

\* A step of the pool is a step of SerialActors or a stutter.
LEMMA RefinementStep ==
    TypeOK /\ TypeOK' /\ Owns /\ OneAtATime /\ Marked /\ PlayingNowIsExact
        /\ LookedUp /\ [Next]_vars => [Serial!Next]_(Serial!vars)
<1> SUFFICES ASSUME TypeOK, TypeOK', Owns, Marked, OneAtATime,
                    PlayingNowIsExact, LookedUp, [Next]_vars
             PROVE  Serial!Next \/ UNCHANGED Serial!vars
  OBVIOUS
<1> USE PoolAssumption DEF Threads
<1>1. ASSUME NEW s \in Submitters, NEW a \in Acts, SubmitEnter(s, a)
      PROVE  UNCHANGED Serial!vars
  <2>1. SameRuns
    BY <1>1 DEF SubmitEnter, SameRuns, TypeOK
  <2>2. \A b \in Acts : Mailbox(b)' = Mailbox(b)
    BY <1>1, MailHidden DEF SubmitEnter
  <2> QED BY <1>1, <2>1, <2>2, NothingShows DEF SubmitEnter
<1>2. ASSUME NEW s \in Submitters, SubmitPlay(s)
      PROVE  Serial!Next \/ UNCHANGED Serial!vars
  <2>1. /\ act[s] \in Acts /\ task[s] \in 1..MaxTasks /\ task[s] \in Nat
    BY <1>2 DEF SubmitPlay, LookedUp, TypeOK
  <2> PICK a \in Acts : a = act[s]
    BY <2>1
  <2> DEFINE job == [act |-> a, r |-> task[s]]
  <2>2. SameRuns
    BY <1>2 DEF SubmitPlay, Leave, SameRuns, TypeOK
  <2>3. CASE down
    <3>1. \A b \in Acts : Mailbox(b)' = Mailbox(b)
      BY <1>2, <2>3, MailHidden DEF SubmitPlay, Execute
    <3> QED BY <1>2, <2>2, <3>1, NothingShows DEF SubmitPlay
  <2>4. CASE ~down
    <3>1. Queued(a) = {} /\ pending[a] = <<>>
      BY <1>2, <2>1, <2>4 DEF SubmitPlay, PlayingNowIsExact, InFlight, Queued
    <3>2. Queued(a)' = {job}
      BY <1>2, <2>4, <3>1 DEF SubmitPlay, Execute, Queued
    <3>3. Mailbox(a) = <<>>
      BY <2>1, <2>4, <3>1, MailboxIs
    <3>4. Mailbox(a)' = <<task[s]>> \o <<>>
      <4>1. ~down' /\ pending'[a] = <<>> /\ job.r = task[s]
        BY <1>2, <2>4, <3>1 DEF SubmitPlay
      <4>2. Mailbox(a)' = <<job.r>> \o pending'[a]
        BY <3>2, <4>1, MailboxBecomes
      <4> QED BY <4>1, <4>2
    <3>5. Mailbox(a)' = Append(Mailbox(a), task[s])
      BY <2>1, <3>3, <3>4
    <3>6. OtherMail(a)
      <4> SUFFICES ASSUME NEW b \in Acts \ {a} PROVE Mailbox(b)' = Mailbox(b)
        BY DEF OtherMail
      <4>1. Queued(b)' = Queued(b)
        BY <1>2, <2>4 DEF SubmitPlay, Execute, Queued
      <4> QED BY <1>2, <4>1, MailStays DEF SubmitPlay
    <3> QED BY <1>2, <2>1, <2>2, <2>4, <3>5, <3>6, SubmitShows DEF SubmitPlay
  <2> QED BY <2>3, <2>4
<1>3. ASSUME NEW s \in Submitters, SubmitAdd(s)
      PROVE  Serial!Next \/ UNCHANGED Serial!vars
  <2> PICK a \in Acts : a = act[s]
    BY <1>3 DEF SubmitAdd, TypeOK
  <2>1. /\ a \in Acts /\ task[s] \in 1..MaxTasks /\ task[s] \in Nat
        /\ pending[a] \in Seq(Nat)
        /\ pending'[a] = Append(pending[a], task[s])
        /\ \A b \in Acts \ {a} : pending'[b] = pending[b]
        /\ executor' = executor /\ down' = down
    BY <1>3 DEF SubmitAdd, LookedUp, TypeOK
  <2>2. SameRuns
    BY <1>3 DEF SubmitAdd, Leave, SameRuns, TypeOK
  <2>3. \A b \in Acts : Queued(b)' = Queued(b)
    BY <2>1 DEF Queued
  <2>4. OtherMail(a)
    BY <2>1, <2>3, MailStays DEF OtherMail
  <2>5. CASE down
    <3>1. Mailbox(a)' = Mailbox(a)
      BY <2>1, <2>5, MailboxIs, MailboxBecomes
    <3> QED BY <2>1, <2>2, <2>4, <3>1, NothingShows DEF OtherMail
  <2>6. CASE ~down
    <3>2. ASSUME NEW j \in executor, Queued(a) = {j}
          PROVE  Mailbox(a)' = Append(Mailbox(a), task[s])
      <4>1. j.r \in Nat
        BY DEF TypeOK, Job
      <4>2. <<j.r>> \in Seq(Nat)
        BY <4>1
      <4>3. Mailbox(a)' = <<j.r>> \o Append(pending[a], task[s])
        <5>1. ~down' /\ Queued(a)' = {j}
          BY <2>1, <2>3, <2>6, <3>2
        <5>2. Mailbox(a)' = <<j.r>> \o pending'[a]
          BY <5>1, MailboxBecomes
        <5> QED BY <2>1, <5>2
      <4>4. Mailbox(a) = <<j.r>> \o pending[a]
        BY <2>1, <2>6, <3>2, MailboxIs
      <4>5. <<j.r>> \o Append(pending[a], task[s])
              = Append(<<j.r>> \o pending[a], task[s])
        BY <2>1, <4>2, PrefixAppend
      <4> QED BY <4>3, <4>4, <4>5
    <3>3. Mailbox(a)' = Append(Mailbox(a), task[s])
      <4>1. Queued(a) = {} \/ \E j \in executor : Queued(a) = {j}
        BY DEF Queued, OneAtATime
      <4>2. CASE Queued(a) = {}
        BY <2>1, <2>3, <2>6, <4>2, MailboxIs, MailboxBecomes
      <4> QED BY <3>2, <4>1, <4>2
    <3> QED BY <2>1, <2>2, <2>4, <2>6, <3>3, SubmitShows
  <2> QED BY <2>5, <2>6
<1>4. ASSUME NEW t \in Threads, FindQueue(t) PROVE UNCHANGED Serial!vars
  <2>1. SameRuns
    BY <1>4 DEF FindQueue, AfterLookup, SameRuns, TypeOK
  <2>2. \A b \in Acts : Mailbox(b)' = Mailbox(b)
    BY <1>4, MailHidden DEF FindQueue
  <2> QED BY <1>4, <2>1, <2>2, NothingShows DEF FindQueue
<1>5. ASSUME NEW t \in Threads, CreateQueue(t) PROVE UNCHANGED Serial!vars
  <2>1. SameRuns
    BY <1>5 DEF CreateQueue, AfterLookup, SameRuns, TypeOK
  <2>2. pending' = pending
    BY <1>5 DEF CreateQueue, LookedUp, TypeOK
  <2>3. \A b \in Acts : Mailbox(b)' = Mailbox(b)
    BY <1>5, <2>2, MailHidden DEF CreateQueue
  <2> QED BY <1>5, <2>1, <2>3, NothingShows DEF CreateQueue
<1>6. ASSUME NEW w \in Workers, NEW j \in executor, Take(w, j)
      PROVE  Serial!Next
  <2> DEFINE a == j.act
  <2>1. /\ a \in Acts /\ j.r \in Nat /\ ~down /\ down' = down
        /\ pending[a] \in Seq(Nat) /\ pending' = pending
        /\ executor' = executor \ {j}
    BY <1>6 DEF Take, LookedUp, TypeOK, Job
  <2>2. Queued(a) = {j}
    BY DEF Queued, OneAtATime
  <2>3. Queued(a)' = {}
    BY <2>1, <2>2 DEF Queued
  <2>4. Mailbox(a) = <<j.r>> \o pending[a]
    BY <2>1, <2>2, MailboxIs
  <2>5. Mailbox(a)' = pending[a]
    BY <2>1, <2>3, MailboxBecomes
  <2>6. Mailbox(a) # <<>> /\ j.r = Head(Mailbox(a)) /\ Mailbox(a)' = Tail(Mailbox(a))
    BY <2>1, <2>4, <2>5, PrefixOne
  <2>7. OtherMail(a)
    <3> SUFFICES ASSUME NEW b \in Acts \ {a} PROVE Mailbox(b)' = Mailbox(b)
      BY DEF OtherMail
    <3>1. Queued(b)' = Queued(b)
      BY <2>1 DEF Queued
    <3> QED BY <2>1, <3>1, MailStays
  <2>8. /\ pc[w] = "idle" /\ pc'[w] = "running" /\ act'[w] = a /\ task'[w] = j.r
        /\ \A v \in Workers \ {w} :
              pc'[v] = pc[v] /\ act'[v] = act[v] /\ task'[v] = task[v]
    BY <1>6 DEF Take, TypeOK
  <2>9. \A v \in Workers : ~(pc[v] = "running" /\ act[v] = a)
    BY DEF OneAtATime, Busy
  <2>10. Running(a) = {}
    BY <2>9 DEF Running
  <2>11. {v \in Workers : pc[v] = "running" /\ act[v] = a}' = {w}
    BY <2>8, <2>9
  <2>12. Running(a)' = {j.r}
    BY <2>8, <2>11 DEF Running
  <2>13. OtherRuns(a)
    <3> SUFFICES ASSUME NEW b \in Acts \ {a} PROVE Running(b)' = Running(b)
      BY DEF OtherRuns
    <3>1. \A v \in Workers : (pc'[v] = "running" /\ act'[v] = b)
                                <=> (pc[v] = "running" /\ act[v] = b)
      BY <2>8
    <3>2. \A v \in Workers : act'[v] = b => task'[v] = task[v]
      BY <2>8
    <3> QED BY <3>1, <3>2 DEF Running
  <2> QED BY <2>1, <2>6, <2>7, <2>10, <2>12, <2>13, StartShows
<1>7. ASSUME NEW w \in Workers, Return(w) PROVE Serial!Next
  <2> PICK a \in Acts : a = act[w]
    BY <1>7 DEF Return, TypeOK
  <2>1. /\ pc[w] = "running" /\ pc'[w] = "finished" /\ a \in Acts
        /\ \A v \in Workers \ {w} : pc'[v] = pc[v]
        /\ act' = act /\ task' = task /\ down' = down
    BY <1>7 DEF Return, TypeOK
  <2>2. \A b \in Acts : Mailbox(b)' = Mailbox(b)
    BY <1>7, MailHidden DEF Return
  <2>3. Running(a) # {}
    BY <2>1 DEF Running
  <2>4. \A v \in Workers : ~(pc'[v] = "running" /\ act'[v] = a)
    BY <2>1 DEF OneAtATime, Busy
  <2>5. Running(a)' = {}
    BY <2>4 DEF Running
  <2>6. OtherRuns(a)
    <3> SUFFICES ASSUME NEW b \in Acts \ {a} PROVE Running(b)' = Running(b)
      BY DEF OtherRuns
    <3>1. \A v \in Workers : (pc'[v] = "running" /\ act'[v] = b)
                                <=> (pc[v] = "running" /\ act[v] = b)
      BY <2>1
    <3> QED BY <2>1, <3>1 DEF Running
  <2> QED BY <2>1, <2>2, <2>3, <2>5, <2>6, FinishShows
<1>8. ASSUME NEW w \in Workers, CompleteEnter(w) PROVE UNCHANGED Serial!vars
  <2>1. SameRuns
    BY <1>8 DEF CompleteEnter, SameRuns, TypeOK
  <2>2. \A b \in Acts : Mailbox(b)' = Mailbox(b)
    BY <1>8, MailHidden DEF CompleteEnter
  <2> QED BY <1>8, <2>1, <2>2, NothingShows DEF CompleteEnter
<1>9. ASSUME NEW w \in Workers, CompleteIdle(w) PROVE UNCHANGED Serial!vars
  <2>1. SameRuns
    BY <1>9 DEF CompleteIdle, Leave, SameRuns, TypeOK
  <2>2. \A b \in Acts : Mailbox(b)' = Mailbox(b)
    BY <1>9, MailHidden DEF CompleteIdle
  <2> QED BY <1>9, <2>1, <2>2, NothingShows DEF CompleteIdle
<1>10. ASSUME NEW w \in Workers, CompleteNext(w) PROVE UNCHANGED Serial!vars
  <2> PICK a \in Acts : a = act[w]
    BY <1>10 DEF CompleteNext, TypeOK
  <2> DEFINE job == [act |-> a, r |-> Head(pending[a])]
  <2>1. /\ a \in Acts /\ down' = down
        /\ pending[a] \in Seq(Nat) /\ pending[a] # <<>>
        /\ pending'[a] = Tail(pending[a])
        /\ \A b \in Acts \ {a} : pending'[b] = pending[b]
        /\ executor' = IF down THEN executor ELSE executor \cup {job}
    BY <1>10 DEF CompleteNext, Execute, TypeOK
  <2>2. SameRuns
    BY <1>10 DEF CompleteNext, Leave, SameRuns, TypeOK
  <2>3. Queued(a) = {}
    BY <1>10 DEF CompleteNext, Queued, OneAtATime, Busy
  <2>4. Mailbox(a)' = Mailbox(a)
    <3>1. CASE down
      BY <2>1, <3>1, MailboxIs, MailboxBecomes
    <3>2. CASE ~down
      <4>1. Queued(a)' = {job}
        BY <2>1, <2>3, <3>2 DEF Queued
      <4>2. Mailbox(a)' = <<job.r>> \o Tail(pending[a])
        BY <2>1, <3>2, <4>1, MailboxBecomes
      <4> QED BY <2>1, <2>3, <3>2, <4>2, MailboxIs, HeadTail
    <3> QED BY <3>1, <3>2
  <2>5. \A b \in Acts \ {a} : Mailbox(b)' = Mailbox(b)
    <3> SUFFICES ASSUME NEW b \in Acts \ {a} PROVE Mailbox(b)' = Mailbox(b)
      OBVIOUS
    <3>1. Queued(b)' = Queued(b)
      BY <2>1 DEF Queued
    <3> QED BY <2>1, <3>1, MailStays
  <2> QED BY <2>1, <2>2, <2>4, <2>5, NothingShows
<1>11. ASSUME NEW s \in Submitters, Shutdown(s) PROVE Serial!Next
  <2>1. /\ ~down /\ down'
        /\ \A b \in Acts : Mailbox(b)' = <<>>
    BY <1>11, MailboxBecomes DEF Shutdown
  <2>2. SameRuns
    BY <1>11 DEF Shutdown, SameRuns
  <2>3. \A b \in Acts : Running(b)' = Running(b)
    BY <2>2, RunsHidden
  <2>4. [b \in Acts |-> Running(b)'] = [b \in Acts |-> Running(b)]
    BY <2>3
  <2>5. [b \in Acts |-> Mailbox(b)'] = [b \in Acts |-> <<>>]
    BY <2>1
  <2>6. Serial!Halt
    BY <1>11, <2>4, <2>5 DEF Shutdown, Serial!Halt
  <2> QED BY <2>6 DEF Serial!Next
<1>12. ASSUME UNCHANGED vars PROVE UNCHANGED Serial!vars
  <2>1. \A b \in Acts : Mailbox(b)' = Mailbox(b)
    BY <1>12, MailHidden DEF vars
  <2> QED BY <1>12, <2>1, NothingShows DEF vars, SameRuns
<1> QED
  BY <1>1, <1>2, <1>3, <1>4, <1>5, <1>6, <1>7, <1>8, <1>9, <1>10, <1>11,
     <1>12 DEF Next, SubmitterStep, WorkerStep

(***************************************************************************)
(* The pool implements SerialActors: every task starts at most once, in    *)
(* the order of submission, while no other task of its actor runs, and no  *)
(* task disappears before the shutdown.                                    *)
(***************************************************************************)
THEOREM Refinement == Spec => ImplementsSerialActors
<1>1. Init => LookedUp
  BY DEF Init, LookedUp, Threads
<1>2. Init => Serial!Init
  <2> SUFFICES ASSUME Init PROVE Serial!Init
    OBVIOUS
  <2>1. ASSUME NEW a \in Acts PROVE Mailbox(a) = <<>> /\ Running(a) = {}
    <3>1. Queued(a) = {} /\ pending[a] = <<>> /\ Running(a) = {}
      BY DEF Init, Queued, Running, Threads
    <3> QED BY <3>1, NoJobs, EmptyPrefix DEF Mailbox
  <2>2. [a \in Acts |-> Mailbox(a)] = [a \in Acts |-> <<>>]
    BY <2>1
  <2>3. [a \in Acts |-> Running(a)] = [a \in Acts |-> {}]
    BY <2>1
  <2> QED BY <2>2, <2>3 DEF Init, Serial!Init
<1> QED
  BY <1>1, <1>2, LookupStep, RefinementStep, TypeCorrect, Ownership, Exclusion,
     MarkIsExact, PTL DEF Spec, ImplementsSerialActors, Serial!Spec
=============================================================================
