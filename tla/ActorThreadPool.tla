-------------------------- MODULE ActorThreadPool --------------------------
(***************************************************************************)
(* The thread pool of the reactor server, srv/ActorThreadPool.java.        *)
(*                                                                         *)
(* submit(act, r) starts r when no task of act is playing and queues it    *)
(* behind the others otherwise; a worker that returns from a task starts   *)
(* the next one of the same actor.  Both run in synchronized (act).        *)
(* pendingRunnablesOf looks the queue of an actor up under a read lock and *)
(* creates it under a write lock, in two critical sections, so they are    *)
(* two steps here.                                                         *)
(*                                                                         *)
(* A step is one critical section or one access to a concurrent            *)
(* collection; threads interleave between steps.                           *)
(***************************************************************************)
EXTENDS Naturals, Sequences, FiniteSets

CONSTANTS Acts,        \* actors (the connection handlers)
          Submitters,  \* threads that call submit (the selector thread)
          Workers,     \* threads of the fixed pool
          None,        \* no thread, no actor
          MaxTasks     \* bound: number of tasks submitted in a behaviour

Threads == Submitters \cup Workers

ASSUME PoolAssumption ==
    /\ Submitters \cap Workers = {}
    /\ None \notin Acts \cup Threads
    /\ None \notin Nat
    /\ MaxTasks \in Nat

VARIABLES
    playingNow,  \* actors that have a task in the executor or on a worker
    hasQueue,    \* keys of the map acts
    pending,     \* [Acts -> Seq(Nat)], the queues that acts maps to
    monitor,     \* [Acts -> Threads \cup {None}], owner of synchronized (act)
    executor,    \* jobs [act, r] given to threads.execute, not yet taken
    down,        \* threads.shutdownNow was called
    pc,          \* [Threads -> step a thread is at]
    act,         \* [Threads -> Acts \cup {None}], parameter act
    task,        \* [Threads -> Nat], parameter r, 0 for none
    nextTask     \* number of the next task; tasks are numbered as submitted

vars == <<playingNow, hasQueue, pending, monitor, executor, down, pc, act,
          task, nextTask>>

SubmitterSteps == {"idle", "submit", "create", "add"}
WorkerSteps == {"idle", "running", "finished", "complete", "create", "test"}

Job == [act : Acts, r : Nat]

TypeOK ==
    /\ playingNow \in SUBSET Acts
    /\ hasQueue \in SUBSET Acts
    /\ pending \in [Acts -> Seq(Nat)]
    /\ monitor \in [Acts -> Threads \cup {None}]
    /\ executor \in SUBSET Job
    /\ down \in BOOLEAN
    /\ pc \in [Threads -> SubmitterSteps \cup WorkerSteps]
    /\ \A s \in Submitters : pc[s] \in SubmitterSteps
    /\ \A w \in Workers : pc[w] \in WorkerSteps
    /\ act \in [Threads -> Acts \cup {None}]
    /\ \A t \in Threads : pc[t] # "idle" => act[t] \in Acts
    /\ task \in [Threads -> Nat]
    /\ nextTask \in Nat \ {0}

Init ==
    /\ playingNow = {}
    /\ hasQueue = {}
    /\ pending = [a \in Acts |-> <<>>]
    /\ monitor = [a \in Acts |-> None]
    /\ executor = {}
    /\ down = FALSE
    /\ pc = [t \in Threads |-> "idle"]
    /\ act = [t \in Threads |-> None]
    /\ task = [t \in Threads |-> 0]
    /\ nextTask = 1

-----------------------------------------------------------------------------
(* Helpers *)

\* t returns from the synchronized block and from the call.
Leave(t) ==
    /\ monitor' = [monitor EXCEPT ![act[t]] = None]
    /\ pc' = [pc EXCEPT ![t] = "idle"]
    /\ act' = [act EXCEPT ![t] = None]
    /\ task' = [task EXCEPT ![t] = 0]

\* threads.execute: after shutdownNow it throws, and the job is gone.
Execute(a, r) ==
    executor' = IF down THEN executor ELSE executor \cup {[act |-> a, r |-> r]}

\* Mutant: the queue is tested for emptiness by every caller.
AfterLookupTests(t) == IF t \in Threads THEN "test" ELSE "add"

\* Where the caller of pendingRunnablesOf goes on.
AfterLookup(t) == IF t \in Submitters THEN "add" ELSE "test"

-----------------------------------------------------------------------------
(* submit *)

\* Call of submit(a, nextTask), up to the entry of synchronized (act).
SubmitEnter(s, a) ==
    /\ pc[s] = "idle"
    /\ nextTask <= MaxTasks
    /\ monitor[a] = None
    /\ monitor' = [monitor EXCEPT ![a] = s]
    /\ pc' = [pc EXCEPT ![s] = "submit"]
    /\ act' = [act EXCEPT ![s] = a]
    /\ task' = [task EXCEPT ![s] = nextTask]
    /\ nextTask' = nextTask + 1
    /\ UNCHANGED <<playingNow, hasQueue, pending, executor, down>>

\* Mutant: the actor is not marked as playing.
SubmitPlayUnmarked(s) ==
    /\ pc[s] = "submit"
    /\ act[s] \notin playingNow
    /\ Execute(act[s], task[s])
    /\ Leave(s)
    /\ UNCHANGED <<playingNow, hasQueue, pending, down, nextTask>>

\* The actor does not play: mark it, hand the task to the executor, return.
SubmitPlay(s) ==
    /\ pc[s] = "submit"
    /\ act[s] \notin playingNow
    /\ playingNow' = playingNow \cup {act[s]}
    /\ Execute(act[s], task[s])
    /\ Leave(s)
    /\ UNCHANGED <<hasQueue, pending, down, nextTask>>

\* Mutant: the task goes to the head of the queue.
SubmitPush(s) ==
    /\ pc[s] = "add"
    /\ pending' = [pending EXCEPT ![act[s]] = <<task[s]>> \o @]
    /\ Leave(s)
    /\ UNCHANGED <<playingNow, hasQueue, executor, down, nextTask>>

\* The actor plays: the task goes to the end of its queue.
SubmitAdd(s) ==
    /\ pc[s] = "add"
    /\ pending' = [pending EXCEPT ![act[s]] = Append(@, task[s])]
    /\ Leave(s)
    /\ UNCHANGED <<playingNow, hasQueue, executor, down, nextTask>>

-----------------------------------------------------------------------------
(* pendingRunnablesOf *)

\* Mutant: a new queue is put without looking for one.
AlwaysCreate(t) ==
    /\ \/ pc[t] = "submit" /\ act[t] \in playingNow
       \/ pc[t] = "complete"
    /\ pc' = [pc EXCEPT ![t] = "create"]
    /\ UNCHANGED <<playingNow, hasQueue, pending, monitor, executor, down,
                   act, task, nextTask>>

\* acts.get(act), under the read lock.
FindQueue(t) ==
    /\ \/ pc[t] = "submit" /\ act[t] \in playingNow
       \/ pc[t] = "complete"
    /\ pc' = [pc EXCEPT ![t] = IF act[t] \in hasQueue THEN AfterLookup(t)
                                                     ELSE "create"]
    /\ UNCHANGED <<playingNow, hasQueue, pending, monitor, executor, down,
                   act, task, nextTask>>

\* acts.put(act, new queue), under the write lock.
CreateQueue(t) ==
    /\ pc[t] = "create"
    /\ hasQueue' = hasQueue \cup {act[t]}
    /\ pending' = [pending EXCEPT ![act[t]] = <<>>]
    /\ pc' = [pc EXCEPT ![t] = AfterLookup(t)]
    /\ UNCHANGED <<playingNow, monitor, executor, down, act, task, nextTask>>

-----------------------------------------------------------------------------
(* The workers: execute's runnable, and complete *)

\* A worker takes job j.  The executor's queue is FIFO except when a thread
\* that died of an exception is replaced, so any job may be next.
Take(w, j) ==
    /\ pc[w] = "idle"
    /\ executor' = executor \ {j}
    /\ pc' = [pc EXCEPT ![w] = "running"]
    /\ act' = [act EXCEPT ![w] = j.act]
    /\ task' = [task EXCEPT ![w] = j.r]
    /\ UNCHANGED <<playingNow, hasQueue, pending, monitor, down, nextTask>>

\* r.run() returns or throws: the finally block calls complete either way.
Return(w) ==
    /\ pc[w] = "running"
    /\ pc' = [pc EXCEPT ![w] = "finished"]
    /\ UNCHANGED <<playingNow, hasQueue, pending, monitor, executor, down,
                   act, task, nextTask>>

\* Mutant: complete is not synchronized.
CompleteUnlocked(w) ==
    /\ pc[w] = "finished"
    /\ pc' = [pc EXCEPT ![w] = "complete"]
    /\ UNCHANGED <<playingNow, hasQueue, pending, monitor, executor, down, act,
                   task, nextTask>>

\* Entry of synchronized (act) in complete.
CompleteEnter(w) ==
    /\ pc[w] = "finished"
    /\ monitor[act[w]] = None
    /\ monitor' = [monitor EXCEPT ![act[w]] = w]
    /\ pc' = [pc EXCEPT ![w] = "complete"]
    /\ UNCHANGED <<playingNow, hasQueue, pending, executor, down, act, task,
                   nextTask>>

\* Nothing is pending: the actor stops playing.
CompleteIdle(w) ==
    /\ pc[w] = "test"
    /\ pending[act[w]] = <<>>
    /\ playingNow' = playingNow \ {act[w]}
    /\ Leave(w)
    /\ UNCHANGED <<hasQueue, pending, executor, down, nextTask>>

\* Mutant: the pending task is polled and not executed.
CompleteDrops(w) ==
    /\ pc[w] = "test"
    /\ pending[act[w]] # <<>>
    /\ pending' = [pending EXCEPT ![act[w]] = Tail(@)]
    /\ Leave(w)
    /\ UNCHANGED <<playingNow, hasQueue, executor, down, nextTask>>

\* The oldest pending task goes to the executor; the actor keeps playing.
CompleteNext(w) ==
    /\ pc[w] = "test"
    /\ pending[act[w]] # <<>>
    /\ Execute(act[w], Head(pending[act[w]]))
    /\ pending' = [pending EXCEPT ![act[w]] = Tail(@)]
    /\ Leave(w)
    /\ UNCHANGED <<playingNow, hasQueue, down, nextTask>>

\* shutdown, called by the selector thread between two calls of submit:
\* shutdownNow drops the jobs that no thread has taken.
Shutdown(s) ==
    /\ pc[s] = "idle"
    /\ ~down
    /\ down' = TRUE
    /\ executor' = {}
    /\ UNCHANGED <<playingNow, hasQueue, pending, monitor, pc, act, task,
                   nextTask>>

-----------------------------------------------------------------------------
SubmitterStep(s) ==
    \/ \E a \in Acts : SubmitEnter(s, a)
    \/ SubmitPlay(s)
    \/ SubmitAdd(s)
    \/ FindQueue(s)
    \/ CreateQueue(s)
    \/ Shutdown(s)

WorkerStep(w) ==
    \/ \E j \in executor : Take(w, j)
    \/ Return(w)
    \/ CompleteEnter(w)
    \/ FindQueue(w)
    \/ CreateQueue(w)
    \/ CompleteIdle(w)
    \/ CompleteNext(w)

Next ==
    \/ \E s \in Submitters : SubmitterStep(s)
    \/ \E w \in Workers : WorkerStep(w)

Spec == Init /\ [][Next]_vars

\* A started call and a started task make progress, a job at the executor is
\* not passed over for ever (its queue is FIFO), and a worker that waits for a
\* monitor gets it when it is released again and again.  Nothing obliges a
\* submitter to call submit or shutdown.
Fairness ==
    /\ \A s \in Submitters :
          WF_vars(SubmitPlay(s) \/ SubmitAdd(s) \/ FindQueue(s) \/ CreateQueue(s))
    /\ \A w \in Workers :
          /\ WF_vars(Return(w) \/ FindQueue(w) \/ CreateQueue(w)
                       \/ CompleteIdle(w) \/ CompleteNext(w))
          /\ SF_vars(CompleteEnter(w))
    /\ \A r \in 1..MaxTasks :
          SF_vars(\E w \in Workers : \E j \in executor : j.r = r /\ Take(w, j))

FairSpec == Spec /\ Fairness

-----------------------------------------------------------------------------
(* Properties *)

Busy(w) == pc[w] # "idle"
\* The in-flight task of an actor: at the executor or on a worker.
InFlight(a) == \/ \E j \in executor : j.act = a
               \/ \E w \in Workers : Busy(w) /\ act[w] = a

\* An actor never has two tasks in flight, whatever the interleaving of
\* submit and complete: no two workers run the same connection handler.
OneAtATime ==
    /\ \A j, k \in executor : j.act = k.act => j = k
    /\ \A v, w \in Workers : Busy(v) /\ Busy(w) /\ act[v] = act[w] => v = w
    /\ \A w \in Workers : \A j \in executor : Busy(w) => act[w] # j.act

\* playingNow, which submit trusts, says exactly which actors have a task in
\* flight, and a queue with tasks in it belongs to such an actor: no task
\* waits in a queue that nobody will look at again.
PlayingNowIsExact ==
    ~down => \A a \in Acts : /\ a \in playingNow <=> InFlight(a)
                             /\ pending[a] # <<>> => InFlight(a)

Sorted(q) == \A i, k \in 1..Len(q) : i < k => q[i] < q[k]

\* The queue of an actor holds its tasks in the order of the submit calls, and
\* the task in flight is older than all of them.
InSubmissionOrder ==
    \A a \in Acts :
        /\ Sorted(pending[a])
        /\ \A i \in 1..Len(pending[a]) :
              /\ pending[a][i] < nextTask
              /\ \A j \in executor : j.act = a => j.r < pending[a][i]
              /\ \A w \in Workers :
                    Busy(w) /\ act[w] = a => task[w] < pending[a][i]

\* What the pool promises: the mailbox of an actor is its job at the executor,
\* if there is one, followed by its queue; the tasks that run are on workers.
Queued(a) == {j \in executor : j.act = a}

TasksOf(jobs) == IF jobs = {} THEN <<>> ELSE <<(CHOOSE j \in jobs : TRUE).r>>

Mailbox(a) == IF down THEN <<>> ELSE TasksOf(Queued(a)) \o pending[a]

Running(a) == {task[w] : w \in {v \in Workers : pc[v] = "running" /\ act[v] = a}}

Serial == INSTANCE SerialActors WITH
    Tasks <- 1..MaxTasks,
    mailbox <- [a \in Acts |-> Mailbox(a)],
    current <- [a \in Acts |-> Running(a)],
    halted <- down

\* The pool implements serial actors: one task of an actor at a time, in the
\* order of submission, none lost before the shutdown.
ImplementsSerialActors == Serial!Spec

\* Every task that was submitted runs, unless the pool is shut down.
SubmittedTaskRuns ==
    \A r \in 1..MaxTasks :
        (\E s \in Submitters : pc[s] = "submit" /\ task[s] = r)
            ~> (down \/ \E w \in Workers : pc[w] = "running" /\ task[w] = r)
=============================================================================
