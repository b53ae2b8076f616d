---------------------------- MODULE SerialActors ----------------------------
(***************************************************************************)
(* What an actor thread pool promises to the code that uses it: every      *)
(* actor has a mailbox of tasks, one task of an actor runs at a time, and  *)
(* the tasks of an actor run in the order in which they were submitted.    *)
(* Tasks of different actors are unrelated.                                *)
(*                                                                         *)
(* The server relies on this promise: a connection handler is an actor,    *)
(* its tasks are the chunks read from its socket, and neither the decoder  *)
(* nor the protocol object of a connection is safe for two threads at      *)
(* once.  ActorThreadPool implements this module.                          *)
(***************************************************************************)
EXTENDS Sequences

CONSTANTS Acts,   \* the actors
          Tasks   \* the tasks that may be submitted

VARIABLES mailbox,  \* [Acts -> Seq(Tasks)], submitted and not yet started
          current,  \* [Acts -> SUBSET Tasks], the tasks that run, at most one
          halted    \* the pool was shut down

vars == <<mailbox, current, halted>>

Init ==
    /\ mailbox = [a \in Acts |-> <<>>]
    /\ current = [a \in Acts |-> {}]
    /\ halted = FALSE

Submit(a, r) ==
    /\ ~halted
    /\ mailbox' = [mailbox EXCEPT ![a] = Append(@, r)]
    /\ UNCHANGED <<current, halted>>

Start(a) ==
    /\ ~halted
    /\ current[a] = {}
    /\ mailbox[a] # <<>>
    /\ current' = [current EXCEPT ![a] = {Head(mailbox[a])}]
    /\ mailbox' = [mailbox EXCEPT ![a] = Tail(@)]
    /\ UNCHANGED halted

Finish(a) ==
    /\ current[a] # {}
    /\ current' = [current EXCEPT ![a] = {}]
    /\ UNCHANGED <<mailbox, halted>>

\* Tasks that did not start are dropped; the running ones finish.
Halt ==
    /\ ~halted
    /\ halted' = TRUE
    /\ mailbox' = [a \in Acts |-> <<>>]
    /\ UNCHANGED current

Next ==
    \/ \E a \in Acts : \E r \in Tasks : Submit(a, r)
    \/ \E a \in Acts : Start(a) \/ Finish(a)
    \/ Halt

Spec == Init /\ [][Next]_vars
=============================================================================
