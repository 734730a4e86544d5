----------------------------- MODULE SerialQueue -----------------------------
(***************************************************************************)
(* What FlatOpScheduler promises its users: the operations of one handle   *)
(* wait in a queue and are served one at a time, oldest first.             *)
(***************************************************************************)
EXTENDS Sequences

CONSTANT Ops

VARIABLES
    pending, \* operations accepted and not yet served, oldest first
    done     \* operations served, in the order they were served

vars == <<pending, done>>

Init ==
    /\ pending = <<>>
    /\ done = <<>>

Enqueue(op) ==
    /\ pending' = Append(pending, op)
    /\ UNCHANGED done

Serve ==
    /\ pending # <<>>
    /\ done' = Append(done, Head(pending))
    /\ pending' = Tail(pending)

Next ==
    \/ \E op \in Ops : Enqueue(op)
    \/ Serve

Spec == Init /\ [][Next]_vars

=============================================================================
