----------------------------- MODULE InputQueue -----------------------------
(***************************************************************************)
(* What mieq promises the rest of the server: the events that devices      *)
(* generate reach the main thread one at a time and in order.  An event    *)
(* may be superseded while it waits, but only if it is the last one, is a  *)
(* motion, and the next event is a motion of the same device.              *)
(***************************************************************************)
EXTENDS Sequences, SequencesExt

CONSTANTS Events,       \* the events, each with a field dev and a field motion
          None

VARIABLES queue,        \* the events waiting, oldest first
          current       \* the event the main thread is busy with, or None

vars == <<queue, current>>

Init == queue = <<>> /\ current = None

Supersedes(e, old) == e.motion /\ old.motion /\ e.dev = old.dev

Enqueue(e) ==
    /\ IF queue # <<>> /\ Supersedes(e, Last(queue))
       THEN queue' = Append(Front(queue), e)
       ELSE queue' = Append(queue, e)
    /\ UNCHANGED current

Take ==
    /\ current = None
    /\ queue # <<>>
    /\ current' = Head(queue)
    /\ queue' = Tail(queue)

Finish ==
    /\ current # None
    /\ current' = None
    /\ UNCHANGED queue

Next == (\E e \in Events : Enqueue(e)) \/ Take \/ Finish

Spec == Init /\ [][Next]_vars

FairSpec == Spec /\ WF_vars(Take) /\ WF_vars(Finish)

=============================================================================
