----------------------------- MODULE EventFifo -----------------------------
(***************************************************************************)
(* What an input queue promises: events are read in the order in which     *)
(* they came, each one once; when the queue is full a new event is dropped *)
(* and those that wait are kept.                                           *)
(***************************************************************************)
EXTENDS Naturals, Sequences

CONSTANTS Events, Capacity

VARIABLES
    queue,      \* events that wait to be read
    last        \* the event read last

TypeOK == queue \in Seq(Events) /\ Len(queue) <= Capacity

Init == queue = <<>> /\ last \in Events

\* An event comes, whichever it is.
Put ==
    /\ Len(queue) < Capacity
    /\ Len(queue') = Len(queue) + 1 /\ queue'[Len(queue')] \in Events
    /\ SubSeq(queue', 1, Len(queue)) = queue
    /\ UNCHANGED last

Take ==
    /\ queue # <<>>
    /\ last' = Head(queue)
    /\ queue' = Tail(queue)

Next == Take \/ Put

Spec == Init /\ [][Next]_<<queue, last>>
=============================================================================
