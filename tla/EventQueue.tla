----------------------------- MODULE EventQueue -----------------------------
(***************************************************************************)
(* What an input queue promises to its reader: events come out once each   *)
(* and in the order they went in, and one is lost only when at least Bound *)
(* others are waiting.                                                     *)
(***************************************************************************)
EXTENDS Naturals, Sequences

CONSTANTS Event, Bound

VARIABLES queue, delivered, lost

queueVars == <<queue, delivered, lost>>

QueueInit == queue = <<>> /\ delivered = <<>> /\ lost = 0

Accept ==
    /\ \E e \in Event : queue' = Append(queue, e)
    /\ UNCHANGED <<delivered, lost>>

Lose ==
    /\ Len(queue) >= Bound
    /\ lost' = lost + 1
    /\ UNCHANGED <<queue, delivered>>

Deliver ==
    /\ queue # <<>>
    /\ delivered' = Append(delivered, Head(queue))
    /\ queue' = Tail(queue)
    /\ UNCHANGED lost

QueueNext == Accept \/ Lose \/ Deliver

QueueSpec == QueueInit /\ [][QueueNext]_queueVars
=============================================================================
