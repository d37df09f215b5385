------------------------------- MODULE SpscQueue -------------------------------
(***************************************************************************)
(* What SpscRingBuffer promises its two callers: a bounded FIFO queue.     *)
(* A push that succeeds appends one item, a pop that succeeds hands out    *)
(* the oldest item, and an item that was pushed is handed out in the end.  *)
(* How a slot is found, when a counter becomes visible to the other        *)
(* thread and when a call returns FALSE are not visible at this level.     *)
(***************************************************************************)
EXTENDS Naturals, Sequences

CONSTANTS Items,      \* what may be pushed
          Capacity,   \* at most this many items wait in the queue
          NoItem      \* nothing has been handed out yet

VARIABLES queue,      \* the waiting items, oldest first
          last        \* the item the most recent successful pop handed out

vars == <<queue, last>>

Init == queue = <<>> /\ last = NoItem

Push(item) ==
    /\ Len(queue) < Capacity
    /\ queue' = Append(queue, item)
    /\ UNCHANGED last

Pop ==
    /\ queue # <<>>
    /\ last' = Head(queue)
    /\ queue' = Tail(queue)

Next == (\E item \in Items : Push(item)) \/ Pop

Spec == Init /\ [][Next]_vars

(* The consumer keeps polling, so a waiting item is handed out.            *)
FairSpec == Spec /\ WF_vars(Pop)
================================================================================
