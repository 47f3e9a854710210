---------------------------- MODULE BoundedFifo ----------------------------
(***************************************************************************)
(* What the asynchronous event queue promises its callers: a first-in      *)
(* first-out buffer of bounded capacity that can be closed once and for    *)
(* all, and that hands nothing in or out after it was closed.  There are   *)
(* no slots, indices, locks or condition variables here; AsyncQueue is     *)
(* shown to implement this.                                                *)
(***************************************************************************)
EXTENDS Naturals, Sequences

CONSTANTS Item,      \* what the queue carries
          Reader,    \* the threads that take items out
          NoItem,    \* what a reader holds before its first item
          Capacity   \* the largest number of items in the queue

VARIABLES items,     \* the contents, oldest first
          closed,    \* TRUE once the queue was shut down
          got        \* the item each reader took last

fifoVars == <<items, closed, got>>

Init == /\ items = <<>>
        /\ closed = FALSE
        /\ got = [r \in Reader |-> NoItem]

\* An item enters at the back of a queue that is open and has room.
Put(x) == /\ ~closed
          /\ Len(items) < Capacity
          /\ items' = Append(items, x)
          /\ UNCHANGED <<closed, got>>

\* A reader takes the oldest item of a queue that is open.
Take(r) == /\ ~closed
           /\ items # <<>>
           /\ items' = Tail(items)
           /\ got' = [got EXCEPT ![r] = Head(items)]
           /\ UNCHANGED closed

Close == /\ closed' = TRUE
         /\ UNCHANGED <<items, got>>

Next == \/ \E x \in Item : Put(x)
        \/ \E r \in Reader : Take(r)
        \/ Close

Spec == Init /\ [][Next]_fifoVars
=============================================================================
