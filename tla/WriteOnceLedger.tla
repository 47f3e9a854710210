-------------------------- MODULE WriteOnceLedger --------------------------
(***************************************************************************)
(* What the blockchain promises the auditor (README.md:3-4): events are    *)
(* stored under their hash, and what is stored never changes or vanishes.  *)
(***************************************************************************)
CONSTANTS Hash,    \* the keys
          Event,   \* what can be stored
          Absent   \* the content of a key nothing was stored under

VARIABLE state     \* state[h]: the event stored under h

Init == state = [h \in Hash |-> Absent]

Store(h, e) == /\ state[h] = Absent
               /\ state' = [state EXCEPT ![h] = e]

Next == \E h \in Hash, e \in Event : Store(h, e)

Spec == Init /\ [][Next]_state
=============================================================================
