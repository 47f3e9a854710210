---------------------------- MODULE MCAsyncQueue ----------------------------
EXTENDS AsyncQueue, TLC

CONSTANTS p1, p2, c1, c2, e1, e2

MCProducers == {p1, p2}
MCConsumers == {c1, c2}
MCItem == {e1, e2}

\* Threads of one kind run the same code, and events are only copied.
MCSymmetry == Permutations(MCProducers) \cup Permutations(MCConsumers)
                \cup Permutations(MCItem)
=============================================================================
