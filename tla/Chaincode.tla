----------------------------- MODULE Chaincode -----------------------------
(***************************************************************************)
(* The smart contract, chaincode/index.js: its functions read the world    *)
(* state of the channel, a map from hash to event, and propose writes to   *)
(* it.  An event is a record with a field hash; its other content is       *)
(* opaque to the contract.                                                 *)
(***************************************************************************)
EXTENDS Naturals, FiniteSets

CONSTANTS Hash,    \* the strings a client may use as a hash
          NoHash,  \* a missing or an empty hash
          Absent   \* what getState returns for a key nobody wrote

\* What Init leaves: the channel starts empty.
EmptyState == [h \in Hash |-> Absent]

\* The test CreateEvent makes, and createEvent of the gateway before it.
HasHash(event) == event.hash # NoHash

FaultyCreateEvent(state, event) ==
  [h \in Hash |-> IF h = event.hash THEN event ELSE Absent]

\* putState without a getState: what was stored under the hash is replaced.
CreateEvent(state, event) == [state EXCEPT ![event.hash] = event]

FaultyQueryByHash(state, hash) == {state[hash]}

\* The events QueryByHash finds; it throws when there is none.
QueryByHash(state, hash) == {state[hash]} \ {Absent}

\* getStateByRange over all the keys.
GetAllEvents(state) == {state[h] : h \in Hash} \ {Absent}

GetTotalCount(state) == Cardinality(GetAllEvents(state))
=============================================================================
