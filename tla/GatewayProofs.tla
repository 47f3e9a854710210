--------------------------- MODULE GatewayProofs ---------------------------
(***************************************************************************)
(* Theorems about Gateway, for any finite set of hashes, any requests and  *)
(* any events.  Those about the ledger assume that two different events    *)
(* are never posted under the same hash.                                   *)
(***************************************************************************)
EXTENDS Gateway, TLAPS, FiniteSetTheorems

\* Auditors hash what they post: the hash determines the event.
HashDeterminesEvent ==
  \A e, f \in Posted : HasHash(e) /\ e.hash = f.hash => e = f

\* The requests whose transaction was endorsed, or will be.
Submitting(r) == \/ phase[r] \in {"endorse", "submit", "commit"}
                 \/ r \in sent
                 \/ \E i \in 1 .. Len(ordered) : ordered[i] = r

\* A request that is not idle was made on one of the routes.
ReceivedCall == \A r \in Request : phase[r] # "idle" => call[r] \in Call

(* Only createEvent submits transactions, and its request is not idle, so  *)
(* that its body never changes again.                                      *)
SubmitsEvents ==
  \A r \in Request : Submitting(r) => /\ phase[r] # "idle"
                                      /\ call[r].body \in Posted
                                      /\ HasHash(call[r].body)

\* What the ledger holds, and what the peer returned, is stored under its hash.
StoredUnderHash == \A h \in Hash : state[h] # Absent => state[h].hash = h

ResultsStored == \A r \in Request : /\ \A e \in result[r] : e.hash \in Hash
                                    /\ IsFiniteSet(result[r])

\* A 201 is only given for a committed transaction, and the handler is over.
CreatedIsCommitted ==
  \A r \in Request : answer[r].status = 201 => phase[r] # "idle" /\ IsCommitted(r)

\* Everything that was committed is, still, in the world state.
CommittedIsStored ==
  \A i \in 1 .. committed : /\ HasHash(call[ordered[i]].body)
                            /\ state[call[ordered[i]].body.hash] = call[ordered[i]].body

\* The inductive invariant that needs no assumption on the hashes.
IInv == /\ TypeOK
        /\ ReceivedCall
        /\ SubmitsEvents
        /\ StoredUnderHash
        /\ ResultsStored
        /\ CreatedIsCommitted

-----------------------------------------------------------------------------
LEMMA PostedHash == \A e \in Posted : HasHash(e) => e.hash \in Hash
BY GatewayAssumption DEF HasHash

LEMMA StatusType ==
  ASSUME NEW code \in {0, 200, 201, 400, 404, 422, 500, 503}
  PROVE  Status(code) \in Answer /\ Status(code).status = code
BY DEF Status, Answer

LEMMA ErrorType == \A c : ErrorAnswer(c) \in Answer /\ ErrorAnswer(c).status # 201
<1> SUFFICES ASSUME NEW c PROVE ErrorAnswer(c) \in Answer /\ ErrorAnswer(c).status # 201
  OBVIOUS
<1>1. ErrorAnswer(c) \in {Status(422), Status(404), Status(200), Status(500)}
  BY DEF ErrorAnswer
<1>2. QED
  BY <1>1, StatusType

LEMMA ReadAnswerType ==
  ASSUME NEW c, NEW events \in SUBSET Posted, IsFiniteSet(events),
         \A e \in events : e.hash \in Hash
  PROVE  ReadAnswer(c, events) \in Answer /\ ReadAnswer(c, events).status # 201
<1>1. Cardinality(events) \in Int
  BY FS_CardinalityType
<1>2. HashesOf(events) \in SUBSET Hash /\ FailedHashes(events) \in SUBSET Hash
  BY DEF HashesOf, FailedHashes
<1>3. QED
  BY <1>1, <1>2 DEF ReadAnswer, Answer

\* What the chaincode returns was stored, and is a finite set.
LEMMA EvaluatedType ==
  ASSUME TypeOK, StoredUnderHash, NEW c \in Call
  PROVE  /\ Evaluated(c) \in SUBSET Posted
         /\ \A e \in Evaluated(c) : e.hash \in Hash
         /\ IsFiniteSet(Evaluated(c))
<1>1. CASE c.route = "query"
  <2>1. c.body \in Hash
    BY <1>1 DEF Call
  <2>2. Evaluated(c) = {state[c.body]} \ {Absent}
    BY <1>1 DEF Evaluated, QueryByHash
  <2>3. IsFiniteSet({state[c.body]})
    BY FS_Singleton
  <2>4. IsFiniteSet(Evaluated(c))
    BY <2>2, <2>3, FS_Difference
  <2>5. QED
    BY <2>1, <2>2, <2>4 DEF TypeOK, StoredUnderHash
<1>2. CASE c.route # "query"
  <2> DEFINE Values == {state[h] : h \in Hash}
  <2>1. Evaluated(c) = Values \ {Absent}
    BY <1>2 DEF Evaluated, GetAllEvents
  <2>2. state \in Surjection(Hash, Values)
    BY DEF TypeOK, Surjection
  <2>3. IsFiniteSet(Values)
    BY <2>2, GatewayAssumption, FS_Surjection
  <2>4. IsFiniteSet(Evaluated(c))
    BY <2>1, <2>3, FS_Difference
  <2>5. QED
    BY <2>1, <2>4 DEF TypeOK, StoredUnderHash
<1>3. QED
  BY <1>1, <1>2
-----------------------------------------------------------------------------
(* The invariant, one action at a time.                                    *)

\* Only the handler of r moves.
Moves(r) == /\ phase' \in [Request -> Phase]
            /\ answer' \in [Request -> Answer]
            /\ \A q \in Request \ {r} : phase'[q] = phase[q] /\ answer'[q] = answer[q]

LEMMA EnterEffect ==
  ASSUME TypeOK, NEW r \in Request, NEW p \in Phase, Enter(r, p)
  PROVE  Moves(r) /\ phase'[r] = p /\ answer'[r] = answer[r]
BY DEF TypeOK, Enter, Moves

LEMMA RespondEffect ==
  ASSUME TypeOK, NEW r \in Request, NEW a \in Answer, Respond(r, a)
  PROVE  Moves(r) /\ phase'[r] = "answered" /\ answer'[r] = a
<1>1. "answered" \in Phase
  BY DEF Phase
<1>2. QED
  BY <1>1 DEF TypeOK, Respond, Moves

LEMMA ReceiveStep ==
  ASSUME IInv, NEW r \in Request, NEW c \in Call, Receive(r, c)
  PROVE  IInv'
<1> USE DEF IInv
<1>1. /\ phase[r] = "idle" /\ ~Submitting(r)
      /\ call' = [call EXCEPT ![r] = c]
      /\ UNCHANGED <<healthy, result, sent, ordered, committed, state>>
  BY DEF Receive, SubmitsEvents, fabricVars
<1>2. known' \in [Request -> SUBSET Hash]
  BY DEF TypeOK, Receive, Shown, Answer
<1>3. /\ Moves(r)
      /\ phase'[r] \in {"endorse", "evaluate", "answered"}
      /\ phase'[r] = "endorse" => c.body \in Posted /\ HasHash(c.body)
      /\ answer'[r].status # 201
  <2>1. answer[r].status # 201
    BY <1>1 DEF CreatedIsCommitted
  <2>2. CASE \E code \in {200, 400, 422, 503} : Respond(r, Status(code))
    BY <2>2, RespondEffect, StatusType
  <2>3. CASE Enter(r, "evaluate")
    BY <2>1, <2>3, EnterEffect DEF Phase, Awaiting
  <2>4. CASE c.route = "create" /\ c.body # Malformed /\ HasHash(c.body) /\ Enter(r, "endorse")
    BY <2>1, <2>4, EnterEffect DEF Phase, Awaiting, Call
  <2>5. QED
    BY <2>2, <2>3, <2>4 DEF Receive, CreateEventStarts, ReadStarts
<1>4. TypeOK'
  BY <1>1, <1>2, <1>3 DEF TypeOK, Moves
<1>5. SubmitsEvents'
  <2> SUFFICES ASSUME NEW q \in Request, Submitting(q)'
               PROVE  phase'[q] # "idle" /\ call'[q].body \in Posted /\ HasHash(call'[q].body)
    BY DEF SubmitsEvents, HasHash
  <2>1. CASE q = r
    BY <1>1, <1>3, <2>1 DEF Submitting, TypeOK
  <2>2. CASE q # r
    BY <1>1, <1>3, <2>2 DEF Submitting, SubmitsEvents, Moves, TypeOK
  <2>3. QED
    BY <2>1, <2>2
<1>6. StoredUnderHash' /\ ResultsStored' /\ ReceivedCall'
  BY <1>1, <1>3 DEF StoredUnderHash, ResultsStored, ReceivedCall, Moves, TypeOK
<1>7. CreatedIsCommitted'
  BY <1>1, <1>3 DEF CreatedIsCommitted, IsCommitted, Moves
<1>8. QED
  BY <1>4, <1>5, <1>6, <1>7

\* What the steps of a handler have in common.
LEMMA HandlerStep ==
  ASSUME IInv, NEW r \in Request, phase[r] \in Awaiting, Moves(r),
         UNCHANGED <<healthy, call, known, ordered, committed, state>>,
         sent' \in {sent, sent \cup {r}},
         Submitting(r)' => Submitting(r),
         result' \in [Request -> SUBSET Posted], ResultsStored',
         phase'[r] # "idle",
         answer'[r].status = 201 => answer[r].status = 201 \/ IsCommitted(r)
  PROVE  IInv'
<1> USE DEF IInv
<1>1. TypeOK'
  BY DEF TypeOK, Moves
<1>2. \A q \in Request : Submitting(q)' => Submitting(q)
  BY DEF Submitting, Moves
<1>3. \A q \in Request : phase[q] # "idle" => phase'[q] # "idle"
  BY DEF Moves
<1>4. SubmitsEvents'
  BY <1>2, <1>3 DEF SubmitsEvents, HasHash
<1>5. StoredUnderHash' /\ ReceivedCall'
  BY DEF StoredUnderHash, ReceivedCall, Moves, Awaiting
<1>6. CreatedIsCommitted'
  <2>1. \A q \in Request : IsCommitted(q)' <=> IsCommitted(q)
    BY DEF IsCommitted
  <2>2. phase[r] # "idle"
    BY DEF Awaiting
  <2>3. QED
    BY <1>3, <2>1, <2>2 DEF CreatedIsCommitted, Moves
<1>7. QED
  BY <1>1, <1>4, <1>5, <1>6

LEMMA HandleStep ==
  ASSUME IInv, NEW r \in Request, Handle(r)
  PROVE  IInv'
<1> USE DEF IInv
<1>0. Awaiting \subseteq Phase /\ \A p \in Awaiting : p # "idle"
  BY DEF Phase, Awaiting
<1>1. CASE Endorse(r)
  <2>1. Moves(r) /\ phase'[r] = "submit" /\ answer'[r] = answer[r]
    BY <1>1, EnterEffect DEF Endorse, Phase, Awaiting
  <2>2. /\ phase[r] = "endorse" /\ sent' = sent \cup {r}
        /\ UNCHANGED <<healthy, call, result, known, ordered, committed, state>>
    BY <1>1 DEF Endorse
  <2>3. Submitting(r)
    BY <2>2 DEF Submitting
  <2>4. ResultsStored' /\ result' \in [Request -> SUBSET Posted]
    BY <2>2 DEF ResultsStored, TypeOK
  <2>5. phase[r] \in Awaiting
    BY <2>2 DEF Awaiting
  <2>6. QED
    BY <2>1, <2>2, <2>3, <2>4, <2>5, HandlerStep
<1>2. CASE Submitted(r)
  <2>1. Moves(r) /\ phase'[r] = "commit" /\ answer'[r] = answer[r]
    BY <1>2, EnterEffect DEF Submitted, Phase, Awaiting
  <2>2. /\ phase[r] = "submit"
        /\ UNCHANGED <<healthy, call, result, known, sent, ordered, committed, state>>
    BY <1>2 DEF Submitted, fabricVars
  <2>3. Submitting(r)
    BY <2>2 DEF Submitting
  <2>4. ResultsStored' /\ result' \in [Request -> SUBSET Posted]
    BY <2>2 DEF ResultsStored, TypeOK
  <2>5. phase[r] \in Awaiting
    BY <2>2 DEF Awaiting
  <2>6. QED
    BY <2>1, <2>2, <2>3, <2>4, <2>5, HandlerStep
<1>3. CASE CommitStatus(r)
  <2> DEFINE a == [Status(201) EXCEPT !.seen = {call[r].body.hash}]
  <2>1. /\ phase[r] = "commit" /\ IsCommitted(r) /\ Respond(r, a)
        /\ UNCHANGED <<healthy, call, result, known, sent, ordered, committed, state>>
    BY <1>3 DEF CommitStatus, fabricVars
  <2>2. Submitting(r)
    BY <2>1 DEF Submitting
  <2>3. {call[r].body.hash} \in SUBSET Hash
    BY <2>2, PostedHash DEF SubmitsEvents
  <2>4. a = [status |-> 201, seen |-> {call[r].body.hash}, failed |-> {}, events |-> -1]
    BY DEF Status
  <2>5. a \in Answer
    BY <2>3, <2>4 DEF Answer
  <2>6. Moves(r) /\ phase'[r] = "answered"
    BY <2>1, <2>5, RespondEffect
  <2>7. ResultsStored' /\ result' \in [Request -> SUBSET Posted]
    BY <2>1 DEF ResultsStored, TypeOK
  <2>8. phase[r] \in Awaiting
    BY <2>1 DEF Awaiting
  <2>9. QED
    BY <2>1, <2>2, <2>6, <2>7, <2>8, HandlerStep
<1>4. CASE Evaluate(r)
  <2>1. /\ phase[r] = "evaluate" /\ Enter(r, "read")
        /\ result' = [result EXCEPT ![r] = Evaluated(call[r])]
        /\ UNCHANGED <<healthy, call, known, sent, ordered, committed, state>>
    BY <1>4 DEF Evaluate, fabricVars
  <2>2. Moves(r) /\ phase'[r] = "read" /\ answer'[r] = answer[r]
    BY <2>1, EnterEffect DEF Phase, Awaiting
  <2>3. call[r] \in Call
    BY <2>1, <1>0 DEF TypeOK, ReceivedCall
  <2>4. /\ Evaluated(call[r]) \in SUBSET Posted
        /\ \A e \in Evaluated(call[r]) : e.hash \in Hash
        /\ IsFiniteSet(Evaluated(call[r]))
    BY <2>3, EvaluatedType
  <2>5. ResultsStored' /\ result' \in [Request -> SUBSET Posted]
    BY <2>1, <2>4 DEF ResultsStored, TypeOK
  <2>6. Submitting(r)' => Submitting(r)
    BY <2>1, <2>2 DEF Submitting
  <2>7. phase[r] \in Awaiting
    BY <2>1 DEF Awaiting
  <2>8. QED
    BY <2>1, <2>2, <2>5, <2>6, <2>7, HandlerStep
<1>5. CASE ReadReply(r) \/ CallFails(r)
  <2>1. /\ phase[r] \in Awaiting
        /\ UNCHANGED <<healthy, call, result, known, sent, ordered, committed, state>>
    BY <1>5 DEF ReadReply, CallFails, TimesOut, Awaiting, fabricVars
  <2>2. PICK a \in Answer : Respond(r, a) /\ a.status # 201
    <3>1. /\ ReadAnswer(call[r], result[r]) \in Answer
          /\ ReadAnswer(call[r], result[r]).status # 201
      <4>1. /\ result[r] \in SUBSET Posted
            /\ IsFiniteSet(result[r])
            /\ \A e \in result[r] : e.hash \in Hash
        BY DEF ResultsStored, TypeOK
      <4>2. QED
        BY <4>1, ReadAnswerType
    <3>2. QED
      BY <1>5, <3>1, ErrorType DEF ReadReply, CallFails
  <2>3. Moves(r) /\ phase'[r] = "answered" /\ answer'[r].status # 201
    BY <2>2, RespondEffect
  <2>4. ResultsStored' /\ result' \in [Request -> SUBSET Posted]
    BY <2>1 DEF ResultsStored, TypeOK
  <2>5. Submitting(r)' => Submitting(r)
    BY <2>1, <2>3 DEF Submitting
  <2>6. QED
    BY <2>1, <2>3, <2>4, <2>5, HandlerStep
<1>6. QED
  BY <1>1, <1>2, <1>3, <1>4, <1>5 DEF Handle

LEMMA OrderStep ==
  ASSUME IInv, NEW r \in Request, Order(r)
  PROVE  IInv'
<1> USE DEF IInv, TypeOK
<1>1. /\ ordered' \in Seq(Request) /\ Len(ordered') = Len(ordered) + 1
      /\ ordered'[Len(ordered) + 1] = r
      /\ \A i \in 1 .. Len(ordered) : ordered'[i] = ordered[i]
      /\ r \in sent /\ sent' = sent \ {r}
      /\ UNCHANGED <<healthy, gatewayVars, committed, state>>
  BY DEF Order
<1>2. TypeOK'
  BY <1>1 DEF gatewayVars
<1>3. \A q \in Request : Submitting(q)' => Submitting(q)
  BY <1>1 DEF Submitting, gatewayVars
<1>4. SubmitsEvents' /\ StoredUnderHash' /\ ResultsStored' /\ ReceivedCall'
  BY <1>1, <1>3 DEF SubmitsEvents, HasHash, StoredUnderHash, ResultsStored, ReceivedCall,
                    gatewayVars
<1>5. CreatedIsCommitted'
  <2>1. committed' = committed /\ \A i \in 1 .. committed : ordered'[i] = ordered[i]
    BY <1>1
  <2>2. \A q \in Request : IsCommitted(q)' <=> IsCommitted(q)
    BY <2>1 DEF IsCommitted
  <2>3. QED
    BY <1>1, <2>2 DEF CreatedIsCommitted, gatewayVars
<1>6. QED
  BY <1>2, <1>4, <1>5

\* The event the peer commits next, and what this does to the world state.
LEMMA CommitFacts ==
  ASSUME IInv, PeerCommits
  PROVE  LET e == call[ordered[committed + 1]].body
         IN  /\ e \in Posted /\ HasHash(e) /\ e.hash \in Hash
             /\ state' = [state EXCEPT ![e.hash] = e]
<1>1. ordered[committed + 1] \in Request /\ Submitting(ordered[committed + 1])
  BY DEF IInv, TypeOK, PeerCommits, Submitting
<1>2. QED
  BY <1>1, PostedHash DEF IInv, SubmitsEvents, PeerCommits, CreateEvent

LEMMA PeerCommitsStep ==
  ASSUME IInv, PeerCommits
  PROVE  IInv'
<1> USE DEF IInv, TypeOK
<1>1. committed' = committed + 1 /\ committed < Len(ordered)
      /\ UNCHANGED <<healthy, gatewayVars, sent, ordered>>
  BY DEF PeerCommits
<1>2. TypeOK'
  BY <1>1, CommitFacts DEF gatewayVars
<1>3. StoredUnderHash'
  BY CommitFacts DEF StoredUnderHash
<1>4. SubmitsEvents' /\ ResultsStored' /\ ReceivedCall'
  BY <1>1 DEF SubmitsEvents, HasHash, Submitting, ResultsStored, ReceivedCall, gatewayVars
<1>5. CreatedIsCommitted'
  BY <1>1 DEF CreatedIsCommitted, IsCommitted, gatewayVars
<1>6. QED
  BY <1>2, <1>3, <1>4, <1>5

LEMMA RestartStep ==
  ASSUME IInv, GatewayRestarts
  PROVE  IInv'
BY DEF IInv, TypeOK, GatewayRestarts, ReceivedCall, SubmitsEvents, HasHash, Submitting, StoredUnderHash,
       ResultsStored, CreatedIsCommitted, IsCommitted, Phase, Awaiting, fabricVars

LEMMA Invariance == Spec => []IInv
<1>1. Init => IInv
  <2> SUFFICES ASSUME Init PROVE IInv
    OBVIOUS
  <2>1. TypeOK
    BY StatusType, GatewayAssumption DEF Init, TypeOK, EmptyState, Phase
  <2>2. IsFiniteSet({})
    BY FS_EmptySet
  <2>3. QED
    BY <2>1, <2>2, StatusType DEF Init, IInv, ReceivedCall, SubmitsEvents, HasHash, Submitting, StoredUnderHash,
       ResultsStored, CreatedIsCommitted, EmptyState
<1>2. IInv /\ [Next]_vars => IInv'
  <2>1. IInv /\ UNCHANGED vars => IInv'
    BY DEF IInv, TypeOK, ReceivedCall, SubmitsEvents, HasHash, Submitting, StoredUnderHash,
           ResultsStored, CreatedIsCommitted, IsCommitted, vars, gatewayVars, fabricVars
  <2>2. QED
    BY <2>1, ReceiveStep, HandleStep, OrderStep, PeerCommitsStep, RestartStep DEF Next
<1>3. QED
  BY <1>1, <1>2, PTL DEF Spec

-----------------------------------------------------------------------------
(* The gateway, the channel and the ledger keep their types.               *)
THEOREM TypeCorrect == Spec => []TypeOK
<1>1. IInv => TypeOK
  BY DEF IInv
<1>2. QED
  BY <1>1, Invariance, PTL

(* The ledger is written once per hash, however requests, retries,         *)
(* deadlines and restarts interleave.                                      *)
THEOREM LedgerIsWrittenOnce == ASSUME HashDeterminesEvent PROVE Spec => WrittenOnce
<1>1. Init => Ledger!Init
  BY DEF Init, Ledger!Init, EmptyState
<1>2. IInv /\ [Next]_vars => [Ledger!Next]_state
  <2> SUFFICES ASSUME IInv, [Next]_vars PROVE [Ledger!Next]_state
    OBVIOUS
  <2>1. CASE PeerCommits
    <3> DEFINE e == call[ordered[committed + 1]].body
    <3>1. e \in Posted /\ HasHash(e) /\ e.hash \in Hash /\ state' = [state EXCEPT ![e.hash] = e]
      BY <2>1, CommitFacts
    <3> HIDE DEF e
    <3>2. CASE state[e.hash] = Absent
      BY <3>1, <3>2 DEF Ledger!Next, Ledger!Store
    <3>3. CASE state[e.hash] # Absent
      <4>1. state[e.hash] \in Posted /\ state[e.hash].hash = e.hash
        BY <3>1, <3>3 DEF IInv, TypeOK, StoredUnderHash
      <4>2. state[e.hash] = e
        BY <3>1, <4>1 DEF HashDeterminesEvent
      <4>3. QED
        BY <3>1, <4>2 DEF IInv, TypeOK
    <3>4. QED
      BY <3>2, <3>3
  <2>2. CASE ~PeerCommits
    BY <2>2 DEF Next, Receive, Handle, Endorse, Submitted, CommitStatus, Evaluate, ReadReply,
                CallFails, Order, GatewayRestarts, vars, fabricVars
  <2>3. QED
    BY <2>1, <2>2
<1>3. QED
  BY <1>1, <1>2, Invariance, PTL DEF Spec, WrittenOnce, Ledger!Spec

(* An event that was answered 201 is, and stays, on the ledger.            *)
THEOREM CreatedAlwaysStored == ASSUME HashDeterminesEvent PROVE Spec => []CreatedIsStored
<1>1. Init => CommittedIsStored
  BY DEF Init, CommittedIsStored
<1>2. IInv /\ CommittedIsStored /\ [Next]_vars => CommittedIsStored'
  <2> SUFFICES ASSUME IInv, CommittedIsStored, [Next]_vars PROVE CommittedIsStored'
    OBVIOUS
  <2> USE DEF IInv, TypeOK
  <2>0. \A i \in 1 .. committed : ordered[i] \in Request /\ Submitting(ordered[i])
    BY DEF Submitting
  <2>1. ASSUME NEW r \in Request, NEW c \in Call, Receive(r, c)
        PROVE  CommittedIsStored'
    <3>1. \A i \in 1 .. committed : call'[ordered[i]] = call[ordered[i]]
      BY <2>0, <2>1 DEF Receive, SubmitsEvents
    <3>2. QED
      BY <2>1, <3>1 DEF Receive, CommittedIsStored, fabricVars
  <2>2. ASSUME NEW r \in Request, Handle(r)
        PROVE  CommittedIsStored'
    <3>1. UNCHANGED <<call, ordered, committed, state>>
      BY <2>2 DEF Handle, Endorse, Submitted, CommitStatus, Evaluate, ReadReply, CallFails,
                  fabricVars
    <3>2. QED
      BY <3>1 DEF CommittedIsStored
  <2>3. ASSUME NEW r \in Request, Order(r)
        PROVE  CommittedIsStored'
    <3>1. /\ \A i \in 1 .. committed : ordered'[i] = ordered[i]
          /\ UNCHANGED <<call, committed, state>>
      BY <2>3 DEF Order, gatewayVars
    <3>2. QED
      BY <3>1 DEF CommittedIsStored
  <2>4. CASE PeerCommits
    <3> DEFINE e == call[ordered[committed + 1]].body
    <3>1. e \in Posted /\ HasHash(e) /\ e.hash \in Hash /\ state' = [state EXCEPT ![e.hash] = e]
      BY <2>4, CommitFacts
    <3>2. ASSUME NEW i \in 1 .. committed
          PROVE  /\ HasHash(call[ordered[i]].body)
                 /\ state'[call[ordered[i]].body.hash] = call[ordered[i]].body
      <4> DEFINE f == call[ordered[i]].body
      <4>1. HasHash(f) /\ f \in Posted /\ f.hash \in Hash /\ state[f.hash] = f
        BY <2>0, PostedHash DEF CommittedIsStored, SubmitsEvents
      <4> HIDE DEF e, f
      <4>2. CASE f.hash = e.hash
        BY <3>1, <4>1, <4>2 DEF HashDeterminesEvent, f
      <4>3. CASE f.hash # e.hash
        BY <3>1, <4>1, <4>3 DEF f
      <4>4. QED
        BY <4>1, <4>2, <4>3 DEF f
    <3>3. committed' = committed + 1 /\ UNCHANGED <<call, ordered>>
      BY <2>4 DEF PeerCommits, gatewayVars
    <3>4. QED
      BY <3>1, <3>2, <3>3 DEF CommittedIsStored
  <2>5. CASE GatewayRestarts \/ UNCHANGED vars
    BY <2>5 DEF GatewayRestarts, CommittedIsStored, vars, gatewayVars, fabricVars
  <2>6. QED
    BY <2>1, <2>2, <2>3, <2>4, <2>5 DEF Next
<1>3. IInv /\ CommittedIsStored => CreatedIsStored
  BY DEF IInv, CreatedIsCommitted, IsCommitted, CommittedIsStored, CreatedIsStored
<1>4. QED
  BY <1>1, <1>2, <1>3, Invariance, PTL DEF Spec

-----------------------------------------------------------------------------
(* What answers show is stored, and stays stored                           *)

CommittedHashes == \A i \in 1 .. committed : call[ordered[i]].body.hash \in Stored

\* No answer shows, and no request remembers, a hash that is not stored.
ShownIsStored == \A r \in Request : /\ answer[r].seen \subseteq Stored
                                    /\ known[r] \subseteq Stored
                                    /\ HashesOf(result[r]) \subseteq Stored

\* What the peer returned on a read covers what was known before it.
ReturnedIsFresh == \A r \in Request : phase[r] = "read" /\ call[r].route # "query"
                                        => known[r] \subseteq HashesOf(result[r])

AnsweredOnce == \A r \in Request : answer[r].status = 200 => phase[r] = "answered"

\* ReadsAreFresh, of one answer.
FreshAnswer(r) == /\ call[r].route \in {"list", "verify"} => known[r] \subseteq answer[r].seen
                  /\ call[r].route = "status" /\ answer[r].events >= 0
                       => answer[r].events >= Cardinality(known[r])

Fresh == /\ CommittedHashes
         /\ ShownIsStored
         /\ ReturnedIsFresh
         /\ AnsweredOnce
         /\ ReadsAreFresh

\* What the chaincode returns are stored events, and all of them to a list.
LEMMA EvaluatedHashes ==
  ASSUME IInv, NEW c \in Call
  PROVE  /\ HashesOf(Evaluated(c)) \subseteq Stored
         /\ c.route # "query" => HashesOf(Evaluated(c)) = Stored
<1>1. \A h \in Stored : state[h].hash = h
  BY DEF IInv, StoredUnderHash, Stored
<1>2. CASE c.route = "query"
  <2>1. c.body \in Hash /\ Evaluated(c) = {state[c.body]} \ {Absent}
    BY <1>2 DEF Call, Evaluated, QueryByHash
  <2>2. QED
    BY <1>1, <1>2, <2>1 DEF HashesOf, Stored
<1>3. CASE c.route # "query"
  <2>1. Evaluated(c) = {state[h] : h \in Stored}
    BY <1>3 DEF Evaluated, GetAllEvents, Stored
  <2>2. QED
    BY <1>1, <2>1 DEF HashesOf
<1>4. QED
  BY <1>2, <1>3

\* A set of events has no more hashes than events.
LEMMA FewerHashes ==
  ASSUME NEW events, IsFiniteSet(events), NEW S \in SUBSET HashesOf(events)
  PROVE  Cardinality(events) >= Cardinality(S)
<1> DEFINE hash == [e \in events |-> e.hash]
<1>1. hash \in Surjection(events, HashesOf(events))
  BY DEF Surjection, HashesOf
<1>2. IsFiniteSet(HashesOf(events)) /\ Cardinality(HashesOf(events)) <= Cardinality(events)
  BY <1>1, FS_Surjection
<1>3. IsFiniteSet(S) /\ Cardinality(S) <= Cardinality(HashesOf(events))
  BY <1>2, FS_Subset
<1>4. /\ Cardinality(events) \in Nat /\ Cardinality(S) \in Nat
      /\ Cardinality(HashesOf(events)) \in Nat
  BY <1>2, <1>3, FS_CardinalityType
<1>5. QED
  BY <1>2, <1>3, <1>4

\* What the steps of a handler have in common.
LEMMA FreshHandlerStep ==
  ASSUME Fresh, NEW r \in Request, phase[r] \in Awaiting, Moves(r),
         UNCHANGED <<call, known, ordered, committed, state>>,
         \A q \in Request \ {r} : result'[q] = result[q],
         HashesOf(result[r])' \subseteq Stored,
         phase'[r] = "read" /\ call[r].route # "query"
           => known[r] \subseteq HashesOf(result[r])',
         answer'[r].seen \subseteq Stored,
         answer'[r].status = 200 => phase'[r] = "answered" /\ FreshAnswer(r)'
  PROVE  Fresh'
<1> USE DEF Fresh
<1>1. Stored' = Stored
  BY DEF Stored
<1>2. CommittedHashes'
  BY <1>1 DEF CommittedHashes
<1>3. ShownIsStored'
  BY <1>1 DEF ShownIsStored, Moves, HashesOf
<1>4. ReturnedIsFresh'
  BY DEF ReturnedIsFresh, Moves, HashesOf
<1>5. AnsweredOnce'
  BY DEF AnsweredOnce, Moves
<1>6. ReadsAreFresh'
  BY DEF ReadsAreFresh, FreshAnswer, Moves
<1>7. QED
  BY <1>2, <1>3, <1>4, <1>5, <1>6

LEMMA FreshHandle ==
  ASSUME IInv, Fresh, NEW r \in Request, Handle(r)
  PROVE  Fresh'
<1>0. Awaiting \subseteq Phase /\ TypeOK
  BY DEF Phase, IInv
<1>1. /\ HashesOf(result[r]) \subseteq Stored /\ answer[r].seen \subseteq Stored
      /\ phase[r] # "answered" => answer[r].status # 200
  BY DEF Fresh, ShownIsStored, AnsweredOnce
<1>2. CASE Endorse(r) \/ Submitted(r)
  <2>1. PICK p \in {"submit", "commit"} : Enter(r, p)
    BY <1>2 DEF Endorse, Submitted
  <2>2. Moves(r) /\ phase'[r] = p /\ answer'[r] = answer[r]
    BY <1>0, <2>1, EnterEffect DEF Awaiting
  <2>3. phase[r] \in Awaiting \ {"answered"} /\ UNCHANGED <<result, call, known, ordered, committed, state>>
    BY <1>2 DEF Endorse, Submitted, Awaiting, fabricVars
  <2>4. HashesOf(result[r])' \subseteq Stored
    BY <1>1, <2>3 DEF HashesOf
  <2>5. QED
    BY <1>1, <2>2, <2>3, <2>4, FreshHandlerStep
<1>3. CASE CommitStatus(r)
  <2> DEFINE a == [Status(201) EXCEPT !.seen = {call[r].body.hash}]
  <2>1. /\ phase[r] = "commit" /\ IsCommitted(r) /\ Respond(r, a)
        /\ UNCHANGED <<result, call, known, ordered, committed, state>>
    BY <1>3 DEF CommitStatus, fabricVars
  <2>2. call[r].body.hash \in Stored
    BY <2>1 DEF IsCommitted, Fresh, CommittedHashes
  <2>3. a \in Answer /\ a.status # 200 /\ a.seen \subseteq Stored
    <3>1. a = [status |-> 201, seen |-> {call[r].body.hash}, failed |-> {}, events |-> -1]
      BY DEF Status
    <3>2. QED
      BY <2>2, <3>1 DEF Answer, Stored
  <2>4. Moves(r) /\ phase'[r] = "answered" /\ answer'[r] = a
    BY <1>0, <2>1, <2>3, RespondEffect
  <2>5. phase[r] \in Awaiting /\ HashesOf(result[r])' \subseteq Stored
    BY <1>1, <2>1 DEF Awaiting, HashesOf
  <2>6. QED
    BY <2>1, <2>3, <2>4, <2>5, FreshHandlerStep
<1>4. CASE Evaluate(r)
  <2>1. /\ phase[r] = "evaluate" /\ Enter(r, "read")
        /\ result' = [result EXCEPT ![r] = Evaluated(call[r])]
        /\ UNCHANGED <<call, known, ordered, committed, state>>
    BY <1>4 DEF Evaluate, fabricVars
  <2>2. Moves(r) /\ phase'[r] = "read" /\ answer'[r] = answer[r]
    BY <1>0, <2>1, EnterEffect DEF Awaiting
  <2>3. call[r] \in Call
    BY <2>1 DEF IInv, ReceivedCall
  <2>4. HashesOf(result[r])' = HashesOf(Evaluated(call[r]))
    BY <1>0, <2>1 DEF HashesOf, TypeOK
  <2>5. /\ HashesOf(result[r])' \subseteq Stored
        /\ call[r].route # "query" => known[r] \subseteq HashesOf(result[r])'
    BY <2>3, <2>4, EvaluatedHashes DEF Fresh, ShownIsStored
  <2>6. phase[r] \in Awaiting /\ \A q \in Request \ {r} : result'[q] = result[q]
    BY <1>0, <2>1 DEF Awaiting, TypeOK
  <2>7. QED
    BY <1>1, <2>1, <2>2, <2>5, <2>6, FreshHandlerStep
<1>5. ASSUME NEW a \in Answer, Respond(r, a), phase[r] \in Awaiting,
             UNCHANGED <<result, call, known, ordered, committed, state>>,
             a.seen \subseteq Stored,
             /\ a.status = 200 /\ call[r].route \in {"list", "verify"} => known[r] \subseteq a.seen
             /\ a.status = 200 /\ call[r].route = "status" /\ a.events >= 0
                  => a.events >= Cardinality(known[r])
      PROVE  Fresh'
  <2>1. Moves(r) /\ phase'[r] = "answered" /\ answer'[r] = a
    BY <1>0, <1>5, RespondEffect
  <2>2. HashesOf(result[r])' \subseteq Stored
    BY <1>1, <1>5 DEF HashesOf
  <2>3. a.status = 200 => FreshAnswer(r)'
    BY <1>5, <2>1 DEF FreshAnswer
  <2>4. QED
    BY <1>5, <2>1, <2>2, <2>3, FreshHandlerStep
<1>6. ASSUME Respond(r, ErrorAnswer(call[r])), phase[r] \in Awaiting,
             UNCHANGED <<result, call, known, ordered, committed, state>>
      PROVE  Fresh'
  <2>1. /\ ErrorAnswer(call[r]) \in Answer
        /\ ErrorAnswer(call[r]).seen = {} /\ ErrorAnswer(call[r]).events = -1
        /\ call[r].route \in {"list", "verify"} => ErrorAnswer(call[r]).status = 500
    BY ErrorType DEF ErrorAnswer, Status
  <2>2. QED
    BY <1>5, <1>6, <2>1
<1>7. CASE CallFails(r)
  BY <1>6, <1>7 DEF CallFails, TimesOut, fabricVars
<1>8. CASE ReadReply(r)
  <2> DEFINE a == ReadAnswer(call[r], result[r])
  <2>1. phase[r] = "read" /\ UNCHANGED <<result, call, known, ordered, committed, state>>
    BY <1>8 DEF ReadReply, fabricVars
  <2>2. phase[r] \in Awaiting
    BY <2>1 DEF Awaiting
  <2>3. IsFiniteSet(result[r]) /\ a \in Answer
    BY ReadAnswerType DEF IInv, TypeOK, ResultsStored
  <2>4. /\ a.events = Cardinality(result[r])
        /\ a.seen = IF call[r].route = "status" THEN {} ELSE HashesOf(result[r])
    BY DEF ReadAnswer
  <2> HIDE DEF a
  <2>5. call[r].route # "query" => known[r] \subseteq HashesOf(result[r])
    BY <2>1 DEF Fresh, ReturnedIsFresh
  <2>6. call[r].route = "status" => a.events >= Cardinality(known[r])
    BY <2>3, <2>4, <2>5, FewerHashes
  <2>7. CASE Respond(r, a)
    BY <1>1, <1>5, <2>1, <2>2, <2>3, <2>4, <2>5, <2>6, <2>7
  <2>8. CASE Respond(r, ErrorAnswer(call[r]))
    BY <1>6, <2>1, <2>2, <2>8
  <2>9. QED
    BY <1>8, <2>7, <2>8 DEF ReadReply, a
<1>9. QED
  BY <1>2, <1>3, <1>4, <1>7, <1>8 DEF Handle

LEMMA FreshReceive ==
  ASSUME IInv, Fresh, NEW r \in Request, NEW c \in Call, Receive(r, c)
  PROVE  Fresh'
<1> USE DEF Fresh
<1>0. TypeOK
  BY DEF IInv
<1>1. /\ phase[r] = "idle" /\ ~Submitting(r)
      /\ call' = [call EXCEPT ![r] = c]
      /\ known' = [known EXCEPT ![r] = Shown]
      /\ UNCHANGED <<result, ordered, committed, state>>
  BY DEF Receive, IInv, SubmitsEvents, fabricVars
<1>2. Shown \subseteq Stored
  BY DEF Shown, ShownIsStored
<1>3. answer[r].seen \subseteq Stored /\ answer[r].status # 200
  BY <1>1 DEF ShownIsStored, AnsweredOnce
<1>4. /\ Moves(r) /\ phase'[r] \in {"endorse", "evaluate", "answered"}
      /\ answer'[r].seen \subseteq Stored
      /\ answer'[r].status = 200 => /\ phase'[r] = "answered" /\ c.route = "status"
                                     /\ answer'[r].events = -1
  <2>1. \A code : Status(code).seen = {} /\ Status(code).events = -1
    BY DEF Status
  <2>2. CASE \E code \in {400, 422, 503} : Respond(r, Status(code))
    BY <1>0, <2>1, <2>2, RespondEffect, StatusType
  <2>3. CASE c.route = "status" /\ Respond(r, Status(200))
    BY <1>0, <2>1, <2>3, RespondEffect, StatusType
  <2>4. CASE \E p \in {"endorse", "evaluate"} : Enter(r, p)
    BY <1>0, <1>3, <2>4, EnterEffect DEF Phase, Awaiting
  <2>5. QED
    BY <2>2, <2>3, <2>4 DEF Receive, CreateEventStarts, ReadStarts
<1>5. Stored' = Stored
  BY <1>1 DEF Stored
<1>6. CommittedHashes'
  <2>1. ASSUME NEW i \in 1 .. committed
        PROVE  ordered[i] # r
    BY <1>0, <1>1 DEF TypeOK, Submitting
  <2>2. QED
    BY <1>0, <1>1, <1>5, <2>1 DEF CommittedHashes, TypeOK
<1>7. ShownIsStored'
  BY <1>0, <1>1, <1>2, <1>4, <1>5 DEF ShownIsStored, Moves, TypeOK, HashesOf
<1>8. ReturnedIsFresh'
  BY <1>0, <1>1, <1>4 DEF ReturnedIsFresh, Moves, TypeOK, HashesOf
<1>9. AnsweredOnce'
  BY <1>4 DEF AnsweredOnce, Moves
<1>10. ReadsAreFresh'
  <2> SUFFICES ASSUME NEW q \in Request, answer'[q].status = 200
               PROVE  FreshAnswer(q)'
    BY DEF ReadsAreFresh, FreshAnswer
  <2>1. CASE q = r
    BY <1>0, <1>1, <1>4, <2>1 DEF FreshAnswer, TypeOK
  <2>2. CASE q # r
    BY <1>0, <1>1, <1>4, <2>2 DEF ReadsAreFresh, FreshAnswer, Moves, TypeOK
  <2>3. QED
    BY <2>1, <2>2
<1>11. QED
  BY <1>6, <1>7, <1>8, <1>9, <1>10

\* The peer only adds to what is stored.
LEMMA FreshPeerCommits ==
  ASSUME IInv, Fresh, PeerCommits
  PROVE  Fresh'
<1> USE DEF Fresh
<1> DEFINE e == call[ordered[committed + 1]].body
<1>1. /\ committed' = committed + 1 /\ committed \in Nat
      /\ UNCHANGED <<phase, call, result, answer, known, ordered>>
  BY DEF PeerCommits, gatewayVars, IInv, TypeOK
<1>2. Stored \subseteq Stored' /\ e.hash \in Stored'
  <2>1. e \in Posted /\ e # Absent /\ e.hash \in Hash /\ state' = [state EXCEPT ![e.hash] = e]
    BY CommitFacts, GatewayAssumption
  <2> HIDE DEF e
  <2>2. QED
    BY <2>1 DEF Stored, IInv, TypeOK
<1>3. CommittedHashes'
  BY <1>1, <1>2 DEF CommittedHashes
<1>4. ShownIsStored'
  BY <1>1, <1>2 DEF ShownIsStored, HashesOf
<1>5. ReturnedIsFresh' /\ AnsweredOnce' /\ ReadsAreFresh'
  BY <1>1 DEF ReturnedIsFresh, HashesOf, AnsweredOnce, ReadsAreFresh
<1>6. QED
  BY <1>3, <1>4, <1>5

LEMMA FreshInvariance == Spec => []Fresh
<1>1. Init => Fresh
  BY StatusType DEF Init, Fresh, CommittedHashes, ShownIsStored, HashesOf, ReturnedIsFresh, AnsweredOnce,
                    ReadsAreFresh, Status
<1>2. IInv /\ Fresh /\ [Next]_vars => Fresh'
  <2> SUFFICES ASSUME IInv, Fresh, [Next]_vars PROVE Fresh'
    OBVIOUS
  <2>1. ASSUME NEW r \in Request, Order(r)
        PROVE  Fresh'
    <3>1. /\ \A i \in 1 .. committed : ordered'[i] = ordered[i]
          /\ UNCHANGED <<phase, call, result, answer, known, committed, state>>
      BY <2>1 DEF Order, gatewayVars, IInv, TypeOK
    <3>2. QED
      BY <3>1 DEF Fresh, CommittedHashes, Stored, ShownIsStored, HashesOf, ReturnedIsFresh, AnsweredOnce,
                  ReadsAreFresh
  <2>2. CASE GatewayRestarts
    <3>1. /\ \A r \in Request : phase'[r] = phase[r] \/ (phase[r] # "answered" /\ phase'[r] = "lost")
          /\ UNCHANGED <<call, result, answer, known, ordered, committed, state>>
      BY <2>2 DEF GatewayRestarts, Awaiting, fabricVars
    <3>2. QED
      BY <3>1 DEF Fresh, CommittedHashes, Stored, ShownIsStored, HashesOf, ReturnedIsFresh, AnsweredOnce,
                  ReadsAreFresh
  <2>3. CASE UNCHANGED vars
    BY <2>3 DEF vars, gatewayVars, fabricVars, Fresh, CommittedHashes, Stored, ShownIsStored, HashesOf,
                ReturnedIsFresh, AnsweredOnce, ReadsAreFresh
  <2>4. QED
    BY <2>1, <2>2, <2>3, FreshReceive, FreshHandle, FreshPeerCommits DEF Next
<1>3. QED
  BY <1>1, <1>2, Invariance, PTL DEF Spec

(* An answer of 200 is not older than the request: whatever an earlier     *)
(* answer showed as stored, later lists, verifications and counts include, *)
(* however requests, commits, deadlines and restarts interleave.           *)
THEOREM ReadsAlwaysFresh == Spec => []ReadsAreFresh
<1>1. Fresh => ReadsAreFresh
  BY DEF Fresh
<1>2. QED
  BY <1>1, FreshInvariance, PTL

-----------------------------------------------------------------------------
(* What an answer of 200 says is true                                      *)

\* What the peer returned to r: at most one event for a hash, and for a query
\* none but the one asked for.
Returned ==
  \A r \in Request :
     /\ phase[r] = "idle" => result[r] = {}
     /\ \A e \in result[r], f \in result[r] : e.hash = f.hash => e = f
     /\ call[r].route = "query" => \A e \in result[r] : e.hash = call[r].body

\* The gateway without Fabric, or what the handler made of the result.
Said(c, events, a) == \/ c.route = "status" /\ a = Status(200)
                      \/ /\ c.route = "query" => events # {}
                         /\ a = ReadAnswer(c, events)

\* The handler of r is over, and its result was not touched since.
AnsweredAsRead ==
  \A r \in Request : answer[r].status = 200 => phase[r] = "answered" /\ Said(call[r], result[r], answer[r])

\* The world state holds one event for a hash.
LEMMA EvaluatedOnce ==
  ASSUME IInv, NEW c \in Call
  PROVE  /\ \A e \in Evaluated(c), f \in Evaluated(c) : e.hash = f.hash => e = f
         /\ c.route = "query" => \A e \in Evaluated(c) : e.hash = c.body
<1>1. \A h \in Hash : state[h] # Absent => state[h].hash = h
  BY DEF IInv, StoredUnderHash
<1>2. \A e \in Evaluated(c) : \E h \in Hash : e = state[h] /\ e # Absent /\ (c.route = "query" => h = c.body)
  BY DEF Evaluated, QueryByHash, GetAllEvents, Call
<1>3. QED
  BY <1>1, <1>2

LEMMA SaidHandle ==
  ASSUME IInv, Returned, AnsweredAsRead, NEW r \in Request, Handle(r)
  PROVE  Returned' /\ AnsweredAsRead'
<1>0. TypeOK /\ phase[r] \in Awaiting /\ UNCHANGED call
  BY DEF IInv, Handle, Endorse, Submitted, CommitStatus, Evaluate, ReadReply, CallFails, TimesOut, Awaiting
<1>1. phase[r] \notin {"idle", "answered"} /\ answer[r].status # 200
  BY <1>0 DEF Awaiting, AnsweredAsRead
<1>2. ASSUME UNCHANGED result,
             Moves(r), phase'[r] # "idle",
             answer'[r].status = 200 => phase'[r] = "answered" /\ Said(call'[r], result'[r], answer'[r])
      PROVE  Returned' /\ AnsweredAsRead'
  <2>1. Returned'
    BY <1>0, <1>1, <1>2 DEF Returned, Moves
  <2>2. ASSUME NEW q \in Request, answer'[q].status = 200
        PROVE  phase'[q] = "answered" /\ Said(call'[q], result'[q], answer'[q])
    <3>1. CASE q = r
      BY <1>0, <1>2, <2>2, <3>1
    <3>2. CASE q # r
      BY <1>0, <1>2, <2>2, <3>2 DEF AnsweredAsRead, Moves
    <3>3. QED
      BY <3>1, <3>2
  <2>3. QED
    BY <2>1, <2>2 DEF AnsweredAsRead
<1>3. CASE Endorse(r) \/ Submitted(r)
  <2>1. PICK p \in {"submit", "commit"} : Enter(r, p)
    BY <1>3 DEF Endorse, Submitted
  <2>2. Moves(r) /\ phase'[r] = p /\ answer'[r] = answer[r]
    BY <1>0, <2>1, EnterEffect DEF Phase, Awaiting
  <2>3. QED
    BY <1>1, <1>2, <1>3, <2>2 DEF Endorse, Submitted
<1>4. ASSUME NEW a \in Answer, Respond(r, a), UNCHANGED result, a.status = 200 => Said(call[r], result[r], a)
      PROVE  Returned' /\ AnsweredAsRead'
  <2>1. Moves(r) /\ phase'[r] = "answered" /\ answer'[r] = a
    BY <1>0, <1>4, RespondEffect
  <2>2. QED
    BY <1>0, <1>2, <1>4, <2>1
<1>5. ASSUME Respond(r, ErrorAnswer(call[r])), UNCHANGED result
      PROVE  Returned' /\ AnsweredAsRead'
  <2>1. /\ ErrorAnswer(call[r]) \in Answer
        /\ ErrorAnswer(call[r]).status = 200 => Said(call[r], result[r], ErrorAnswer(call[r]))
    BY ErrorType DEF ErrorAnswer, Status, Said
  <2>2. QED
    BY <1>4, <1>5, <2>1
<1>6. CASE CommitStatus(r)
  <2> DEFINE a == [Status(201) EXCEPT !.seen = {call[r].body.hash}]
  <2>1. call[r].body.hash \in Hash
    BY <1>6, PostedHash DEF CommitStatus, IInv, SubmitsEvents, Submitting
  <2>2. a = [status |-> 201, seen |-> {call[r].body.hash}, failed |-> {}, events |-> -1]
    BY DEF Status
  <2>3. a \in Answer /\ a.status # 200
    BY <2>1, <2>2 DEF Answer
  <2>4. Respond(r, a) /\ UNCHANGED result
    BY <1>6 DEF CommitStatus
  <2> HIDE DEF a
  <2>5. QED
    BY <1>4, <2>3, <2>4
<1>7. CASE Evaluate(r)
  <2>1. Moves(r) /\ phase'[r] = "read" /\ answer'[r] = answer[r]
    BY <1>0, <1>7, EnterEffect DEF Evaluate, Phase, Awaiting
  <2>2. /\ result' = [result EXCEPT ![r] = Evaluated(call[r])]
        /\ call[r] \in Call
    BY <1>1, <1>7 DEF Evaluate, IInv, ReceivedCall
  <2>3. result'[r] = Evaluated(call[r]) /\ \A q \in Request \ {r} : result'[q] = result[q]
    BY <1>0, <2>2 DEF TypeOK
  <2>4. Returned'
    BY <1>0, <2>1, <2>2, <2>3, EvaluatedOnce DEF Returned, Moves
  <2>5. AnsweredAsRead'
    <3> SUFFICES ASSUME NEW q \in Request, answer'[q].status = 200
                 PROVE  phase'[q] = "answered" /\ Said(call'[q], result'[q], answer'[q])
      BY DEF AnsweredAsRead
    <3>1. q # r
      BY <1>1, <2>1
    <3>2. QED
      BY <1>0, <2>1, <2>3, <3>1 DEF AnsweredAsRead, Moves
  <2>6. QED
    BY <2>4, <2>5
<1>8. CASE ReadReply(r)
  <2> DEFINE a == ReadAnswer(call[r], result[r])
  <2>1. a \in Answer
    BY ReadAnswerType DEF IInv, TypeOK, ResultsStored
  <2> HIDE DEF a
  <2>2. CASE Respond(r, a) /\ (call[r].route = "query" => result[r] # {})
    BY <1>4, <1>8, <2>1, <2>2 DEF ReadReply, Said, a
  <2>3. CASE Respond(r, ErrorAnswer(call[r]))
    BY <1>5, <1>8, <2>3 DEF ReadReply
  <2>4. QED
    BY <1>8, <2>2, <2>3 DEF ReadReply, a
<1>9. CASE CallFails(r)
  BY <1>5, <1>9 DEF CallFails
<1>10. QED
  BY <1>3, <1>6, <1>7, <1>8, <1>9 DEF Handle

LEMMA SaidReceive ==
  ASSUME IInv, Returned, AnsweredAsRead, NEW r \in Request, NEW c \in Call, Receive(r, c)
  PROVE  Returned' /\ AnsweredAsRead'
<1>0. TypeOK
  BY DEF IInv
<1>1. /\ phase[r] = "idle" /\ answer[r].status # 200 /\ result[r] = {}
      /\ call' = [call EXCEPT ![r] = c] /\ UNCHANGED result
  BY DEF Receive, AnsweredAsRead, Returned
<1>2. call'[r] = c /\ \A q \in Request \ {r} : call'[q] = call[q]
  BY <1>0, <1>1 DEF TypeOK
<1>3. /\ Moves(r) /\ phase'[r] # "idle"
      /\ answer'[r].status = 200 => /\ phase'[r] = "answered" /\ c.route = "status"
                                     /\ answer'[r] = Status(200)
  <2>1. CASE \E code \in {400, 422, 503} : Respond(r, Status(code))
    BY <1>0, <2>1, RespondEffect, StatusType
  <2>2. CASE c.route = "status" /\ Respond(r, Status(200))
    BY <1>0, <2>2, RespondEffect, StatusType
  <2>3. CASE \E p \in {"endorse", "evaluate"} : Enter(r, p)
    BY <1>0, <1>1, <2>3, EnterEffect DEF Phase, Awaiting
  <2>4. QED
    BY <2>1, <2>2, <2>3 DEF Receive, CreateEventStarts, ReadStarts
<1>4. Returned'
  BY <1>1, <1>2, <1>3 DEF Returned, Moves
<1>5. AnsweredAsRead'
  <2> SUFFICES ASSUME NEW q \in Request, answer'[q].status = 200
               PROVE  phase'[q] = "answered" /\ Said(call'[q], result'[q], answer'[q])
    BY DEF AnsweredAsRead
  <2>1. CASE q = r
    BY <1>2, <1>3, <2>1 DEF Said, Status
  <2>2. CASE q # r
    BY <1>1, <1>2, <1>3, <2>2 DEF AnsweredAsRead, Moves
  <2>3. QED
    BY <2>1, <2>2
<1>6. QED
  BY <1>4, <1>5

LEMMA SaidInvariance == Spec => [](Returned /\ AnsweredAsRead)
<1>1. Init => Returned /\ AnsweredAsRead
  BY StatusType DEF Init, Returned, AnsweredAsRead
<1>2. IInv /\ Returned /\ AnsweredAsRead /\ [Next]_vars => (Returned /\ AnsweredAsRead)'
  <2> SUFFICES ASSUME IInv, Returned, AnsweredAsRead, [Next]_vars PROVE Returned' /\ AnsweredAsRead'
    OBVIOUS
  <2>1. ASSUME UNCHANGED <<phase, call, result, answer>>
        PROVE  Returned' /\ AnsweredAsRead'
    BY <2>1 DEF Returned, AnsweredAsRead
  <2>2. CASE PeerCommits \/ \E r \in Request : Order(r)
    BY <2>1, <2>2 DEF PeerCommits, Order, gatewayVars
  <2>3. CASE GatewayRestarts
    <3>1. /\ \A r \in Request : phase'[r] = phase[r] \/ (phase[r] \notin {"idle", "answered"} /\ phase'[r] = "lost")
          /\ UNCHANGED <<call, result, answer>>
      BY <2>3 DEF GatewayRestarts, Awaiting
    <3>2. QED
      BY <3>1 DEF Returned, AnsweredAsRead
  <2>4. CASE UNCHANGED vars
    BY <2>1, <2>4 DEF vars, gatewayVars
  <2>5. QED
    BY <2>2, <2>3, <2>4, SaidReceive, SaidHandle DEF Next
<1>3. QED
  BY <1>1, <1>2, Invariance, PTL DEF Spec

\* Events that differ by their hash are as many as their hashes.
LEMMA AsManyHashes ==
  ASSUME NEW events, IsFiniteSet(events), \A e \in events, f \in events : e.hash = f.hash => e = f
  PROVE  Cardinality(HashesOf(events)) = Cardinality(events)
<1> DEFINE hash == [e \in events |-> e.hash]
<1>1. hash \in Bijection(events, HashesOf(events))
  <2>1. hash \in Surjection(events, HashesOf(events))
    BY DEF Surjection, HashesOf
  <2>2. hash \in Injection(events, HashesOf(events))
    BY <2>1 DEF Surjection, Injection, IsInjective
  <2>3. QED
    BY <2>1, <2>2 DEF Bijection
<1>2. ExistsBijection(events, HashesOf(events))
  BY <1>1 DEF ExistsBijection
<1>3. QED
  BY <1>2, FS_Bijection

LEMMA StoredFinite == IsFiniteSet(Stored) /\ Cardinality(Stored) \in Nat
<1>1. IsFiniteSet(Stored)
  BY GatewayAssumption, FS_Subset DEF Stored
<1>2. QED
  BY <1>1, FS_CardinalityType

(* No read counts an event twice, shows one that is not there, or answers  *)
(* a query with another event, while others are committed.                 *)
THEOREM ReadsAlwaysSound == Spec => []ReadsAreSound
<1>1. IInv /\ Fresh /\ Returned /\ AnsweredAsRead => ReadsAreSound
  <2> SUFFICES ASSUME IInv, Fresh, Returned, AnsweredAsRead, NEW r \in Request, answer[r].status = 200
               PROVE  /\ answer[r].seen \subseteq Stored
                      /\ answer[r].events <= Cardinality(Stored)
                      /\ call[r].route \in {"list", "verify"} => answer[r].events = Cardinality(answer[r].seen)
                      /\ call[r].route = "query" => answer[r].seen = {call[r].body} /\ answer[r].events = 1
    BY DEF ReadsAreSound
  <2> DEFINE events == result[r]
             hashes == HashesOf(events)
  <2>1. answer[r].seen \subseteq Stored /\ hashes \subseteq Stored
    BY DEF Fresh, ShownIsStored
  <2>2. IsFiniteSet(events) /\ \A e \in events, f \in events : e.hash = f.hash => e = f
    BY DEF IInv, ResultsStored, Returned
  <2> HIDE DEF events
  <2>3. Cardinality(hashes) = Cardinality(events)
    BY <2>2, AsManyHashes
  <2> HIDE DEF hashes
  <2>4. Cardinality(hashes) <= Cardinality(Stored)
    BY <2>1, StoredFinite, FS_Subset
  <2>5. CASE call[r].route = "status" /\ answer[r] = Status(200)
    BY <2>1, <2>5, StoredFinite DEF Status
  <2>6. CASE answer[r] = ReadAnswer(call[r], events) /\ (call[r].route = "query" => events # {})
    <3>1. answer[r].events = Cardinality(hashes) /\ (call[r].route # "status" => answer[r].seen = hashes)
      BY <2>3, <2>6 DEF ReadAnswer, hashes
    <3>2. ASSUME call[r].route = "query"
          PROVE  answer[r].seen = {call[r].body} /\ answer[r].events = 1
      <4>1. events # {} /\ \A e \in events : e.hash = call[r].body
        BY <2>6, <3>2 DEF Returned, events
      <4>2. hashes = {call[r].body}
        BY <4>1 DEF hashes, HashesOf
      <4>3. Cardinality(hashes) = 1
        BY <4>2, FS_Singleton
      <4>4. QED
        BY <3>1, <3>2, <4>2, <4>3
    <3>3. QED
      BY <2>1, <2>4, <3>1, <3>2
  <2>7. QED
    BY <2>5, <2>6 DEF AnsweredAsRead, Said, events
<1>2. QED
  BY <1>1, Invariance, FreshInvariance, SaidInvariance, PTL

\* Clients post what audit_event_compute_hash hashed, as the auditor does.
HonestClients == \A e \in Posted : HasHash(e) => e.hash = AuditorHash(e.fields)

\* handleVerify reports every event it saw as altered.
VerifyFailsAll ==
  \A r \in Request :
     answer[r].status = 200 /\ call[r].route = "verify" => answer[r].failed = answer[r].seen

(* Verification by the gateway (handlers.js:83-109) is not only wrong about *)
(* some ledger: computeSHA256 hashes another text than the auditor did, so *)
(* on a ledger that only honest auditors wrote it fails each event.        *)
THEOREM VerifyAlwaysFailsAll == ASSUME HonestClients PROVE Spec => []VerifyFailsAll
<1>1. ASSUME NEW events \in SUBSET Posted, \A e \in events : e.hash \in Hash
      PROVE  FailedHashes(events) = HashesOf(events)
  <2>1. \A e \in events : e.hash # computeSHA256(e)
    <3> SUFFICES ASSUME NEW e \in events PROVE e.hash # computeSHA256(e)
      OBVIOUS
    <3>1. e.hash = <<"json", e.fields>>
      BY <1>1, GatewayAssumption DEF HonestClients, HasHash, AuditorHash, Digest
    <3>2. computeSHA256(e) = <<"concatenated", e.fields>>
      BY DEF computeSHA256, Digest
    <3>3. QED
      BY <3>1, <3>2
  <2>2. QED
    BY <2>1 DEF FailedHashes, HashesOf
<1>2. IInv /\ AnsweredAsRead => VerifyFailsAll
  <2> SUFFICES ASSUME IInv, AnsweredAsRead, NEW r \in Request, answer[r].status = 200, call[r].route = "verify"
               PROVE  answer[r].failed = answer[r].seen
    BY DEF VerifyFailsAll
  <2>1. answer[r] = ReadAnswer(call[r], result[r])
    BY DEF AnsweredAsRead, Said
  <2>2. result[r] \in SUBSET Posted /\ \A e \in result[r] : e.hash \in Hash
    BY DEF IInv, TypeOK, ResultsStored
  <2>3. QED
    BY <1>1, <2>1, <2>2 DEF ReadAnswer
<1>3. QED
  BY <1>2, Invariance, SaidInvariance, PTL

-----------------------------------------------------------------------------
(* Requests and transactions                                               *)

InChannel(r) == r \in sent \/ \E i \in 1 .. Len(ordered) : ordered[i] = r

(* A request submits one transaction (fabric-client.js, submitTransaction  *)
(* is called once by createEvent), whatever deadline passes: each is on    *)
(* its way, or in the channel once; none precedes its endorsement, and no  *)
(* read leaves one.                                                        *)
SubmittedOnce ==
  /\ \A i \in 1 .. Len(ordered), j \in 1 .. Len(ordered) : ordered[i] = ordered[j] => i = j
  /\ \A r \in sent, i \in 1 .. Len(ordered) : ordered[i] # r
  /\ \A r \in Request : phase[r] \in {"idle", "endorse", "evaluate", "read"} => ~InChannel(r)

(* Retries of the auditor are requests of their own; none of them, and no  *)
(* late commit, adds more than one transaction for a request.              *)
THEOREM AlwaysSubmittedOnce == Spec => []SubmittedOnce
<1>1. Init => SubmittedOnce
  BY DEF Init, SubmittedOnce, InChannel
<1>2. IInv /\ SubmittedOnce /\ [Next]_vars => SubmittedOnce'
  <2> SUFFICES ASSUME TypeOK, SubmittedOnce, [Next]_vars PROVE SubmittedOnce'
    BY DEF IInv
  <2>1. ASSUME UNCHANGED <<sent, ordered>>,
               \A q \in Request : phase'[q] \in {"idle", "endorse", "evaluate", "read"}
                                  => phase[q] \in {"idle", "endorse", "evaluate", "read"}
        PROVE  SubmittedOnce'
    BY <2>1 DEF SubmittedOnce, InChannel
  <2>2. CASE \E r \in Request : \E c \in Call : Receive(r, c)
    BY <2>1, <2>2 DEF Receive, CreateEventStarts, ReadStarts, Enter, Respond, TypeOK, fabricVars
  <2>3. ASSUME NEW r \in Request, Handle(r), ~Endorse(r)
        PROVE  SubmittedOnce'
    <3>1. PICK p \in {"commit", "answered", "read"} :
             /\ phase' = [phase EXCEPT ![r] = p]
             /\ p = "read" => phase[r] = "evaluate"
      BY <2>3 DEF Handle, Submitted, CommitStatus, Evaluate, ReadReply, CallFails, Enter, Respond
    <3>2. UNCHANGED <<sent, ordered>>
      BY <2>3 DEF Handle, Submitted, CommitStatus, Evaluate, ReadReply, CallFails, fabricVars
    <3>3. phase \in [Request -> Phase]
      BY DEF TypeOK
    <3>4. \A q \in Request : phase'[q] = IF q = r THEN p ELSE phase[q]
      BY <3>1, <3>3
    <3>5. QED
      BY <2>1, <3>1, <3>2, <3>4
  <2>4. ASSUME NEW r \in Request, Endorse(r)
        PROVE  SubmittedOnce'
    <3>1. /\ phase[r] = "endorse" /\ phase' = [phase EXCEPT ![r] = "submit"]
          /\ sent' = sent \cup {r} /\ UNCHANGED ordered
      BY <2>4 DEF Endorse, Enter
    <3>2. QED
      BY <3>1 DEF SubmittedOnce, InChannel, TypeOK
  <2>5. ASSUME NEW r \in Request, Order(r)
        PROVE  SubmittedOnce'
    <3>1. /\ Len(ordered') = Len(ordered) + 1 /\ ordered'[Len(ordered) + 1] = r
          /\ \A i \in 1 .. Len(ordered) : ordered'[i] = ordered[i]
          /\ Len(ordered) \in Nat
          /\ r \in sent /\ sent' = sent \ {r} /\ UNCHANGED phase
      BY <2>5 DEF Order, gatewayVars, TypeOK
    <3>2. \A i \in 1 .. Len(ordered') : i \in 1 .. Len(ordered) \/ (i = Len(ordered) + 1 /\ ordered'[i] = r)
      BY <3>1
    <3>3. \A i \in 1 .. Len(ordered), q \in sent : ordered[i] # q
      BY DEF SubmittedOnce
    <3>4. \A i \in 1 .. Len(ordered'), j \in 1 .. Len(ordered') : ordered'[i] = ordered'[j] => i = j
      BY <3>1, <3>2, <3>3 DEF SubmittedOnce
    <3>5. \A q \in Request : InChannel(q)' => InChannel(q)
      BY <3>1, <3>2 DEF InChannel
    <3>6. \A q \in sent', i \in 1 .. Len(ordered') : ordered'[i] # q
      BY <3>1, <3>2, <3>3
    <3>7. QED
      BY <3>1, <3>4, <3>5, <3>6 DEF SubmittedOnce
  <2>6. CASE PeerCommits \/ UNCHANGED vars
    BY <2>1, <2>6 DEF PeerCommits, vars, gatewayVars, fabricVars
  <2>7. CASE GatewayRestarts
    BY <2>1, <2>7 DEF GatewayRestarts, Awaiting, fabricVars
  <2>8. QED
    BY <2>2, <2>3, <2>4, <2>5, <2>6, <2>7 DEF Next
<1>3. QED
  BY <1>1, <1>2, Invariance, PTL DEF Spec
=============================================================================
