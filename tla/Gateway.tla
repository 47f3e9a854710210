------------------------------ MODULE Gateway ------------------------------
(***************************************************************************)
(* The REST gateway (gateway/src) and the part of Hyperledger Fabric it    *)
(* uses: one peer, one orderer and the chaincode.                          *)
(*                                                                         *)
(* A handler of handlers.js runs without interruption up to its next       *)
(* await, so a step is what it does between two awaits.  submitTransaction *)
(* has three awaits (the endorsement by the peer, the submission to the    *)
(* orderer, the status of the commit) and evaluateTransaction has one, and *)
(* each of them has a deadline.  Whether the client still waits for the    *)
(* answer (curl gives up after ten seconds) makes no difference here.      *)
(*                                                                         *)
(* Fabric is modelled as fabric-client.js uses it: transactions enter the  *)
(* channel in the order in which the orderer took them, the peer commits   *)
(* them in that order, and a blind write is never invalidated.  A peer or  *)
(* an orderer that is down is one that takes no step; the request waiting  *)
(* for it fails.                                                           *)
(***************************************************************************)
EXTENDS Chaincode, Integers, Sequences

CONSTANTS Request,   \* the HTTP requests of all clients
          Posted,    \* the events clients post
          Malformed  \* a body that is not JSON

ASSUME GatewayAssumption == /\ \A e \in Posted : e.hash \in Hash \cup {NoHash}
                            /\ NoHash \notin Hash
                            /\ IsFiniteSet(Hash)
                            /\ Absent \notin Posted
                            /\ Malformed \notin Posted

VARIABLES healthy,   \* fc && fc.healthy, set when the process starts
          phase,     \* phase[r]: where the handler of request r is
          call,      \* call[r]: the route and the argument of r
          result,    \* result[r]: the events the peer returned to r
          answer,    \* answer[r]: the response to r
          sent,      \* requests whose transaction is on its way to the orderer
          ordered,   \* the requests whose transaction is in the channel
          committed, \* how many of them the peer has committed
          state,     \* the world state
          known      \* known[r]: the hashes that answers had shown to be
                     \* stored when r was received

gatewayVars == <<phase, call, result, answer, known>>
fabricVars == <<sent, ordered, committed, state>>
vars == <<healthy, gatewayVars, fabricVars>>

\* The handlers, named after their routes, and what they are called with.
Call == [route : {"create"}, body : Posted \cup {Malformed}]
          \cup [route : {"query"}, body : Hash]
          \cup [route : {"list", "verify", "status"}, body : {NoHash}]

NoCall == [route |-> "none", body |-> NoHash]

(* "endorse", "submit", "commit", "evaluate": awaiting Fabric; "read": the *)
(* peer evaluated, its reply is on the way; "lost": the process died.      *)
Awaiting == {"endorse", "submit", "commit", "evaluate", "read"}

Phase == Awaiting \cup {"idle", "answered", "lost"}

(* A response: its status code, the hashes it presents as stored, those of *)
(* them it reports as failing verification, and the number of events.      *)
Answer == [status : {0, 200, 201, 400, 404, 422, 500, 503},
           seen : SUBSET Hash, failed : SUBSET Hash, events : Int]

TypeOK == /\ healthy \in BOOLEAN
          /\ phase \in [Request -> Phase]
          /\ call \in [Request -> Call \cup {NoCall}]
          /\ result \in [Request -> SUBSET Posted]
          /\ answer \in [Request -> Answer]
          /\ sent \in SUBSET Request
          /\ ordered \in Seq(Request)
          /\ committed \in 0 .. Len(ordered)
          /\ state \in [Hash -> Posted \cup {Absent}]
          /\ known \in [Request -> SUBSET Hash]

Status(code) == [status |-> code, seen |-> {}, failed |-> {}, events |-> -1]

Init == /\ healthy \in BOOLEAN
        /\ phase = [r \in Request |-> "idle"]
        /\ call = [r \in Request |-> NoCall]
        /\ result = [r \in Request |-> {}]
        /\ answer = [r \in Request |-> Status(0)]
        /\ sent = {}
        /\ ordered = <<>>
        /\ committed = 0
        /\ state = EmptyState
        /\ known = [r \in Request |-> {}]

-----------------------------------------------------------------------------
(* The handlers                                                            *)

Enter(r, p) == /\ phase' = [phase EXCEPT ![r] = p]
               /\ UNCHANGED answer

Respond(r, a) == /\ phase' = [phase EXCEPT ![r] = "answered"]
                 /\ answer' = [answer EXCEPT ![r] = a]

\* createEvent up to its await.
CreateEventStarts(r, event) ==
  \/ /\ event = Malformed \* express.json answers
     /\ Respond(r, Status(400))
  \/ /\ event # Malformed
     /\ ~HasHash(event)
     /\ Respond(r, Status(400))
  \/ /\ event # Malformed
     /\ HasHash(event)
     /\ IF healthy THEN Enter(r, "endorse") ELSE Respond(r, Status(422))

\* The other handlers up to their await; only handleStatus answers 200.
ReadStarts(r, route) ==
  \/ healthy /\ Enter(r, "evaluate")
  \/ ~healthy /\ Respond(r, Status(IF route = "status" THEN 200 ELSE 503))

\* The hashes that some answer has shown to be stored.
Shown == UNION {answer[r].seen : r \in Request}

Receive(r, c) == /\ phase[r] = "idle"
                 /\ call' = [call EXCEPT ![r] = c]
                 /\ known' = [known EXCEPT ![r] = Shown]
                 /\ IF c.route = "create" THEN CreateEventStarts(r, c.body)
                                          ELSE ReadStarts(r, c.route)
                 /\ UNCHANGED <<healthy, result, fabricVars>>

(* The SHA-256 of a text made from the fields of an event.  Collisions are *)
(* left out: the digest stands for the text, which is made of the fields   *)
(* in one of two forms.                                                    *)
Digest(form, fields) == <<form, fields>>

\* audit_event_compute_hash, which gave the event its hash: its JSON form.
AuditorHash(fields) == Digest("json", fields)

\* The gateway hashes the values of the fields one after the other.
computeSHA256(e) == Digest("concatenated", e.fields)

HashesOf(events) == {e.hash : e \in events}

\* The loop of handleVerify.
FailedHashes(events) == HashesOf({e \in events : e.hash # computeSHA256(e)})

\* What the handler of c answers when the peer returned these events.
\* (handleStatus reports the object {count: n}, here the number n.)
ReadAnswer(c, events) ==
  [status |-> 200,
   seen   |-> IF c.route = "status" THEN {} ELSE HashesOf(events),
   failed |-> IF c.route = "verify" THEN FailedHashes(events) ELSE {},
   events |-> Cardinality(events)]

\* The catch clauses of the handlers.
ErrorAnswer(c) == Status(CASE c.route = "create" -> 422
                           [] c.route = "query"  -> 404
                           [] c.route = "status" -> 200
                           [] OTHER              -> 500)

-----------------------------------------------------------------------------
(* submitTransaction                                                       *)

\* The peer simulates CreateEvent and endorses the write, which is sent off.
Endorse(r) == /\ phase[r] = "endorse"
              /\ Enter(r, "submit")
              /\ sent' = sent \cup {r}
              /\ UNCHANGED <<healthy, call, result, known, ordered, committed, state>>

\* The orderer takes a transaction, also one nobody waits for any more.
Order(r) == /\ r \in sent
            /\ sent' = sent \ {r}
            /\ ordered' = Append(ordered, r)
            /\ UNCHANGED <<healthy, gatewayVars, committed, state>>

\* The reply of the orderer arrives: the commit is awaited.
Submitted(r) == /\ phase[r] = "submit"
                /\ \E i \in 1 .. Len(ordered) : ordered[i] = r
                /\ Enter(r, "commit")
                /\ UNCHANGED <<healthy, call, result, known, fabricVars>>

HastyIsCommitted(r) == \E i \in 1 .. Len(ordered) : ordered[i] = r

IsCommitted(r) == \E i \in 1 .. committed : ordered[i] = r

\* The status of the commit arrives: createEvent answers 201.
CommitStatus(r) ==
  /\ phase[r] = "commit"
  /\ IsCommitted(r)
  /\ Respond(r, [Status(201) EXCEPT !.seen = {call[r].body.hash}])
  /\ UNCHANGED <<healthy, call, result, known, fabricVars>>

\* The peer commits the next transaction of the channel.
PeerCommits ==
  /\ committed < Len(ordered)
  /\ committed' = committed + 1
  /\ state' = CreateEvent(state, call[ordered[committed + 1]].body)
  /\ UNCHANGED <<healthy, gatewayVars, sent, ordered>>

-----------------------------------------------------------------------------
(* evaluateTransaction                                                     *)

\* The chaincode function each handler evaluates.
Evaluated(c) == IF c.route = "query" THEN QueryByHash(state, c.body)
                                     ELSE GetAllEvents(state)

Evaluate(r) == /\ phase[r] = "evaluate"
               /\ result' = [result EXCEPT ![r] = Evaluated(call[r])]
               /\ Enter(r, "read")
               /\ UNCHANGED <<healthy, call, known, fabricVars>>

FaultyReadReply(r) == /\ phase[r] = "read"
                      /\ Respond(r, ReadAnswer(call[r], result[r]))
                      /\ UNCHANGED <<healthy, call, result, known, fabricVars>>

\* The reply arrives: the events, or the exception QueryByHash threw.
ReadReply(r) == /\ phase[r] = "read"
                /\ Respond(r, IF call[r].route = "query" /\ result[r] = {}
                              THEN ErrorAnswer(call[r])
                              ELSE ReadAnswer(call[r], result[r]))
                /\ UNCHANGED <<healthy, call, result, known, fabricVars>>

\* The awaits that end at a deadline: all of them.
TimesOut == Awaiting

\* A deadline passes, or the peer, the orderer or the connection fails.
CallFails(r) == /\ phase[r] \in TimesOut
                /\ Respond(r, ErrorAnswer(call[r]))
                /\ UNCHANGED <<healthy, call, result, known, fabricVars>>

-----------------------------------------------------------------------------
(* Restarts                                                                *)

(* The process dies and is started again.  Its handlers die with it; what  *)
(* they submitted lives on.  The constructor of FabricClient only reads    *)
(* the environment and the certificates: whether it throws does not depend *)
(* on the peer, and it is not called again while the process runs.         *)
GatewayRestarts ==
  /\ healthy' \in BOOLEAN
  /\ phase' = [r \in Request |-> IF phase[r] \in Awaiting THEN "lost" ELSE phase[r]]
  /\ UNCHANGED <<call, result, answer, known, fabricVars>>

-----------------------------------------------------------------------------
Handle(r) == \/ Endorse(r)
             \/ Submitted(r)
             \/ CommitStatus(r)
             \/ Evaluate(r)
             \/ ReadReply(r)
             \/ CallFails(r)

Next == \/ \E r \in Request, c \in Call : Receive(r, c)
        \/ \E r \in Request : Handle(r)
        \/ \E r \in Request : Order(r)
        \/ PeerCommits
        \/ GatewayRestarts

Spec == Init /\ [][Next]_vars

-----------------------------------------------------------------------------
(* Properties                                                              *)

(* An event for which createEvent answered 201 is stored under its hash,   *)
(* whatever happens to the gateway, the peer and other requests later.     *)
CreatedIsStored ==
  \A r \in Request : answer[r].status = 201 => state[call[r].body.hash] = call[r].body

(* An answer of 200 is not older than the request: it shows every event    *)
(* that a response sent before the request was received showed as stored,  *)
(* and the number handleStatus reports counts it.                          *)
ReadsAreFresh ==
  \A r \in Request : answer[r].status = 200 =>
     /\ call[r].route \in {"list", "verify"} => known[r] \subseteq answer[r].seen
     /\ call[r].route = "status" /\ answer[r].events >= 0
          => answer[r].events >= Cardinality(known[r])

\* The hashes that have an event in the world state.
Stored == {h \in Hash : state[h] # Absent}

(* What the reads answer with 200 is true of the ledger, although the      *)
(* peer's reply is a snapshot and other requests go on meanwhile           *)
(* (handlers.js:46-126): the events shown are stored; listEvents and       *)
(* handleVerify report as many as they show; handleEventByHash shows the   *)
(* event asked for, and nothing else; no count of handleStatus exceeds     *)
(* what is stored.                                                         *)
ReadsAreSound ==
  \A r \in Request : answer[r].status = 200 =>
     /\ answer[r].seen \subseteq Stored
     /\ answer[r].events <= Cardinality(Stored)
     /\ call[r].route \in {"list", "verify"} => answer[r].events = Cardinality(answer[r].seen)
     /\ call[r].route = "query" => answer[r].seen = {call[r].body} /\ answer[r].events = 1

Ledger == INSTANCE WriteOnceLedger WITH Event <- Posted

(* README.md:4, "de forma inmutable": the ledger is written once per hash. *)
(* It is as long as two different events never come with the same hash;    *)
(* posting an event again, as the auditor's retries do, changes nothing.   *)
WrittenOnce == Ledger!Spec

(* README.md:134, "Verificar integridad (recalcula hashes)": verification  *)
(* of a ledger that holds only what the auditor hashed finds no failure.   *)
HonestLedgerVerifies == \A r \in Request : answer[r].failed = {}
=============================================================================
