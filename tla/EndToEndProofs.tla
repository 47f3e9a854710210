--------------------------- MODULE EndToEndProofs ---------------------------
(***************************************************************************)
(* Theorems about EndToEnd, for any capacity of the queue, any number of   *)
(* events and any number of attempts.  The composition implements both     *)
(* Auditor and Gateway, so that what AuditorProofs and GatewayProofs show  *)
(* of each part holds of the whole.                                        *)
(***************************************************************************)
EXTENDS EndToEnd, TLAPS, FiniteSetTheorems

AP == INSTANCE AuditorProofs WITH ledger <- Stored
GP == INSTANCE GatewayProofs

Create(e) == [route |-> "create", body |-> Body(e)]

Typed == /\ phase \in [Request -> G!Phase]
         /\ call = [r \in Request |-> IF phase[r] = "idle" THEN G!NoCall ELSE Create(r[1])]
         /\ sent \in SUBSET Request
         /\ ordered \in Seq(Request)
         /\ committed \in 0 .. Len(ordered)
         /\ state \in [Event -> Posted \cup {Absent}]
         /\ tried \in [Event -> Nat]

InChannel(r) == r \in sent \/ \E i \in 1 .. Len(ordered) : ordered[i] = r

\* What is on its way to the ledger was received, and is an event.
Genuine == \A r \in Request :
              phase[r] \in {"endorse", "submit", "commit"} \/ InChannel(r)
                => phase[r] # "idle" /\ r[1] \notin quoted

\* A request that was received is one of an attempt, over or not.
Attempted == \A r \in Request : phase[r] # "idle" => r[2] <= tried[r[1]] \/ curl = r

Waiting == curl # <<>> => wpc = "post" /\ curl = Attempt

Inv == Typed /\ Genuine /\ Attempted /\ Waiting

-----------------------------------------------------------------------------
(* The actions, seen from the other side                                   *)

LEMMA AuditorStepEffect ==
  ASSUME AuditorStep
  PROVE  /\ UNCHANGED <<tried, answered, handled, gatewayVars, quoted, curl>>
         /\ wpc = "post" => UNCHANGED <<wpc, got>>
         /\ A!Next
<1>1. CASE A!Capture \/ A!CaptureEnds \/ A!Signal
  BY <1>1 DEF AuditorStep, A!Next, A!Capture, A!CaptureEnds, A!Signal, A!workerVars, A!queueVars
<1>2. CASE A!Push
  BY <1>2 DEF AuditorStep, A!Next, A!MainStep, A!Push, A!workerVars,
              A!Q!PushEnter, A!Q!PushResume, A!Q!PushSection, A!Q!PushWait, A!Q!PushRefused, A!Q!PushStore
<1>3. CASE A!LogWrite \/ A!Stop \/ A!Join \/ A!Destroy
  BY <1>3 DEF AuditorStep, A!Next, A!MainStep, A!LogWrite, A!Stop, A!Join, A!Destroy, A!workerVars, A!queueVars
<1>4. CASE A!ShutdownQueue
  BY <1>4 DEF AuditorStep, A!Next, A!MainStep, A!ShutdownQueue, A!workerVars, A!Q!Shutdown
<1>5. CASE A!TestRunning \/ A!TestCount \/ A!Sleep
  BY <1>5 DEF AuditorStep, A!Next, A!WorkerStep, A!TestRunning, A!TestCount, A!Sleep, A!queueVars
<1>6. CASE A!Pop
  BY <1>6 DEF AuditorStep, A!Next, A!WorkerStep, A!Pop
<1>7. CASE A!PopTimeout
  BY <1>7 DEF AuditorStep, A!Next, A!WorkerStep, A!PopTimeout, A!Q!PopTimeout, A!Q!Wake, A!workerVars
<1>8. CASE \E t \in {Main, Worker} : A!SpuriousWake(t)
  BY <1>8 DEF AuditorStep, A!Next, A!SpuriousWake, A!Q!SpuriousWake, A!Q!Wake, A!workerVars
<1>9. QED
  BY <1>1, <1>2, <1>3, <1>4, <1>5, <1>6, <1>7, <1>8 DEF AuditorStep, A!MainStep

\* The end of an attempt.
LEMMA PostEndEffect ==
  ASSUME PostAnswered \/ PostFailed
  PROVE  /\ wpc = "post" /\ curl' = <<>>
         /\ tried' = [tried EXCEPT ![got[Worker]] = @ + 1]
         /\ UNCHANGED <<gatewayVars, quoted>>
         /\ A!Next
BY DEF PostAnswered, PostFailed, A!PostAnswered, A!PostFailed, A!Next, A!WorkerStep

\* A handler of the gateway moves, on behalf of its request.
LEMMA HandleEffect ==
  ASSUME NEW r \in Request, G!Handle(r)
  PROVE  /\ UNCHANGED <<call, ordered, committed, state>>
         /\ phase[r] # "idle"
         /\ \E p \in {"submit", "commit", "read", "answered"} :
               /\ phase' = [phase EXCEPT ![r] = p]
               /\ p = "submit" => phase[r] = "endorse"
               /\ p = "commit" => phase[r] = "submit"
         /\ sent' = sent \/ (sent' = sent \cup {r} /\ phase[r] = "endorse")
BY DEF G!Handle, G!Endorse, G!Submitted, G!CommitStatus, G!Evaluate, G!ReadReply, G!CallFails,
       G!TimesOut, G!Awaiting, G!Enter, G!Respond, G!fabricVars

\* The gateway receives an event, and answers at once if it is malformed.
LEMMA PostSentEffect ==
  ASSUME PostSent
  PROVE  /\ UNCHANGED <<auditorVars, quoted, sent, ordered, committed, state>>
         /\ wpc = "post" /\ curl = <<>> /\ curl' = Attempt
         /\ phase[Attempt] = "idle"
         /\ call' = [call EXCEPT ![Attempt] = Create(got[Worker])]
         /\ \E p \in {"endorse", "answered"} :
               /\ phase' = [phase EXCEPT ![Attempt] = p]
               /\ p = "endorse" => got[Worker] \notin quoted
BY DEF PostSent, G!Receive, G!CreateEventStarts, G!Enter, G!Respond, G!fabricVars, Create, Body

-----------------------------------------------------------------------------
(* The invariant that ties the two parts together                          *)

LEMMA NoAttempt == \A r \in Request : r # <<>> /\ r = <<r[1], r[2]>> /\ r[1] \in Event /\ r[2] \in 1 .. MaxRetries
BY DEF Request

LEMMA InvInit == Init => Inv
<1> SUFFICES ASSUME Init PROVE Inv
  OBVIOUS
<1> USE EndToEndAssumption
<1>1. Typed
  <2>1. /\ phase = [r \in Request |-> "idle"] /\ call = [r \in Request |-> G!NoCall]
        /\ sent = {} /\ ordered = <<>> /\ committed = 0
        /\ state = [h \in Event |-> Absent] /\ tried = [e \in Event |-> 0]
    BY DEF Init, G!Init, A!Init, G!EmptyState, Hash, A!Event, Event
  <2>2. "idle" \in G!Phase
    BY DEF G!Phase
  <2>3. ordered \in Seq(Request) /\ Len(ordered) = 0
    BY <2>1
  <2>4. QED
    BY <2>1, <2>2, <2>3 DEF Typed
<1>2. Genuine /\ Attempted /\ Waiting
  BY DEF Init, G!Init, A!Init, Genuine, InChannel, Attempted, Waiting
<1>3. QED
  BY <1>1, <1>2 DEF Inv

LEMMA PostSentStep ==
  ASSUME Inv, PostSent
  PROVE  Inv'
<1> USE DEF Inv
<1>0. UNCHANGED <<wpc, got, tried>>
  BY PostSentEffect DEF auditorVars
<1>1. Waiting'
  BY <1>0, PostSentEffect DEF Waiting, Attempt
<1>2. CASE Attempt \notin Request
  <2>1. UNCHANGED <<phase, call>>
    BY <1>2, PostSentEffect DEF Typed
  <2>2. Typed'
    BY <1>0, <2>1, PostSentEffect DEF Typed, Create, Body
  <2>3. Genuine'
    BY <2>1, PostSentEffect DEF Genuine, InChannel
  <2>4. Attempted'
    BY <1>0, <2>1, PostSentEffect, NoAttempt DEF Attempted
  <2>5. QED
    BY <1>1, <2>2, <2>3, <2>4
<1>3. CASE Attempt \in Request
  <2>1. Attempt[1] = got[Worker]
    BY DEF Attempt
  <2>2. PICK p \in {"endorse", "answered"} : /\ phase' = [phase EXCEPT ![Attempt] = p]
                                             /\ p = "endorse" => got[Worker] \notin quoted
    BY PostSentEffect
  <2>3. p \in G!Phase /\ p # "idle"
    BY <2>2 DEF G!Phase, G!Awaiting
  <2>4. phase' \in [Request -> G!Phase] /\ phase'[Attempt] = p /\ \A q \in Request : q # Attempt => phase'[q] = phase[q]
    BY <1>3, <2>2, <2>3 DEF Typed
  <2>5. UNCHANGED quoted /\ \A e : Create(e)' = Create(e)
    BY PostSentEffect DEF Create, Body
  <2>6. call' = [r \in Request |-> IF phase'[r] = "idle" THEN G!NoCall ELSE Create(r[1])]
    BY <1>3, <2>1, <2>3, <2>4, PostSentEffect DEF Typed
  <2>7. Typed'
    BY <1>0, <2>4, <2>5, <2>6, PostSentEffect DEF Typed
  <2>8. Genuine'
    BY <2>1, <2>2, <2>3, <2>4, <2>5, PostSentEffect DEF Genuine, InChannel
  <2>9. Attempted'
    BY <1>0, <2>4, PostSentEffect, NoAttempt DEF Attempted
  <2>10. QED
    BY <1>1, <2>7, <2>8, <2>9
<1>4. QED
  BY <1>2, <1>3

LEMMA PostEndStep ==
  ASSUME Inv, PostAnswered \/ PostFailed
  PROVE  Inv'
<1> USE DEF Inv
<1>1. UNCHANGED <<phase, call, sent, ordered, committed, state, quoted>>
  BY PostEndEffect DEF gatewayVars
<1>2. tried' \in [Event -> Nat] /\ \A e \in Event : tried'[e] \in {tried[e], tried[e] + 1}
  <2> DEFINE e == got[Worker]
  <2>1. tried' = [tried EXCEPT ![e] = tried[e] + 1] /\ tried \in [Event -> Nat]
    BY PostEndEffect DEF Typed
  <2> HIDE DEF e
  <2>2. CASE e \in Event
    BY <2>1, <2>2
  <2>3. CASE e \notin Event
    BY <2>1, <2>3
  <2>4. QED
    BY <2>2, <2>3
<1>3. Typed'
  BY <1>1, <1>2 DEF Typed, Create, Body
<1>4. Genuine'
  BY <1>1 DEF Genuine, InChannel
<1>5. Attempted'
  <2> SUFFICES ASSUME NEW r \in Request, phase[r] # "idle"
               PROVE  r[2] <= tried'[r[1]]
    BY <1>1 DEF Attempted
  <2>1. r[1] \in Event /\ r[2] \in Nat /\ tried[r[1]] \in Nat
    BY NoAttempt DEF Typed
  <2>2. CASE r[2] <= tried[r[1]]
    BY <1>2, <2>1, <2>2
  <2>3. CASE curl = r
    <3>1. r[1] = got[Worker] /\ r[2] = tried[got[Worker]] + 1
      BY <2>3, NoAttempt DEF Waiting, Attempt
    <3>2. tried'[r[1]] = tried[r[1]] + 1
      BY <2>1, <3>1, PostEndEffect DEF Typed
    <3>3. QED
      BY <2>1, <3>1, <3>2
  <2>4. QED
    BY <2>2, <2>3 DEF Attempted
<1>6. Waiting'
  BY PostEndEffect DEF Waiting
<1>7. QED
  BY <1>3, <1>4, <1>5, <1>6

LEMMA AuditorStepStep ==
  ASSUME Inv, AuditorStep
  PROVE  Inv'
<1> USE DEF Inv
<1>1. UNCHANGED <<tried, phase, call, sent, ordered, committed, state, quoted, curl>>
  BY AuditorStepEffect DEF gatewayVars
<1>2. Waiting'
  BY <1>1, AuditorStepEffect DEF Waiting, Attempt
<1>3. QED
  BY <1>1, <1>2 DEF Typed, Create, Body, Genuine, InChannel, Attempted

\* What the peer commits is an event that the auditor posted.
LEMMA CommitEffect ==
  ASSUME Inv, G!PeerCommits, UNCHANGED <<auditorVars, quoted, curl>>
  PROVE  /\ UNCHANGED <<phase, call, sent, ordered, result, answer, known, healthy>>
         /\ committed' \in 0 .. Len(ordered)
         /\ state' \in [Event -> Posted \cup {Absent}]
         /\ \E e \in Event \ quoted : A!WasPosted(e) /\ Stored' = Stored \cup {e}
<1> USE DEF Inv
<1> DEFINE r == ordered[committed + 1]
           e == r[1]
<1>1. /\ committed < Len(ordered) /\ committed' = committed + 1
      /\ state' = [state EXCEPT ![call[r].body.hash] = call[r].body]
      /\ UNCHANGED <<phase, call, sent, ordered, result, answer, known, healthy>>
  BY DEF G!PeerCommits, G!CreateEvent, G!gatewayVars
<1>2. committed + 1 \in 1 .. Len(ordered) /\ r \in Request
  BY <1>1 DEF Typed
<1> HIDE DEF r
<1>3. InChannel(r)
  BY <1>2 DEF InChannel, r
<1>4. phase[r] # "idle" /\ e \notin quoted /\ e \in Event
  BY <1>2, <1>3, NoAttempt DEF Genuine
<1>5. call[r].body = EventOf(e) /\ call[r].body.hash = e
  BY <1>2, <1>4 DEF Typed, Create, Body, EventOf
<1>6. state' = [state EXCEPT ![e] = EventOf(e)] /\ EventOf(e) \in Posted /\ EventOf(e) # Absent
  BY <1>1, <1>4, <1>5, EndToEndAssumption DEF Posted
<1>7. A!WasPosted(e)
  <2>1. CASE r[2] <= tried[e]
    BY <1>2, <1>4, <2>1, NoAttempt DEF A!WasPosted, Typed
  <2>2. CASE curl = r
    BY <1>2, <2>2, NoAttempt DEF Waiting, Attempt, A!WasPosted
  <2>3. QED
    BY <1>2, <1>4, <2>1, <2>2 DEF Attempted
<1> HIDE DEF e
<1>8. Stored' = Stored \cup {e}
  BY <1>4, <1>6 DEF Stored, Typed
<1>9. committed' \in 0 .. Len(ordered)
  BY <1>1, <1>2 DEF Typed
<1>10. state' \in [Event -> Posted \cup {Absent}]
  BY <1>4, <1>6 DEF Typed
<1>11. QED
  BY <1>1, <1>4, <1>7, <1>8, <1>9, <1>10

LEMMA GatewayStepStep ==
  ASSUME Inv, GatewayStep
  PROVE  Inv'
<1> USE DEF Inv
<1>1. UNCHANGED <<tried, wpc, got, quoted, curl, auditorVars>>
  BY DEF GatewayStep, auditorVars
<1>2. Waiting' /\ \A e : Create(e)' = Create(e)
  BY <1>1 DEF Waiting, Attempt, Create, Body
<1>3. ASSUME NEW r \in Request, G!Handle(r)
      PROVE  Inv'
  <2>1. PICK p \in {"submit", "commit", "read", "answered"} :
               /\ phase' = [phase EXCEPT ![r] = p]
               /\ p = "submit" => phase[r] = "endorse"
               /\ p = "commit" => phase[r] = "submit"
    BY <1>3, HandleEffect
  <2>2. /\ phase' \in [Request -> G!Phase] /\ phase'[r] = p
        /\ \A q \in Request : q # r => phase'[q] = phase[q]
    BY <2>1 DEF Typed, G!Phase, G!Awaiting
  <2>3. phase[r] # "idle" /\ \A q \in Request : phase'[q] = "idle" <=> phase[q] = "idle"
    BY <1>3, <2>2, HandleEffect
  <2>4. /\ UNCHANGED <<call, ordered, committed, state>>
        /\ sent' = sent \/ (sent' = sent \cup {r} /\ phase[r] = "endorse")
    BY <1>3, HandleEffect
  <2>5. Typed'
    BY <1>1, <1>2, <2>2, <2>3, <2>4 DEF Typed
  <2>6. Genuine'
    BY <1>1, <2>1, <2>2, <2>3, <2>4 DEF Genuine, InChannel
  <2>7. Attempted'
    BY <1>1, <2>3 DEF Attempted
  <2>8. QED
    BY <1>2, <2>5, <2>6, <2>7
<1>4. ASSUME NEW r \in Request, G!Order(r)
      PROVE  Inv'
  <2>1. /\ r \in sent /\ sent' = sent \ {r} /\ ordered' = Append(ordered, r)
        /\ UNCHANGED <<phase, call, committed, state>>
    BY <1>4 DEF G!Order, G!gatewayVars
  <2>2. Typed'
    BY <1>1, <1>2, <2>1 DEF Typed
  <2>3. \A q : InChannel(q)' => InChannel(q)
    BY <2>1 DEF InChannel, Typed
  <2>4. QED
    BY <1>1, <1>2, <2>1, <2>2, <2>3 DEF Genuine, Attempted
<1>5. CASE G!PeerCommits
  <2>1. Typed'
    BY <1>1, <1>2, <1>5, CommitEffect DEF Typed
  <2>2. QED
    BY <1>1, <1>2, <1>5, <2>1, CommitEffect DEF Genuine, InChannel, Attempted
<1>6. CASE G!GatewayRestarts
  <2>1. /\ phase' = [r \in Request |-> IF phase[r] \in G!Awaiting THEN "lost" ELSE phase[r]]
        /\ UNCHANGED <<call, sent, ordered, committed, state>>
    BY <1>6 DEF G!GatewayRestarts, G!fabricVars
  <2>2. /\ phase' \in [Request -> G!Phase]
        /\ \A q \in Request : /\ phase'[q] = "idle" <=> phase[q] = "idle"
                              /\ phase'[q] \in {"endorse", "submit", "commit"} => phase'[q] = phase[q]
    BY <2>1 DEF Typed, G!Phase, G!Awaiting
  <2>3. Typed'
    BY <1>1, <1>2, <2>1, <2>2 DEF Typed
  <2>4. QED
    BY <1>1, <1>2, <2>1, <2>2, <2>3 DEF Genuine, InChannel, Attempted
<1>7. QED
  BY <1>3, <1>4, <1>5, <1>6 DEF GatewayStep

LEMMA Invariance == Spec => []Inv
<1>1. Inv /\ [Next]_vars => Inv'
  <2>1. Inv /\ UNCHANGED vars => Inv'
    BY DEF vars, auditorVars, gatewayVars, Inv, Typed, Create, Body, Genuine, InChannel, Attempted, Waiting, Attempt
  <2>2. QED
    BY <2>1, PostSentStep, PostEndStep, AuditorStepStep, GatewayStepStep DEF Next
<1>2. QED
  BY InvInit, <1>1, PTL DEF Spec

-----------------------------------------------------------------------------
(* The refinement                                                          *)

\* A step that leaves the world state alone leaves the ledger alone.
LEMMA SameLedger == UNCHANGED state => UNCHANGED Stored
BY DEF Stored

(* The gateway, Fabric included, does to an event only what Auditor allows *)
(* of a POST: it stores events that were posted, at any time, or never,    *)
(* and takes none back, whatever restarts, deadlines and retries happen.   *)
THEOREM ImplementsAbstractPost == Spec => ImplementsAuditor
<1>1. Init => A!Init
  BY DEF Init
<1>2. Inv /\ [Next]_vars => [A!Next]_A!vars
  <2> SUFFICES ASSUME Inv, [Next]_vars PROVE [A!Next]_A!vars
    OBVIOUS
  <2>1. CASE UNCHANGED <<auditorVars, state>>
    BY <2>1, SameLedger DEF auditorVars, A!vars, A!queueVars, A!mainVars, A!workerVars, A!flags
  <2>2. CASE PostSent
    BY <2>1, <2>2, PostSentEffect
  <2>3. CASE PostAnswered \/ PostFailed
    BY <2>3, PostEndEffect
  <2>4. CASE AuditorStep
    BY <2>4, AuditorStepEffect
  <2>5. CASE GatewayStep /\ ~G!PeerCommits
    <3>1. UNCHANGED state
      BY <2>5, HandleEffect DEF GatewayStep, G!Order, G!GatewayRestarts, G!fabricVars
    <3>2. QED
      BY <2>1, <2>5, <3>1 DEF GatewayStep
  <2>6. CASE GatewayStep /\ G!PeerCommits
    <3>1. UNCHANGED <<auditorVars, quoted, curl>>
      BY <2>6 DEF GatewayStep
    <3>2. PICK e \in Event : A!WasPosted(e) /\ Stored' = Stored \cup {e}
      BY <2>6, <3>1, CommitEffect
    <3>3. A!GatewayStores(e)
      BY <3>1, <3>2 DEF A!GatewayStores, auditorVars, A!queueVars, A!mainVars, A!flags
    <3>4. QED
      BY <3>3 DEF A!Next, A!Event, Event
  <2>7. CASE UNCHANGED vars
    BY <2>1, <2>7 DEF vars, gatewayVars
  <2>8. QED
    BY <2>2, <2>3, <2>4, <2>5, <2>6, <2>7 DEF Next
<1>3. QED
  BY <1>1, <1>2, Invariance, PTL DEF Spec, ImplementsAuditor, A!Spec

-----------------------------------------------------------------------------
(* A and AP are the same auditor, G and GP the same gateway                *)

LEMMA SameQueuePieces ==
  /\ A!Q!PushMustWait <=> AP!Q!PushMustWait
  /\ A!Q!PopMustWait <=> AP!Q!PopMustWait
  /\ A!Q!PopFails <=> AP!Q!PopFails
  /\ \A i : A!Q!Advance(i) = AP!Q!Advance(i)
  /\ \A T : A!Q!Blocked(T) = AP!Q!Blocked(T)
  /\ \A t, rc : A!Q!Return(t, rc) <=> AP!Q!Return(t, rc)
  /\ \A t, T : A!Q!LeaveSignalling(t, T) <=> AP!Q!LeaveSignalling(t, T)
<1>1. \A T : A!Q!Blocked(T) = AP!Q!Blocked(T)
  BY DEF A!Q!Blocked, AP!Q!Blocked
<1>2. \A t, T : A!Q!LeaveSignalling(t, T) <=> AP!Q!LeaveSignalling(t, T)
  BY <1>1 DEF A!Q!LeaveSignalling, AP!Q!LeaveSignalling
<1>3. QED
  BY <1>1, <1>2 DEF A!Q!PushMustWait, AP!Q!PushMustWait, A!Q!PopMustWait, AP!Q!PopMustWait,
                    A!Q!PopFails, AP!Q!PopFails, A!Q!Advance, AP!Q!Advance, A!Q!Return, AP!Q!Return

LEMMA SamePush ==
  /\ \A p, x : A!Q!PushEnter(p, x) <=> AP!Q!PushEnter(p, x)
  /\ \A p : A!Q!PushResume(p) <=> AP!Q!PushResume(p)
<1>1. \A p, x : A!Q!PushSection(p, x) <=> AP!Q!PushSection(p, x)
  <2>1. \A p : /\ A!Q!PushWait(p) <=> AP!Q!PushWait(p)
               /\ A!Q!PushRefused(p) <=> AP!Q!PushRefused(p)
    BY SameQueuePieces DEF A!Q!PushWait, AP!Q!PushWait, A!Q!PushRefused, AP!Q!PushRefused,
                           A!Q!ring, AP!Q!ring
  <2>2. \A p, x : A!Q!PushStore(p, x) <=> AP!Q!PushStore(p, x)
    BY SameQueuePieces DEF A!Q!PushStore, AP!Q!PushStore
  <2>3. QED
    BY <2>1, <2>2 DEF A!Q!PushSection, AP!Q!PushSection
<1>2. QED
  BY <1>1 DEF A!Q!PushEnter, AP!Q!PushEnter, A!Q!PushResume, AP!Q!PushResume

LEMMA SamePop ==
  /\ \A c, how : A!Q!PopEnter(c, how) <=> AP!Q!PopEnter(c, how)
  /\ \A c : A!Q!PopResume(c) <=> AP!Q!PopResume(c)
  /\ \A c : A!Q!PopTimeout(c) <=> AP!Q!PopTimeout(c)
<1>1. \A c : A!Q!PopFinish(c) <=> AP!Q!PopFinish(c)
  <2>1. \A c : A!Q!PopNothing(c) <=> AP!Q!PopNothing(c)
    BY SameQueuePieces DEF A!Q!PopNothing, AP!Q!PopNothing, A!Q!ring, AP!Q!ring
  <2>2. \A c : A!Q!PopTake(c) <=> AP!Q!PopTake(c)
    BY SameQueuePieces DEF A!Q!PopTake, AP!Q!PopTake
  <2>3. QED
    BY <2>1, <2>2 DEF A!Q!PopFinish, AP!Q!PopFinish
<1>2. \A c, how : A!Q!PopWait(c, how) <=> AP!Q!PopWait(c, how)
  BY SameQueuePieces DEF A!Q!PopWait, AP!Q!PopWait, A!Q!ring, AP!Q!ring
<1>3. \A c : A!Q!Wake(c) <=> AP!Q!Wake(c)
  BY DEF A!Q!Wake, AP!Q!Wake, A!Q!ring, AP!Q!ring
<1>4. QED
  BY <1>1, <1>2, <1>3, SameQueuePieces
     DEF A!Q!PopEnter, AP!Q!PopEnter, A!Q!PopResume, AP!Q!PopResume, A!Q!PopTimeout, AP!Q!PopTimeout

LEMMA SameWakeups ==
  /\ A!Q!Shutdown <=> AP!Q!Shutdown
  /\ \A t : A!Q!SpuriousWake(t) <=> AP!Q!SpuriousWake(t)
BY DEF A!Q!Shutdown, AP!Q!Shutdown, A!Q!Broadcast, AP!Q!Broadcast, A!Q!Thread, AP!Q!Thread,
       A!Q!Blocked, AP!Q!Blocked, A!Q!SpuriousWake, AP!Q!SpuriousWake, A!Q!Wake, AP!Q!Wake,
       A!Q!ring, AP!Q!ring

LEMMA SameMainStep == A!MainStep <=> AP!MainStep
<1>1. A!Push <=> AP!Push
  BY SamePush DEF A!Push, AP!Push, A!AfterPush, AP!AfterPush, A!workerVars, AP!workerVars, A!flags, AP!flags
<1>2. A!ShutdownQueue <=> AP!ShutdownQueue
  BY SameWakeups DEF A!ShutdownQueue, AP!ShutdownQueue, A!workerVars, AP!workerVars, A!flags, AP!flags
<1>3. /\ A!LogWrite <=> AP!LogWrite
      /\ A!Stop <=> AP!Stop
      /\ A!Join <=> AP!Join
      /\ A!Destroy <=> AP!Destroy
  BY DEF A!LogWrite, AP!LogWrite, A!Stop, AP!Stop, A!Join, AP!Join, A!Destroy, AP!Destroy,
         A!workerVars, AP!workerVars, A!flags, AP!flags, A!queueVars, AP!queueVars
<1>4. QED
  BY <1>1, <1>2, <1>3 DEF A!MainStep, AP!MainStep

LEMMA SameWorkerStep == A!WorkerStep <=> AP!WorkerStep
<1>1. A!Pop <=> AP!Pop
  BY SamePop DEF A!Pop, AP!Pop, A!AfterPop, AP!AfterPop, A!mainVars, AP!mainVars, A!flags, AP!flags
<1>2. A!PopTimeout <=> AP!PopTimeout
  BY SamePop DEF A!PopTimeout, AP!PopTimeout, A!mainVars, AP!mainVars, A!workerVars, AP!workerVars, A!flags, AP!flags
<1>3. /\ A!PostAnswered <=> AP!PostAnswered
      /\ A!PostFailed <=> AP!PostFailed
  BY DEF A!PostAnswered, AP!PostAnswered, A!PostFailed, AP!PostFailed, A!TryAgain, AP!TryAgain,
         A!LeaveRetryLoop, AP!LeaveRetryLoop, A!queueVars, AP!queueVars, A!mainVars, AP!mainVars, A!flags, AP!flags
<1>4. /\ A!TestRunning <=> AP!TestRunning
      /\ A!TestCount <=> AP!TestCount
      /\ A!Sleep <=> AP!Sleep
  BY DEF A!TestRunning, AP!TestRunning, A!TestCount, AP!TestCount, A!Sleep, AP!Sleep,
         A!queueVars, AP!queueVars, A!mainVars, AP!mainVars, A!flags, AP!flags
<1>5. QED
  BY <1>1, <1>2, <1>3, <1>4 DEF A!WorkerStep, AP!WorkerStep

LEMMA SameAuditor == A!vars = AP!vars /\ (A!Init <=> AP!Init) /\ (A!Next <=> AP!Next)
<1> USE DEF A!queueVars, AP!queueVars, A!mainVars, AP!mainVars, A!workerVars, AP!workerVars,
            A!flags, AP!flags, A!vars, AP!vars
<1>1. A!Init <=> AP!Init
  BY DEF A!Init, AP!Init, A!Q!Init, AP!Q!Init, A!Q!Slot, AP!Q!Slot, A!Q!Thread, AP!Q!Thread, A!Event, AP!Event
<1>2. /\ A!Capture <=> AP!Capture
      /\ A!CaptureEnds <=> AP!CaptureEnds
      /\ A!Signal <=> AP!Signal
      /\ A!Terminated <=> AP!Terminated
      /\ \A e : A!GatewayStores(e) <=> AP!GatewayStores(e)
      /\ A!Event = AP!Event
  BY DEF A!Capture, AP!Capture, A!CaptureEnds, AP!CaptureEnds, A!Signal, AP!Signal,
         A!Terminated, AP!Terminated, A!GatewayStores, AP!GatewayStores, A!WasPosted, AP!WasPosted, A!Event, AP!Event
<1>3. \A t : A!SpuriousWake(t) <=> AP!SpuriousWake(t)
  BY SameWakeups DEF A!SpuriousWake, AP!SpuriousWake
<1>4. QED
  BY <1>1, <1>2, <1>3, SameMainStep, SameWorkerStep DEF A!Next, AP!Next

LEMMA SameHandlers ==
  \A r : G!Handle(r) <=> GP!Handle(r)
<1> USE DEF G!fabricVars, GP!fabricVars, G!gatewayVars, GP!gatewayVars
<1>1. /\ \A q, p : G!Enter(q, p) <=> GP!Enter(q, p)
      /\ \A q, a : G!Respond(q, a) <=> GP!Respond(q, a)
      /\ \A c : G!Status(c) = GP!Status(c)
      /\ \A c : G!ErrorAnswer(c) = GP!ErrorAnswer(c)
      /\ \A c, es : G!ReadAnswer(c, es) = GP!ReadAnswer(c, es)
      /\ \A c : G!Evaluated(c) = GP!Evaluated(c)
  <2>1. \A es : G!HashesOf(es) = GP!HashesOf(es) /\ G!FailedHashes(es) = GP!FailedHashes(es)
    BY DEF G!HashesOf, GP!HashesOf, G!FailedHashes, GP!FailedHashes,
           G!computeSHA256, GP!computeSHA256, G!Digest, GP!Digest
  <2>2. \A es : G!Cardinality(es) = GP!Cardinality(es)
    BY Zenon DEF G!Cardinality, GP!Cardinality
  <2>3. \A c, es : G!ReadAnswer(c, es) = GP!ReadAnswer(c, es)
    BY <2>1, <2>2 DEF G!ReadAnswer, GP!ReadAnswer
  <2>4. \A c : G!Evaluated(c) = GP!Evaluated(c)
    BY DEF G!Evaluated, GP!Evaluated, G!QueryByHash, GP!QueryByHash, G!GetAllEvents, GP!GetAllEvents
  <2>5. QED
    BY <2>3, <2>4 DEF G!Enter, GP!Enter, G!Respond, GP!Respond, G!Status, GP!Status, G!ErrorAnswer, GP!ErrorAnswer
<1>2. \A r : /\ G!Endorse(r) <=> GP!Endorse(r)
             /\ G!Submitted(r) <=> GP!Submitted(r)
             /\ G!Evaluate(r) <=> GP!Evaluate(r)
  BY <1>1 DEF G!Endorse, GP!Endorse, G!Submitted, GP!Submitted, G!Evaluate, GP!Evaluate
<1>3. \A r : /\ G!CommitStatus(r) <=> GP!CommitStatus(r)
             /\ G!CallFails(r) <=> GP!CallFails(r)
  BY <1>1 DEF G!CommitStatus, GP!CommitStatus, G!IsCommitted, GP!IsCommitted, G!CallFails, GP!CallFails,
              G!TimesOut, GP!TimesOut, G!Awaiting, GP!Awaiting
<1>4. \A r : G!ReadReply(r) <=> GP!ReadReply(r)
  BY <1>1 DEF G!ReadReply, GP!ReadReply
<1>5. QED
  BY <1>2, <1>3, <1>4 DEF G!Handle, GP!Handle

LEMMA SameGateway == G!vars = GP!vars /\ (G!Init <=> GP!Init) /\ (G!Next <=> GP!Next)
<1> USE DEF G!fabricVars, GP!fabricVars, G!gatewayVars, GP!gatewayVars, G!vars, GP!vars
<1>1. G!Init <=> GP!Init
  BY DEF G!Init, GP!Init, G!EmptyState, GP!EmptyState, G!Status, GP!Status, G!NoCall, GP!NoCall
<1>2. \A r, c : G!Receive(r, c) <=> GP!Receive(r, c)
  <2>1. \A r, c : /\ G!CreateEventStarts(r, c) <=> GP!CreateEventStarts(r, c)
                  /\ G!ReadStarts(r, c) <=> GP!ReadStarts(r, c)
    BY DEF G!CreateEventStarts, GP!CreateEventStarts, G!ReadStarts, GP!ReadStarts, G!HasHash, GP!HasHash,
           G!Enter, GP!Enter, G!Respond, GP!Respond, G!Status, GP!Status
  <2>2. QED
    BY <2>1 DEF G!Receive, GP!Receive, G!Shown, GP!Shown
<1>3. G!Call = GP!Call
  BY DEF G!Call, GP!Call
<1>4. /\ G!PeerCommits <=> GP!PeerCommits
      /\ G!GatewayRestarts <=> GP!GatewayRestarts
      /\ \A r : G!Order(r) <=> GP!Order(r)
  BY DEF G!PeerCommits, GP!PeerCommits, G!CreateEvent, GP!CreateEvent, G!GatewayRestarts, GP!GatewayRestarts,
         G!Awaiting, GP!Awaiting, G!Order, GP!Order
<1>5. QED
  BY <1>1, <1>2, <1>3, <1>4, SameHandlers DEF G!Next, GP!Next

-----------------------------------------------------------------------------
(* The composition implements the gateway                                  *)

\* The invariant of AuditorProofs.
AuditorInv == AP!QueueInv /\ AP!Numbered /\ AP!IInv

\* Auditor assumes no more of its constants than EndToEnd.
LEMMA AuditorConstants == /\ MaxEvents \in Nat
                          /\ MaxRetries \in Nat \ {0}
                          /\ Size \in Nat \ {0}
                          /\ Main # Worker
                          /\ NoItem \notin Nat
BY EndToEndAssumption

\* The auditor of the composition is the one AuditorProofs is about.
LEMMA AuditorPart == Spec => AP!Spec
<1>1. A!Init => AP!Init
  BY SameAuditor
<1>2. [A!Next]_A!vars => [AP!Next]_AP!vars
  BY SameAuditor DEF A!vars, AP!vars, A!queueVars, AP!queueVars, A!mainVars, AP!mainVars,
                     A!workerVars, AP!workerVars, A!flags, AP!flags
<1>3. A!Spec => AP!Spec
  BY <1>1, <1>2, PTL DEF A!Spec, AP!Spec
<1>4. QED
  BY <1>3, ImplementsAbstractPost, PTL DEF ImplementsAuditor

LEMMA AuditorInvariance == Spec => []AuditorInv
<1>1. AP!Spec => []AuditorInv
  BY AuditorConstants, AP!Invariance DEF AuditorInv
<1>2. QED
  BY <1>1, AuditorPart, PTL

\* A POST is about an event, and is one of its MaxRetries attempts.
LEMMA AttemptIsRequest ==
  ASSUME AuditorInv, wpc = "post"
  PROVE  got[Worker] \in Event /\ Attempt \in Request
<1>1. AP!QueueInv /\ AP!Numbered /\ AP!Placed /\ AP!Tries
  BY DEF AuditorInv, AP!IInv
<1>2. /\ got[Worker] \in AP!Event /\ retries \in 1 .. MaxRetries
      /\ tried[got[Worker]] = MaxRetries - retries
  BY <1>1, AuditorConstants, AP!PostedEvent
<1>3. tried[got[Worker]] + 1 \in 1 .. MaxRetries
  BY <1>2, EndToEndAssumption
<1>4. QED
  BY <1>2, <1>3 DEF AP!Event, Event, Attempt, Request

(* The auditor is a client like any other: it makes each request once, and *)
(* what GatewayProofs shows of any clients holds of it.                    *)
THEOREM ImplementsGateway == Spec => G!Spec
<1>1. Init => G!Init
  BY DEF Init
<1>2. AuditorInv /\ [Next]_vars => [G!Next]_G!vars
  <2> SUFFICES ASSUME AuditorInv, [Next]_vars PROVE [G!Next]_G!vars
    OBVIOUS
  <2>1. CASE UNCHANGED gatewayVars
    BY <2>1 DEF gatewayVars, G!vars, G!gatewayVars, G!fabricVars
  <2>2. CASE PostSent
    <3>1. Attempt \in Request /\ Create(got[Worker]) \in G!Call
      BY <2>2, AttemptIsRequest DEF PostSent, G!Call, Create, Body, Posted
    <3>2. G!Receive(Attempt, Create(got[Worker]))
      BY <2>2 DEF PostSent, Create
    <3>3. QED
      BY <3>1, <3>2 DEF G!Next
  <2>3. CASE PostAnswered \/ PostFailed \/ AuditorStep
    BY <2>1, <2>3, PostEndEffect, AuditorStepEffect
  <2>4. CASE GatewayStep
    BY <2>4 DEF GatewayStep, G!Next
  <2>5. CASE UNCHANGED vars
    BY <2>1, <2>5 DEF vars
  <2>6. QED
    BY <2>2, <2>3, <2>4, <2>5 DEF Next
<1>3. QED
  BY <1>1, <1>2, AuditorInvariance, PTL DEF Spec, G!Spec

-----------------------------------------------------------------------------
(* Nothing is lost but what was refused or never answered                  *)

\* The statuses of createEvent.
CreateAnswer(r, a) == a.status \in {400, 422} \/ (a.status = 201 /\ r[1] \notin quoted)

(* Whoever was answered got a status of createEvent, a 201 only for what   *)
(* parses; an attempt that worker_thread saw answered stays answered.      *)
Answers ==
  /\ answer = [r \in Request |-> answer[r]]
  /\ \A r \in Request : phase[r] \notin {"evaluate", "read"}
  /\ \A r \in Request : phase[r] = "answered" => CreateAnswer(r, answer[r])
  /\ \A e \in answered : \E r \in Request : r[1] = e /\ phase[r] = "answered"

\* A request moves to another place, and is answered if that is "answered".
LEMMA AnswersMove ==
  ASSUME Inv, Answers, NEW r \in Request, NEW a,
         NEW p \in {"endorse", "submit", "commit", "answered"},
         phase[r] # "answered",
         phase' = [phase EXCEPT ![r] = p],
         answer' = [answer EXCEPT ![r] = a],
         p = "answered" => CreateAnswer(r, a),
         UNCHANGED <<answered, quoted>>
  PROVE  Answers'
<1>1. phase' = [q \in Request |-> IF q = r THEN p ELSE phase[q]]
  <2>1. phase \in [Request -> G!Phase]
    BY DEF Inv, Typed
  <2>2. QED
    BY <2>1
<1>2. answer' = [q \in Request |-> IF q = r THEN a ELSE answer[q]]
  BY DEF Answers
<1>3. \A q \in Request : phase[q] = "answered" => phase'[q] = "answered"
  BY <1>1
<1>4. \A q, b : CreateAnswer(q, b)' <=> CreateAnswer(q, b)
  BY DEF CreateAnswer
<1>5. QED
  BY <1>1, <1>2, <1>3, <1>4 DEF Answers

LEMMA AnswersPostSent ==
  ASSUME Inv, Answers, AuditorInv, PostSent
  PROVE  Answers'
<1>1. Attempt \in Request /\ phase[Attempt] = "idle" /\ UNCHANGED <<answered, quoted>>
  BY AttemptIsRequest, PostSentEffect DEF PostSent, auditorVars
<1>2. answer = [answer EXCEPT ![Attempt] = answer[Attempt]]
  BY <1>1 DEF Answers
<1>3. \E p \in {"endorse", "answered"} : \E a :
         /\ phase' = [phase EXCEPT ![Attempt] = p]
         /\ answer' = [answer EXCEPT ![Attempt] = a]
         /\ p = "answered" => CreateAnswer(Attempt, a)
  <2>1. CreateAnswer(Attempt, G!Status(400)) /\ CreateAnswer(Attempt, G!Status(422))
    BY DEF CreateAnswer, G!Status
  <2>2. G!CreateEventStarts(Attempt, Body(got[Worker]))
    BY DEF PostSent, G!Receive
  <2>3. CASE G!Enter(Attempt, "endorse")
    BY <1>2, <2>3 DEF G!Enter
  <2>4. CASE G!Respond(Attempt, G!Status(400)) \/ G!Respond(Attempt, G!Status(422))
    BY <2>1, <2>4 DEF G!Respond
  <2>5. QED
    BY <2>2, <2>3, <2>4 DEF G!CreateEventStarts
<1>4. PICK p \in {"endorse", "answered"} : \E a :
         /\ phase' = [phase EXCEPT ![Attempt] = p]
         /\ answer' = [answer EXCEPT ![Attempt] = a]
         /\ p = "answered" => CreateAnswer(Attempt, a)
  BY <1>3
<1>5. PICK a : /\ phase' = [phase EXCEPT ![Attempt] = p]
               /\ answer' = [answer EXCEPT ![Attempt] = a]
               /\ p = "answered" => CreateAnswer(Attempt, a)
  BY <1>4
<1>6. QED
  BY <1>1, <1>5, AnswersMove

LEMMA AnswersHandle ==
  ASSUME Inv, Answers, NEW r \in Request, G!Handle(r), UNCHANGED <<answered, quoted>>
  PROVE  Answers'
<1>1. /\ phase[r] \notin {"idle", "evaluate", "read"}
      /\ call[r] = Create(r[1])
      /\ answer = [answer EXCEPT ![r] = answer[r]]
  BY HandleEffect DEF Answers, Inv, Typed
<1>2. CASE G!Endorse(r) \/ G!Submitted(r)
  <2>1. PICK p \in {"submit", "commit"} : phase' = [phase EXCEPT ![r] = p] /\ phase[r] # "answered" /\ UNCHANGED answer
    BY <1>2 DEF G!Endorse, G!Submitted, G!Enter
  <2>2. QED
    BY <1>1, <2>1, AnswersMove
<1>3. CASE G!CommitStatus(r) \/ G!CallFails(r)
  <2>1. CreateAnswer(r, G!ErrorAnswer(call[r]))
    BY <1>1 DEF CreateAnswer, G!ErrorAnswer, G!Status, Create
  <2>2. CASE G!CommitStatus(r)
    <3> DEFINE a == [G!Status(201) EXCEPT !.seen = {call[r].body.hash}]
    <3>1. r[1] \notin quoted => CreateAnswer(r, a)
      BY DEF CreateAnswer, G!Status
    <3>2. answer' = [answer EXCEPT ![r] = a] /\ phase' = [phase EXCEPT ![r] = "answered"]
      BY <2>2 DEF G!CommitStatus, G!Respond
    <3>3. phase[r] = "commit" /\ r[1] \notin quoted
      BY <2>2 DEF G!CommitStatus, Inv, Genuine
    <3> HIDE DEF a
    <3>4. QED
      BY <3>1, <3>2, <3>3, AnswersMove
  <2>3. CASE G!CallFails(r)
    <3> DEFINE a == G!ErrorAnswer(call[r])
    <3>1. answer' = [answer EXCEPT ![r] = a] /\ phase' = [phase EXCEPT ![r] = "answered"]
      BY <2>3 DEF G!CallFails, G!Respond
    <3>2. phase[r] # "answered"
      BY <2>3 DEF G!CallFails, G!TimesOut, G!Awaiting
    <3>3. CreateAnswer(r, a)
      BY <2>1
    <3> HIDE DEF a
    <3>4. QED
      BY <3>1, <3>2, <3>3, AnswersMove
  <2>4. QED
    BY <1>3, <2>2, <2>3
<1>4. CASE G!Evaluate(r) \/ G!ReadReply(r)
  BY <1>1, <1>4 DEF G!Evaluate, G!ReadReply
<1>5. QED
  BY <1>2, <1>3, <1>4 DEF G!Handle

LEMMA AnswersStep ==
  ASSUME Inv, Answers, AuditorInv, [Next]_vars
  PROVE  Answers'
<1>1. CASE PostSent
  BY <1>1, AnswersPostSent
<1>2. CASE UNCHANGED <<phase, answer, answered, quoted>>
  BY <1>2 DEF Answers, CreateAnswer
<1>3. CASE PostAnswered
  <2>1. /\ curl = Attempt /\ wpc = "post" /\ phase[curl] = "answered"
        /\ answered' = answered \cup {got[Worker]} /\ UNCHANGED <<phase, answer, quoted>>
    BY <1>3 DEF PostAnswered, Inv, Waiting, A!PostAnswered, gatewayVars
  <2>2. Attempt \in Request /\ Attempt[1] = got[Worker]
    BY <2>1, AttemptIsRequest DEF Attempt
  <2>3. QED
    BY <2>1, <2>2 DEF Answers, CreateAnswer
<1>4. CASE PostFailed \/ AuditorStep \/ UNCHANGED vars
  BY <1>2, <1>4, AuditorStepEffect DEF PostFailed, A!PostFailed, gatewayVars, vars, auditorVars
<1>5. CASE GatewayStep
  <2>1. UNCHANGED <<answered, quoted>>
    BY <1>5 DEF GatewayStep, auditorVars
  <2>2. ASSUME NEW r \in Request, G!Handle(r)
        PROVE  Answers'
    BY <2>1, <2>2, AnswersHandle
  <2>3. CASE G!PeerCommits \/ \E r \in Request : G!Order(r)
    BY <1>2, <2>1, <2>3 DEF G!PeerCommits, G!Order, G!gatewayVars
  <2>4. CASE G!GatewayRestarts
    <3>1. /\ phase' = [r \in Request |-> IF phase[r] \in G!Awaiting THEN "lost" ELSE phase[r]]
          /\ UNCHANGED answer
      BY <2>4 DEF G!GatewayRestarts
    <3>2. QED
      BY <2>1, <3>1 DEF Answers, CreateAnswer, G!Awaiting
  <2>5. QED
    BY <1>5, <2>2, <2>3, <2>4 DEF GatewayStep
<1>6. QED
  BY <1>1, <1>3, <1>4, <1>5 DEF Next

LEMMA AnswersInvariance == Spec => []Answers
<1>1. Init => Answers
  BY DEF Init, G!Init, A!Init, Answers
<1>2. QED
  BY <1>1, AnswersStep, Invariance, AuditorInvariance, PTL DEF Spec

\* The gateway of the composition is the one GatewayProofs is about.
LEMMA GatewayPart == Spec => GP!Spec
<1>1. G!Init => GP!Init
  BY SameGateway
<1>2. [G!Next]_G!vars => [GP!Next]_GP!vars
  BY SameGateway DEF G!vars, GP!vars, G!gatewayVars, GP!gatewayVars, G!fabricVars, GP!fabricVars
<1>3. G!Spec => GP!Spec
  BY <1>1, <1>2, PTL DEF G!Spec, GP!Spec
<1>4. QED
  BY <1>3, ImplementsGateway, PTL

(* What Gateway assumes of its constants holds for those of EndToEnd.  The *)
(* number of an event stands for its hash: no two events share one.        *)
LEMMA GatewayConstants ==
  /\ \A e \in Posted : e.hash \in Hash \cup {NoHash}
  /\ NoHash \notin Hash /\ Absent \notin Posted /\ Malformed \notin Posted
  /\ GP!IsFiniteSet(Hash)
  /\ GP!HashDeterminesEvent
<1>1. /\ \A e \in Posted : e.hash \in Hash \cup {NoHash}
      /\ NoHash \notin Hash /\ Absent \notin Posted /\ Malformed \notin Posted
  BY EndToEndAssumption DEF Posted, EventOf, Hash
<1>2. IsFiniteSet(Event)
  BY EndToEndAssumption, FS_Interval DEF Event
<1>3. GP!IsFiniteSet(Hash)
  BY <1>2 DEF Hash, IsFiniteSet, GP!IsFiniteSet
<1>4. GP!HashDeterminesEvent
  BY DEF GP!HashDeterminesEvent, Posted, EventOf
<1>5. QED
  BY <1>1, <1>3, <1>4

LEMMA GatewayKeepsEvents == Spec => []GP!CreatedIsStored
<1>1. GP!Spec => []GP!CreatedIsStored
  BY GatewayConstants, GP!CreatedAlwaysStored
<1>2. QED
  BY <1>1, GatewayPart, PTL

(* From the queue of the auditor to the ledger, over any number of         *)
(* deadlines, lost answers, restarts and retries: worker_thread is done    *)
(* with an event that is not on the ledger only if the gateway refused it, *)
(* or if none of MaxRetries attempts was answered.                         *)
THEOREM LosesOnlyRefused == Spec => []LostOnlyIfRefused
<1>1. Inv /\ Answers /\ AuditorInv /\ GP!CreatedIsStored => LostOnlyIfRefused
  <2> SUFFICES ASSUME Inv, Answers, AuditorInv, GP!CreatedIsStored,
                      NEW i \in 1 .. Len(handled), handled[i] \notin Stored,
                      handled[i] \in answered \/ tried[handled[i]] # MaxRetries
               PROVE  Refused(handled[i])
    BY DEF LostOnlyIfRefused
  <2> DEFINE e == handled[i]
  <2>1. e \in answered /\ e \in Event
    BY DEF AuditorInv, AP!IInv, AP!Tries, AP!Placed, AP!AnsweredOrTried, AP!Event, Event
  <2>2. PICK r \in Request : r[1] = e /\ phase[r] = "answered"
    BY <2>1 DEF Answers
  <2>3. r = <<e, r[2]>> /\ r[2] \in 1 .. MaxRetries /\ CreateAnswer(r, answer[r])
    BY <2>2, NoAttempt DEF Answers
  <2>4. ASSUME answer[r].status = 201
        PROVE  FALSE
    <3>1. call[r].body = EventOf(e)
      BY <2>2, <2>3, <2>4 DEF CreateAnswer, Inv, Typed, Create, Body
    <3>2. state[e] = EventOf(e)
      BY <2>4, <3>1 DEF GP!CreatedIsStored, EventOf
    <3>3. EventOf(e) # Absent
      BY <2>1, EndToEndAssumption DEF Posted
    <3>4. QED
      BY <2>1, <3>2, <3>3 DEF Stored
  <2>5. QED
    BY <2>3, <2>4 DEF CreateAnswer, Refused
<1>2. QED
  BY <1>1, Invariance, AnswersInvariance, AuditorInvariance, GatewayKeepsEvents, PTL

-----------------------------------------------------------------------------
(* The types                                                               *)

\* Whether an event holds a quote was decided when it was captured.
LEMMA QuotedFixed ==
  ASSUME [Next]_vars
  PROVE  UNCHANGED quoted
BY PostSentEffect, PostEndEffect, AuditorStepEffect DEF Next, GatewayStep, vars

LEMMA SameTypes == (AP!TypeOK => A!TypeOK) /\ (GP!TypeOK => G!TypeOK)
<1>1. AP!TypeOK => A!TypeOK
  <2>1. AP!Q!TypeOK => A!Q!TypeOK
    BY DEF A!Q!TypeOK, AP!Q!TypeOK, A!Q!Slot, AP!Q!Slot, A!Q!Thread, AP!Q!Thread, A!Q!Place, AP!Q!Place,
           A!Event, AP!Event
  <2>2. QED
    BY <2>1 DEF A!TypeOK, AP!TypeOK, A!MainPlace, AP!MainPlace, A!WorkerPlace, AP!WorkerPlace, A!Event, AP!Event
<1>2. GP!TypeOK => G!TypeOK
  BY DEF G!TypeOK, GP!TypeOK, G!Phase, GP!Phase, G!Awaiting, GP!Awaiting, G!Call, GP!Call, G!NoCall, GP!NoCall,
         G!Answer, GP!Answer
<1>3. QED
  BY <1>1, <1>2

(* The variables of the whole keep their types, and the request curl waits *)
(* for is the attempt worker_thread is making (main.c:36-53): an answer    *)
(* of an attempt given up earlier is never taken for that of a later one.  *)
THEOREM TypesHold == Spec => []TypeOK
<1>1. AP!Spec => []AP!TypeOK
  BY AuditorConstants, AP!TypeCorrect
<1>2. GP!Spec => []GP!TypeOK
  BY GatewayConstants, GP!TypeCorrect
<1>3. Spec => [](quoted \in SUBSET Event)
  <2>1. Init => quoted \in SUBSET Event
    BY DEF Init
  <2>2. quoted \in SUBSET Event /\ [Next]_vars => (quoted \in SUBSET Event)'
    BY QuotedFixed DEF Event
  <2>3. QED
    BY <2>1, <2>2, PTL DEF Spec
<1>4. AP!TypeOK /\ GP!TypeOK /\ quoted \in SUBSET Event /\ Inv /\ AuditorInv => TypeOK
  BY SameTypes, AttemptIsRequest DEF TypeOK, Inv, Waiting
<1>5. QED
  BY <1>1, <1>2, <1>3, <1>4, AuditorPart, GatewayPart, Invariance, AuditorInvariance, PTL

-----------------------------------------------------------------------------
(* The ledger                                                              *)

(* Nothing on the way from the auditor to the ledger, neither a retry nor  *)
(* a late commit of an attempt given up, replaces or removes an event.     *)
(* LedgerIsWrittenOnce needs honest clients; the auditor is one.           *)
THEOREM WritesOnce == Spec => G!WrittenOnce
<1>1. GP!Spec => GP!WrittenOnce
  BY GatewayConstants, GP!LedgerIsWrittenOnce
<1>2. GP!Ledger!Init => G!Ledger!Init
  BY DEF GP!Ledger!Init, G!Ledger!Init
<1>3. [GP!Ledger!Next]_state => [G!Ledger!Next]_state
  BY DEF GP!Ledger!Next, G!Ledger!Next, GP!Ledger!Store, G!Ledger!Store
<1>4. GP!Ledger!Spec => G!Ledger!Spec
  BY <1>2, <1>3, PTL DEF GP!Ledger!Spec, G!Ledger!Spec
<1>5. QED
  BY <1>1, <1>4, GatewayPart, PTL DEF GP!WrittenOnce, G!WrittenOnce

(* What the ledger holds under the hash of an event is that event, and the *)
(* local log holds it too, unless its write failed, or event_callback,     *)
(* which queues first, is about to make it (main.c:29-34).                 *)
LedgerIsLogged ==
  \A e \in Stored :
     /\ state[e] = EventOf(e)
     /\ \/ e \in {logged[i] : i \in 1 .. Len(logged)} \cup unlogged
        \/ e = captured /\ mpc = "log"

THEOREM LedgerAlwaysLogged == Spec => []LedgerIsLogged
<1>1. GP!Spec => []GP!IInv
  BY GatewayConstants, GP!Invariance
<1>2. AP!Spec => []AP!StoredIsLogged
  BY AuditorConstants, AP!StoredAlwaysLogged
<1>3. Inv /\ GP!IInv /\ AP!StoredIsLogged => LedgerIsLogged
  <2> SUFFICES ASSUME Inv, GP!IInv, AP!StoredIsLogged, NEW e \in Stored
               PROVE  /\ state[e] = EventOf(e)
                      /\ \/ e \in {logged[i] : i \in 1 .. Len(logged)} \cup unlogged
                         \/ e = captured /\ mpc = "log"
    BY DEF LedgerIsLogged
  <2>1. state[e] \in Posted /\ state[e].hash = e
    BY DEF Inv, Typed, GP!IInv, GP!StoredUnderHash, Stored, Hash
  <2>2. state[e] = EventOf(e)
    BY <2>1 DEF Posted, EventOf
  <2>3. QED
    BY <2>2 DEF AP!StoredIsLogged
<1>4. QED
  BY <1>1, <1>2, <1>3, GatewayPart, AuditorPart, Invariance, PTL

(* audit_event_to_json (event.c) escapes nothing, and express.json refuses *)
(* what does not parse: an event whose fields hold a quote is never on the *)
(* ledger, however often it is posted, and worker_thread, which takes the  *)
(* refusal for success, is done with it all the same.                      *)
QuotedIsLost ==
  \A e \in quoted :
     /\ e \notin Stored
     /\ \A i \in 1 .. Len(handled) :
          handled[i] = e => Refused(e) \/ (e \notin answered /\ tried[e] = MaxRetries)

THEOREM QuotedAlwaysLost == Spec => []QuotedIsLost
<1> DEFINE Off == quoted \cap Stored = {}
<1>1. Init => Off
  BY EndToEndAssumption DEF Init, G!Init, G!EmptyState, Hash, Stored
<1>2. Inv /\ Off /\ [Next]_vars => Off'
  <2> SUFFICES ASSUME Inv, Off, [Next]_vars PROVE Off'
    OBVIOUS
  <2>1. UNCHANGED quoted
    BY QuotedFixed
  <2>2. CASE UNCHANGED state
    BY <2>1, <2>2, SameLedger
  <2>3. CASE GatewayStep /\ G!PeerCommits
    BY <2>1, <2>3, CommitEffect DEF GatewayStep
  <2>4. CASE GatewayStep /\ ~G!PeerCommits
    BY <2>2, <2>4, HandleEffect DEF GatewayStep, G!Order, G!GatewayRestarts, G!fabricVars
  <2>5. QED
    BY <2>2, <2>3, <2>4, PostSentEffect, PostEndEffect, AuditorStepEffect DEF Next, vars, gatewayVars
<1>3. Off /\ LostOnlyIfRefused => QuotedIsLost
  BY DEF QuotedIsLost, LostOnlyIfRefused
<1>4. QED
  BY <1>1, <1>2, <1>3, Invariance, LosesOnlyRefused, PTL DEF Spec

(* However long Fabric keeps what was submitted, each attempt of the       *)
(* auditor has one transaction at most, so that the channel holds at most  *)
(* MaxRetries transactions for an event.                                   *)
OneTransactionPerAttempt ==
  \A e \in Event : Cardinality({i \in 1 .. Len(ordered) : ordered[i][1] = e}) <= MaxRetries

THEOREM AlwaysOnePerAttempt == Spec => []OneTransactionPerAttempt
<1>1. GP!Spec => []GP!SubmittedOnce
  BY GatewayConstants, GP!AlwaysSubmittedOnce
<1>2. Inv /\ GP!SubmittedOnce => OneTransactionPerAttempt
  <2> SUFFICES ASSUME Inv, GP!SubmittedOnce, NEW e \in Event
               PROVE  Cardinality({i \in 1 .. Len(ordered) : ordered[i][1] = e}) <= MaxRetries
    BY DEF OneTransactionPerAttempt
  <2> DEFINE S == {i \in 1 .. Len(ordered) : ordered[i][1] = e}
             attempt == [i \in S |-> ordered[i][2]]
  <2>1. \A i \in S : ordered[i] = <<e, ordered[i][2]>> /\ ordered[i][2] \in 1 .. MaxRetries
    BY DEF Inv, Typed, Request
  <2>2. \A i \in S, j \in S : ordered[i] = ordered[j] => i = j
    BY DEF GP!SubmittedOnce
  <2>3. attempt \in [S -> 1 .. MaxRetries] /\ \A i \in S, j \in S : attempt[i] = attempt[j] => i = j
    BY <2>1, <2>2
  <2> HIDE DEF S, attempt
  <2>4. attempt \in Injection(S, 1 .. MaxRetries)
    BY <2>3 DEF Injection, IsInjective
  <2>5. IsFiniteSet(1 .. MaxRetries) /\ Cardinality(1 .. MaxRetries) = MaxRetries
    BY EndToEndAssumption, FS_Interval
  <2>6. Cardinality(S) <= MaxRetries
    BY <2>4, <2>5, FS_Injection DEF ExistsInjection
  <2>7. QED
    BY <2>6 DEF S
<1>3. QED
  BY <1>1, <1>2, GatewayPart, Invariance, PTL
=============================================================================
