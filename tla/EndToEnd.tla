------------------------------ MODULE EndToEnd ------------------------------
(***************************************************************************)
(* An auditor (Auditor) and the gateway with Fabric behind it (Gateway).   *)
(* What Auditor leaves open about a POST is here the request that curl     *)
(* makes: the k-th attempt to post event e is the request <<e, k>>.  curl  *)
(* waits ten seconds, the gateway up to ninety, so that a handler, and the *)
(* transaction it submitted, may outlive the attempt and even the auditor. *)
(*                                                                         *)
(* The number of an event stands for its fields and for their hash.  The   *)
(* JSON text of an event is malformed if its fields hold a quote.          *)
(***************************************************************************)
EXTENDS Integers, Sequences, FiniteSets

CONSTANTS Main, Worker, NoItem, Size, MaxEvents, MaxRetries,  \* of Auditor
          NoHash, Absent, Malformed                           \* of Gateway

VARIABLES buffer, head, tail, count, shutdown, where, arg, got, ret,
          mpc, wpc, useGateway, gRunning, signalled, captured, logged, unlogged,
          retries, tried, answered, handled,
          healthy, phase, call, result, answer, sent, ordered, committed, state, known,
          quoted,  \* the events whose fields hold a quote, which nothing escapes
          curl     \* the request curl_easy_perform waits for, <<>> if none

auditorVars == <<buffer, head, tail, count, shutdown, where, arg, got, ret,
                 mpc, wpc, useGateway, gRunning, signalled, captured, logged, unlogged,
                 retries, tried, answered, handled>>
gatewayVars == <<healthy, phase, call, result, answer, sent, ordered, committed, state, known>>
vars == <<auditorVars, gatewayVars, quoted, curl>>

Event == 1 .. MaxEvents
Hash == Event
Request == Event \X (1 .. MaxRetries)

\* audit_event_to_json, as a JSON parser reads it.
EventOf(e) == [hash |-> e, fields |-> e]
Body(e) == IF e \in quoted THEN Malformed ELSE EventOf(e)
Posted == {EventOf(e) : e \in Event}

ASSUME EndToEndAssumption == /\ MaxEvents \in Nat
                             /\ MaxRetries \in Nat \ {0}
                             /\ Size \in Nat \ {0}
                             /\ Main # Worker
                             /\ NoItem \notin Nat
                             /\ NoHash \notin Event
                             /\ Absent \notin Posted
                             /\ Malformed \notin Posted

\* The events on the ledger.
Stored == {e \in Event : state[e] # Absent}

A == INSTANCE Auditor WITH ledger <- Stored
G == INSTANCE Gateway

Init == G!Init /\ A!Init /\ quoted \in SUBSET Event /\ curl = <<>>

-----------------------------------------------------------------------------
\* The attempt worker_thread makes next.
Attempt == <<got[Worker], tried[got[Worker]] + 1>>

\* curl_easy_perform sends the request, and the gateway receives it.
PostSent == /\ wpc = "post"
            /\ curl = <<>>
            /\ G!Receive(Attempt, [route |-> "create", body |-> Body(got[Worker])])
            /\ curl' = Attempt
            /\ UNCHANGED <<auditorVars, quoted>>

\* The response arrives.
PostAnswered == /\ curl # <<>>
                /\ phase[curl] = "answered"
                /\ UNCHANGED <<gatewayVars, quoted>>
                /\ A!PostAnswered
                /\ curl' = <<>>

StalePostFailed == /\ UNCHANGED <<gatewayVars, quoted, curl>>
                   /\ A!PostFailed

UncountedPostFailed == /\ wpc = "post" /\ wpc' = "sleep"
                       /\ curl' = <<>>
                       /\ UNCHANGED <<buffer, head, tail, count, shutdown, where, arg, got, ret>>
                       /\ UNCHANGED <<mpc, captured, logged, unlogged>>
                       /\ UNCHANGED <<useGateway, gRunning, signalled>>
                       /\ UNCHANGED <<retries, tried, answered, handled, gatewayVars, quoted>>

(* There is no connection, or it is lost, or ten seconds are over, be the  *)
(* request not yet received, in the hands of its handler, or answered.     *)
PostFailed == /\ UNCHANGED <<gatewayVars, quoted>>
              /\ A!PostFailed
              /\ curl' = <<>>

\* The steps of the auditor that do not concern the gateway.
AuditorStep == /\ UNCHANGED <<gatewayVars, quoted, curl>>
               /\ \/ A!Capture
                  \/ A!CaptureEnds
                  \/ A!MainStep
                  \/ A!TestRunning
                  \/ A!TestCount
                  \/ A!Pop
                  \/ A!PopTimeout
                  \/ A!Sleep
                  \/ A!Signal
                  \/ \E t \in {Main, Worker} : A!SpuriousWake(t)

GatewayStep == /\ \/ \E r \in Request : G!Handle(r)
                  \/ \E r \in Request : G!Order(r)
                  \/ G!PeerCommits
                  \/ G!GatewayRestarts
               /\ UNCHANGED <<auditorVars, quoted, curl>>

Next == \/ PostSent
        \/ PostAnswered
        \/ PostFailed
        \/ AuditorStep
        \/ GatewayStep

Spec == Init /\ [][Next]_vars

-----------------------------------------------------------------------------
(* Properties                                                              *)

TypeOK == /\ A!TypeOK
          /\ G!TypeOK
          /\ quoted \in SUBSET Event
          /\ curl \in Request \cup {<<>>}
          /\ curl # <<>> => wpc = "post" /\ curl = Attempt

(* The gateway does to an event what Auditor allows of a POST: it stores   *)
(* it only if it was posted, perhaps after the attempt was given up, and   *)
(* never removes it; so all that holds of Auditor holds here.              *)
ImplementsAuditor == A!Spec

Refused(e) == \E k \in 1 .. MaxRetries : answer[<<e, k>>].status \in {400, 422}

(* Nothing but a refusal, which worker_thread takes for success, or        *)
(* MaxRetries attempts without an answer keeps an event off the ledger:    *)
(* deadlines, lost answers and restarts of the gateway alone lose none.    *)
LostOnlyIfRefused ==
  \A i \in 1 .. Len(handled) :
     LET e == handled[i]
     IN  e \in Stored \/ Refused(e) \/ (e \notin answered /\ tried[e] = MaxRetries)

(* README.md:3, captured events are stored in the blockchain: an event the *)
(* worker is done with is on the ledger, unless no attempt was answered.   *)
HandledIsStored ==
  \A i \in 1 .. Len(handled) : handled[i] \in Stored \/ handled[i] \notin answered
=============================================================================
