------------------------------ MODULE Auditor ------------------------------
(***************************************************************************)
(* The event pipeline of the auditor process, main.c: the main thread      *)
(* captures events and calls event_callback, which queues each event and   *)
(* writes it to the local log; worker_thread takes events from the queue   *)
(* and POSTs them to the gateway.  The commands run, stress and daemon     *)
(* share this machine: they start the worker, capture events until the     *)
(* traced command ends (or /proc cannot be read any more), clear           *)
(* g_running, shut the queue down, join the worker and clean up.           *)
(*                                                                         *)
(* The queue is the one of AsyncQueue, with one producer and one consumer. *)
(* The k-th event captured is the number k.                                *)
(***************************************************************************)
EXTENDS Integers, Sequences, FiniteSets

CONSTANTS Main, Worker,  \* the two threads
          NoItem,        \* the worker's event variable before its first pop
          Size,          \* the capacity of the queue
          MaxEvents,     \* bound: how many events the command or /proc yields
          MaxRetries     \* the attempts of worker_thread, 3 in the code

ASSUME AuditorAssumption == /\ MaxEvents \in Nat
                            /\ MaxRetries \in Nat \ {0}
                            /\ Size \in Nat \ {0}
                            /\ Main # Worker
                            /\ NoItem \notin Nat

VARIABLES buffer, head, tail, count, shutdown, where, arg, got, ret,  \* g_queue
          mpc,         \* where the main thread is
          wpc,         \* where worker_thread is
          useGateway,  \* g_use_gateway: FALSE for run --local-only
          gRunning,    \* g_running
          signalled,   \* a SIGINT or SIGTERM was handled
          captured,    \* how many events were captured
          logged,      \* the local log
          unlogged,    \* events whose local_log_write failed
          retries,     \* the local variable of worker_thread
          tried,       \* tried[e]: how often e was posted
          answered,    \* events some HTTP response arrived for
          handled,     \* the events worker_thread is done with, in order
          ledger       \* the events stored in the blockchain

Event == 1 .. MaxEvents

Q == INSTANCE AsyncQueue WITH Producers <- {Main}, Consumers <- {Worker}, Item <- Event

queueVars == <<buffer, head, tail, count, shutdown, where, arg, got, ret>>
mainVars == <<mpc, captured, logged, unlogged>>
workerVars == <<wpc, retries, tried, answered, handled, ledger>>
flags == <<useGateway, gRunning, signalled>>
vars == <<queueVars, mainVars, workerVars, flags>>

(* "capture": inside capture_run_command or proc_monitor_start; "push":    *)
(* about to call queue_push; "pushing": blocked in it; "log": about to     *)
(* call local_log_write; the others are the end of the command.            *)
MainPlace == {"capture", "push", "pushing", "log", "stop", "shutdown", "join",
              "destroy", "exit"}

(* "test" and "count": the two operands of the loop condition; "pop" and   *)
(* "popping": about to call, or blocked in, queue_pop; "post" and "sleep": *)
(* the retry loop.  Without gateway there is no worker: "none".            *)
WorkerPlace == {"none", "test", "count", "pop", "popping", "post", "sleep", "ended"}

TypeOK == /\ Q!TypeOK
          /\ mpc \in MainPlace
          /\ wpc \in WorkerPlace
          /\ useGateway \in BOOLEAN /\ gRunning \in BOOLEAN /\ signalled \in BOOLEAN
          /\ captured \in 0 .. MaxEvents
          /\ logged \in Seq(Event)
          /\ unlogged \in SUBSET Event
          /\ retries \in 0 .. MaxRetries
          /\ tried \in [Event -> 0 .. MaxRetries]
          /\ answered \in SUBSET Event
          /\ handled \in Seq(Event)
          /\ ledger \in SUBSET Event

\* main has opened the queue, and the command has started its worker.
Init == /\ Q!Init
        /\ mpc = "capture"
        /\ useGateway \in BOOLEAN
        /\ wpc = IF useGateway THEN "test" ELSE "none"
        /\ gRunning = TRUE
        /\ signalled = FALSE
        /\ captured = 0
        /\ logged = <<>>
        /\ unlogged = {}
        /\ retries = 0
        /\ tried = [e \in Event |-> 0]
        /\ answered = {}
        /\ handled = <<>>
        /\ ledger = {}

-----------------------------------------------------------------------------
(* The main thread                                                         *)

\* The capture reports one more event: event_callback begins.
Capture == /\ mpc = "capture"
           /\ captured < MaxEvents
           /\ captured' = captured + 1
           /\ mpc' = IF useGateway THEN "push" ELSE "log"
           /\ UNCHANGED <<queueVars, workerVars, flags, logged, unlogged>>

FaultyAfterPush == IF where'[Main] = "out" THEN "capture" ELSE "pushing"

\* Where event_callback goes after queue_push: its result is not looked at.
AfterPush == IF where'[Main] = "out" THEN "log" ELSE "pushing"

Push == /\ \/ mpc = "push" /\ Q!PushEnter(Main, captured)
           \/ mpc = "pushing" /\ Q!PushResume(Main)
        /\ mpc' = AfterPush
        /\ UNCHANGED <<workerVars, flags, captured, logged, unlogged>>

\* local_log_write fails silently if the log cannot be opened or written to.
LogWrite == /\ mpc = "log"
            /\ \/ logged' = Append(logged, captured) /\ UNCHANGED unlogged
               \/ unlogged' = unlogged \cup {captured} /\ UNCHANGED logged
            /\ mpc' = "capture"
            /\ UNCHANGED <<queueVars, workerVars, flags, captured>>

CaptureEnds == /\ mpc = "capture"
               /\ mpc' = IF useGateway THEN "stop" ELSE "destroy"
               /\ UNCHANGED <<queueVars, workerVars, flags, captured, logged, unlogged>>

FaultyStop == /\ mpc = "stop"
              /\ mpc' = "shutdown"
              /\ UNCHANGED <<queueVars, workerVars, flags, captured, logged, unlogged>>

\* g_running = 0, at the end of each of the three commands.
Stop == /\ mpc = "stop"
        /\ gRunning' = FALSE
        /\ mpc' = "shutdown"
        /\ UNCHANGED <<queueVars, workerVars, useGateway, signalled, captured, logged, unlogged>>

ShutdownQueue == /\ mpc = "shutdown"
                 /\ Q!Shutdown
                 /\ mpc' = "join"
                 /\ UNCHANGED <<workerVars, flags, captured, logged, unlogged>>

FaultyJoin == /\ mpc = "join"
              /\ mpc' = "destroy"
              /\ UNCHANGED <<queueVars, workerVars, flags, captured, logged, unlogged>>

Join == /\ mpc = "join"
        /\ wpc = "ended"
        /\ mpc' = "destroy"
        /\ UNCHANGED <<queueVars, workerVars, flags, captured, logged, unlogged>>

\* queue_destroy, http_client_destroy, local_log_destroy; main returns.
Destroy == /\ mpc = "destroy"
           /\ mpc' = "exit"
           /\ UNCHANGED <<queueVars, workerVars, flags, captured, logged, unlogged>>

MainStep == \/ Push
            \/ LogWrite
            \/ Stop
            \/ ShutdownQueue
            \/ Join
            \/ Destroy

\* sigint_handler, on either thread, at any time before main returns.
\* A second signal changes nothing.
Signal == /\ mpc # "exit"
          /\ ~signalled
          /\ gRunning' = FALSE
          /\ signalled' = TRUE
          /\ UNCHANGED <<queueVars, mainVars, workerVars, useGateway>>

-----------------------------------------------------------------------------
(* worker_thread                                                           *)

FaultyTestRunning == /\ wpc = "test"
                     /\ wpc' = IF gRunning THEN "pop" ELSE "ended"
                     /\ UNCHANGED <<retries, tried, answered, handled, ledger>>
                     /\ UNCHANGED <<queueVars, mainVars, flags>>

TestRunning == /\ wpc = "test"
               /\ wpc' = IF gRunning THEN "pop" ELSE "count"
               /\ UNCHANGED <<retries, tried, answered, handled, ledger>>
               /\ UNCHANGED <<queueVars, mainVars, flags>>

\* queue_count(&g_queue) > 0
TestCount == /\ wpc = "count"
             /\ wpc' = IF count > 0 THEN "pop" ELSE "ended"
             /\ UNCHANGED <<retries, tried, answered, handled, ledger>>
             /\ UNCHANGED <<queueVars, mainVars, flags>>

FaultyAfterPop == IF where'[Worker] # "out" THEN "popping" ELSE "post"

QuittingAfterPop == IF where'[Worker] # "out" THEN "popping"
                    ELSE IF ret'[Worker] = 0 THEN "post" ELSE "ended"

\* Only an event that queue_pop really returned is posted.
AfterPop == IF where'[Worker] # "out" THEN "popping"
            ELSE IF ret'[Worker] = 0 THEN "post" ELSE "test"

Pop == /\ \/ wpc = "pop" /\ Q!PopEnter(Worker, "timed")
          \/ wpc = "popping" /\ Q!PopResume(Worker)
       /\ wpc' = AfterPop
       /\ retries' = IF wpc' = "post" THEN MaxRetries ELSE retries
       /\ UNCHANGED <<mainVars, flags, tried, answered, handled, ledger>>

PopTimeout == /\ Q!PopTimeout(Worker)
              /\ UNCHANGED <<mainVars, workerVars, flags>>

\* The retry loop is left: the event is not looked at again.
LeaveRetryLoop == /\ handled' = Append(handled, got[Worker])
                  /\ wpc' = "test"

InsistentPostAnswered == /\ wpc = "post"
                         /\ tried' = [tried EXCEPT ![got[Worker]] = @ + 1]
                         /\ answered' = answered \cup {got[Worker]}
                         /\ retries' = retries - 1
                         /\ \/ retries > 1 /\ wpc' = "sleep" /\ UNCHANGED handled
                            \/ retries <= 1 /\ LeaveRetryLoop
                         /\ UNCHANGED <<queueVars, mainVars, flags, ledger>>

\* A response arrived, whatever its status: http_client_post_event returns 0.
PostAnswered == /\ wpc = "post"
                /\ tried' = [tried EXCEPT ![got[Worker]] = @ + 1]
                /\ answered' = answered \cup {got[Worker]}
                /\ LeaveRetryLoop
                /\ UNCHANGED <<queueVars, mainVars, flags, retries, ledger>>

FaultyTryAgain == retries > 0

\* The test that ends the retry loop, after retries--.
TryAgain == retries > 1

(* No response: curl has no handle, cannot connect, loses the connection   *)
(* or runs into its time limit.                                            *)
PostFailed == /\ wpc = "post"
              /\ tried' = [tried EXCEPT ![got[Worker]] = @ + 1]
              /\ retries' = retries - 1
              /\ \/ TryAgain /\ wpc' = "sleep" /\ UNCHANGED handled
                 \/ ~TryAgain /\ LeaveRetryLoop
              /\ UNCHANGED <<queueVars, mainVars, flags, answered, ledger>>

\* nanosleep for 100 ms.
Sleep == /\ wpc = "sleep"
         /\ wpc' = "post"
         /\ UNCHANGED <<queueVars, mainVars, flags, retries, tried, answered,
                        handled, ledger>>

WorkerStep == \/ TestRunning
              \/ TestCount
              \/ Pop
              \/ PopTimeout
              \/ PostAnswered
              \/ PostFailed
              \/ Sleep

-----------------------------------------------------------------------------
SpuriousWake(t) == /\ Q!SpuriousWake(t)
                   /\ UNCHANGED <<mainVars, workerVars, flags>>

WasPosted(e) == tried[e] > 0 \/ (wpc = "post" /\ got[Worker] = e)

(* The gateway stores an event that was posted: before it answers, or long *)
(* after curl has given up, even after main has returned; or never.        *)
(* EndToEnd has the gateway itself in its place.                           *)
GatewayStores(e) == /\ WasPosted(e)
                    /\ ledger' = ledger \cup {e}
                    /\ UNCHANGED <<queueVars, mainVars, flags>>
                    /\ UNCHANGED <<wpc, retries, tried, answered, handled>>

Terminated == mpc = "exit" /\ UNCHANGED vars

Next == \/ Capture
        \/ CaptureEnds
        \/ MainStep
        \/ WorkerStep
        \/ Signal
        \/ \E t \in {Main, Worker} : SpuriousWake(t)
        \/ \E e \in Event : GatewayStores(e)
        \/ Terminated

Spec == Init /\ [][Next]_vars

(* Each thread is scheduled, a POST ends (CURLOPT_TIMEOUT) and a timed     *)
(* wait ends.  Nothing obliges the captured command to start or to stop    *)
(* producing events, nor anybody to send a signal.                         *)
Fairness == WF_vars(MainStep) /\ WF_vars(WorkerStep)

FairSpec == Spec /\ Fairness

-----------------------------------------------------------------------------
(* Properties                                                              *)

\* The events queue_push has accepted: the first Accepted captured ones.
Accepted == IF ~useGateway THEN 0
            ELSE IF mpc \in {"push", "pushing"} THEN captured - 1 ELSE captured

\* The event worker_thread popped and is not done with.
InHand == IF wpc \in {"post", "sleep"} THEN <<got[Worker]>> ELSE <<>>

(* Between event_callback and the POST no event is lost, duplicated or     *)
(* reordered: those the worker is done with, the one it is retrying and    *)
(* those in the queue are, in this order, all the events queue_push        *)
(* accepted.  In particular queue_push refuses none of them.               *)
Delivery == handled \o InHand \o Q!Contents = [i \in 1 .. Accepted |-> i]

(* worker_thread abandons an event without an answer only after            *)
(* MaxRetries attempts (main.c:42-50), and an event that was answered is   *)
(* neither about to be posted again nor waiting for another attempt: the   *)
(* break of main.c:44 leaves the retry loop.                               *)
AbandonedOnlyAfterRetries ==
  /\ \A i \in 1 .. Len(handled) :
        handled[i] \in answered \/ tried[handled[i]] = MaxRetries
  /\ wpc \in {"post", "sleep"} => got[Worker] \notin answered

(* The local log does not depend on the gateway: once event_callback is    *)
(* over, every captured event was written, in the order of capture, or its *)
(* write failed; blocked pushes, retries and signals do not change this.   *)
LocalLogComplete ==
  /\ \A i, j \in 1 .. Len(logged) : i < j => logged[i] < logged[j]
  /\ LET Written == {logged[i] : i \in 1 .. Len(logged)} \cup unlogged
     IN Written = 1 .. (IF mpc \in {"push", "pushing", "log"} THEN captured - 1 ELSE captured)

(* The ledger is never ahead of the local log, except for the event that   *)
(* event_callback has queued and not yet logged: what the blockchain holds *)
(* was written, or its write failed, however late the gateway stores it.   *)
StoredIsLogged ==
  \A e \in ledger : \/ e \in {logged[i] : i \in 1 .. Len(logged)} \cup unlogged
                    \/ e = captured /\ mpc = "log"

(* When main destroys the queue and the curl handle, the worker is not     *)
(* using them, nor will it ever again.                                     *)
DestroyedUnused ==
  mpc \in {"destroy", "exit"} => wpc \in {"none", "ended"} /\ Q!Blocked({Main, Worker}) = {}

(* An auditor that exits without having been interrupted leaves nothing    *)
(* behind in its queue: every captured event was posted.                   *)
ExitLeavesNothing ==
  mpc = "exit" /\ useGateway /\ ~signalled => Len(handled) = captured

(* Unless a signal ends the worker, a full queue, a slow or an absent      *)
(* gateway delay event_callback but never block it for good: every         *)
(* captured event gets past the local log.                                 *)
CallbackReturns ==
  \A k \in Event : captured >= k ~> signalled \/ Len(logged) + Cardinality(unlogged) >= k

\* A command whose queue is empty when main joins the worker does exit.
DrainedRunExits == (mpc = "join" /\ count = 0) ~> mpc = "exit"

(* README.md:115, "Con gateway (envia a la blockchain)": each event that a *)
(* run captures is posted to the gateway.                                  *)
EveryEventPosted == \A k \in Event : captured >= k /\ useGateway ~> signalled \/ tried[k] > 0
=============================================================================
