----------------------------- MODULE AsyncQueue -----------------------------
(***************************************************************************)
(* The bounded queue of queue.c: a ring buffer guarded by one mutex, with  *)
(* one condition variable for a queue that is full and one for a queue     *)
(* that is empty.                                                          *)
(*                                                                         *)
(* A step is what a thread does while it holds the mutex: from the lock to *)
(* the unlock, or to the wait that releases the mutex, or from the return  *)
(* of the wait to the unlock.  Everything shared is read and written under *)
(* the mutex, so nothing finer can be observed.  A thread that left a wait *)
(* but does not hold the mutex yet is "woken"; another thread may take the *)
(* mutex first.  A condition variable may wake a thread nobody signalled.  *)
(***************************************************************************)
EXTENDS Integers, Sequences, FiniteSets

CONSTANTS Producers,  \* threads that call queue_push
          Consumers,  \* threads that call queue_pop
          Item,       \* the events
          NoItem,     \* contents of a slot or variable nobody wrote yet
          Size        \* q->size; 0 after queue_init failed to allocate

ASSUME QueueAssumption == /\ Size \in Nat
                          /\ NoItem \notin Item
                          /\ IsFiniteSet(Producers)
                          /\ IsFiniteSet(Consumers)
                          /\ Producers \cap Consumers = {}

VARIABLES buffer, head, tail, count, shutdown,  \* the fields of AsyncQueue
          where,   \* where[t]: what thread t is doing in the queue
          arg,     \* arg[p]: the event producer p is pushing
          got,     \* got[c]: the event variable consumer c pops into
          ret      \* ret[t]: what the last call of thread t returned

ring == <<buffer, head, tail, count>>
vars == <<ring, shutdown, where, arg, got, ret>>

Thread == Producers \cup Consumers
Slot == 0 .. Size - 1

(* "out": not in a queue function; "waiting": in pthread_cond_wait;        *)
(* "timed": in pthread_cond_timedwait; "woken": about to retake the mutex. *)
Place == {"out", "waiting", "timed", "woken"}

TypeOK == /\ buffer \in [Slot -> Item \cup {NoItem}]
          /\ head \in {0} \cup Slot
          /\ tail \in {0} \cup Slot
          /\ count \in 0 .. Size
          /\ shutdown \in BOOLEAN
          /\ where \in [Thread -> Place]
          /\ arg \in [Producers -> Item \cup {NoItem}]
          /\ \A p \in Producers : where[p] # "out" => arg[p] \in Item
          /\ got \in [Consumers -> Item \cup {NoItem}]
          /\ ret \in [Thread -> {0, -1}]

\* Threads of T that only a signal, a timeout or a spurious wakeup frees.
Blocked(T) == {t \in T : where[t] \in {"waiting", "timed"}}

Woken(T) == {t \in T : where[t] = "woken"}

Init == /\ buffer = [i \in Slot |-> NoItem]
        /\ head = 0
        /\ tail = 0
        /\ count = 0
        /\ shutdown = FALSE
        /\ where = [t \in Thread |-> "out"]
        /\ arg = [p \in Producers |-> NoItem]
        /\ got = [c \in Consumers |-> NoItem]
        /\ ret = [t \in Thread |-> 0]

-----------------------------------------------------------------------------
(* The pieces the functions share.                                         *)

(* An operator named Faulty... is a plausible mistake in the definition    *)
(* that follows it; PROJECT.json says which property detects it.           *)
FaultyAdvance(i) == i + 1
Advance(i) == (i + 1) % Size

FaultyPushMustWait == count > Size /\ ~shutdown
\* The loop test of queue_push and the test of queue_pop.
PushMustWait == count >= Size /\ ~shutdown
PopMustWait == count = 0 /\ ~shutdown

FaultyPopFails == count = 0
\* What queue_pop tests once it need not, or need no longer, wait.
PopFails == count = 0 \/ shutdown

FaultyLeaveSignalling(t, T) == where' = [where EXCEPT ![t] = "out"]
\* pthread_cond_signal on the condition T waits for, then unlock and return.
LeaveSignalling(t, T) ==
  \/ /\ Blocked(T) = {}
     /\ where' = [where EXCEPT ![t] = "out"]
  \/ \E w \in Blocked(T) : where' = [where EXCEPT ![t] = "out", ![w] = "woken"]

Return(t, rc) == ret' = [ret EXCEPT ![t] = rc]

-----------------------------------------------------------------------------
(* queue_push                                                              *)

\* The loop test holds: release the mutex and wait for not_full.
PushWait(p) == /\ PushMustWait
               /\ where' = [where EXCEPT ![p] = "waiting"]
               /\ UNCHANGED <<ring, shutdown, got, ret>>

PushRefused(p) == /\ shutdown
                  /\ where' = [where EXCEPT ![p] = "out"]
                  /\ Return(p, -1)
                  /\ UNCHANGED <<ring, shutdown, got>>

PushStore(p, x) == /\ ~PushMustWait
                   /\ ~shutdown
                   /\ buffer' = [buffer EXCEPT ![tail] = x]
                   /\ tail' = Advance(tail)
                   /\ count' = count + 1
                   /\ LeaveSignalling(p, Consumers)
                   /\ Return(p, 0)
                   /\ UNCHANGED <<head, shutdown, got>>

PushSection(p, x) == PushWait(p) \/ PushRefused(p) \/ PushStore(p, x)

PushEnter(p, x) == /\ where[p] = "out"
                   /\ arg' = [arg EXCEPT ![p] = x]
                   /\ PushSection(p, x)

\* The wait returned: the loop test is made again.
PushResume(p) == /\ where[p] = "woken"
                 /\ PushSection(p, arg[p])
                 /\ UNCHANGED arg

-----------------------------------------------------------------------------
(* queue_pop                                                               *)

\* how: "timed" when timeout_ms > 0, "waiting" otherwise.
PopWait(c, how) == /\ PopMustWait
                   /\ where' = [where EXCEPT ![c] = how]
                   /\ UNCHANGED <<ring, shutdown, got, ret>>

PopNothing(c) == /\ PopFails
                 /\ where' = [where EXCEPT ![c] = "out"]
                 /\ Return(c, -1)
                 /\ UNCHANGED <<ring, shutdown, got>>

PopTake(c) == /\ ~PopFails
              /\ got' = [got EXCEPT ![c] = buffer[head]]
              /\ head' = Advance(head)
              /\ count' = count - 1
              /\ LeaveSignalling(c, Producers)
              /\ Return(c, 0)
              /\ UNCHANGED <<buffer, tail, shutdown>>

PopFinish(c) == PopNothing(c) \/ PopTake(c)

PopEnter(c, how) == /\ where[c] = "out"
                    /\ \/ PopWait(c, how)
                       \/ ~PopMustWait /\ PopFinish(c)
                    /\ UNCHANGED arg

FaultyPopResume(c) == /\ where[c] = "woken"
                      /\ \/ PopWait(c, "waiting")
                         \/ ~PopMustWait /\ PopFinish(c)
                      /\ UNCHANGED arg

\* The wait returned, for whatever reason: it is not repeated.
PopResume(c) == /\ where[c] = "woken"
                /\ PopFinish(c)
                /\ UNCHANGED arg

-----------------------------------------------------------------------------
(* The condition variables and the shutdown                                *)

Wake(t) == /\ where' = [where EXCEPT ![t] = "woken"]
           /\ UNCHANGED <<ring, shutdown, arg, got, ret>>

PopTimeout(c) == where[c] = "timed" /\ Wake(c)

SpuriousWake(t) == t \in Blocked(Thread) /\ Wake(t)

FaultyBroadcast == Consumers

\* queue_shutdown broadcasts on both conditions.
Broadcast == Thread

Shutdown == /\ shutdown' = TRUE
            /\ where' = [t \in Thread |-> IF t \in Blocked(Broadcast)
                                          THEN "woken" ELSE where[t]]
            /\ UNCHANGED <<ring, arg, got, ret>>

-----------------------------------------------------------------------------
ProducerStep(p) == (\E x \in Item : PushEnter(p, x)) \/ PushResume(p)

ConsumerStep(c) == \/ \E how \in {"waiting", "timed"} : PopEnter(c, how)
                   \/ PopResume(c)
                   \/ PopTimeout(c)

Next == \/ \E p \in Producers : ProducerStep(p)
        \/ \E c \in Consumers : ConsumerStep(c)
        \/ \E t \in Thread : SpuriousWake(t)
        \/ Shutdown

Spec == Init /\ [][Next]_vars

(* A thread that was woken gets the mutex in the end, and a timed wait     *)
(* ends.  Nothing obliges a thread to call the queue, to be woken for no   *)
(* reason, or to shut the queue down.                                      *)
Fairness == /\ \A p \in Producers : WF_vars(PushResume(p))
            /\ \A c \in Consumers : WF_vars(PopResume(c))
            /\ \A c \in Consumers : WF_vars(PopTimeout(c))

FairSpec == Spec /\ Fairness

-----------------------------------------------------------------------------
(* Properties                                                              *)

\* The contents of the ring, oldest event first.
Contents == [i \in 1 .. count |-> buffer[(head + i - 1) % Size]]

(* The two indices and the counter, which queue_push and queue_pop update  *)
(* separately, always describe the same stretch of the ring, and every     *)
(* slot of it was written: a pop never copies out memory that malloc left  *)
(* uninitialized, and a push never writes over an event not yet popped.    *)
RingConsistent ==
  Size > 0 => /\ tail = (head + count) % Size
              /\ \A i \in 1 .. count : Contents[i] \in Item

(* No wakeup is lost.  While a producer is blocked, at least as many other *)
(* producers are on their way to the mutex as there are free slots, and    *)
(* likewise for consumers and events: one pthread_cond_signal per push and *)
(* per pop is enough, although it wakes a single thread and another one    *)
(* may take the mutex, and the slot or the event, before it.               *)
NoLostWakeup ==
  ~shutdown => /\ Blocked(Producers) # {} => Size - count <= Cardinality(Woken(Producers))
               /\ Blocked(Consumers) # {} => count <= Cardinality(Woken(Consumers))

(* After queue_shutdown no thread is, or ever again becomes, blocked in    *)
(* the queue, whichever of the two conditions it was waiting for.          *)
ShutdownWakesAll == shutdown => Blocked(Thread) = {}

\* The queue is a bounded first-in first-out buffer, frozen by shutdown.
Fifo == INSTANCE BoundedFifo
          WITH items <- Contents, closed <- shutdown, got <- got,
               Reader <- Consumers, Capacity <- Size

(* Every push that returns 0 appends its event, every pop that returns 0   *)
(* takes the oldest event still there, and nothing else changes the        *)
(* contents, however the threads interleave, block, time out or wake for   *)
(* no reason.                                                              *)
ImplementsFifo == Fifo!Spec

(* A pop with a timeout returns, whatever the other threads do: this is    *)
(* what lets worker_thread look at g_running again.                        *)
TimedPopReturns ==
  \A c \in Consumers : where[c] = "timed" ~> where[c] = "out"
=============================================================================
