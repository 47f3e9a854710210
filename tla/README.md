# A TLA+ model of the blockchain auditor

This directory holds TLA+ specifications of the auditor (C), its REST gateway
(Node) and its chaincode, the TLC configurations that check them on small
instances, and theorems about them checked by TLAPS. Paths such as
`src/main.c:39` are relative to the repository.

    tlc -workers 2 -config MCAsyncQueue.cfg MCAsyncQueue.tla
    tlapm AsyncQueueProofs.tla

`PROJECT.json` lists every run, every theorem, the source lines behind each
definition, and for each property a faulty variant of one definition (named
`Faulty...`, `Hasty...`, `Insistent...` and the like) under which TLC finds the property
violated.

## The system

| Part | Code | State | Operations |
|---|---|---|---|
| Event queue | `src/queue.c` | ring, head, tail, count, shutdown, mutex, two conditions | init, push, pop, shutdown, count, destroy |
| Event pipeline | `src/main.c` | `g_queue`, `g_running`, `g_use_gateway` | `event_callback`, `worker_thread`, `sigint_handler`, the commands |
| HTTP client | `src/http_client.c` | one curl handle | POST an event, GET |
| Local log | `src/log_local.c` | a file, a cache of its lines | write, read all, tamper, clear |
| ptrace capture | `src/capture.c` | the traced process | run a command, report its execs |
| Process monitor | `src/proc_monitor.c` | the set of process identifiers of the last scan | scan /proc every interval |
| Audit monitor | `src/audit_monitor.c` | the audit socket, the event being put together | read audit records |
| Daemon control | `src/daemonize.c` | the PID file, processes | daemonize, stop, status |
| Event codec | `src/event.c`, `src/crypto.c` | none | hash, serialise, parse |
| Gateway | `gateway/src` | `healthy`, the requests in progress | create, list, query, verify, status |
| Chaincode | `chaincode/index.js` | the world state of the channel | CreateEvent, QueryByHash, GetAllEvents, GetTotalCount |
| Scripts | `start.sh`, `stop.sh`, `fabric/network.sh` | containers, files | start, stop, deploy |

How they interact. `run`, `stress` and `daemon` start the worker thread and then
capture events on the main thread. For each event the capture calls
`event_callback`, which pushes the event into the queue, blocking while it is
full, and then appends it to the local log. The worker pops events and POSTs
each up to three times. The gateway hands the event to Fabric: the peer
simulates `CreateEvent` and endorses the write, the orderer puts the
transaction into the channel, the peer commits it, and only then does the
gateway answer 201. When the capture ends, main clears `g_running`, shuts the
queue down, joins the worker and cleans up.

What is hard about it: the two threads and the signal handler; a queue that can
be full, empty or shut down under a waiting thread; answers that come late or
not at all while the work is done anyway; processes that die between two steps;
process identifiers that are reused; and many failures whose result the code
does not look at. `PROJECT.json` lists them as hazards, each at its line, with
the properties that cover it.

## The modules

`BoundedFifo` states what the queue promises: bounded, first-in first-out, and
frozen once closed.

`AsyncQueue` is `queue.c`. A step is what a thread does between locking and
unlocking the mutex or waiting; the condition variables are the sets of blocked
and of woken threads (`where`), with signals that wake one thread, broadcasts,
timeouts and spurious wakeups. A woken thread competes for the mutex with
everybody else. `Size = 0` stands for a `queue_init` that failed, which `main`
does not notice. `Fifo` is the refinement mapping into `BoundedFifo`.

`Auditor` is the pipeline of `main.c` on top of `AsyncQueue` (one producer, one
consumer): where the main thread (`mpc`) and the worker (`wpc`) are, the flags,
the local log and, as history, what happened to each event. The k-th event
captured is the number k. `event_callback` is `Capture`, `Push`, `LogWrite`; the
end of a command is `CaptureEnds`, `Stop`, `ShutdownQueue`, `Join`, `Destroy`;
the worker's loop condition is split into its two reads (`TestRunning`,
`TestCount`) because main can move in between. A POST is answered or fails; the
gateway stores an event that was posted at any time, even after the auditor has
exited, or never (`GatewayStores`). `run --local-only` is `useGateway = FALSE`.

`Chaincode` gives the smart contract as operators on the world state.

`WriteOnceLedger` states what the README promises of the blockchain: what is
stored under a hash never changes.

`Gateway` is `gateway/src` with the part of Fabric it uses. A handler is split
at its awaits (`phase`). A transaction that was endorsed travels to the orderer
on its own (`sent`, `ordered`), is committed in channel order (`committed`,
`state`), and neither a deadline nor the death of the gateway stops it. Every
await can fail at any time. A restart loses all handlers and chooses `healthy`
again. `known[r]` is history: what earlier answers had shown when request r
arrived. The text that is hashed is modelled by its form, because the auditor
and the gateway use different ones.

`EndToEnd` puts `Gateway` in the place of that abstract POST: attempt k at event e
is the request `<<e, k>>`, `curl` the one that `curl_easy_perform` waits for. curl
gives up after 10 s (`http_client.c:40`) and the gateway after up to 90
(`fabric-client.js:42-44`), so `PostFailed` is possible in any phase of the
request, which then goes on without its client. An event whose fields hold a
quote (`quoted`) is not JSON when it is posted, and is refused with 400. The
auditor is a client of `createEvent` only; nobody else uses the gateway.

`ProcMonitor` is `proc_monitor.c` with the readers of `/proc` in `utils.c`. The
first listing (`BaselineEntry`), each later one (`ScanEntry`) and the reads of
`capture_new_process` (`ReadCmdline`, `ReadComm`, `ReadUser`, `ReadCwd`,
`Report`) are steps of their own, between which other processes start, exit and
take over identifiers (`Start`, `Exit`). A process is an identifier and the
number of its use, and what a read returns is the process whose file it found, or
nobody: a file of `/proc` can be gone, empty, or unreadable although its process
lives, and the event then has no command (and is not made), the user "unknown" or
the directory "/" (`MayRead`).
`readdir` gives the next identifier alive, in increasing order, as Linux does. A
set of identifiers can lose one when `realloc` fails (`PidSetAdd`). Nothing but a
failing `opendir` ends the monitor: `running` is never cleared. `old`, `fresh`,
`reported`, `drops` and `nameless` (the living processes whose command could not be
read) are history. A zombie counts as alive. `ReportBlocks` is the callback that
never returns, because a signal has ended the worker and the queue is full.

`Capture` is `capture.c`, one step per call of the tracer (`tracer`), with the
traced command (`tracee`) and the ptrace stop it is in (`stop`). Whether
PTRACE_TRACEME worked is chosen, since nobody looks at its result; a stop for a
signal, for an exec and at the exit are told apart as the kernel does it with and
without the options; SIGKILL can come in any stop. Programs are numbered in the
order of their exec calls, and `reported` is history.

`AuditMonitor` is `audit_monitor.c`: an operation for each record type, each with
its own condition for ignoring the record, and a socket of `Backlog` records that
the kernel fills. When a record is dropped the next read fails, and the loop ends.
What a record says is chosen when it is read: only whether its command contains
quotes matters to the log. An event is handed to `event_callback`, which begins
with `queue_push` (`Push`): it returns, or blocks for ever after a signal.

`LocalLog` is `log_local.c` with the codec of `event.c` and the commands
`integrity-test` and `clear`. The log is a file with an inode (`inode`, `made`) so
that writing to one that was unlinked is seen by nobody; appends go to its end,
the simulated manipulation writes from its start over whatever was appended since
it truncated the file (`Leftover`). Nobody looks at the results of `fprintf` and
`fclose`, so each write, that of the manipulation included, may also be cut short
anywhere (`CutShort`); what is written next is then glued to the piece that is left
(`Glue`). An event longer than the buffer of stdio takes two writes (`PutHead`,
`PutRest`).

A text is one of a few forms: plain, with a backslash, with quotes, with newlines;
serialising and parsing do to it what the code does (`to_json`, `from_json`). A line
holds the event it is of, the event that was hashed, and its form: whole, head,
rest, torn (pieces of several lines, or one that does not parse) or a scrap too
small to matter. `from_json` gives the set of what a line may be parsed as. Texts
are not escaped and the first occurrence of each key counts, so a line whose texts
have quotes or newlines (`open`) may parse as an event nobody logged with a hash
that fits it (`Forgery`); the new value of the manipulation is an argument and can
do the same (`Tampered`). `Verdicts` is what the test finds of the lines it has
read. The byte of `stored_hash` that the code never writes is taken to be zero:
otherwise every line fails. The parameters of `AuditMonitor` and `LocalLog` are
declared where they are composed.

`LocalAudit` composes the two with the order of events that `Capture` guarantees:
`run --local-only` and `daemon --audit` append to one log. The monitor reads its
next record only when `event_callback` is over, which is what makes its socket
overflow. The directories and the lengths of the events of both, and the commands
of `run`, come from `RunText` and `DaemonText`.

`Daemon` is `daemonize.c` with the options of `cmd_daemon`. Each call of
`auditor daemon` is a launcher, its child and its grandchild, the daemon; `tool`
is the process of `daemon stop` or `daemon status`. The identifiers come from a
small set and are reused, but not while a process, a zombie or a session has
them. A PID file is its identifier (`content`, 0 for an empty one) and the
launchers that have it open (`holders`); a launcher whose file was unlinked
writes it for nobody.

`AsyncQueueProofs`, `AuditorProofs`, `GatewayProofs`, `EndToEndProofs`,
`ProcMonitorProofs`, `CaptureProofs`, `DaemonProofs` and `LocalAuditProofs` hold the
theorems.
`MCAsyncQueue`, `MCGateway` and `MCDaemon` give the constants their values for TLC.

## The runs

| Run | Shows |
|---|---|
| `queue` (MCAsyncQueue.cfg) | 2 producers, 2 consumers, 2 slots, 2 events: consistent indices, no lost wakeup, shutdown wakes everybody, timed pops return, refinement of BoundedFifo |
| `auditor_pipeline` (Auditor.cfg) | 3 events, 2 slots, 2 attempts: delivery in order without loss, no event given up early or tried again once answered, complete local log, a ledger that is not ahead of it, clean-up after the worker, progress |
| `gateway` (MCGateway.cfg) | 3 requests, 2 hashes: 201 means stored, reads are fresh and true of the ledger, the ledger is written once |
| `end_to_end` (EndToEnd.cfg) | 1 event, 2 attempts: the retry races with the first attempt's handler and transaction; refinement of Auditor, losses only by refusal or silence |
| `proc_monitor` (ProcMonitor.cfg) | 2 identifiers, used twice each, one failed realloc for each: no double reports, no mixed events, no process hidden whose command can be read |
| `capture` (Capture.cfg) | 3 programs, 2 signals: no program runs unreported, reports in order, the capture ends with the command, unless its callback blocks |
| `local_audit` (LocalAudit.cfg) | two auditors, a test, a clear and one write cut short on one log: what verifies was logged and tampering is detected, but for lines with quotes or newlines in them; order is kept, only long events and failed writes damage lines, an overflow ends the monitor |
| `daemon` (MCDaemon.cfg) | 2 launches, 3 identifiers, stop and status: no process outside the launch is signalled |
| `auditor_posts_everything` | violated: events queued at the end of a run are never posted |
| `gateway_verify` | violated: verification fails for every honest event |
| `end_to_end_stores_handled` (EndToEndStores.cfg) | violated: a refusal by the gateway counts as success |
| `daemon_stop` (MCDaemonStop.cfg) | violated: `daemon stop` does not stop the daemon |

The last four are disagreements between the code and what the repository says of
it; `PROJECT.json` quotes the lines under "findings".

The events queued at the end of a run: `queue_pop` fails after the shutdown even
if events are left, but the worker leaves its loop only when the queue is empty.
So a run whose queue is not empty at the shutdown spins for ever in the worker,
`pthread_join` does not return, and the events stay where they are. A run whose
queue is empty ends well (`DrainedRunExits`), and one that ends without having
been interrupted has posted everything (`ExitLeavesNothing`).

`daemon stop`: the PID file holds the identifier of the first child, which exits
as soon as it has forked the daemon. So `kill` finds nobody, or a zombie while the
launcher is still there, and the PID file is removed. Even the right identifier
would not do: SIGTERM only clears `g_running`, which neither monitor looks at.
`InnocentSpared` is the good news: the child leads the daemon's session, and
while the session lives nobody else gets its identifier. Once the daemon has
ended, or if the file was empty when it was read, stop can hit anybody.

### Bounds

Two producers and two consumers are the fewest for a lost wakeup (a thread that
was not woken overtakes one that was); two slots let the indices wrap and let
the queue be neither full nor empty. In `Auditor`, three events fill a queue of
two and block main in its push, before or after the worker has taken the first;
two attempts instead of three still give a first, a middle and a last state of
the retry loop. `MaxEvents` bounds how much the captured command produces: the
real capture is unbounded. In `Gateway`, three requests allow a create that
timed out, its retry and a read, and two hashes tell a ledger that keeps its
content from one that replaces it. In `ProcMonitor`, two identifiers allow a
change behind and ahead of the scan, two uses allow a successor, and `Chunk = 1`
lets a set run out of memory at its first and at its second identifier.
In `EndToEnd` one event and two attempts let the retry overtake, or be overtaken by,
what is left of the first attempt. More events are out of TLC's reach there, but
the theorems hold for any number of events and attempts.
`MaxUses` and `MaxDrops` bound what the machine does, not the monitor. In
`Capture`, three programs give one before, one at and one after a report, and two
signals let a signal stop the command in its first and in a later stop. In
`LocalAudit`, one event of `run` and two records (`MaxRecords`) give each writer a
line before and after the other's, a socket of one record overflows at the second,
`MaxCached = 2` lets the log grow past what `local_log_read_all` keeps (65536 in
the code), and `MaxCuts = 1` cuts one event or the rewriting short. `RunText` has the
two forms that the others do not cover: newlines, which make two lines of an event,
and a backslash in the directory, which must survive parsing. Quotes come from the
monitor, whose EXECVE records have them, and long events from `DaemonText`: one
writer with long events is enough to have its two writes separated by another's
line. The theorems hold for every choice of forms, a long `run` included.
In `Daemon`, two launches on three identifiers let the second
take over what the first has given up, and one other process can take either.
Deadlock is not checked where the model may stop: `ProcMonitor` when `/proc`
could not be opened and all identifiers are used up, `Capture` when the command
has ended or is stopped for good, `LocalAudit` when everything was logged.

### Fairness

`AsyncQueue!Fairness`: a woken thread gets the mutex eventually, and a timed
wait ends. `Auditor!Fairness`: both threads are scheduled, and a POST ends
because curl has a time limit of 10 s (`http_client.c:40`). No fairness is
assumed of the captured command, of signals or of spurious wakeups.
Of the gateway and of Fabric nothing is assumed. `ProcMonitor!FairSpec`: the scanning
thread is scheduled. That `event_callback` returns is `CallbackReturns` of `Auditor`;
after a signal it may block for ever instead, which is the place `"blocked"` here and
in `AuditMonitor`. `Capture!FairSpec`: the tracer is scheduled
and a process that was let go at its exit dies; the command need not do anything,
and the callback need not return (`CommandEndEndsCapture` excepts a tracer in it). `LocalAudit!FairSpec`: the daemon is scheduled and
`local_log_write` ends, also when it fails; `queue_push` may never end (`Push`). `Daemon!FairSpec`: launcher, child and grandchild go on, and so
does a `stop` that was called; nobody has to start, stop or end anything.

## The theorems

About the queue, for every capacity (0 included) and all finite sets of
producers and consumers:

- `TypeCorrect`, `RingAlwaysConsistent`: with the type invariant, the relation
  `tail = (head + count) % Size` and "every slot in use was written" are
  inductive. The lemmas `StoreContents` and `TakeContents` say what a push and a
  pop do to the contents of the ring.
- `QueueImplementsFifo`: each step maps to a step of BoundedFifo or to a
  stutter, from the same two lemmas.
- `ShutdownAlwaysWakesAll`: nobody waits once `shutdown` is set, since both wait
  tests read it under the mutex.
- `NeverLosesWakeup`: while a producer is blocked there are at least as many
  woken producers as free slots, and likewise for consumers. This counting is
  inductive: a pop frees one slot and wakes one producer, and a producer that
  takes a slot, woken or not, uses up one of each.
- `NeverAllBlocked`: a corollary of the counting. If producers and consumers were
  blocked with nobody woken, the queue would be full and empty at once.
- `AlwaysPopWaitsOnce`: a pop that was woken returns; only a push can wait again.

About the pipeline, for any capacity above 0, any number of events and attempts:

- `DeliversInOrder`, `AbandonsOnlyAfterRetries`, `LogsCompletely`,
  `StoredAlwaysLogged`, `DestroysUnused` and `LeavesNothing`, with `TypeCorrect`. What they need of the
  queue is taken from `AsyncQueueProofs`: `QueueStep` shows that the pipeline
  takes only steps of the queue with one producer and one consumer, so the ring is
  consistent, and `StoreContents` and `TakeContents` say what its pushes and pops
  do. The invariant over it has five parts: which thread is inside the queue
  (`Threads`), how far the threads can be of each other (`Phases`: a worker that was
  not signalled ends on an empty queue, and only after the last push), which event
  is where (`Placed`, the pointwise form of `Delivery`), the attempts made and left
  (`Tries`) and the log (`Logs`). `DestroyedUnused` and `ExitLeavesNothing` are not
  inductive: both rest on the order of `g_running = 0`, shutdown and join. Nor is
  `StoredIsLogged`: it holds because only an event the queue has accepted is
  posted (`Tries`), and all of these but the last captured are in the log.
- `NeverTriedAgain`: no step makes another attempt at an event that was answered;
  `AbandonsOnlyAfterRetries` says so of where the worker stands, this of its steps.
- `BlockedAlwaysServed`: event_callback blocks only on a full queue with a worker,
  or one a signal has ended; the worker waits only with its timeout. `QueueSteps`
  makes `NeverLosesWakeup` and `ShutdownAlwaysWakesAll` facts of the pipeline, where
  with one thread on each side they say exactly when it may be blocked.
- `StrandsForGood`: what the shutdown finds in the queue is never posted, since
  `queue_pop` returns nothing any more, and it keeps the worker from ever ending.
  So the violation of `EveryEventPosted` is not one unlucky behaviour: it follows
  in every instance from a shutdown before the last pop.
- `AlwaysNearsExit`: a bound on the worker's steps, `Remaining`, which counts the
  attempts left, falls with each of them while main joins it on an empty queue.

About the gateway, for all requests, events and finite sets of hashes:

- `TypeCorrect`, from the invariant `IInv`: only requests of `createEvent` reach
  the channel, their body no longer changes, what is stored is stored under its
  own hash, and a 201 is only given for a committed transaction.
- `LedgerIsWrittenOnce` and `CreatedAlwaysStored` assume `HashDeterminesEvent`:
  two different events are never posted under the same hash. Auditors satisfy
  it, since they hash what they post. Without it both are false: `CreateEvent`
  writes without reading first, so another event posted under a used hash would
  replace the stored one.
- `ReadsAlwaysFresh` needs no such assumption: an overwritten hash is still
  stored. Its invariant `Fresh` follows what is known along the way: what was
  committed is in the world state, what was shown or returned was stored, and what
  the peer returned to a read covers what was known when the read was received.
- `ReadsAlwaysSound`: the other side of freshness (`ReadsAreSound`), from the same
  invariant and what the answers say of the events the peer returned (`AnsweredAsRead`).
- `VerifyAlwaysFailsAll` assumes `HonestClients`: only events hashed as the auditor
  hashes them are posted. Verification then fails every event it sees, which
  makes the finding of `gateway_verify` a statement about all ledgers.
- `AlwaysSubmittedOnce`: a request has one transaction at most, wherever its
  handler was given up or the process died.

About the composition, for any capacity above 0, any number of events and attempts:

- `ImplementsAbstractPost`: a step of the gateway that commits an event is
  `GatewayStores`, every other one a stutter. The invariant ties the two sides
  together: every transaction on its way belongs to a request that was received
  and whose event is not quoted (`Genuine`), a request that was received is an
  attempt made or the one curl waits for (`Attempted`), and so what is committed
  was posted.
- `ImplementsGateway`: the other side. The attempts that `AuditorProofs` counts
  are requests, each made once. With the two refinements the theorems of
  `AuditorProofs` and `GatewayProofs` are theorems of the whole; the lemmas
  `Same...` say that the modules reached by different INSTANCEs are the same.
- `LosesOnlyRefused` needs both: an event is abandoned only after all its attempts
  or with an answer (`AbandonedOnlyAfterRetries`), the answer is one of a finished
  request (`Answers`), which is 201, 400 or 422, and a 201 means stored
  (`CreatedIsStored`, whose assumption on hashes is proved here).
- `TypesHold`: the types of the two sides, which the two refinements bring, and
  that the request curl waits for is the attempt worker_thread is making.
- `WritesOnce`: `LedgerIsWrittenOnce` without its assumption, which the auditor's
  requests satisfy (`GatewayConstants`): the hash of the k-th event is k.
- `LedgerAlwaysLogged` brings `StoredIsLogged` of the pipeline to what the peer
  has committed.
- `QuotedAlwaysLost` makes the finding of `end_to_end_stores_handled` a statement about all instances:
  no event with a quotation mark is ever on the ledger, and worker_thread is done
  with it because it was refused or never answered.
- `AlwaysOnePerAttempt`: at most MaxRetries transactions for an event, by
  `AlwaysSubmittedOnce` and an injection from transactions to attempts.

About the process monitor, for any number of identifiers, uses and failures:

- `NeverReportedTwice` and `EventsAreWhole`, with `TypeCorrect`, from one
  invariant. Its core is `LivingCovered`: each report of a living process, the
  one on its way included, is paid for by the identifier's place in the set that
  lists it (`current` once the scan has passed it, `known` before) or by a failed
  `realloc`. `ReportedOnce` alone is not inductive, since it says nothing of a
  process that is not in the set and has been reported. `EventsAreWhole` allows the
  defaults that failed reads leave, but nothing of another process.
- `PassesNobodyOver`: no living process that started under an unknown identifier
  is in a set the monitor looks it up in, unless it was reported, is being
  reported, or its command could not be read (`nameless`). What is left of `FreshIsReported` is that scans go on.

About the capture, for any number of programs and signals:

- `NeverRunsUnreported` and `ReportsInOrder`, with `TypeCorrect`. The invariant
  says where a traced command can run at all (`RunsOnlyWatched`: before the first
  stop, or with the options set while the tracer waits), that a program which was
  not reported yet stands in the stop of its exec (`UnreportedStands`), and that a
  program on its way to the callback is newer than those reported (`ReportsAreOld`).
  None of the two properties is inductive without the first part.
- `AlwaysReturnsAtEnd`, `NeverSkips` and `UntracedAlwaysUnseen`: the capture neither
  ends before the command nor falls behind it, and without PTRACE_TRACEME sees
  nothing of it. Two more invariants: how the capture ends (`Ends`), and that only
  a program that runs or execvp executes another one (`ExecsFromProgram`).
- `AlwaysNearsItsEnd`: once the command is over at most five steps are left, by a
  bound that each step lowers (`StepsLeft`), from any place of the tracer and any
  stop the command was killed in.

About the daemon, for any launches, identifiers and other processes:

- `InnocentAlwaysSpared`, with `TypeCorrect`. The invariant is that an identifier
  taken by a child or by the session it leads is nobody else's (`Unshared`), which
  needs that a daemon is only forked by a session leader (`Stages`), and that the
  PID file names the child of some launch (`NamesMiddle`).
- `StopAlwaysMisses` and `StatusAlwaysDenies`: the finding of `daemon_stop` for any
  number of launches. The file names the middle process (`NamesMiddle`), and its
  number cannot be that of the daemon, nor of anyone else while the daemon lives
  (`Unshared`), so stop signals no daemon and status finds none.

About the shared local log, for any number of events, records, failed writes and
lines read, and any forms of the texts:

- `VerifiedAlwaysHonest`, `HonestLinesAlwaysMatch`, `TamperAlwaysDetected`,
  `LogAlwaysInOrder` and `AlwaysIntactUnlessLong`, with `TypesHold`, from one
  invariant. Its parts are stated of any sequence of lines (the file, the cache, what
  was appended since the truncation), and lemmas say of `Behind`, `CutShort` and
  `Leftover` what they do to each part, so that each step is a few of these.
- What verifies is honest because a line that is not open keeps the hash it was
  logged with (`HashesKnown`) and what parsing alters is not the text of any event.
  Open lines are excepted because the code does not escape: of them verification
  says nothing. A changed line is found because it stays at its place until it is
  read again (`TamperTraced`), also when it is overwritten or glued to another one.
- `LogInOrder` is not inductive: a head can become a whole line later, and the
  rewrite puts an old copy in front of newer lines. `LinesOrdered` adds the heads,
  the cached lines, and that what was appended since the truncation is newer than
  all of them. Cutting a write short keeps it: what is left is a prefix, perhaps
  with a piece of the next line, which is no event.
- `IntactUnlessLong` needs that, without failed writes, an unended line is a head of
  which the rest follows (`Undisturbed`), so only an event written meanwhile by the
  other auditor can be glued to it.
- `OverflowAlwaysStrands`: an overflow finds the socket full and the read fails
  before it delivers anything, so the whole backlog is lost with the dropped record,
  unless the monitor is blocked and reads nothing any more.

Only model-checked: the liveness properties, since liveness under fairness and
ENABLED are out of reach of the provers. Their safety halves are proved, for every
instance: what must never happen on the way (`BlockedAlwaysServed` for
`CallbackReturns`, `PassesNobodyOver` for `FreshIsReported`, `AlwaysPopWaitsOnce`
for `TimedPopReturns`, `OverflowAlwaysStrands` for `OverflowEndsMonitor`) or a bound
that each step lowers (`AlwaysNearsExit` for `DrainedRunExits`, `AlwaysNearsItsEnd`
for `CommandEndEndsCapture`). What TLC alone shows is that the steps are taken. The
properties that the runs expect to be violated have no theorem, but each of the four
findings has one that says what holds instead, in every instance: `StrandsForGood`,
`VerifyAlwaysFailsAll`, `QuotedAlwaysLost` and `StopAlwaysMisses`.

## Not modelled, and the plan

Not stated: that an event is stored eventually. It would need fairness of Fabric,
which the code does not justify.

What the modules abstract from:

- In `EndToEnd` two attempts do not meet in one HTTP connection: the reuse of the
  curl handle is not modelled. A second auditor, and clients that read, are in
  `Gateway` only.
- `Capture` has one traced process. The options do not ask for forks, so the
  children of the command are neither traced nor reported.
- `AuditMonitor` takes records as they come. That the code never registers itself
  with the audit system (it calls no `audit_set_pid`), so that a stock kernel may
  send it nothing at all, cannot be seen in the model.
- In `LocalLog` the rewriting of the log is one step after the truncation. A line
  longer than the buffer of `fgets` (8192 bytes) is not split: no event is that long,
  but two lines glued to each other can be. A new value too long for the line buffer
  of the manipulation, which then loses its end, is not told apart from others, and
  stdio does not try again what one write has cut off.
- In `Daemon` a tool opens and reads the PID file in one step, and the
  launchers and tools have identifiers outside `Pid`.

Left out for good: the Fabric configuration and certificates, what the commands
print (`verify` and `status` do nothing else), the statistics of `benchmark` and
`stress`, the text of HTTP responses, and the scripts, which are sequences of
docker and peer commands without state of their own.
