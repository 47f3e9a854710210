---------------------------- MODULE ProcMonitor ----------------------------
(***************************************************************************)
(* proc_monitor.c: the daemon lists /proc once when it starts, then again  *)
(* and again, and reports each process whose identifier the listing before *)
(* did not hold.  Meanwhile processes start and exit, and identifiers are  *)
(* used again.  A process is an identifier and the number of its use.      *)
(*                                                                         *)
(* The kernel lists /proc by increasing identifiers: readdir gives the     *)
(* next one that is alive when it is called.  A file of /proc/<pid> can    *)
(* also be unreadable, or empty, for a process that lives.                 *)
(***************************************************************************)
EXTENDS Integers, FiniteSets

CONSTANTS MaxPid,    \* bound: identifiers are 1 .. MaxPid
          MaxUses,   \* bound: how often an identifier is used
          MaxDrops,  \* bound: how often realloc fails per identifier
          Chunk      \* the first capacity of a set of identifiers, 1024

ASSUME ProcMonitorAssumption == /\ MaxPid \in Nat
                                /\ MaxUses \in Nat
                                /\ MaxDrops \in Nat
                                /\ Chunk \in Nat \ {0}

Pid == 1 .. MaxPid
Process == Pid \X (1 .. MaxUses)
Nobody == <<0, 0>>

VARIABLES live,      \* live[p]: the use of p that is alive, 0 if none is
          uses,      \* uses[p]: how often p was used so far
          mpc,       \* where proc_monitor_start is
          known,     \* pm->pids
          current,   \* current.pids
          cursor,    \* the identifier last listed, which is being captured
          cmd,       \* whose command the event holds
          user,      \* whose user
          cwd,       \* whose directory
          reported,  \* reported[x]: how many events named the command of x
          drops,     \* drops[p]: how often realloc failed to make room for p
          nameless,  \* the living processes whose command could not be read
          old,       \* the processes that were there before the monitor
          fresh      \* the living ones that started under an unknown identifier

processVars == <<live, uses, old, fresh>>
eventVars == <<cmd, user, cwd>>
scanVars == <<mpc, known, current, cursor, drops>>
reportVars == <<eventVars, reported, nameless>>
vars == <<processVars, scanVars, reportVars>>

(* "start": before the first opendir; "baseline", "scan": in a loop over   *)
(* the entries; "between": before the opendir of the next scan; the steps  *)
(* of capture_new_process; "blocked": in the callback, for ever;           *)
(* "returned": /proc could not be opened.                                  *)
Capturing == {"cmdline", "comm", "user", "cwd", "report"}
Place == {"start", "baseline", "between", "scan", "blocked", "returned"} \cup Capturing

TypeOK == /\ live \in [Pid -> 0 .. MaxUses]
          /\ uses \in [Pid -> 0 .. MaxUses]
          /\ mpc \in Place
          /\ known \in SUBSET Pid
          /\ current \in SUBSET Pid
          /\ cursor \in 0 .. MaxPid
          /\ cmd \in Process \cup {Nobody}
          /\ user \in Process \cup {Nobody}
          /\ cwd \in Process \cup {Nobody}
          /\ mpc \in {"user", "cwd", "report", "blocked"} => cmd \in Process
          /\ reported \in [Process -> Nat]
          /\ drops \in [Pid -> 0 .. MaxDrops]
          /\ nameless \in SUBSET Process
          /\ old \in SUBSET Process
          /\ fresh \in SUBSET Process

Init == /\ live \in [Pid -> {n \in {0, 1} : n <= MaxUses}]
        /\ uses = live
        /\ mpc = "start"
        /\ known = {}
        /\ current = {}
        /\ cursor = 0
        /\ cmd = Nobody /\ user = Nobody /\ cwd = Nobody
        /\ reported = [x \in Process |-> 0]
        /\ drops = [p \in Pid |-> 0]
        /\ nameless = {}
        /\ old = {x \in Process : live[x[1]] = x[2]}
        /\ fresh = {}

-----------------------------------------------------------------------------
(* The other processes of the machine                                      *)

Alive(x) == live[x[1]] = x[2]

Start(p) == /\ live[p] = 0
            /\ uses[p] < MaxUses
            /\ uses' = [uses EXCEPT ![p] = @ + 1]
            /\ live' = [live EXCEPT ![p] = uses[p] + 1]
            /\ fresh' = IF mpc \in {"start", "baseline"} \/ p \in known \cup current
                        THEN fresh
                        ELSE fresh \cup {<<p, uses[p] + 1>>}
            /\ UNCHANGED <<old, scanVars, reportVars>>

Exit(p) == /\ live[p] # 0
           /\ live' = [live EXCEPT ![p] = 0]
           /\ fresh' = fresh \ {<<p, live[p]>>}
           /\ nameless' = nameless \ {<<p, live[p]>>}
           /\ UNCHANGED <<uses, old, scanVars, eventVars, reported>>

-----------------------------------------------------------------------------
(* Sets of identifiers                                                     *)

\* A set of n identifiers fills the memory it has: 0, 1024, 2048, 4096...
Full(n) == n = 0 \/ \E k \in 0 .. n : n = Chunk * 2 ^ k

\* When realloc fails, the identifier is silently left out.
PidSetAdd(set, newSet, p) ==
  \/ /\ newSet = set \cup {p}
     /\ UNCHANGED drops
  \/ /\ Full(Cardinality(set))
     /\ drops[p] < MaxDrops
     /\ newSet = set
     /\ drops' = [drops EXCEPT ![p] = @ + 1]

-----------------------------------------------------------------------------
(* proc_monitor_start                                                      *)

Ahead == {p \in Pid : live[p] # 0 /\ p > cursor}

\* readdir returns p.
Lists(p) == /\ p \in Ahead
            /\ \A q \in Ahead : p <= q
            /\ cursor' = p

Open == /\ mpc = "start"
        /\ mpc' \in {"baseline", "returned"}
        /\ UNCHANGED <<processVars, known, current, cursor, drops, reportVars>>

BaselineEntry(p) == /\ mpc = "baseline"
                    /\ Lists(p)
                    /\ PidSetAdd(known, known', p)
                    /\ UNCHANGED <<processVars, mpc, current, reportVars>>

BaselineEnds == /\ mpc = "baseline"
                /\ Ahead = {}
                /\ mpc' = "between"
                /\ cursor' = 0
                /\ UNCHANGED <<processVars, known, current, drops, reportVars>>

OpenAgain == /\ mpc = "between"
             /\ mpc' \in {"scan", "returned"}
             /\ UNCHANGED <<processVars, known, current, cursor, drops, reportVars>>

FaultySeenBefore(p) == p \in current'

\* pid_set_contains(pm, pid), asked after the pid was added to current
SeenBefore(p) == p \in known

ScanEntry(p) == /\ mpc = "scan"
                /\ Lists(p)
                /\ PidSetAdd(current, current', p)
                /\ mpc' = IF SeenBefore(p) THEN "scan" ELSE "cmdline"
                /\ UNCHANGED <<processVars, known, reportVars>>

FaultyScanEnds == /\ mpc = "scan"
                  /\ Ahead = {}
                  /\ UNCHANGED known
                  /\ current' = {}
                  /\ cursor' = 0
                  /\ mpc' = "between"
                  /\ UNCHANGED <<processVars, drops, reportVars>>

\* The new set replaces the old one; then usleep.
ScanEnds == /\ mpc = "scan"
            /\ Ahead = {}
            /\ known' = current
            /\ current' = {}
            /\ cursor' = 0
            /\ mpc' = "between"
            /\ UNCHANGED <<processVars, drops, reportVars>>

-----------------------------------------------------------------------------
(* capture_new_process: each file of /proc/<pid> is opened anew            *)

\* Whose files /proc/<pid> holds now.
Owner == IF live[cursor] = 0 THEN Nobody ELSE <<cursor, live[cursor]>>

\* A failed read leaves the text empty, or at its default.
MayRead == {Owner, Nobody}

\* The command line is also empty for kernel threads and zombies.
ReadCmdline == /\ mpc = "cmdline"
               /\ cmd' \in MayRead
               /\ mpc' = IF cmd' = Nobody THEN "comm" ELSE "user"
               /\ UNCHANGED <<processVars, known, current, cursor, drops>>
               /\ UNCHANGED <<user, cwd, reported, nameless>>

FaultyAfterComm == "user"

\* Without a command there is no event.
AfterComm == IF cmd' = Nobody THEN "scan" ELSE "user"

\* A living process passed over here is in current, and not tried again.
ReadComm == /\ mpc = "comm"
            /\ cmd' \in MayRead
            /\ nameless' = IF cmd' = Nobody THEN nameless \cup ({Owner} \ {Nobody}) ELSE nameless
            /\ mpc' = AfterComm
            /\ UNCHANGED <<processVars, known, current, cursor, drops>>
            /\ UNCHANGED <<user, cwd, reported>>

CachedReadUser == /\ mpc = "user"
                  /\ user' \in {<<cursor, n>> : n \in 1 .. uses[cursor]}
                  /\ mpc' = "cwd"
                  /\ UNCHANGED <<processVars, known, current, cursor, drops>>
                  /\ UNCHANGED <<cmd, cwd, reported, nameless>>

\* Nobody stands for the user "unknown".
ReadUser == /\ mpc = "user"
            /\ user' \in MayRead
            /\ mpc' = "cwd"
            /\ UNCHANGED <<processVars, known, current, cursor, drops>>
            /\ UNCHANGED <<cmd, cwd, reported, nameless>>

\* Nobody stands for the directory "/", which realpath failing leaves.
ReadCwd == /\ mpc = "cwd"
           /\ cwd' \in MayRead
           /\ mpc' = "report"
           /\ UNCHANGED <<processVars, known, current, cursor, drops>>
           /\ UNCHANGED <<cmd, user, reported, nameless>>

\* pm->callback(&ev); the event was a local variable.
Report == /\ mpc = "report"
          /\ reported' = [reported EXCEPT ![cmd] = @ + 1]
          /\ cmd' = Nobody /\ user' = Nobody /\ cwd' = Nobody
          /\ mpc' = "scan"
          /\ UNCHANGED <<processVars, known, current, cursor, drops, nameless>>

(* A signal came, the worker has left and the queue is full: queue_push    *)
(* never returns.  (Nothing else here depends on whether a signal came:    *)
(* proc_monitor_start never looks at g_running.)                           *)
ReportBlocks == /\ mpc = "report"
                /\ mpc' = "blocked"
                /\ UNCHANGED <<processVars, known, current, cursor, drops, reportVars>>

MonitorStep == \/ Open
               \/ \E p \in Pid : BaselineEntry(p)
               \/ BaselineEnds
               \/ OpenAgain
               \/ \E p \in Pid : ScanEntry(p)
               \/ ScanEnds
               \/ ReadCmdline
               \/ ReadComm
               \/ ReadUser
               \/ ReadCwd
               \/ Report
               \/ ReportBlocks

Next == MonitorStep \/ \E p \in Pid : Start(p) \/ Exit(p)

Spec == Init /\ [][Next]_vars

(* The thread is scheduled; the callback returns (CallbackReturns of       *)
(* Auditor), or blocks for ever after a signal (ReportBlocks).             *)
FairSpec == Spec /\ WF_vars(MonitorStep)

-----------------------------------------------------------------------------
(* Properties                                                              *)

Counted(x) == reported[x] + (IF x \in old THEN 1 ELSE 0)

(* A process is reported at most once, and one that was there before the   *)
(* monitor is not reported at all, whatever happens to its identifier      *)
(* before and after; only where memory ran out for its identifier it is    *)
(* reported once more each time.                                           *)
ReportedOnce == \A x \in Process : Counted(x) <= 1 + drops[x[1]]

(* If the process an event names still lives when the callback is called,  *)
(* its user and its directory are its own, or the defaults that stand for  *)
(* a file that could not be read; never those of another process, although *)
(* the files were read one after the other by an identifier that can       *)
(* change hands (proc_monitor.c:45-71, utils.c:19-63).                     *)
WholeEvent ==
  mpc = "report" /\ Alive(cmd) => user \in {cmd, Nobody} /\ cwd \in {cmd, Nobody}

(* A process that starts under an identifier which neither the last        *)
(* listing nor the current one holds is reported, unless its command could *)
(* not be read or it exits first: no order of scanning, starting and       *)
(* exiting hides it.  The monitor may end or, after a signal, block in the *)
(* callback for ever (proc_monitor.c:92-117).                              *)
FreshIsReported ==
  \A x \in Process :
     x \in fresh ~> \/ reported[x] > 0 \/ x \in nameless
                    \/ x \notin fresh
                    \/ mpc \in {"returned", "blocked"}

=============================================================================
