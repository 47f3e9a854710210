------------------------------- MODULE Daemon -------------------------------
(***************************************************************************)
(* daemonize.c and cmd_daemon: `auditor daemon` started several times, and *)
(* `daemon stop` or `daemon status` called at any time by other processes. *)
(* A launcher forks a middle process, which starts a session and forks the *)
(* daemon; the launcher writes the identifier of the middle process into   *)
(* the PID file.  Identifiers are reused, but not while a process or a     *)
(* session has them.                                                       *)
(***************************************************************************)
EXTENDS Naturals, Sequences, FiniteSets

CONSTANTS Launch,     \* the calls of `auditor daemon`
          Pid,        \* bound: the identifiers of the processes but the launchers and the tool
          MaxOthers,  \* bound: how many unrelated processes there are at a time
          Args        \* the options a launch may be given, sequences over {"audit", "daemon"}

ASSUME DaemonAssumption == 0 \notin Pid /\ MaxOthers \in Nat

VARIABLES launcher,   \* where each launcher is
          middle,     \* where its child is in daemonize
          daemon,     \* what its grandchild does
          midPid, daemonPid,  \* their identifiers, 0 before the forks
          leader,     \* its child has started a session
          others,     \* the identifiers of unrelated processes
          named,      \* the PID file exists
          content,    \* the identifier in it, 0 while it is empty
          holders,    \* the launchers that have this file open
          tool, cmd,  \* where stop or status is, and which of them it is
          pid,        \* its variable pid
          blank       \* it read an empty file, so that pid is uninitialised

familyVars == <<launcher, middle, daemon, midPid, daemonPid, leader>>
fileVars == <<named, content, holders>>
toolVars == <<tool, cmd, pid, blank>>
vars == <<familyVars, others, fileVars, toolVars>>

TypeOK == /\ launcher \in [Launch -> {"idle", "fork", "open", "write", "exit", "done", "failed", "foreground"}]
          /\ middle \in [Launch -> {"none", "setsid", "fork", "exit", "zombie", "gone"}]
          /\ daemon \in [Launch -> {"none", "detach", "running", "signalled", "ended"}]
          /\ midPid \in [Launch -> Pid \cup {0}] /\ daemonPid \in [Launch -> Pid \cup {0}]
          /\ \A l \in Launch : middle[l] = "none" <=> midPid[l] = 0
          /\ leader \in [Launch -> BOOLEAN]
          /\ others \in SUBSET Pid
          /\ named \in BOOLEAN /\ content \in Pid \cup {0}
          /\ holders \in SUBSET Launch /\ (holders # {} => named)
          /\ tool \in {"idle", "kill", "unlink"} /\ cmd \in {"stop", "status"}
          /\ pid \in Pid \cup {0} /\ blank \in BOOLEAN

Init == /\ launcher = [l \in Launch |-> "idle"]
        /\ middle = [l \in Launch |-> "none"] /\ daemon = [l \in Launch |-> "none"]
        /\ midPid = [l \in Launch |-> 0] /\ daemonPid = [l \in Launch |-> 0]
        /\ leader = [l \in Launch |-> FALSE]
        /\ others = {}
        /\ named = FALSE /\ content = 0 /\ holders = {}
        /\ tool = "idle" /\ cmd = "stop" /\ pid = 0 /\ blank = FALSE

-----------------------------------------------------------------------------
(* The kernel's table of processes                                         *)

DaemonLives(l) == daemon[l] \in {"detach", "running", "signalled"}
MiddleExists(l) == middle[l] \notin {"none", "gone"}  \* also as a zombie

\* The session of the middle process keeps its identifier while the daemon lives.
Reserved(p) == \E l \in Launch : p = midPid[l] /\ leader[l] /\ DaemonLives(l)

\* kill finds a process with this identifier.
Exists(p) == \/ p \in others
             \/ \E l \in Launch : \/ p = midPid[l] /\ MiddleExists(l)
                                  \/ p = daemonPid[l] /\ DaemonLives(l)

Available == {p \in Pid : ~Exists(p) /\ ~Reserved(p)}

OtherStarts(p) == /\ p \in Available
                  /\ Cardinality(others) < MaxOthers
                  /\ others' = others \cup {p}
                  /\ UNCHANGED <<familyVars, fileVars, toolVars>>

OtherEnds(p) == /\ p \in others
                /\ others' = others \ {p}
                /\ UNCHANGED <<familyVars, fileVars, toolVars>>

-----------------------------------------------------------------------------
(* The launcher: cmd_daemon and the parent's branch of daemonize           *)

\* getopt_long takes the first option for the name of the program.
Backgrounds(args) == \E i \in 2 .. Len(args) : args[i] = "daemon"

Start(l) == /\ launcher[l] = "idle"
            /\ \E args \in Args :
                 launcher' = [launcher EXCEPT ![l] = IF Backgrounds(args) THEN "fork" ELSE "foreground"]
            /\ UNCHANGED <<middle, daemon, midPid, daemonPid, leader, others, fileVars, toolVars>>

FaultyForkFails(l) == /\ launcher' = [launcher EXCEPT ![l] = "failed"]
                      /\ middle' = [middle EXCEPT ![l] = "setsid"]
                      /\ UNCHANGED midPid

\* "Failed to daemonize"
ForkFails(l) == /\ launcher' = [launcher EXCEPT ![l] = "failed"]
                /\ UNCHANGED <<middle, midPid>>

ForkMiddle(l) ==
  /\ launcher[l] = "fork"
  /\ \/ ForkFails(l)
     \/ \E p \in Available : /\ midPid' = [midPid EXCEPT ![l] = p]
                             /\ middle' = [middle EXCEPT ![l] = "setsid"]
                             /\ launcher' = [launcher EXCEPT ![l] = "open"]
  /\ UNCHANGED <<daemon, daemonPid, leader, others, fileVars, toolVars>>

\* fopen truncates the file, or creates it; a failure goes unnoticed.
OpenPidfile(l) ==
  /\ launcher[l] = "open"
  /\ \/ /\ named' = TRUE /\ content' = 0
        /\ holders' = holders \cup {l}
        /\ launcher' = [launcher EXCEPT ![l] = "write"]
     \/ /\ launcher' = [launcher EXCEPT ![l] = "exit"]
        /\ UNCHANGED fileVars
  /\ UNCHANGED <<middle, daemon, midPid, daemonPid, leader, others, toolVars>>

\* A file that was unlinked meanwhile is written all the same.
WritePid(l) == /\ launcher[l] = "write"
               /\ content' = IF l \in holders THEN midPid[l] ELSE content
               /\ holders' = holders \ {l}
               /\ launcher' = [launcher EXCEPT ![l] = "exit"]
               /\ UNCHANGED <<middle, daemon, midPid, daemonPid, leader, others, named, toolVars>>

\* "Daemon started"; the launcher never waits for its child, which init inherits.
LauncherExits(l) ==
  /\ launcher[l] = "exit"
  /\ launcher' = [launcher EXCEPT ![l] = "done"]
  /\ middle' = [middle EXCEPT ![l] = IF @ = "zombie" THEN "gone" ELSE @]
  /\ UNCHANGED <<daemon, midPid, daemonPid, leader, others, fileVars, toolVars>>

-----------------------------------------------------------------------------
(* The child and the grandchild                                            *)

FaultySetsid(l) == /\ middle[l] = "setsid"
                   /\ middle' = [middle EXCEPT ![l] = "fork"]
                   /\ UNCHANGED <<launcher, daemon, midPid, daemonPid, leader, others, fileVars, toolVars>>

Setsid(l) == /\ middle[l] = "setsid"
             /\ leader' = [leader EXCEPT ![l] = TRUE]
             /\ middle' = [middle EXCEPT ![l] = "fork"]
             /\ UNCHANGED <<launcher, daemon, midPid, daemonPid, others, fileVars, toolVars>>

\* What becomes of a child that ends: a zombie while its launcher is there.
Buried(l) == IF launcher[l] = "done" THEN "gone" ELSE "zombie"

(* If this fork fails the child ends, although the launcher reports that   *)
(* the daemon was started.                                                 *)
ForkDaemon(l) ==
  /\ middle[l] = "fork"
  /\ \/ /\ middle' = [middle EXCEPT ![l] = Buried(l)]
        /\ UNCHANGED <<daemon, daemonPid>>
     \/ \E p \in Available : /\ daemonPid' = [daemonPid EXCEPT ![l] = p]
                             /\ daemon' = [daemon EXCEPT ![l] = "detach"]
                             /\ middle' = [middle EXCEPT ![l] = "exit"]
  /\ UNCHANGED <<launcher, midPid, leader, others, fileVars, toolVars>>

MiddleExits(l) == /\ middle[l] = "exit"
                  /\ middle' = [middle EXCEPT ![l] = Buried(l)]
                  /\ UNCHANGED <<launcher, daemon, midPid, daemonPid, leader, others, fileVars, toolVars>>

\* The daemon leaves its directory and files, and cmd_daemon installs the handlers.
Detach(l) == /\ daemon[l] = "detach"
             /\ daemon' = [daemon EXCEPT ![l] = "running"]
             /\ UNCHANGED <<launcher, middle, midPid, daemonPid, leader, others, fileVars, toolVars>>

\* The monitor returns because it can read no more, or the daemon is killed.
DaemonEnds(l) == /\ DaemonLives(l)
                 /\ daemon' = [daemon EXCEPT ![l] = "ended"]
                 /\ daemonPid' = [daemonPid EXCEPT ![l] = 0]
                 /\ UNCHANGED <<launcher, middle, midPid, leader, others, fileVars, toolVars>>

-----------------------------------------------------------------------------
(* daemon_stop and daemon_status                                           *)

\* Without a PID file the tool is done; an empty one leaves pid as it was.
ReadPidfile == /\ tool = "idle"
               /\ named
               /\ cmd' \in {"stop", "status"}
               /\ blank' = (content = 0)
               /\ pid' \in IF content = 0 THEN Pid ELSE {content}
               /\ tool' = "kill"
               /\ UNCHANGED <<familyVars, others, fileVars>>

ToolEnds == tool' = "idle" /\ cmd' = "stop" /\ pid' = 0 /\ blank' = FALSE

(* SIGTERM ends a process that has not changed its action; in the daemon   *)
(* the handler clears g_running, which neither monitor looks at.           *)
Terminate == /\ others' = others \ {pid}
             /\ middle' = [l \in Launch |-> IF pid = midPid[l] /\ MiddleExists(l) THEN Buried(l)
                                            ELSE middle[l]]
             /\ daemon' = [l \in Launch |-> IF pid = daemonPid[l] /\ DaemonLives(l)
                                            THEN IF daemon[l] = "detach" THEN "ended" ELSE "signalled"
                                            ELSE daemon[l]]
             /\ UNCHANGED <<launcher, midPid, daemonPid, leader>>

Kill == /\ tool = "kill"
        /\ \/ cmd = "stop" /\ Terminate
           \/ cmd = "status" /\ UNCHANGED <<familyVars, others>>
        /\ IF cmd = "status" /\ Exists(pid)
           THEN ToolEnds ELSE tool' = "unlink" /\ UNCHANGED <<cmd, pid, blank>>
        /\ UNCHANGED fileVars

\* Whichever file has the name by now loses it.
Unlink == /\ tool = "unlink"
          /\ named' = FALSE /\ content' = 0 /\ holders' = {}
          /\ ToolEnds
          /\ UNCHANGED <<familyVars, others>>

-----------------------------------------------------------------------------
LauncherStep(l) == ForkMiddle(l) \/ OpenPidfile(l) \/ WritePid(l) \/ LauncherExits(l)

MiddleStep(l) == Setsid(l) \/ ForkDaemon(l) \/ MiddleExits(l)

ToolStep == Kill \/ Unlink

Next == \/ \E l \in Launch : Start(l) \/ LauncherStep(l) \/ MiddleStep(l) \/ Detach(l) \/ DaemonEnds(l)
        \/ ReadPidfile \/ ToolStep
        \/ \E p \in Pid : OtherStarts(p) \/ OtherEnds(p)

Spec == Init /\ [][Next]_vars

(* Every process that can go on does.  Nobody is obliged to start a        *)
(* daemon, to call stop, or to end.                                        *)
Fairness == /\ \A l \in Launch : /\ WF_vars(LauncherStep(l)) /\ WF_vars(MiddleStep(l))
                                 /\ WF_vars(Detach(l))
            /\ WF_vars(ToolStep)

FairSpec == Spec /\ Fairness

-----------------------------------------------------------------------------
(* Properties                                                              *)

(* daemon_stop signals the child of the launch it read of, or nobody: it   *)
(* hits an unrelated process, or one of another launch, only if the launch *)
(* has left no process behind, so that its identifier is used again, or if *)
(* the file was empty.  As long as the daemon lives its session protects   *)
(* the identifier in the PID file (daemonize.c:28, 61-65).                 *)
InnocentSpared ==
  [][Kill /\ cmd = "stop" /\ Exists(pid) =>
       blank \/ \E l \in Launch : pid = midPid[l] /\ (MiddleExists(l) \/ ~DaemonLives(l))]_vars

(* main.c:409, "daemon stop  Stop the daemon": a daemon whose PID file     *)
(* stop has read ends.                                                     *)
StopStopsDaemon ==
  \A l \in Launch : tool = "kill" /\ cmd = "stop" /\ pid = midPid[l] /\ daemon[l] = "running"
                    ~> daemon[l] = "ended"
=============================================================================
