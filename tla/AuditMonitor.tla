---------------------------- MODULE AuditMonitor ----------------------------
(***************************************************************************)
(* audit_monitor.c: the daemon started with --audit reads the records of   *)
(* the kernel's audit system from a netlink socket and makes an event of   *)
(* each record of five types.  The socket holds a bounded number of        *)
(* records; when it overflows the kernel drops records and makes the next  *)
(* read fail.  What a record says is chosen when it is read.               *)
(***************************************************************************)
EXTENDS Naturals

CONSTANTS Backlog,    \* how many records the socket holds
          MaxRecords  \* bound: how many records the kernel sends

VARIABLES apc,         \* where audit_monitor_start is
          sent,        \* how many records the kernel sent
          waiting,     \* how many are in the socket
          overflowed,  \* a record was dropped and no read has failed since
          dispatched,  \* how many events were handed to the callback
          command      \* the form of the command of the event in hand

auditVars == <<apc, sent, waiting, overflowed, dispatched, command>>

TypeOK == /\ apc \in {"open", "read", "push", "callback", "blocked", "returned"}
          /\ sent \in 0 .. MaxRecords
          /\ waiting \in 0 .. Backlog
          /\ overflowed \in BOOLEAN
          /\ dispatched \in 0 .. MaxRecords
          /\ command \in {"none", "plain", "quote"}

Init == /\ apc = "open"
        /\ sent = 0 /\ waiting = 0 /\ overflowed = FALSE
        /\ dispatched = 0 /\ command = "none"

\* audit_open fails without privileges; the monitor then returns at once.
Open == /\ apc = "open"
        /\ apc' \in {"read", "returned"}
        /\ UNCHANGED <<sent, waiting, overflowed, dispatched, command>>

\* The kernel has a record for the socket.
Send == /\ apc \notin {"open", "returned"}
        /\ sent < MaxRecords
        /\ sent' = sent + 1
        /\ IF waiting < Backlog THEN waiting' = waiting + 1 /\ UNCHANGED overflowed
                                ELSE overflowed' = TRUE /\ UNCHANGED waiting
        /\ UNCHANGED <<apc, dispatched, command>>

\* audit_get_reply delivers a record.
GetReply == /\ apc = "read"
            /\ waiting > 0 /\ ~overflowed
            /\ waiting' = waiting - 1
            /\ UNCHANGED <<sent, overflowed>>

Ignore == UNCHANGED <<apc, dispatched, command>>

\* An event with a command of form c is made and handed to the callback.
Dispatch(c) == /\ apc' = "push"
               /\ dispatched' = dispatched + 1
               /\ command' = c

\* An EXECVE record has no exe: the command is the record, quotes and all.
ParseExecve == GetReply /\ Dispatch("quote")

\* System calls outside the list are ignored.
ParseSyscall == GetReply /\ (Ignore \/ Dispatch("plain"))

\* So are paths whose name is not quoted.
ParsePath == GetReply /\ (Ignore \/ Dispatch("plain"))

\* Without exe the command is the record here, too.
ParseUserLogin == GetReply /\ \E c \in {"plain", "quote"} : Dispatch(c)

ParseAnomAbend == GetReply /\ \E c \in {"plain", "quote"} : Dispatch(c)

OtherRecord == GetReply /\ Ignore

(* event_callback begins with queue_push, if there is a gateway.  It       *)
(* returns (Auditor), or blocks for ever: after a signal the worker has    *)
(* left, and the queue is full.  (Nothing else here depends on whether a   *)
(* signal came: audit_monitor_start never looks at g_running.)             *)
Push == /\ apc = "push"
        /\ apc' \in {"callback", "blocked"}
        /\ UNCHANGED <<sent, waiting, overflowed, dispatched, command>>

CallbackReturns == /\ apc = "callback"
                   /\ apc' = "read"
                   /\ command' = "none"
                   /\ UNCHANGED <<sent, waiting, overflowed, dispatched>>

FaultyReadFails == /\ apc = "read"
                   /\ overflowed
                   /\ overflowed' = FALSE
                   /\ UNCHANGED <<apc, sent, waiting, dispatched, command>>

(* After an overflow the read fails with ENOBUFS, and the loop is left.    *)
(* (A failed read that leaves errno at EINTR only goes round again.)       *)
ReadFails == /\ apc = "read"
             /\ overflowed
             /\ overflowed' = FALSE
             /\ apc' = "returned"
             /\ UNCHANGED <<sent, waiting, dispatched, command>>

Read == \/ ParseExecve
        \/ ParseSyscall
        \/ ParsePath
        \/ ParseUserLogin
        \/ ParseAnomAbend
        \/ OtherRecord

MonitorStep == Open \/ Read \/ Push \/ ReadFails

Next == MonitorStep \/ CallbackReturns \/ Send

-----------------------------------------------------------------------------
(* A record that was dropped is never followed by an ordinary end of the   *)
(* log: the monitor hands out at most the event it holds and returns, or   *)
(* is blocked in the callback after a signal, and reads no more records    *)
(* (audit_monitor.c:307-310, main.c:29-31).                                *)
OverflowEndsMonitor == overflowed ~> apc \in {"returned", "blocked"}
=============================================================================
