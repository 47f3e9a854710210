---------------------------- MODULE DaemonProofs ----------------------------
(* Theorems about Daemon, for any launches, identifiers and other processes. *)
EXTENDS Daemon, TLAPS

(* How far the launcher, its child and its grandchild are of each other:   *)
(* the daemon is forked by a child that leads a session.                   *)
Stages ==
  \A l \in Launch :
     /\ launcher[l] \in {"idle", "fork", "failed", "foreground"} <=> middle[l] = "none"
     /\ middle[l] \in {"none", "setsid", "fork"} => daemon[l] = "none"
     /\ middle[l] \in {"fork", "exit"} \/ daemon[l] # "none" => leader[l]

\* The identifier of the child is taken, by the child or by the daemon's session.
Holds(l) == MiddleExists(l) \/ DaemonLives(l)

\* An identifier that is taken is not given to anybody else.
Unshared ==
  \A l \in Launch : Holds(l) =>
     /\ midPid[l] \notin others
     /\ \A k \in Launch : /\ k # l /\ MiddleExists(k) => midPid[k] # midPid[l]
                          /\ DaemonLives(k) => daemonPid[k] # midPid[l]

\* The PID file and what was read of it name the child of a launch.
NamesMiddle ==
  /\ content # 0 => \E l \in Launch : content = midPid[l]
  /\ tool = "kill" /\ ~blank => pid # 0 /\ \E l \in Launch : pid = midPid[l]

IInv == /\ TypeOK
        /\ Stages
        /\ Unshared
        /\ NamesMiddle

-----------------------------------------------------------------------------
LEMMA InitInv == Init => IInv
<1> SUFFICES ASSUME Init PROVE IInv
  OBVIOUS
<1>1. TypeOK
  BY DEF Init, TypeOK
<1>2. Stages
  BY DEF Init, Stages
<1>3. Unshared
  BY DEF Init, Unshared, Holds, MiddleExists, DaemonLives
<1>4. NamesMiddle
  BY DEF Init, NamesMiddle
<1>5. QED
  BY <1>1, <1>2, <1>3, <1>4 DEF IInv

LEMMA TypeStep ==
  ASSUME TypeOK, Stages, Next
  PROVE  TypeOK'
<1> USE DaemonAssumption DEF familyVars, fileVars, toolVars, TypeOK, Stages
<1>1. ASSUME NEW l \in Launch, Start(l) PROVE TypeOK'
  BY <1>1 DEF Start
<1>2. ASSUME NEW l \in Launch, ForkMiddle(l) PROVE TypeOK'
  BY <1>2 DEF ForkMiddle, ForkFails, Available
<1>3. ASSUME NEW l \in Launch, OpenPidfile(l) PROVE TypeOK'
  BY <1>3 DEF OpenPidfile
<1>4. ASSUME NEW l \in Launch, WritePid(l) PROVE TypeOK'
  BY <1>4 DEF WritePid
<1>5. ASSUME NEW l \in Launch, LauncherExits(l) PROVE TypeOK'
  BY <1>5 DEF LauncherExits
<1>6. ASSUME NEW l \in Launch, Setsid(l) PROVE TypeOK'
  BY <1>6 DEF Setsid
<1>7. ASSUME NEW l \in Launch, ForkDaemon(l) PROVE TypeOK'
  BY <1>7 DEF ForkDaemon, Buried, Available
<1>8. ASSUME NEW l \in Launch, MiddleExits(l) PROVE TypeOK'
  BY <1>8 DEF MiddleExits, Buried
<1>9. ASSUME NEW l \in Launch, Detach(l) PROVE TypeOK'
  BY <1>9 DEF Detach
<1>10. ASSUME NEW l \in Launch, DaemonEnds(l) PROVE TypeOK'
  BY <1>10 DEF DaemonEnds
<1>11. CASE ReadPidfile
  BY <1>11 DEF ReadPidfile
<1>12. CASE Kill
  <2>1. tool' \in {"idle", "unlink"} /\ cmd' \in {"stop", "status"} /\ pid' \in Pid \cup {0}
        /\ blank' \in BOOLEAN
    BY <1>12 DEF Kill, ToolEnds
  <2>2. CASE cmd = "stop"
    <3>1. Terminate
      BY <1>12, <2>2 DEF Kill
    <3>2. /\ middle' \in [Launch -> {"none", "setsid", "fork", "exit", "zombie", "gone"}]
          /\ \A l \in Launch : middle'[l] = "none" <=> middle[l] = "none"
      BY <3>1 DEF Terminate, Buried, MiddleExists
    <3>3. daemon' \in [Launch -> {"none", "detach", "running", "signalled", "ended"}]
      BY <3>1 DEF Terminate
    <3>4. QED
      BY <1>12, <2>1, <3>1, <3>2, <3>3 DEF Kill, Terminate
  <2>3. CASE cmd = "status"
    BY <1>12, <2>1, <2>3 DEF Kill
  <2>4. QED
    BY <2>2, <2>3
<1>13. CASE Unlink
  BY <1>13 DEF Unlink, ToolEnds
<1>14. ASSUME NEW p \in Pid, OtherStarts(p) PROVE TypeOK'
  BY <1>14 DEF OtherStarts
<1>15. ASSUME NEW p \in Pid, OtherEnds(p) PROVE TypeOK'
  BY <1>15 DEF OtherEnds
<1>16. QED
  BY <1>1, <1>2, <1>3, <1>4, <1>5, <1>6, <1>7, <1>8, <1>9, <1>10, <1>11, <1>12, <1>13, <1>14, <1>15 DEF Next, LauncherStep, MiddleStep, ToolStep

(* Only a launcher that has no child yet forks one. *)
LEMMA StagesStep ==
  ASSUME TypeOK, Stages, Next
  PROVE  Stages'
<1> USE DaemonAssumption DEF familyVars, fileVars, toolVars, TypeOK, Stages
<1>1. ASSUME NEW l \in Launch, Start(l) PROVE Stages'
  BY <1>1 DEF Start
<1>2. ASSUME NEW l \in Launch, ForkMiddle(l) PROVE Stages'
  BY <1>2 DEF ForkMiddle, ForkFails
<1>3. ASSUME NEW l \in Launch, OpenPidfile(l) PROVE Stages'
  BY <1>3 DEF OpenPidfile
<1>4. ASSUME NEW l \in Launch, WritePid(l) PROVE Stages'
  BY <1>4 DEF WritePid
<1>5. ASSUME NEW l \in Launch, LauncherExits(l) PROVE Stages'
  BY <1>5 DEF LauncherExits
<1>6. ASSUME NEW l \in Launch, Setsid(l) PROVE Stages'
  BY <1>6 DEF Setsid
<1>7. ASSUME NEW l \in Launch, ForkDaemon(l) PROVE Stages'
  BY <1>7 DEF ForkDaemon, Buried
<1>8. ASSUME NEW l \in Launch, MiddleExits(l) PROVE Stages'
  BY <1>8 DEF MiddleExits, Buried
<1>9. ASSUME NEW l \in Launch, Detach(l) PROVE Stages'
  BY <1>9 DEF Detach
<1>10. ASSUME NEW l \in Launch, DaemonEnds(l) PROVE Stages'
  BY <1>10 DEF DaemonEnds, DaemonLives
<1>11. CASE ReadPidfile
  BY <1>11 DEF ReadPidfile
<1>12. CASE Kill
  BY <1>12 DEF Kill, Terminate, Buried, MiddleExists, DaemonLives, ToolEnds
<1>13. CASE Unlink
  BY <1>13 DEF Unlink, ToolEnds
<1>14. ASSUME NEW p \in Pid, OtherStarts(p) PROVE Stages'
  BY <1>14 DEF OtherStarts
<1>15. ASSUME NEW p \in Pid, OtherEnds(p) PROVE Stages'
  BY <1>15 DEF OtherEnds
<1>16. QED
  BY <1>1, <1>2, <1>3, <1>4, <1>5, <1>6, <1>7, <1>8, <1>9, <1>10, <1>11, <1>12, <1>13, <1>14, <1>15 DEF Next, LauncherStep, MiddleStep, ToolStep

(* The forks and the other processes get identifiers nobody holds. *)
LEMMA UnsharedStep ==
  ASSUME TypeOK, Stages, Unshared, Next
  PROVE  Unshared'
<1> USE DaemonAssumption DEF familyVars, fileVars, toolVars, TypeOK, Stages, Unshared, Holds, MiddleExists, DaemonLives
<1>1. ASSUME NEW l \in Launch, Start(l) PROVE Unshared'
  BY <1>1 DEF Start
<1>2. ASSUME NEW l \in Launch, ForkMiddle(l) PROVE Unshared'
  BY <1>2 DEF ForkMiddle, ForkFails, Available, Exists, Reserved
<1>3. ASSUME NEW l \in Launch, OpenPidfile(l) PROVE Unshared'
  BY <1>3 DEF OpenPidfile
<1>4. ASSUME NEW l \in Launch, WritePid(l) PROVE Unshared'
  BY <1>4 DEF WritePid
<1>5. ASSUME NEW l \in Launch, LauncherExits(l) PROVE Unshared'
  BY <1>5 DEF LauncherExits
<1>6. ASSUME NEW l \in Launch, Setsid(l) PROVE Unshared'
  BY <1>6 DEF Setsid
<1>7. ASSUME NEW l \in Launch, ForkDaemon(l) PROVE Unshared'
  BY <1>7 DEF ForkDaemon, Buried, Available, Exists, Reserved
<1>8. ASSUME NEW l \in Launch, MiddleExits(l) PROVE Unshared'
  BY <1>8 DEF MiddleExits, Buried
<1>9. ASSUME NEW l \in Launch, Detach(l) PROVE Unshared'
  BY <1>9 DEF Detach
<1>10. ASSUME NEW l \in Launch, DaemonEnds(l) PROVE Unshared'
  BY <1>10 DEF DaemonEnds
<1>11. CASE ReadPidfile
  BY <1>11 DEF ReadPidfile
<1>12. CASE Kill
  BY <1>12 DEF Kill, Terminate, Buried, ToolEnds
<1>13. CASE Unlink
  BY <1>13 DEF Unlink, ToolEnds
<1>14. ASSUME NEW p \in Pid, OtherStarts(p) PROVE Unshared'
  BY <1>14 DEF OtherStarts, Available, Exists, Reserved
<1>15. ASSUME NEW p \in Pid, OtherEnds(p) PROVE Unshared'
  BY <1>15 DEF OtherEnds
<1>16. QED
  BY <1>1, <1>2, <1>3, <1>4, <1>5, <1>6, <1>7, <1>8, <1>9, <1>10, <1>11, <1>12, <1>13, <1>14, <1>15 DEF Next, LauncherStep, MiddleStep, ToolStep

(* The identifier of a child, once given, never changes. *)
LEMMA NamesStep ==
  ASSUME TypeOK, Stages, NamesMiddle, Next
  PROVE  NamesMiddle'
<1> USE DaemonAssumption DEF familyVars, fileVars, toolVars, TypeOK, Stages, NamesMiddle
<1>1. ASSUME NEW l \in Launch, Start(l) PROVE NamesMiddle'
  BY <1>1 DEF Start
<1>2. ASSUME NEW l \in Launch, ForkMiddle(l) PROVE NamesMiddle'
  BY <1>2 DEF ForkMiddle, ForkFails
<1>3. ASSUME NEW l \in Launch, OpenPidfile(l) PROVE NamesMiddle'
  BY <1>3 DEF OpenPidfile
<1>4. ASSUME NEW l \in Launch, WritePid(l) PROVE NamesMiddle'
  BY <1>4 DEF WritePid
<1>5. ASSUME NEW l \in Launch, LauncherExits(l) PROVE NamesMiddle'
  BY <1>5 DEF LauncherExits
<1>6. ASSUME NEW l \in Launch, Setsid(l) PROVE NamesMiddle'
  BY <1>6 DEF Setsid
<1>7. ASSUME NEW l \in Launch, ForkDaemon(l) PROVE NamesMiddle'
  BY <1>7 DEF ForkDaemon, Buried
<1>8. ASSUME NEW l \in Launch, MiddleExits(l) PROVE NamesMiddle'
  BY <1>8 DEF MiddleExits, Buried
<1>9. ASSUME NEW l \in Launch, Detach(l) PROVE NamesMiddle'
  BY <1>9 DEF Detach
<1>10. ASSUME NEW l \in Launch, DaemonEnds(l) PROVE NamesMiddle'
  BY <1>10 DEF DaemonEnds
<1>11. CASE ReadPidfile
  BY <1>11 DEF ReadPidfile
<1>12. CASE Kill
  BY <1>12 DEF Kill, Terminate, Buried, MiddleExists, DaemonLives, ToolEnds
<1>13. CASE Unlink
  BY <1>13 DEF Unlink, ToolEnds
<1>14. ASSUME NEW p \in Pid, OtherStarts(p) PROVE NamesMiddle'
  BY <1>14 DEF OtherStarts
<1>15. ASSUME NEW p \in Pid, OtherEnds(p) PROVE NamesMiddle'
  BY <1>15 DEF OtherEnds
<1>16. QED
  BY <1>1, <1>2, <1>3, <1>4, <1>5, <1>6, <1>7, <1>8, <1>9, <1>10, <1>11, <1>12, <1>13, <1>14, <1>15 DEF Next, LauncherStep, MiddleStep, ToolStep

LEMMA Stutters ==
  ASSUME IInv, UNCHANGED vars
  PROVE  IInv'
BY DEF IInv, vars, familyVars, fileVars, toolVars, TypeOK, Stages, Unshared, Holds, MiddleExists, DaemonLives, NamesMiddle

LEMMA Invariance == Spec => []IInv
<1>1. IInv /\ [Next]_vars => IInv'
  <2> SUFFICES ASSUME IInv, [Next]_vars PROVE IInv'
    OBVIOUS
  <2>1. CASE Next
    BY <2>1, TypeStep, StagesStep, UnsharedStep, NamesStep DEF IInv
  <2>2. CASE UNCHANGED vars
    BY <2>2, Stutters
  <2>3. QED
    BY <2>1, <2>2
<1>2. QED
  BY <1>1, InitInv, PTL DEF Spec

-----------------------------------------------------------------------------
(* The processes of the launches, the PID file and the tool keep their     *)
(* types, whatever the order of launches, stops and ends (daemonize.c).    *)
THEOREM TypeCorrect == Spec => []TypeOK
<1>1. IInv => TypeOK
  BY DEF IInv
<1>2. QED
  BY <1>1, Invariance, PTL

(* stop signals nobody outside the launch that the PID file names, while   *)
(* that launch has a process left (daemonize.c:52-73): the session of a    *)
(* living daemon keeps the identifier of the child that started it.        *)
THEOREM InnocentAlwaysSpared == Spec => InnocentSpared
<1>1. ASSUME IInv, Kill, cmd = "stop", Exists(pid), ~blank
      PROVE  \E l \in Launch : pid = midPid[l] /\ (MiddleExists(l) \/ ~DaemonLives(l))
  <2>1. PICK l \in Launch : pid # 0 /\ pid = midPid[l]
    BY <1>1 DEF IInv, NamesMiddle, Kill
  <2>2. SUFFICES ASSUME ~MiddleExists(l), DaemonLives(l) PROVE FALSE
    BY <2>1
  <2>3. /\ pid \notin others
        /\ \A k \in Launch : /\ k # l /\ MiddleExists(k) => midPid[k] # pid
                             /\ DaemonLives(k) => daemonPid[k] # pid
    BY <1>1, <2>1, <2>2 DEF IInv, Unshared, Holds
  <2>4. QED
    BY <1>1, <2>2, <2>3 DEF Exists
<1>2. IInv => (Kill /\ cmd = "stop" /\ Exists(pid) =>
                 blank \/ \E l \in Launch : pid = midPid[l] /\ (MiddleExists(l) \/ ~DaemonLives(l)))
  BY <1>1
<1>3. QED
  BY <1>2, Invariance, PTL DEF InnocentSpared

-----------------------------------------------------------------------------
(* stop and status against a daemon that lives                             *)

(* What the PID file names is the child, which is gone or leads the        *)
(* session: while the daemon of that launch lives, stop changes no daemon  *)
(* at all, its own or another, and removes the file (daemonize.c:52-73).   *)
StopMissesDaemon ==
  [][\A l \in Launch : Kill /\ cmd = "stop" /\ pid = midPid[l] /\ DaemonLives(l)
                         => UNCHANGED daemon /\ tool' = "unlink"]_vars

(* The finding that StopStopsDaemon refutes in one behaviour, for every    *)
(* launch: "daemon stop" does not stop the daemon it reads of.             *)
THEOREM StopAlwaysMisses == Spec => StopMissesDaemon
<1>1. ASSUME IInv, NEW l \in Launch, Kill, cmd = "stop", pid = midPid[l], DaemonLives(l)
      PROVE  UNCHANGED daemon /\ tool' = "unlink"
  <2>1. \A k \in Launch : DaemonLives(k) => daemonPid[k] # pid
    BY <1>1 DEF IInv, Unshared, Holds
  <2>2. daemon' = [k \in Launch |-> daemon[k]]
    BY <1>1, <2>1 DEF Kill, Terminate
  <2>3. QED
    BY <1>1, <2>2 DEF Kill, IInv, TypeOK
<1>2. IInv => \A l \in Launch : Kill /\ cmd = "stop" /\ pid = midPid[l] /\ DaemonLives(l)
                                 => UNCHANGED daemon /\ tool' = "unlink"
  BY <1>1
<1>3. QED
  BY <1>2, Invariance, PTL DEF StopMissesDaemon

(* Once the child is gone, status finds nobody under the identifier, since *)
(* the session of the living daemon keeps it from being used again: it     *)
(* denies the daemon and goes on to remove its PID file                    *)
(* (daemonize.c:75-92).                                                    *)
StatusDeniesDaemon ==
  [][\A l \in Launch : Kill /\ cmd = "status" /\ pid = midPid[l] /\ DaemonLives(l) /\ ~MiddleExists(l)
                         => tool' = "unlink"]_vars

\* However launches, stops and ends interleave, status does not see a living daemon.
THEOREM StatusAlwaysDenies == Spec => StatusDeniesDaemon
<1>1. ASSUME IInv, NEW l \in Launch, Kill, cmd = "status", pid = midPid[l], DaemonLives(l), ~MiddleExists(l)
      PROVE  tool' = "unlink"
  <2>1. /\ pid \notin others
        /\ \A k \in Launch : /\ MiddleExists(k) => midPid[k] # pid
                             /\ DaemonLives(k) => daemonPid[k] # pid
    BY <1>1 DEF IInv, Unshared, Holds
  <2>2. ~Exists(pid)
    BY <2>1 DEF Exists
  <2>3. QED
    BY <1>1, <2>2 DEF Kill
<1>2. IInv => \A l \in Launch :
                 Kill /\ cmd = "status" /\ pid = midPid[l] /\ DaemonLives(l) /\ ~MiddleExists(l)
                   => tool' = "unlink"
  BY <1>1
<1>3. QED
  BY <1>2, Invariance, PTL DEF StatusDeniesDaemon
=============================================================================
