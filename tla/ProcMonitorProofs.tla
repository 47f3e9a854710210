------------------------- MODULE ProcMonitorProofs -------------------------
(***************************************************************************)
(* The process monitor reports each process once and never puts two        *)
(* processes into one event while the first is alive, for any number of    *)
(* identifiers, of uses of them and of failures of realloc.                *)
(***************************************************************************)
EXTENDS ProcMonitor, TLAPS

USE DEF eventVars, scanVars, reportVars

Named == {"user", "cwd", "report"}
Scanning == {"scan"} \cup Capturing

Has(set, p) == IF p \in set THEN 1 ELSE 0

\* The set that tells whether the process of p was listed: current once the
\* scan has passed p.
Listed(p) == IF mpc \in Scanning /\ p <= cursor THEN current ELSE known

\* One more report of x is on its way.
Pending(x) == IF mpc \in Capturing /\ x[1] = cursor THEN 1 ELSE 0

LiveIsLast == \A p \in Pid : live[p] # 0 => live[p] = uses[p]

FutureUncounted == \A x \in Process : uses[x[1]] < x[2] => reported[x] = 0 /\ x \notin old

BetweenScans == mpc = "between" => cursor = 0

CaptureCovered == mpc \in Capturing => /\ cursor \in Pid
                                       /\ 1 <= drops[cursor] + Has(current, cursor)

CommandCounted == mpc \in Named => /\ cmd[1] = cursor
                                   /\ cmd[2] <= uses[cursor]
                                   /\ Counted(cmd) <= drops[cursor]

EventWhole == /\ mpc \in {"cwd", "report"} /\ Alive(cmd) => user \in {cmd, Nobody}
              /\ mpc = "report" /\ Alive(cmd) => cwd \in {cmd, Nobody}

\* Every report of a living process is paid for by a place in the set that
\* lists it, or by a failure of realloc.
LivingCovered ==
  mpc \notin {"returned", "blocked"} =>
    \A x \in Process :
       Alive(x) /\ (mpc \in {"start", "baseline"} => x[1] <= cursor) =>
         Counted(x) + Pending(x) <= drops[x[1]] + Has(Listed(x[1]), x[1])

IInv == /\ TypeOK
        /\ LiveIsLast
        /\ FutureUncounted
        /\ BetweenScans
        /\ CaptureCovered
        /\ CommandCounted
        /\ EventWhole
        /\ LivingCovered
        /\ ReportedOnce

-----------------------------------------------------------------------------
(* Facts about the data                                                    *)

(* A process is a pair of an identifier and the number of its use.         *)
LEMMA ProcessParts ==
  ASSUME NEW x \in Process
  PROVE  /\ x[1] \in Pid /\ x[1] \in Nat /\ x[1] >= 1
         /\ x[2] \in 1 .. MaxUses /\ x[2] \in Nat /\ x[2] >= 1
         /\ x = <<x[1], x[2]>>
         /\ x # Nobody
BY ProcMonitorAssumption DEF Process, Pid, Nobody

(* What is counted and what bounds it are natural numbers.                 *)
LEMMA Numbers ==
  ASSUME TypeOK, NEW x \in Process
  PROVE  /\ Counted(x) \in Nat
         /\ drops[x[1]] \in Nat
         /\ Pending(x) \in {0, 1}
         /\ \A set : Has(set, x[1]) \in {0, 1}
BY ProcessParts, ProcMonitorAssumption DEF TypeOK, Counted, Pending, Has

(* The owner of an identifier is the living process that has it.           *)
LEMMA OwnerIsAlive ==
  ASSUME TypeOK, cursor \in Pid, live[cursor] # 0
  PROVE  /\ Owner \in Process
         /\ Owner[1] = cursor /\ Owner[2] = live[cursor]
         /\ Alive(Owner)
         /\ Owner # Nobody
         /\ \A x \in Process : Alive(x) /\ x[1] = cursor => x = Owner
<1>1. live[cursor] \in 1 .. MaxUses
  BY ProcMonitorAssumption DEF TypeOK
<1>2. Owner = <<cursor, live[cursor]>> /\ Owner \in Process
  BY <1>1 DEF Owner, Process
<1> QED
  BY <1>1, <1>2, ProcessParts DEF Alive

(* What is still to be listed.                                             *)
LEMMA AheadIsAlive ==
  ASSUME TypeOK, NEW x \in Process, Alive(x)
  PROVE  x[1] \in Ahead <=> x[1] > cursor
<1>1. x[1] \in Pid /\ live[x[1]] # 0
  BY ProcessParts DEF Alive
<1> QED
  BY <1>1 DEF Ahead

(* An identifier that was passed to PidSetAdd is in the set, or memory     *)
(* ran out once more.                                                      *)
LEMMA AddedOrDropped ==
  ASSUME TypeOK, NEW set \in SUBSET Pid, NEW newSet, NEW p \in Pid, PidSetAdd(set, newSet, p)
  PROVE  /\ newSet \in SUBSET Pid
         /\ drops' \in [Pid -> 0 .. MaxDrops]
         /\ \A q \in Pid : q # p => drops'[q] = drops[q] /\ Has(newSet, q) = Has(set, q)
         /\ drops[p] <= drops'[p]
         /\ drops[p] + 1 <= drops'[p] + Has(newSet, p)
<1>1. CASE newSet = set \cup {p} /\ UNCHANGED drops
  BY <1>1, ProcMonitorAssumption DEF TypeOK, Has
<1>2. CASE /\ drops[p] < MaxDrops
           /\ newSet = set
           /\ drops' = [drops EXCEPT ![p] = @ + 1]
  BY <1>2, ProcMonitorAssumption DEF TypeOK, Has
<1> QED
  BY <1>1, <1>2 DEF PidSetAdd

-----------------------------------------------------------------------------
(* The invariant                                                           *)

(* The invariant holds when the monitor starts.                            *)
LEMMA Initially == Init => IInv
<1> SUFFICES ASSUME Init PROVE IInv
  OBVIOUS
<1>1. TypeOK
  BY ProcMonitorAssumption DEF Init, TypeOK, Place, Capturing, Pid
<1>2. \A x \in Process : reported[x] = 0 /\ drops[x[1]] = 0 /\ uses[x[1]] = live[x[1]]
  BY ProcessParts DEF Init
<1>3. LiveIsLast /\ FutureUncounted
  BY <1>1, <1>2, ProcessParts DEF Init, LiveIsLast, FutureUncounted, TypeOK
<1>4. BetweenScans /\ CaptureCovered /\ CommandCounted /\ EventWhole
  BY DEF Init, BetweenScans, CaptureCovered, CommandCounted, EventWhole, Capturing, Named
<1>5. LivingCovered
  BY ProcessParts DEF Init, LivingCovered
<1>6. ReportedOnce
  BY <1>2 DEF ReportedOnce, Counted
<1> QED
  BY <1>1, <1>3, <1>4, <1>5, <1>6 DEF IInv

(* Another process starts: nothing about it was counted yet.               *)
LEMMA StartPreserves == ASSUME IInv, NEW p \in Pid, Start(p) PROVE IInv'
<1> USE DEF IInv
<1> DEFINE new == <<p, uses[p] + 1>>
<1>1. new \in Process /\ uses[p] \in Nat /\ live[p] = 0
  BY ProcMonitorAssumption DEF Start, TypeOK, Process
<1>2. TypeOK'
  BY <1>1, ProcMonitorAssumption DEF Start, TypeOK
<1>3. LiveIsLast'
  BY <1>1 DEF Start, LiveIsLast, TypeOK
<1>4. \A x \in Process : uses[x[1]] <= uses'[x[1]] /\ Counted(x)' = Counted(x)
  BY ProcessParts DEF Start, TypeOK, Counted
<1>5. FutureUncounted'
  <2> SUFFICES ASSUME NEW x \in Process, uses'[x[1]] < x[2]
               PROVE  reported'[x] = 0 /\ x \notin old'
    BY DEF FutureUncounted
  <2>1. uses[x[1]] < x[2]
    BY <1>2, <1>4, ProcessParts DEF TypeOK
  <2> QED
    BY <2>1 DEF FutureUncounted, Start
<1>6. BetweenScans' /\ CaptureCovered'
  BY DEF Start, BetweenScans, CaptureCovered, Has
<1>7. CommandCounted'
  <2> SUFFICES ASSUME mpc \in Named
               PROVE  cmd[1] = cursor /\ cmd[2] <= uses'[cursor] /\ Counted(cmd)' <= drops[cursor]
    BY DEF Start, CommandCounted
  <2>1. cmd \in Process
    BY DEF TypeOK, Named
  <2>2. /\ cmd[1] = cursor /\ cmd[2] <= uses[cursor] /\ Counted(cmd) <= drops[cursor]
    BY DEF CommandCounted
  <2>3. cmd' = cmd /\ Counted(cmd)' = Counted(cmd)
    BY <2>1, <1>4 DEF Start, Counted
  <2>4. uses[cursor] \in Nat /\ uses'[cursor] \in Nat /\ uses[cursor] <= uses'[cursor]
    BY <2>1, <2>2, <1>2, <1>4, ProcessParts, ProcMonitorAssumption DEF TypeOK
  <2> QED
    BY <2>1, <2>2, <2>3, <2>4, ProcessParts
<1>8. EventWhole'
  <2>1. mpc \in {"cwd", "report"} /\ Alive(cmd)' => Alive(cmd)
    <3> SUFFICES ASSUME mpc \in {"cwd", "report"}, Alive(cmd)' PROVE Alive(cmd)
      OBVIOUS
    <3>1. cmd \in Process /\ cmd[2] <= uses[cursor] /\ cmd[1] = cursor
      BY DEF TypeOK, CommandCounted, Named
    <3>2. live'[cmd[1]] = cmd[2]
      BY DEF Alive, Start
    <3>3. cmd[1] # p
      BY <1>1, <3>1, <3>2, ProcessParts DEF Start, TypeOK
    <3> QED
      BY <3>1, <3>2, <3>3, ProcessParts DEF Alive, Start, TypeOK
  <2> QED
    BY <2>1 DEF EventWhole, Start
<1>9. LivingCovered'
  <2> SUFFICES ASSUME mpc \notin {"returned", "blocked"}, NEW x \in Process, Alive(x)',
                      mpc \in {"start", "baseline"} => x[1] <= cursor
               PROVE  Counted(x) + Pending(x) <= drops[x[1]] + Has(Listed(x[1]), x[1])
    BY <1>4 DEF LivingCovered, Start, Pending, Has, Listed
  <2>1. CASE Alive(x)
    BY <2>1 DEF LivingCovered
  <2>2. CASE ~Alive(x)
    <3>1. x = new
      BY <2>2, <1>1, ProcessParts DEF Alive, Start, TypeOK
    <3>2. Counted(x) = 0
      BY <3>1, <1>1 DEF FutureUncounted, Counted
    <3>3. CASE mpc \in Capturing /\ x[1] = cursor
      <4>1. Listed(x[1]) = current /\ Pending(x) = 1
        BY <3>3, ProcessParts DEF Listed, Pending, Scanning
      <4> QED
        BY <3>2, <3>3, <4>1 DEF CaptureCovered
    <3>4. CASE ~(mpc \in Capturing /\ x[1] = cursor)
      <4>1. Pending(x) = 0
        BY <3>4 DEF Pending
      <4>2. drops[x[1]] \in Nat /\ Has(Listed(x[1]), x[1]) \in {0, 1}
        BY Numbers
      <4> QED
        BY <3>2, <4>1, <4>2
    <3> QED
      BY <3>3, <3>4
  <2> QED
    BY <2>1, <2>2
<1>10. ReportedOnce'
  BY <1>4 DEF ReportedOnce, Start
<1> QED
  BY <1>2, <1>3, <1>5, <1>6, <1>7, <1>8, <1>9, <1>10

(* Another process exits.                                                  *)
LEMMA ExitPreserves == ASSUME IInv, NEW p \in Pid, Exit(p) PROVE IInv'
<1> USE DEF IInv
<1>1. TypeOK'
  BY ProcMonitorAssumption DEF Exit, TypeOK
<1>2. \A x \in Process : Alive(x)' => Alive(x)
  BY ProcessParts DEF Alive, Exit, TypeOK
<1>3. LiveIsLast'
  BY DEF Exit, LiveIsLast, TypeOK
<1>4. FutureUncounted' /\ BetweenScans' /\ CaptureCovered'
  BY DEF Exit, FutureUncounted, BetweenScans, CaptureCovered, Has
<1>5. CommandCounted'
  BY DEF Exit, CommandCounted, Counted
<1>6. EventWhole'
  BY <1>2 DEF Exit, EventWhole, TypeOK, CommandCounted, Alive, Named
<1>7. LivingCovered'
  BY <1>2 DEF Exit, LivingCovered, Counted, Pending, Has, Listed
<1>8. ReportedOnce'
  BY DEF Exit, ReportedOnce, Counted
<1> QED
  BY <1>1, <1>3, <1>4, <1>5, <1>6, <1>7, <1>8

(* The steps of the baseline and the opening of /proc.                     *)
LEMMA OpeningPreserves ==
  ASSUME IInv, Open \/ BaselineEnds \/ OpenAgain PROVE IInv'
<1> USE DEF IInv
<1>1. TypeOK'
  BY ProcMonitorAssumption
     DEF Open, BaselineEnds, OpenAgain, TypeOK, Place, Capturing, processVars
<1>2. UNCHANGED <<processVars, known, current, reportVars, drops>>
  BY DEF Open, BaselineEnds, OpenAgain
<1>3. /\ mpc \notin Scanning /\ mpc' \notin Capturing /\ mpc \notin Named /\ mpc' \notin Named
      /\ mpc' \in {"scan", "between"} => cursor' = 0
  BY DEF Open, BaselineEnds, OpenAgain, Scanning, Capturing, Named, BetweenScans
<1>4. LiveIsLast' /\ FutureUncounted' /\ ReportedOnce'
  BY <1>2 DEF LiveIsLast, FutureUncounted, ReportedOnce, Counted, processVars
<1>5. BetweenScans' /\ CaptureCovered' /\ CommandCounted' /\ EventWhole'
  BY <1>3 DEF BetweenScans, CaptureCovered, CommandCounted, EventWhole, Named
<1>6. LivingCovered'
  <2> SUFFICES ASSUME mpc' \notin {"returned", "blocked"}, NEW x \in Process, Alive(x)',
                      mpc' \in {"start", "baseline"} => x[1] <= cursor'
               PROVE  Counted(x)' + Pending(x)' <= drops'[x[1]] + Has(Listed(x[1]), x[1])'
    BY DEF LivingCovered
  <2>1. Alive(x) /\ Counted(x)' = Counted(x) /\ Pending(x) = 0 /\ Pending(x)' = 0
    BY <1>2, <1>3 DEF Alive, Counted, Pending, processVars, Scanning
  <2>2. Has(Listed(x[1]), x[1])' = Has(Listed(x[1]), x[1])
    BY <1>2, <1>3, ProcessParts DEF Listed, Scanning, Has
  <2>3. mpc \notin {"returned", "blocked"} /\ (mpc \in {"start", "baseline"} => x[1] <= cursor)
    <3>1. CASE Open
      BY <3>1 DEF Open
    <3>2. CASE BaselineEnds
      <4>1. x[1] \notin Ahead
        BY <3>2 DEF BaselineEnds
      <4> QED
        BY <2>1, <3>2, <4>1, AheadIsAlive, ProcessParts, ProcMonitorAssumption
           DEF BaselineEnds, TypeOK
    <3>3. CASE OpenAgain
      BY <3>3 DEF OpenAgain
    <3> QED
      BY <3>1, <3>2, <3>3
  <2> QED
    BY <2>1, <2>2, <2>3, <1>2 DEF LivingCovered
<1> QED
  BY <1>1, <1>4, <1>5, <1>6

(* An entry of the first listing.                                          *)
LEMMA BaselineEntryPreserves ==
  ASSUME IInv, NEW p \in Pid, BaselineEntry(p) PROVE IInv'
<1> USE DEF IInv
<1>1. /\ known' \in SUBSET Pid
      /\ drops' \in [Pid -> 0 .. MaxDrops]
      /\ \A q \in Pid : q # p => drops'[q] = drops[q] /\ Has(known', q) = Has(known, q)
      /\ drops[p] <= drops'[p]
      /\ drops[p] + 1 <= drops'[p] + Has(known', p)
  BY AddedOrDropped DEF BaselineEntry, TypeOK
<1>2. TypeOK'
  <2>1. cursor' = p /\ p \in 0 .. MaxPid
    BY ProcMonitorAssumption DEF BaselineEntry, Lists, Pid
  <2>2. UNCHANGED <<processVars, mpc, current, reportVars>>
    BY DEF BaselineEntry
  <2> QED
    BY <1>1, <2>1, <2>2 DEF TypeOK, processVars
<1>3. LiveIsLast' /\ FutureUncounted'
  BY DEF BaselineEntry, LiveIsLast, FutureUncounted, processVars
<1>4. BetweenScans' /\ CaptureCovered' /\ CommandCounted' /\ EventWhole'
  BY DEF BaselineEntry, BetweenScans, CaptureCovered, CommandCounted, EventWhole, Capturing, Named
<1>5. \A x \in Process : Counted(x)' = Counted(x) /\ Pending(x)' = 0 /\ Pending(x) = 0
  BY DEF BaselineEntry, Counted, Pending, Capturing, processVars
<1>6. ReportedOnce'
  <2> SUFFICES ASSUME NEW x \in Process PROVE Counted(x)' <= 1 + drops'[x[1]]
    BY DEF ReportedOnce
  <2>1. Counted(x) <= 1 + drops[x[1]] /\ drops[x[1]] <= drops'[x[1]]
    BY <1>1, Numbers, ProcessParts DEF ReportedOnce
  <2> QED
    BY <2>1, <1>5, <1>2, Numbers, ProcessParts, ProcMonitorAssumption DEF TypeOK
<1>7. LivingCovered'
  <2> SUFFICES ASSUME NEW x \in Process, Alive(x)', x[1] <= p
               PROVE  Counted(x) <= drops'[x[1]] + Has(known', x[1])
    BY <1>5, Numbers DEF LivingCovered, BaselineEntry, Lists, Listed, Scanning, Capturing
  <2>1. Alive(x) /\ mpc = "baseline"
    BY DEF Alive, BaselineEntry, processVars
  <2>2. CASE x[1] = p
    BY <2>2, <1>1, <1>2, Numbers, ProcMonitorAssumption DEF ReportedOnce, TypeOK, Has
  <2>3. CASE x[1] # p
    <3>1. x[1] <= cursor
      <4>1. x[1] \notin Ahead
        BY <2>3, ProcessParts DEF BaselineEntry, Lists, Pid
      <4> QED
        BY <2>1, <4>1, AheadIsAlive, ProcessParts, ProcMonitorAssumption DEF TypeOK
    <3>2. Counted(x) + Pending(x) <= drops[x[1]] + Has(Listed(x[1]), x[1])
      BY <2>1, <3>1 DEF LivingCovered
    <3>3. Listed(x[1]) = known
      BY <2>1 DEF Listed, Scanning, Capturing
    <3> QED
      BY <3>2, <3>3, <2>3, <1>1, <1>5, Numbers, ProcessParts
  <2> QED
    BY <2>2, <2>3
<1> QED
  BY <1>2, <1>3, <1>4, <1>6, <1>7

(* An entry of a later listing: a process whose identifier is not in the   *)
(* set of the listing before is going to be reported.                      *)
LEMMA ScanEntryPreserves ==
  ASSUME IInv, NEW p \in Pid, ScanEntry(p) PROVE IInv'
<1> USE DEF IInv
<1>1. /\ current' \in SUBSET Pid
      /\ drops' \in [Pid -> 0 .. MaxDrops]
      /\ \A q \in Pid : q # p => drops'[q] = drops[q] /\ Has(current', q) = Has(current, q)
      /\ drops[p] <= drops'[p]
      /\ drops[p] + 1 <= drops'[p] + Has(current', p)
  BY AddedOrDropped DEF ScanEntry, TypeOK
<1>2. TypeOK'
  <2>1. cursor' = p /\ p \in 0 .. MaxPid
    BY ProcMonitorAssumption DEF ScanEntry, Lists, Pid
  <2>2. UNCHANGED <<processVars, known, reportVars>> /\ mpc' \in {"scan", "cmdline"}
    BY DEF ScanEntry
  <2> QED
    BY <1>1, <2>1, <2>2 DEF TypeOK, processVars, Place, Capturing
<1>3. LiveIsLast' /\ FutureUncounted'
  BY DEF ScanEntry, LiveIsLast, FutureUncounted, processVars
<1>4. /\ mpc = "scan" /\ mpc' \in {"scan", "cmdline"} /\ cursor' = p
      /\ mpc' = "cmdline" <=> p \notin known
  BY DEF ScanEntry, Lists, SeenBefore
<1>5. BetweenScans' /\ CommandCounted' /\ EventWhole'
  BY <1>4 DEF BetweenScans, CommandCounted, EventWhole, Named
<1>6. CaptureCovered'
  BY <1>1, <1>2, <1>4, ProcMonitorAssumption DEF CaptureCovered, Has, TypeOK
<1>7. \A x \in Process : Counted(x)' = Counted(x) /\ Pending(x) = 0
  BY <1>4 DEF ScanEntry, Counted, Pending, Capturing, processVars
<1>8. ReportedOnce'
  <2> SUFFICES ASSUME NEW x \in Process PROVE Counted(x)' <= 1 + drops'[x[1]]
    BY DEF ReportedOnce
  <2>1. Counted(x) <= 1 + drops[x[1]] /\ drops[x[1]] <= drops'[x[1]]
    BY <1>1, Numbers, ProcessParts DEF ReportedOnce
  <2> QED
    BY <2>1, <1>7, <1>2, Numbers, ProcessParts, ProcMonitorAssumption DEF TypeOK
<1>9. LivingCovered'
  <2> SUFFICES ASSUME NEW x \in Process, Alive(x)'
               PROVE  Counted(x) + Pending(x)' <= drops'[x[1]] + Has(Listed(x[1]), x[1])'
    BY <1>7 DEF LivingCovered
  <2>1. Alive(x)
    BY DEF Alive, ScanEntry, processVars
  <2>2. Counted(x) <= drops[x[1]] + Has(Listed(x[1]), x[1])
    BY <2>1, <1>4, <1>7, Numbers DEF LivingCovered
  <2>3. /\ drops[x[1]] \in Nat /\ drops'[x[1]] \in Nat /\ Counted(x) \in Nat
        /\ x[1] \in Pid /\ x[1] \in Nat /\ p \in Nat /\ cursor \in Nat
    <3>1. x[1] \in Pid /\ x[1] \in Nat
      BY ProcessParts
    <3>2. drops[x[1]] \in Nat /\ Counted(x) \in Nat
      BY Numbers
    <3>3. drops'[x[1]] \in Nat
      BY <3>1, <1>1, ProcMonitorAssumption
    <3>4. p \in Nat /\ cursor \in Nat
      BY ProcMonitorAssumption DEF TypeOK, Pid
    <3> QED
      BY <3>1, <3>2, <3>3, <3>4
  <2>4. CASE x[1] = p
    <3>1. p > cursor
      BY DEF ScanEntry, Lists, Ahead
    <3>2. Has(Listed(x[1]), x[1]) = (IF p \in known THEN 1 ELSE 0)
      BY <2>3, <2>4, <3>1 DEF Listed, Has
    <3>3. Has(Listed(x[1]), x[1])' = Has(current', p) /\ Has(current', p) \in {0, 1}
      BY <1>4, <2>3, <2>4 DEF Listed, Has, Scanning, Capturing
    <3>4. Pending(x)' = (IF p \in known THEN 0 ELSE 1)
      BY <1>4, <2>4 DEF Pending, Capturing
    <3> QED
      BY <1>1, <2>2, <2>3, <2>4, <3>2, <3>3, <3>4
  <2>5. CASE x[1] # p
    <3>1. drops'[x[1]] = drops[x[1]] /\ Pending(x)' = 0
      BY <1>1, <1>4, <2>3, <2>5 DEF Pending
    <3>2. CASE x[1] <= cursor
      <4>1. cursor < p
        BY DEF ScanEntry, Lists, Ahead
      <4>2. Listed(x[1]) = current /\ Listed(x[1])' = current'
        BY <1>4, <2>3, <3>2, <4>1 DEF Listed, Scanning, Capturing
      <4>3. Has(Listed(x[1]), x[1])' = Has(Listed(x[1]), x[1])
        BY <1>1, <2>3, <2>5, <4>2 DEF Has
      <4> QED
        BY <2>2, <2>3, <3>1, <4>3
    <3>3. CASE x[1] > cursor
      <4>1. p <= x[1]
        BY <2>1, <3>3, AheadIsAlive DEF ScanEntry, Lists
      <4>2. Listed(x[1]) = known /\ Listed(x[1])' = known
        BY <1>4, <2>3, <2>5, <3>3, <4>1 DEF Listed, ScanEntry
      <4>3. Has(Listed(x[1]), x[1])' = Has(Listed(x[1]), x[1])
        BY <4>2 DEF Has
      <4> QED
        BY <2>2, <2>3, <3>1, <4>3
    <3> QED
      BY <2>3, <3>2, <3>3
  <2> QED
    BY <2>4, <2>5
<1> QED
  BY <1>2, <1>3, <1>5, <1>6, <1>8, <1>9

(* The new set takes the place of the old one.                             *)
LEMMA ScanEndsPreserves == ASSUME IInv, ScanEnds PROVE IInv'
<1> USE DEF IInv
<1>1. TypeOK'
  BY ProcMonitorAssumption DEF ScanEnds, TypeOK, Place, processVars
<1>2. LiveIsLast' /\ FutureUncounted' /\ ReportedOnce'
  BY DEF ScanEnds, LiveIsLast, FutureUncounted, ReportedOnce, Counted, processVars
<1>3. BetweenScans' /\ CaptureCovered' /\ CommandCounted' /\ EventWhole'
  BY DEF ScanEnds, BetweenScans, CaptureCovered, CommandCounted, EventWhole, Capturing, Named
<1>4. LivingCovered'
  <2> SUFFICES ASSUME NEW x \in Process, Alive(x)'
               PROVE  (Counted(x) + Pending(x) <= drops[x[1]] + Has(Listed(x[1]), x[1]))'
    BY DEF LivingCovered
  <2>1. Alive(x) /\ mpc = "scan"
    BY DEF Alive, ScanEnds, processVars
  <2>2. x[1] <= cursor
    BY <2>1, AheadIsAlive, ProcessParts, ProcMonitorAssumption DEF ScanEnds, TypeOK
  <2>3. Counted(x) + Pending(x) <= drops[x[1]] + Has(Listed(x[1]), x[1])
    BY <2>1 DEF LivingCovered
  <2>4. Pending(x) = 0 /\ Pending(x)' = 0 /\ Counted(x)' = Counted(x)
    BY <2>1 DEF ScanEnds, Pending, Counted, Capturing, processVars
  <2>5. Has(Listed(x[1]), x[1])' = Has(Listed(x[1]), x[1])
    BY <2>1, <2>2 DEF ScanEnds, Listed, Has, Scanning, Capturing
  <2> QED
    BY <2>3, <2>4, <2>5 DEF ScanEnds
<1> QED
  BY <1>1, <1>2, <1>3, <1>4

(* The reads of capture_new_process.                                       *)
LEMMA ReadPreserves ==
  ASSUME IInv, ReadCmdline \/ ReadComm \/ ReadUser \/ ReadCwd PROVE IInv'
<1> USE DEF IInv
<1>1. /\ UNCHANGED <<processVars, known, current, cursor, reported, drops>>
      /\ mpc \in Capturing /\ mpc' \in {"scan"} \cup Capturing
  BY DEF ReadCmdline, ReadComm, ReadUser, ReadCwd, AfterComm, Capturing
<1>2. cursor \in Pid
  BY <1>1 DEF CaptureCovered
<1>3. Owner \in Process \cup {Nobody}
  BY <1>2, OwnerIsAlive DEF Owner
<1>4. /\ cmd' \in {cmd, Owner, Nobody}
      /\ user' \in {user, Owner, Nobody}
      /\ cwd' \in {cwd, Owner, Nobody}
      /\ nameless' \in SUBSET Process
      /\ mpc' \in Named => cmd' \in Process
  BY <1>3 DEF MayRead, ReadCmdline, ReadComm, ReadUser, ReadCwd, AfterComm, TypeOK, Named
<1>5. TypeOK'
  BY <1>1, <1>3, <1>4 DEF TypeOK, Place, Named, Capturing, processVars
<1>6. LiveIsLast' /\ FutureUncounted' /\ ReportedOnce'
  BY <1>1 DEF LiveIsLast, FutureUncounted, ReportedOnce, Counted, processVars
<1>7. BetweenScans' /\ CaptureCovered'
  BY <1>1 DEF BetweenScans, CaptureCovered, Capturing, Has
<1>8. \A x \in Process : Alive(x)' = Alive(x) /\ Counted(x)' = Counted(x)
  BY <1>1 DEF Alive, Counted, processVars
<1>9. CommandCounted'
  <2> SUFFICES ASSUME mpc' \in Named
               PROVE  /\ cmd'[1] = cursor /\ cmd'[2] <= uses[cursor]
                      /\ (Counted(cmd) <= drops[cursor])'
    BY <1>1 DEF CommandCounted, processVars
  <2>1. CASE cmd' = cmd /\ mpc \in Named
    BY <2>1, <1>1 DEF CommandCounted, Counted, processVars
  <2>2. CASE ~(cmd' = cmd /\ mpc \in Named)
    <3>1. cmd' = Owner /\ cmd' \in Process /\ Owner # Nobody
      BY <2>2, <1>4, ProcessParts
         DEF MayRead, ReadCmdline, ReadComm, ReadUser, ReadCwd, AfterComm, Named
    <3>2. live[cursor] # 0 /\ Owner \in Process /\ Owner[1] = cursor
          /\ Owner[2] = live[cursor] /\ Alive(Owner)
      BY <1>2, <3>1, OwnerIsAlive DEF Owner
    <3>3. live[cursor] = uses[cursor] /\ uses[cursor] \in Nat
      BY <3>2, <1>2, ProcMonitorAssumption DEF LiveIsLast, TypeOK
    <3>4. Counted(Owner) + 1 <= drops[cursor] + Has(Listed(cursor), cursor)
      BY <1>1, <3>2 DEF LivingCovered, Pending, Capturing
    <3>5. Counted(Owner) <= drops[cursor]
      BY <3>2, <3>4, Numbers
    <3>6. Counted(cmd)' = Counted(Owner)
      BY <1>1, <3>1 DEF Counted, processVars
    <3> QED
      BY <1>1, <3>1, <3>2, <3>3, <3>5, <3>6
  <2> QED
    BY <2>1, <2>2
<1>10. EventWhole'
  <2> SUFFICES ASSUME mpc' \in {"cwd", "report"}, Alive(cmd)'
               PROVE  /\ user' \in {cmd', Nobody}
                      /\ mpc' = "report" => cwd' \in {cmd', Nobody}
    BY DEF EventWhole
  <2>1. cmd' = cmd /\ cmd \in Process /\ mpc \in {"user", "cwd"}
    BY DEF ReadCmdline, ReadComm, ReadUser, ReadCwd, AfterComm, TypeOK
  <2>2. Alive(cmd) /\ cmd[1] = cursor
    BY <2>1, <1>1 DEF Alive, processVars, CommandCounted, Named
  <2>3. cmd = Owner
    BY <2>1, <2>2, <1>2, OwnerIsAlive, ProcessParts DEF Alive
  <2>4. CASE ReadUser
    BY <2>1, <2>3, <2>4 DEF ReadUser, MayRead
  <2>5. CASE ReadCwd
    BY <2>1, <2>2, <2>3, <2>5 DEF ReadCwd, MayRead, EventWhole
  <2> QED
    BY <2>1, <2>4, <2>5 DEF ReadCmdline, ReadComm
<1>11. LivingCovered'
  <2> SUFFICES ASSUME NEW x \in Process, Alive(x)
               PROVE  Counted(x) + Pending(x)' <= drops[x[1]] + Has(Listed(x[1]), x[1])'
    BY <1>1, <1>8 DEF LivingCovered
  <2>1. Counted(x) + Pending(x) <= drops[x[1]] + Has(Listed(x[1]), x[1])
    BY <1>1 DEF LivingCovered, Capturing
  <2>2. Has(Listed(x[1]), x[1])' = Has(Listed(x[1]), x[1])
    BY <1>1 DEF Has, Listed, Scanning
  <2>3. Pending(x)' \in {0, 1} /\ Pending(x)' <= Pending(x)
    BY <1>1 DEF Pending
  <2>4. drops[x[1]] \in Nat /\ Counted(x) \in Nat /\ Pending(x) \in {0, 1}
        /\ Has(Listed(x[1]), x[1]) \in {0, 1}
    BY Numbers
  <2> QED
    BY <2>1, <2>2, <2>3, <2>4
<1> QED
  BY <1>5, <1>6, <1>7, <1>9, <1>10, <1>11

(* The callback: what was on its way is counted.                           *)
LEMMA ReportPreserves == ASSUME IInv, Report PROVE IInv'
<1> USE DEF IInv
<1>1. /\ UNCHANGED <<processVars, known, current, cursor, drops>>
      /\ mpc = "report" /\ mpc' = "scan"
      /\ cmd \in Process /\ cmd[1] = cursor /\ cmd[2] <= uses[cursor]
      /\ Counted(cmd) <= drops[cursor]
  BY DEF Report, TypeOK, CommandCounted, Named
<1>2. /\ reported' \in [Process -> Nat]
      /\ reported'[cmd] = reported[cmd] + 1
      /\ \A x \in Process : x # cmd => reported'[x] = reported[x]
  BY <1>1 DEF Report, TypeOK
<1>3. TypeOK'
  BY <1>1, <1>2 DEF Report, TypeOK, Place, processVars
<1>4. /\ Counted(cmd) \in Nat
      /\ \A x \in Process : Counted(x)' = Counted(x) + (IF x = cmd THEN 1 ELSE 0)
  <2>1. \A x \in Process : reported[x] \in Nat
    BY DEF TypeOK
  <2> QED
    BY <1>1, <1>2, <2>1 DEF Counted, processVars
<1>5. LiveIsLast'
  BY <1>1 DEF LiveIsLast, processVars
<1>6. FutureUncounted'
  <2> SUFFICES ASSUME NEW x \in Process, uses[x[1]] < x[2]
               PROVE  reported'[x] = 0 /\ x \notin old
    BY <1>1 DEF FutureUncounted, processVars
  <2>1. x # cmd
    BY <1>1, ProcessParts, ProcMonitorAssumption DEF TypeOK
  <2> QED
    BY <2>1, <1>2 DEF FutureUncounted
<1>7. BetweenScans' /\ CaptureCovered' /\ CommandCounted' /\ EventWhole'
  BY <1>1 DEF BetweenScans, CaptureCovered, CommandCounted, EventWhole, Capturing, Named
<1>8. LivingCovered'
  <2> SUFFICES ASSUME NEW x \in Process, Alive(x)'
               PROVE  (Counted(x) + Pending(x) <= drops[x[1]] + Has(Listed(x[1]), x[1]))'
    BY DEF LivingCovered
  <2>1. Alive(x)
    BY <1>1 DEF Alive, processVars
  <2>2. Counted(x) + Pending(x) <= drops[x[1]] + Has(Listed(x[1]), x[1])
    BY <1>1, <2>1 DEF LivingCovered
  <2>3. Has(Listed(x[1]), x[1])' = Has(Listed(x[1]), x[1]) /\ drops'[x[1]] = drops[x[1]]
    BY <1>1 DEF Has, Listed, Scanning, Capturing
  <2>4. Pending(x)' = 0 /\ (x = cmd => Pending(x) = 1)
    BY <1>1 DEF Pending, Capturing
  <2> QED
    BY <1>4, <2>2, <2>3, <2>4, Numbers
<1>9. ReportedOnce'
  <2> SUFFICES ASSUME NEW x \in Process PROVE Counted(x)' <= 1 + drops[x[1]]
    BY <1>1 DEF ReportedOnce
  <2>1. Counted(x) <= 1 + drops[x[1]] /\ Counted(x) \in Nat /\ drops[x[1]] \in Nat
    BY Numbers DEF ReportedOnce
  <2> QED
    BY <1>1, <1>4, <2>1
<1> QED
  BY <1>3, <1>5, <1>6, <1>7, <1>8, <1>9

(* The callback blocks for ever.                                           *)
LEMMA BlockPreserves == ASSUME IInv, ReportBlocks PROVE IInv'
<1> USE DEF IInv
<1>1. mpc = "report" /\ mpc' = "blocked" /\ cmd \in Process
  BY DEF ReportBlocks, TypeOK
<1>2. TypeOK'
  BY <1>1 DEF ReportBlocks, TypeOK, Place, processVars
<1>3. LiveIsLast' /\ FutureUncounted' /\ ReportedOnce'
  BY DEF ReportBlocks, LiveIsLast, FutureUncounted, ReportedOnce, Counted, processVars
<1>4. BetweenScans' /\ CaptureCovered' /\ CommandCounted' /\ EventWhole' /\ LivingCovered'
  BY <1>1 DEF BetweenScans, CaptureCovered, CommandCounted, EventWhole, LivingCovered,
              Capturing, Named
<1> QED
  BY <1>2, <1>3, <1>4

-----------------------------------------------------------------------------
(* The theorems                                                            *)

(* Every step preserves the invariant, so it holds for ever.               *)
LEMMA Invariance == Spec => []IInv
<1>1. Init => IInv
  BY Initially
<1>2. IInv /\ [Next]_vars => IInv'
  <2> SUFFICES ASSUME IInv, [Next]_vars PROVE IInv'
    OBVIOUS
  <2>1. ASSUME NEW p \in Pid, Start(p) PROVE IInv'
    BY <2>1, StartPreserves
  <2>2. ASSUME NEW p \in Pid, Exit(p) PROVE IInv'
    BY <2>2, ExitPreserves
  <2>3. CASE Open \/ BaselineEnds \/ OpenAgain
    BY <2>3, OpeningPreserves
  <2>4. ASSUME NEW p \in Pid, BaselineEntry(p) PROVE IInv'
    BY <2>4, BaselineEntryPreserves
  <2>5. ASSUME NEW p \in Pid, ScanEntry(p) PROVE IInv'
    BY <2>5, ScanEntryPreserves
  <2>6. CASE ScanEnds
    BY <2>6, ScanEndsPreserves
  <2>7. CASE ReadCmdline \/ ReadComm \/ ReadUser \/ ReadCwd
    BY <2>7, ReadPreserves
  <2>8. CASE Report
    BY <2>8, ReportPreserves
  <2>9. CASE ReportBlocks
    BY <2>9, BlockPreserves
  <2>10. CASE UNCHANGED vars
    BY <2>10 DEF vars, processVars, IInv, TypeOK, LiveIsLast, FutureUncounted,
                BetweenScans, CaptureCovered, CommandCounted, EventWhole, LivingCovered,
                ReportedOnce, Alive, Counted, Pending, Listed, Has
  <2> QED
    BY <2>1, <2>2, <2>3, <2>4, <2>5, <2>6, <2>7, <2>8, <2>9, <2>10
       DEF Next, MonitorStep
<1> QED
  BY <1>1, <1>2, PTL DEF Spec

(* The variables of the monitor keep their types; in particular an event   *)
(* has a command when its user and its directory are read.                 *)
THEOREM TypeCorrect == Spec => []TypeOK
<1>1. IInv => TypeOK
  BY DEF IInv
<1> QED
  BY <1>1, Invariance, PTL

(* The monitor reports no process twice and none that was there before it, *)
(* except once for each failure of realloc.                                *)
THEOREM NeverReportedTwice == Spec => []ReportedOnce
<1>1. IInv => ReportedOnce
  BY DEF IInv
<1> QED
  BY <1>1, Invariance, PTL

(* An event about a process that is still alive holds the user and the      *)
(* directory of no other process: its own, or the defaults of a file that  *)
(* could not be read (proc_monitor.c:45-71, utils.c:19-63).                *)
THEOREM EventsAreWhole == Spec => []WholeEvent
<1>1. IInv => WholeEvent
  BY DEF IInv, EventWhole, WholeEvent
<1> QED
  BY <1>1, Invariance, PTL

-----------------------------------------------------------------------------
(* No fresh process is passed over                                         *)

\* Its event holds its command, or is about to.
InCapture(x) == \/ mpc \in {"cmdline", "comm"} /\ cursor = x[1]
                \/ mpc \in Named \cup {"blocked"} /\ cmd = x

\* capture_new_process is done with x.
Captured(x) == reported[x] > 0 \/ x \in nameless

(* A process that started under an identifier no listing held, and lives,  *)
(* cannot get into the set that hides it from the next scan without having *)
(* been reported, or found without a readable command: as soon as the      *)
(* current listing has its identifier it is being captured, was reported,  *)
(* or its cmdline and comm gave nothing (proc_monitor.c:50-53, 96-117).    *)
NeverPassedOver ==
  \A x \in fresh :
     /\ Alive(x)
     /\ mpc \notin {"start", "baseline"}
     /\ x[1] \in known => Captured(x)
     /\ x[1] \in current => Captured(x) \/ InCapture(x)

\* A step of proc_monitor_start starts and ends no process.
LEMMA MonitorKeepsProcesses ==
  ASSUME MonitorStep
  PROVE  UNCHANGED processVars
BY DEF MonitorStep, Open, BaselineEntry, BaselineEnds, OpenAgain, ScanEntry, ScanEnds, ReadCmdline, ReadComm,
       ReadUser, ReadCwd, Report, ReportBlocks

LEMMA StartPassesNobody ==
  ASSUME TypeOK, NeverPassedOver, NEW p \in Pid, Start(p)
  PROVE  NeverPassedOver'
<1> SUFFICES ASSUME NEW x \in fresh'
             PROVE  /\ Alive(x)' /\ mpc \notin {"start", "baseline"}
                    /\ x[1] \in known => Captured(x)
                    /\ x[1] \in current => Captured(x) \/ InCapture(x)
  BY DEF NeverPassedOver, Start, InCapture, Captured
<1>1. live[p] = 0 /\ live' = [live EXCEPT ![p] = uses[p] + 1] /\ uses[p] + 1 \in 1 .. MaxUses
  BY ProcMonitorAssumption DEF Start, TypeOK
<1>2. CASE x \in fresh
  <2>1. x \in Process /\ Alive(x)
    BY <1>2 DEF TypeOK, NeverPassedOver
  <2>2. x[1] # p
    BY <1>1, <2>1, ProcessParts DEF Alive
  <2>3. Alive(x)'
    BY <1>1, <2>1, <2>2, ProcessParts DEF Alive, TypeOK
  <2>4. QED
    BY <1>2, <2>3 DEF NeverPassedOver
<1>3. CASE x \notin fresh
  <2>1. /\ x = <<p, uses[p] + 1>> /\ mpc \notin {"start", "baseline"}
        /\ p \notin known /\ p \notin current
    BY <1>3 DEF Start
  <2>2. Alive(x)'
    BY <1>1, <2>1 DEF Alive, TypeOK
  <2>3. QED
    BY <2>1, <2>2
<1>4. QED
  BY <1>2, <1>3

LEMMA ExitPassesNobody ==
  ASSUME TypeOK, NeverPassedOver, NEW p \in Pid, Exit(p)
  PROVE  NeverPassedOver'
<1> SUFFICES ASSUME NEW x \in fresh'
             PROVE  Alive(x)' /\ x \in fresh
  <2>1. \A x \in fresh' : x \in nameless => x \in nameless'
    BY DEF Exit
  <2>2. QED
    BY <2>1 DEF NeverPassedOver, Exit, InCapture, Captured
<1>1. x \in fresh /\ x # <<p, live[p]>> /\ live' = [live EXCEPT ![p] = 0]
  BY DEF Exit
<1>2. x \in Process /\ Alive(x)
  BY <1>1 DEF TypeOK, NeverPassedOver
<1>3. x[1] # p
  BY <1>1, <1>2, ProcessParts DEF Alive
<1>4. QED
  BY <1>1, <1>2, <1>3, ProcessParts DEF Alive, TypeOK

LEMMA MonitorPassesNobody ==
  ASSUME TypeOK, CaptureCovered, NeverPassedOver, MonitorStep
  PROVE  NeverPassedOver'
<1>1. /\ fresh' = fresh
      /\ \A x \in fresh : x \in Process /\ Alive(x)' /\ mpc \notin {"start", "baseline"}
  BY MonitorKeepsProcesses DEF processVars, NeverPassedOver, Alive, TypeOK
<1> SUFFICES ASSUME NEW x \in fresh
             PROVE  /\ mpc' \notin {"start", "baseline"}
                    /\ x[1] \in known' => Captured(x)'
                    /\ x[1] \in current' => Captured(x)' \/ InCapture(x)'
  BY <1>1 DEF NeverPassedOver
<1>2. /\ x \in Process /\ Alive(x) /\ mpc \notin {"start", "baseline"}
      /\ x[1] \in known => Captured(x)
      /\ x[1] \in current => Captured(x) \/ InCapture(x)
  BY <1>1 DEF NeverPassedOver
<1>3. CASE OpenAgain
  BY <1>2, <1>3 DEF OpenAgain, InCapture, Captured, Named
<1>4. ASSUME NEW p \in Pid, ScanEntry(p)
      PROVE  /\ mpc' \notin {"start", "baseline"}
             /\ x[1] \in known' => Captured(x)'
             /\ x[1] \in current' => Captured(x)' \/ InCapture(x)'
  <2>1. /\ mpc = "scan" /\ UNCHANGED <<known, reported, nameless>>
        /\ current' \in {current, current \cup {p}}
        /\ cursor' = p
        /\ mpc' = IF p \in known THEN "scan" ELSE "cmdline"
    BY <1>4 DEF ScanEntry, PidSetAdd, Lists, SeenBefore
  <2>2. x[1] \in current => Captured(x)
    BY <1>2, <2>1 DEF InCapture, Named
  <2>3. QED
    BY <1>2, <2>1, <2>2 DEF InCapture, Captured
<1>5. CASE ScanEnds
  BY <1>2, <1>5 DEF ScanEnds, InCapture, Captured, Named
<1>6. CASE ReadCmdline \/ ReadComm
  <2>1. /\ mpc \in {"cmdline", "comm"} /\ UNCHANGED <<known, current, reported, cursor>>
        /\ mpc' \in {"comm", "user", "scan"}
    BY <1>6 DEF ReadCmdline, ReadComm, AfterComm
  <2>2. Captured(x) => Captured(x)'
    BY <1>6, <2>1 DEF ReadCmdline, ReadComm, Captured
  <2>3. ASSUME cursor = x[1]
        PROVE  Captured(x)' \/ InCapture(x)'
    <3>1. live[cursor] # 0 /\ cursor \in Pid
      BY <1>2, <2>3, ProcessParts DEF Alive
    <3>2. Owner = x /\ Owner # Nobody
      BY <1>2, <2>3, <3>1, OwnerIsAlive
    <3>3. CASE ReadCmdline
      BY <2>1, <2>3, <3>2, <3>3 DEF ReadCmdline, MayRead, InCapture, Named
    <3>4. CASE ReadComm
      BY <2>3, <3>2, <3>4 DEF ReadComm, MayRead, AfterComm, InCapture, Captured, Named
    <3>5. QED
      BY <1>6, <3>3, <3>4
  <2>4. x[1] \in current => Captured(x) \/ cursor = x[1]
    BY <1>2, <2>1 DEF InCapture, Named
  <2>5. QED
    BY <1>2, <2>1, <2>2, <2>3, <2>4
<1>7. CASE ReadUser \/ ReadCwd
  <2>1. /\ mpc \in Named /\ mpc' \in Named
        /\ UNCHANGED <<known, current, reported, nameless, cmd>>
    BY <1>7 DEF ReadUser, ReadCwd, Named
  <2>2. QED
    BY <1>2, <2>1 DEF InCapture, Captured, Named
<1>8. CASE Report
  <2>1. /\ mpc = "report" /\ mpc' = "scan" /\ UNCHANGED <<known, current, nameless>>
        /\ reported' = [reported EXCEPT ![cmd] = @ + 1] /\ cmd \in Process
    BY <1>8 DEF Report, TypeOK
  <2>2. reported[x] > 0 => reported'[x] > 0
    BY <1>2, <2>1 DEF TypeOK
  <2>3. cmd = x => reported'[x] > 0
    BY <1>2, <2>1 DEF TypeOK
  <2>4. QED
    BY <1>2, <2>1, <2>2, <2>3 DEF InCapture, Captured, Named
<1>9. CASE ReportBlocks
  <2>1. /\ mpc = "report" /\ mpc' = "blocked"
        /\ UNCHANGED <<known, current, reported, nameless, cmd>>
    BY <1>9 DEF ReportBlocks
  <2>2. QED
    BY <1>2, <2>1 DEF InCapture, Captured, Named
<1>10. QED
  BY <1>2, <1>3, <1>4, <1>5, <1>6, <1>7, <1>8, <1>9 DEF MonitorStep, Open, BaselineEntry, BaselineEnds

(* The safe half of FreshIsReported: no order of scanning, starting and    *)
(* exiting, and no failure of realloc, hides a process that started under  *)
(* an unknown identifier for good; only one whose cmdline and comm could   *)
(* both not be read, or were empty, is in the listing without an event.    *)
THEOREM PassesNobodyOver == Spec => []NeverPassedOver
<1>1. Init => NeverPassedOver
  BY DEF Init, NeverPassedOver
<1>2. IInv /\ NeverPassedOver /\ [Next]_vars => NeverPassedOver'
  <2> SUFFICES ASSUME IInv, NeverPassedOver, [Next]_vars PROVE NeverPassedOver'
    OBVIOUS
  <2>1. TypeOK /\ CaptureCovered
    BY DEF IInv
  <2>2. CASE UNCHANGED vars
    BY <2>2 DEF vars, processVars, NeverPassedOver, Alive, InCapture, Captured
  <2>3. QED
    BY <2>1, <2>2, StartPassesNobody, ExitPassesNobody, MonitorPassesNobody DEF Next
<1>3. QED
  BY <1>1, <1>2, Invariance, PTL DEF Spec
=============================================================================
