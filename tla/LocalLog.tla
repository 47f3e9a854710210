------------------------------ MODULE LocalLog ------------------------------
(***************************************************************************)
(* log_local.c and event.c: the local log is a file to which auditor       *)
(* processes append serialised events, while another process of the same   *)
(* program tests its integrity (main.c, integrity-test), which may rewrite *)
(* the file to simulate a manipulation, or clears it.                      *)
(*                                                                         *)
(* A text is known by what its form does to serialising and parsing; an    *)
(* event is its author, its number, command and directory.  A line holds   *)
(* the event it is of, the event that was hashed, its form and whether it  *)
(* is open.  Its form is whole, the head of an event too long for one      *)
(* write or the rest of it, a scrap, which adds nothing to a line behind   *)
(* it, or torn: pieces that are no event that was hashed, or do not parse. *)
(***************************************************************************)
EXTENDS Naturals, FiniteSets, Sequences, SequencesExt

CONSTANTS Writers,   \* the processes that append
          Nothing,   \* the event of a writer that has none
          MaxCached, \* how many lines local_log_read_all keeps, 65536
          MaxCuts    \* bound: how many events and rewritings are cut short

VARIABLES inode,     \* the file the path names, 0 for none
          made,      \* how many files were created so far
          lines,     \* the lines of that file
          unended,   \* its last line has no newline yet
          wpc,       \* where each writer is in local_log_write
          fd,        \* the file it has open
          ev,        \* the event it writes
          tpc,       \* where cmd_integrity_test is
          tfd,       \* the file it has open for writing
          cache,     \* cached_lines
          target,    \* the line to tamper with, 0 for none
          written,   \* the events that local_log_write wrote
          cut,       \* those for which fprintf or fclose failed
          tampered,  \* the file was rewritten
          short,     \* the rewriting was cut short
          cleared    \* the file was unlinked

fileVars == <<inode, made, lines, unended>>
writerVars == <<wpc, fd, ev, written, cut>>
testerVars == <<tpc, tfd, cache, target>>
marks == <<tampered, short, cleared>>
logVars == <<fileVars, writerVars, testerVars, marks>>

-----------------------------------------------------------------------------
(* event.c                                                                 *)

FaultyHash(e) == [e EXCEPT !.command = "any"]

\* The hash determines the text of the fields, so it is modelled by them.
compute_hash(e) == e

(* No text is escaped.  A quote can end the text early and begin any key,  *)
(* a newline can begin a line of any content: what an open line parses as  *)
(* is up to the author of the text.                                        *)
Open(e) == {e.command, e.cwd} \cap {"quote", "newline"} # {}

Line(e, form) == [event |-> e, hash |-> compute_hash(e), form |-> form, open |-> Open(e)]

\* One newline stands for any number of them.
to_json(e) == IF "newline" \in {e.command, e.cwd} THEN <<Line(e, "torn"), Line(e, "torn")>>
              ELSE <<Line(e, "whole")>>

\* Parsing drops the backslash, and a quote ends the text.
Unescaped(text) == IF text \in {"backslash", "quote"} THEN "altered" ELSE text

FaultyUntilQuote(text) == Unescaped(text)

\* The other fields are read up to the quote without unescaping.
UntilQuote(text) == IF text = "quote" THEN "altered" ELSE text

Parsed(event, hash, ok) == [ok |-> ok, event |-> event, hash |-> hash]

\* An event nobody logged, with its hash.
Forgery(line) == LET e == [line.event EXCEPT !.command = "forged"]
                 IN Parsed(e, compute_hash(e), TRUE)

\* What a line may be parsed as: the first occurrence of each key counts.
from_json(line) ==
  {Parsed([line.event EXCEPT !.command = Unescaped(@), !.cwd = UntilQuote(@)],
          line.hash, line.form = "whole")}
  \cup (IF line.open THEN {Forgery(line)} ELSE {})

-----------------------------------------------------------------------------
(* The file                                                                *)

(* What a line becomes when b is written behind the unended a: all keys of *)
(* a whole line come first.                                                *)
Glue(a, b) ==
  IF a.form = "whole" THEN a
  ELSE IF a.form = "scrap" THEN [b EXCEPT !.open = a.open \/ b.open]
  ELSE IF a.form = "head" /\ b.form = "rest" /\ a.hash = b.hash THEN [a EXCEPT !.form = "whole"]
  ELSE [a EXCEPT !.form = "torn", !.open = a.open \/ b.open]

\* A text is lines of which the last may lack its newline.
Ended(ls) == [lines |-> ls, unended |-> FALSE]

Unended(ls) == [lines |-> ls, unended |-> TRUE]

\* The text that u makes when it is written behind t.
Behind(t, u) ==
  IF u.lines = <<>> THEN t
  ELSE [u EXCEPT !.lines = IF t.unended
                           THEN Front(t.lines) \o <<Glue(Last(t.lines), Head(@))>> \o Tail(@)
                           ELSE t.lines \o @]

(* What fprintf and fclose may have written of t when one of them failed:  *)
(* its first lines and perhaps a piece of the next.                        *)
CutShort(t) ==
  LET ls == t.lines
  IN ({Ended(SubSeq(ls, 1, k)) : k \in 0 .. Len(ls) - 1}
      \cup {Unended(SubSeq(ls, 1, k)) : k \in 1 .. Len(ls)}
      \cup {Unended(Append(SubSeq(ls, 1, k - 1), [ls[k] EXCEPT !.form = f])) :
               k \in 1 .. Len(ls), f \in {"torn", "scrap"}}) \ {t}

File == [lines |-> lines, unended |-> unended]

Becomes(t) == lines' = t.lines /\ unended' = t.unended

\* fopen for writing creates the file if the path names none.
Handle == IF inode = 0 THEN made + 1 ELSE inode

Creates == inode' = Handle /\ made' = IF inode = 0 THEN made + 1 ELSE made

FaultyOpenToAppend == Creates /\ lines' = <<>> /\ unended' = FALSE

OpenToAppend == Creates /\ UNCHANGED <<lines, unended>>

FaultyOpenToRewrite == OpenToAppend

OpenToRewrite == Creates /\ lines' = <<>> /\ unended' = FALSE

FileInit == inode = 0 /\ made = 0 /\ lines = <<>> /\ unended = FALSE

WriterInit == /\ wpc = [w \in Writers |-> "idle"]
              /\ fd = [w \in Writers |-> 0]
              /\ ev = [w \in Writers |-> Nothing]
              /\ written = {} /\ cut = {}

TesterInit == tpc = "start" /\ tfd = 0 /\ cache = <<>> /\ target = 0

Init == /\ FileInit /\ WriterInit /\ TesterInit
        /\ tampered = FALSE /\ short = FALSE /\ cleared = FALSE

-----------------------------------------------------------------------------
(* local_log_write, by an auditor process                                  *)

\* A log that cannot be opened loses the event silently.
NotOpened(w) == wpc[w] = "idle" /\ UNCHANGED <<fileVars, writerVars>>

Opened(w, e) == /\ wpc[w] = "idle"
                /\ OpenToAppend
                /\ wpc' = [wpc EXCEPT ![w] = "write"]
                /\ fd' = [fd EXCEPT ![w] = Handle]
                /\ ev' = [ev EXCEPT ![w] = e]
                /\ UNCHANGED <<written, cut>>

\* A write to a file that was unlinked meanwhile is seen by nobody.
Writes(w, t) == /\ IF fd[w] = inode THEN Becomes(Behind(File, t))
                                    ELSE UNCHANGED <<lines, unended>>
                /\ UNCHANGED <<inode, made>>

Cuts == Cardinality(cut) + IF short THEN 1 ELSE 0

\* Nobody looks at the results of fprintf and fclose.
Outputs(w, t) == \/ Writes(w, t) /\ UNCHANGED cut
                 \/ /\ ev[w] \in cut \/ Cuts < MaxCuts
                    /\ cut' = cut \cup {ev[w]}
                    /\ \E u \in CutShort(t) : Writes(w, u)

FaultyCloses(w) == /\ wpc' = [wpc EXCEPT ![w] = "idle"]
                   /\ written' = written \cup ({ev[w]} \ cut')
                   /\ UNCHANGED <<fd, ev>>

Closes(w) == /\ wpc' = [wpc EXCEPT ![w] = "idle"]
             /\ fd' = [fd EXCEPT ![w] = 0]
             /\ ev' = [ev EXCEPT ![w] = Nothing]
             /\ written' = written \cup ({ev[w]} \ cut')

Put(w) == /\ wpc[w] = "write"
          /\ ~ev[w].long
          /\ Outputs(w, Ended(to_json(ev[w])))
          /\ Closes(w)

\* An event longer than the buffer of stdio takes two writes.
PutHead(w) == /\ wpc[w] = "write"
              /\ ev[w].long
              /\ Outputs(w, Unended(<<Line(ev[w], "head")>>))
              /\ wpc' = [wpc EXCEPT ![w] = "rest"]
              /\ UNCHANGED <<fd, ev, written>>

PutRest(w) == /\ wpc[w] = "rest"
              /\ Outputs(w, Ended(<<Line(ev[w], "rest")>>))
              /\ Closes(w)

-----------------------------------------------------------------------------
(* cmd_integrity_test and cmd_clear, by other processes                    *)

\* http_client_get without a buffer: an answer is copied to NULL.
GetIntoNull == {"failed", "crashed"}

AskGateway == /\ tpc = "start"
              /\ \E r \in GetIntoNull : tpc' = IF r = "failed" THEN "count" ELSE "crashed"
              /\ UNCHANGED <<fileVars, tfd, cache, target, marks>>

\* local_log_read_all
Readable == SubSeq(lines, 1, IF Len(lines) < MaxCached THEN Len(lines) ELSE MaxCached)

\* The line to tamper with must exist at this first reading.
CountLines == /\ tpc = "count"
              /\ cache' = Readable
              /\ target' \in 0 .. Len(cache')
              /\ tpc' = IF target' = 0 THEN "check" ELSE "tamper"
              /\ UNCHANGED <<fileVars, tfd, marks>>

\* A line can have a command and a hash, each between quotes, and not parse.
Found(line) == IF line.form = "whole" THEN {TRUE}
               ELSE IF line.form = "torn" \/ line.open THEN BOOLEAN
               ELSE {FALSE}

\* The second reading: the line must still exist, with a command and a hash.
FindTarget == /\ tpc = "tamper"
              /\ cache' = Readable
              /\ IF target <= Len(cache')
                 THEN \E b \in Found(cache'[target]) : tpc' = IF b THEN "truncate" ELSE "check"
                 ELSE tpc' = "check"
              /\ UNCHANGED <<fileVars, tfd, target, marks>>

Truncate == /\ tpc = "truncate"
            /\ \/ /\ OpenToRewrite
                  /\ tfd' = Handle /\ tampered' = TRUE /\ tpc' = "rewrite"
               \/ /\ tpc' = "check"
                  /\ UNCHANGED <<fileVars, tfd, tampered>>
            /\ UNCHANGED <<cache, target, short, cleared>>

(* The new value is an argument: the command of no event, a text that is   *)
(* or reads as the command again or has a quote in it, or one with         *)
(* newlines.  The last two make the line open.                             *)
Tampered ==
  LET line == [cache[target] EXCEPT !.event.command = "tampered"]
      open == [line EXCEPT !.open = TRUE]
      part == [open EXCEPT !.form = "torn"]
  IN {[cache EXCEPT ![target] = line], [cache EXCEPT ![target] = open],
      InsertAt([cache EXCEPT ![target] = part], target, part)}

From(k) == SubSeq(lines, k, Len(lines))

CutAt(k, form) == <<[lines[k] EXCEPT !.form = form]>> \o From(k + 1)

(* What is left of lines appended since the truncation, after t was        *)
(* written over the first of them: a suffix, the first line of which may   *)
(* have been cut.                                                          *)
Leftover(t) == IF t.lines = <<>> THEN {lines}
               ELSE {<<>>} \cup {From(k) : k \in 2 .. Len(lines)}
                    \cup {CutAt(k, f) : k \in 1 .. Len(lines), f \in {"torn", "scrap"}}

\* t is written from the start of the file, without O_APPEND.
Overwrites(t) == \E left \in Leftover(t) :
                    Becomes(Behind(t, [lines |-> left, unended |-> unended]))

\* Here, too, nobody looks at the results of fprintf and fclose.
Rewrite == /\ tpc = "rewrite"
           /\ \E ls \in Tampered :
                 \/ /\ IF tfd = inode THEN Overwrites(Ended(ls)) ELSE UNCHANGED <<lines, unended>>
                    /\ UNCHANGED short
                 \/ /\ tfd = inode /\ Cuts < MaxCuts
                    /\ \E t \in CutShort(Ended(ls)) : Overwrites(t)
                    /\ short' = TRUE
           /\ tpc' = "check"
           /\ tfd' = 0
           /\ UNCHANGED <<inode, made, cache, target, tampered, cleared>>

FaultyChecked == cache

\* The lines are read again if tampering was tried.
Checked == IF target = 0 THEN cache ELSE Readable

SameHash(parsed) == parsed.ok /\ compute_hash(parsed.event) = parsed.hash

(* What the test finds of the lines it has read.  Reading and checking are *)
(* one step, as the check sees only what was read.  stored_hash has room   *)
(* for its terminator, but nothing writes it: unless that byte happens to  *)
(* be zero, every line fails, whatever it holds.                           *)
Verdict(i, parsed) ==
  [line |-> Checked[i], changed |-> i = target, verified |-> SameHash(parsed)]

Verdicts ==
  IF tpc = "check"
  THEN UNION {{Verdict(i, parsed) : parsed \in from_json(Checked[i])} : i \in 1 .. Len(Checked)}
  ELSE {}

\* Nothing is kept of the verdicts: they are printed.
Check == /\ tpc = "check"
         /\ tpc' = "done"
         /\ cache' = <<>> /\ target' = 0
         /\ UNCHANGED <<fileVars, tfd, marks>>

TesterStep == \/ AskGateway
              \/ CountLines
              \/ FindTarget
              \/ Truncate
              \/ Rewrite
              \/ Check

\* local_log_clear; a log that is not there is left alone.
Clear == /\ inode # 0
         /\ ~cleared
         /\ cleared' = TRUE
         /\ inode' = 0 /\ lines' = <<>> /\ unended' = FALSE
         /\ UNCHANGED <<made, testerVars, tampered, short>>

-----------------------------------------------------------------------------
(* Properties                                                              *)

Events == written \cup cut \cup {ev[w] : w \in {x \in Writers : wpc[x] # "idle"}}

Whole(e) == \E i \in 1 .. Len(lines) : lines[i] = Line(e, "whole")

(* A line that the integrity test calls verified holds exactly what an     *)
(* auditor logged: no tampering, overwriting, cutting or mixing of lines   *)
(* passes.  Nothing is claimed of open lines, whose texts have quotes or   *)
(* newlines in them and can hold an event and hash of their author's       *)
(* making (main.c:365-377, event.c:29-100).                                *)
VerifiedIsHonest ==
  \A v \in Verdicts : v.verified /\ ~v.line.open => v.line.event \in Events

(* An event without quotes, newlines or, in its command, backslashes whose *)
(* line is undamaged passes the test, provided the unwritten terminator of *)
(* stored_hash happens to be zero (main.c:372-376).                        *)
HonestLinesMatch ==
  \A v \in Verdicts :
     /\ v.line = Line(v.line.event, "whole")
     /\ v.line.event.command = "plain" /\ v.line.event.cwd \notin {"quote", "newline"}
     => v.verified

(* If the simulation rewrote the log, the test reports the line it changed *)
(* whatever is appended meanwhile, unless the log was cleared, the writing *)
(* was cut short, or the line is open: through its own texts, or because   *)
(* the new value has quotes or newlines, or reads as the old one           *)
(* (main.c:336, 356-361, log_local.c:73-105).                              *)
TamperDetected ==
  tampered /\ ~short /\ ~cleared =>
    \A v \in Verdicts : v.changed /\ ~v.line.open => ~v.verified

(* The lines of each auditor are in the order in which it wrote them, and  *)
(* none is there twice, also after a rewrite from an old copy or one that  *)
(* was cut short (log_local.c:73-108).                                     *)
LogInOrder ==
  \A i, j \in 1 .. Len(lines) :
     /\ i < j
     /\ lines[i].form = "whole" /\ lines[j].form = "whole"
     /\ lines[i].event.by = lines[j].event.by
     => lines[i].event.n < lines[j].event.n

(* Unless the log is tampered with or cleared, and as long as no write has *)
(* failed, each event whose write is over stays in it as a line of its     *)
(* own, or of more than one if it has newlines; only an event too long for *)
(* one write can damage, or be damaged by, one of another auditor          *)
(* (log_local.c:30-38).                                                    *)
IntactUnlessLong ==
  ~tampered /\ ~cleared /\ cut = {} =>
    \A e \in written :
       \/ Whole(e)
       \/ "newline" \in {e.command, e.cwd}
       \/ \E f \in Events : f.by # e.by /\ (e.long \/ f.long)
=============================================================================
