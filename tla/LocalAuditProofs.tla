-------------------------- MODULE LocalAuditProofs --------------------------
(* Theorems about LocalAudit, for any number of events and any bound of    *)
(* the socket, of the lines that are read and of the writes cut short.     *)
EXTENDS LocalAudit, SequenceTheorems, TLAPS

Texts == {"none", "plain", "quote", "backslash", "newline"}

EventSet == [by : Writers, n : Nat, command : Texts, cwd : Texts, long : BOOLEAN]

Fields == [by : Writers, n : Nat, command : Texts \cup {"tampered"}, cwd : Texts, long : BOOLEAN]

Forms == {"whole", "head", "rest", "torn", "scrap"}

\* Lines that keep the hash of one of the events of E.
LinesOf(E) == [event : Fields, hash : E, form : Forms, open : BOOLEAN]

\* Pieces of a file, and files.
PieceOf(E) == [lines : Seq(LinesOf(E)), unended : BOOLEAN]

TextOf(E) == {t \in PieceOf(E) : t.unended => t.lines # <<>>}

Types ==
  /\ A!TypeOK
  /\ ran \in 0 .. MaxExecs
  /\ dispatched + waiting <= sent
  /\ wpc["daemon"] # "idle" => apc = "callback"
  /\ made \in Nat /\ inode \in 0 .. made
  /\ wpc \in [Writers -> {"idle", "write", "rest"}]
  /\ fd \in [Writers -> Nat]
  /\ ev \in [Writers -> EventSet \cup {Nothing}]
  /\ \A w \in Writers : /\ wpc[w] = "idle" <=> fd[w] = 0
                        /\ fd[w] <= made
                        /\ wpc[w] # "idle" => ev[w] \in EventSet /\ ev[w].by = w
                        /\ wpc[w] = "rest" => ev[w].long
  /\ written \subseteq EventSet /\ cut \subseteq EventSet
  /\ tpc \in {"start", "count", "tamper", "truncate", "rewrite", "check", "done", "crashed"}
  /\ tfd \in 0 .. made
  /\ Len(cache) <= MaxCached
  /\ target \in Nat
  /\ tampered \in BOOLEAN /\ short \in BOOLEAN /\ cleared \in BOOLEAN
  /\ short => tampered
  /\ tpc \in {"start", "count", "tamper", "truncate"} => ~tampered
  /\ tpc = "rewrite" => tampered /\ ~short /\ tfd # 0
  /\ tpc = "rewrite" => tfd = inode \/ cleared

\* A line keeps the hash that it was logged with.
HashesKnown == L!File \in TextOf(L!Events) /\ cache \in Seq(LinesOf(L!Events))

\* The last event that each auditor was given.
Count(w) == IF w = "run" THEN ran ELSE dispatched

\* The number of the last event of w of which a head may be in the log.
Upto(w) == IF \/ wpc[w] = "write"
              \/ w = "daemon" /\ apc \in {"push", "callback", "blocked"} /\ wpc[w] = "idle"
           THEN Count(w) - 1 ELSE Count(w)

(* An event is given to an auditor when the one before is finished, so its *)
(* number is higher than that of every event dealt with.                   *)
Numbered ==
  /\ \A w \in Writers : /\ wpc[w] = "write" => ev[w].n = Upto(w) + 1
                        /\ wpc[w] = "rest" => ev[w].n = Upto(w)
                        /\ wpc[w] # "idle" => ev[w] \notin written
  /\ \A e \in written \cup cut : e.n <= Upto(e.by)
  /\ cut \cap written = {}

\* The lines that are whole, or of which the rest may follow.
Keyed(line) == line.form \in {"whole", "head"}

InOrder(ls) == \A i, j \in 1 .. Len(ls) :
                  /\ i < j /\ Keyed(ls[i]) /\ Keyed(ls[j])
                  /\ ls[i].event.by = ls[j].event.by
                  => ls[i].event.n < ls[j].event.n

Precedes(ls, ms) == \A i \in 1 .. Len(ls), j \in 1 .. Len(ms) :
                       /\ Keyed(ls[i]) /\ Keyed(ms[j])
                       /\ ls[i].event.by = ms[j].event.by
                       => ls[i].event.n < ms[j].event.n

UpToDate(ls) == \A i \in 1 .. Len(ls) :
                   Keyed(ls[i]) => ls[i].event.n <= Upto(ls[i].event.by)

(* What was appended since the truncation is newer than what is written    *)
(* before it.                                                              *)
LinesOrdered == /\ InOrder(lines) /\ UpToDate(lines)
                /\ InOrder(cache) /\ UpToDate(cache)
                /\ tpc = "rewrite" /\ tfd = inode => Precedes(cache, lines)

\* What the simulation made of a line; nothing written behind it helps.
Traced(line) == line.open \/ (line.event.command = "tampered" /\ line.form # "scrap")

\* A line that can be tampered with.
Workable(line) == line.open \/ line.form # "scrap"

(* The line to be changed was read, and once it is changed it stays where  *)
(* it is.                                                                  *)
TamperTraced ==
  /\ tpc = "tamper" => target # 0
  /\ tpc \in {"truncate", "rewrite"} =>
       target # 0 /\ target <= Len(cache) /\ Workable(cache[target])
  /\ tpc = "check" /\ tampered /\ ~short /\ ~cleared =>
       /\ target # 0 /\ target <= MaxCached /\ target <= Len(lines)
       /\ Traced(lines[target])

Disturbed(e) == \E f \in L!Events : f.by # e.by /\ (e.long \/ f.long)

(* While nobody tampers and clears and no write fails, the file is one     *)
(* file, and what is unended is the head of an event of which the rest     *)
(* follows.                                                                *)
Undisturbed ==
  ~tampered /\ ~cleared /\ cut = {} =>
    /\ inode = 0 => made = 0
    /\ \A w \in Writers : wpc[w] # "idle" => fd[w] = inode
    /\ unended => \E w \in Writers : wpc[w] = "rest"
    /\ \A w \in Writers : wpc[w] = "rest" =>
          Disturbed(ev[w]) \/ (unended /\ lines[Len(lines)] = L!Line(ev[w], "head"))

IInv == /\ Types
        /\ HashesKnown
        /\ Numbered
        /\ LinesOrdered
        /\ TamperTraced
        /\ Undisturbed
        /\ IntactUnlessLong

-----------------------------------------------------------------------------
(* Lines and pieces of files                                               *)

LEMMA LineIsLine ==
  ASSUME NEW E \in SUBSET EventSet, NEW e \in E, NEW f \in Forms
  PROVE  /\ L!Line(e, f) \in LinesOf(E)
         /\ L!Line(e, f).event = e /\ L!Line(e, f).hash = e /\ L!Line(e, f).form = f
<1>1. e \in Fields /\ L!Open(e) \in BOOLEAN
  BY DEF EventSet, Fields, L!Open
<1>2. QED
  BY <1>1 DEF L!Line, L!compute_hash, LinesOf

(* What a line becomes that something is written behind.                   *)
LEMMA Glued ==
  ASSUME NEW E, NEW a \in LinesOf(E), NEW b \in LinesOf(E)
  PROVE  /\ L!Glue(a, b) \in LinesOf(E)
         /\ a.form # "scrap" /\ Keyed(L!Glue(a, b)) => Keyed(a) /\ L!Glue(a, b).event = a.event
         /\ a.form = "scrap" /\ Keyed(L!Glue(a, b)) => Keyed(b) /\ L!Glue(a, b).event = b.event
         /\ a.form = "whole" => L!Glue(a, b) = a
         /\ Traced(a) => Traced(L!Glue(a, b))
<1>1. CASE a.form = "whole"
  <2>1. L!Glue(a, b) = a
    BY <1>1 DEF L!Glue
  <2>2. QED
    BY <1>1, <2>1
<1>2. CASE a.form = "scrap"
  <2> DEFINE g == [b EXCEPT !.open = a.open \/ b.open]
  <2>1. L!Glue(a, b) = g
    BY <1>2 DEF L!Glue
  <2>2. (a.open \/ b.open) \in BOOLEAN
    BY DEF LinesOf
  <2>3. g \in LinesOf(E) /\ g.event = b.event /\ g.form = b.form /\ (a.open => g.open)
    BY <2>2 DEF LinesOf
  <2> HIDE DEF g
  <2>4. QED
    BY <1>2, <2>1, <2>3 DEF Keyed, Traced
<1>3. CASE a.form \notin {"whole", "scrap"} /\ a.form = "head" /\ b.form = "rest" /\ a.hash = b.hash
  <2> DEFINE g == [a EXCEPT !.form = "whole"]
  <2>1. L!Glue(a, b) = g
    BY <1>3 DEF L!Glue
  <2>2. g \in LinesOf(E) /\ g.event = a.event /\ g.form = "whole" /\ g.open = a.open
    BY DEF LinesOf, Forms
  <2> HIDE DEF g
  <2>3. QED
    BY <1>3, <2>1, <2>2 DEF Keyed, Traced
<1>4. CASE a.form \notin {"whole", "scrap"} /\ ~(a.form = "head" /\ b.form = "rest" /\ a.hash = b.hash)
  <2> DEFINE g == [a EXCEPT !.form = "torn", !.open = a.open \/ b.open]
  <2>1. L!Glue(a, b) = g
    BY <1>4 DEF L!Glue
  <2>2. (a.open \/ b.open) \in BOOLEAN
    BY DEF LinesOf
  <2>3. g \in LinesOf(E) /\ g.event = a.event /\ g.form = "torn" /\ (a.open => g.open)
    BY <2>2 DEF LinesOf, Forms
  <2> HIDE DEF g
  <2>4. QED
    BY <1>4, <2>1, <2>3 DEF Keyed, Traced
<1>5. QED
  BY <1>1, <1>2, <1>3, <1>4

LEMMA LinesGrow ==
  ASSUME NEW E, NEW F, E \subseteq F
  PROVE  /\ Seq(LinesOf(E)) \subseteq Seq(LinesOf(F))
         /\ TextOf(E) \subseteq TextOf(F)
<1>1. LinesOf(E) \subseteq LinesOf(F)
  BY DEF LinesOf
<1>2. Seq(LinesOf(E)) \subseteq Seq(LinesOf(F))
  BY <1>1
<1>3. QED
  BY <1>2 DEF TextOf, PieceOf

(* The places of two sequences of which the ends were made one element.    *)
LEMMA Joined ==
  ASSUME NEW S, NEW ts \in Seq(S), NEW us \in Seq(S), NEW g \in S, ts # <<>>, us # <<>>
  PROVE  LET xs == SubSeq(ts, 1, Len(ts) - 1) \o <<g>> \o Tail(us)
             n == Len(ts)
             m == Len(us)
         IN /\ xs \in Seq(S) /\ Len(xs) = n + m - 1
            /\ \A i \in 1 .. n - 1 : xs[i] = ts[i]
            /\ xs[n] = g
            /\ \A i \in n + 1 .. n + m - 1 : xs[i] = us[i - n + 1]
<1> DEFINE n == Len(ts)
           m == Len(us)
           front == SubSeq(ts, 1, n - 1)
           rest == Tail(us)
           one == <<g>>
           h == front \o one
           x == h \o rest
<1>1. n \in Nat /\ n > 0 /\ m \in Nat /\ m > 0 /\ \A i \in 1 .. n : ts[i] \in S
  OBVIOUS
<1>2. /\ front \in Seq(S) /\ Len(front) = n - 1
      /\ \A i \in 1 .. n - 1 : front[i] = ts[i]
  <2>1. 1 \in Int /\ n - 1 \in Int /\ \A i \in 1 .. n - 1 : ts[i] \in S
    BY <1>1
  <2>2. /\ front \in Seq(S)
        /\ Len(front) = IF 1 <= n - 1 THEN (n - 1) - 1 + 1 ELSE 0
        /\ \A i \in 1 .. (n - 1) - 1 + 1 : front[i] = ts[1 + i - 1]
    BY <2>1, SubSeqProperties
  <2> HIDE DEF front, n
  <2>3. Len(front) = n - 1
    BY <1>1, <2>2
  <2>4. \A i \in 1 .. n - 1 : i \in 1 .. (n - 1) - 1 + 1 /\ 1 + i - 1 = i
    BY <1>1
  <2>5. QED
    BY <2>2, <2>3, <2>4
<1>3. /\ rest \in Seq(S) /\ Len(rest) = m - 1
      /\ \A i \in 1 .. m - 1 : rest[i] = us[i + 1]
  OBVIOUS
<1>4. one \in Seq(S) /\ Len(one) = 1 /\ one[1] = g
  OBVIOUS
<1> HIDE DEF n, m, front, rest, one
<1>5. /\ h \in Seq(S) /\ Len(h) = n
      /\ \A i \in 1 .. n - 1 : h[i] = ts[i]
      /\ h[n] = g
  <2>1. /\ h \in Seq(S)
        /\ Len(h) = Len(front) + Len(one)
        /\ \A i \in 1 .. Len(front) + Len(one) :
             h[i] = IF i <= Len(front) THEN front[i] ELSE one[i - Len(front)]
    BY <1>2, <1>4, ConcatProperties
  <2> HIDE DEF h
  <2>2. Len(front) + Len(one) = n /\ n - Len(front) = 1 /\ ~(n <= Len(front)) /\ n \in 1 .. n
    BY <1>1, <1>2, <1>4
  <2>3. Len(h) = n /\ h[n] = g
    BY <1>4, <2>1, <2>2
  <2>4. ASSUME NEW i \in 1 .. n - 1 PROVE h[i] = ts[i]
    <3>1. i \in 1 .. n /\ i <= Len(front)
      BY <1>1, <1>2
    <3>2. h[i] = front[i]
      BY <2>1, <2>2, <3>1
    <3>3. QED
      BY <1>2, <3>2
  <2>5. QED
    BY <2>1, <2>3, <2>4
<1> HIDE DEF h
<1>6. /\ x \in Seq(S)
      /\ Len(x) = Len(h) + Len(rest)
      /\ \A i \in 1 .. Len(h) + Len(rest) :
           x[i] = IF i <= Len(h) THEN h[i] ELSE rest[i - Len(h)]
  BY <1>3, <1>5, ConcatProperties
<1> HIDE DEF x
<1>7. Len(x) = n + m - 1 /\ \A i \in 1 .. n : x[i] = h[i]
  BY <1>1, <1>3, <1>5, <1>6
<1>8. ASSUME NEW i \in n + 1 .. n + m - 1
      PROVE  x[i] = us[i - n + 1]
  <2>1. x[i] = rest[i - n]
    BY <1>1, <1>3, <1>5, <1>6
  <2>2. i - n \in 1 .. m - 1 /\ (i - n) + 1 = i - n + 1
    BY <1>1
  <2>3. QED
    BY <1>3, <2>1, <2>2
<1>9. /\ x \in Seq(S) /\ Len(x) = n + m - 1
      /\ \A i \in 1 .. n - 1 : x[i] = ts[i]
      /\ x[n] = g
      /\ \A i \in n + 1 .. n + m - 1 : x[i] = us[i - n + 1]
  <2>1. \A i \in 1 .. n - 1 : i \in 1 .. n
    BY <1>1
  <2>2. n \in 1 .. n
    BY <1>1
  <2>3. QED
    BY <1>5, <1>6, <1>7, <1>8, <2>1, <2>2
<1>10. QED
  BY <1>9 DEF x, h, one, rest, front, n, m

\* xs are the lines after us was written behind ts, one by one.
Places(ts, glued, us, xs) ==
  LET n == Len(ts)
      m == Len(us)
  IN /\ glued => /\ n > 0 /\ Len(xs) = n + m - 1
                 /\ \A i \in 1 .. n - 1 : xs[i] = ts[i]
                 /\ xs[n] = L!Glue(ts[n], us[1])
                 /\ \A i \in n + 1 .. n + m - 1 : xs[i] = us[i - n + 1]
     /\ ~glued => /\ Len(xs) = n + m
                  /\ \A i \in 1 .. n : xs[i] = ts[i]
                  /\ \A i \in n + 1 .. n + m : xs[i] = us[i - n]

LEMMA PlacesLength ==
  ASSUME NEW S, NEW ts \in Seq(S), NEW us \in Seq(S), us # <<>>, NEW xs \in Seq(S),
         NEW glued \in BOOLEAN, Places(ts, glued, us, xs)
  PROVE  xs # <<>>
<1>1. Len(ts) \in Nat /\ Len(us) \in Nat /\ Len(us) > 0
  OBVIOUS
<1>2. Len(xs) > 0
  BY <1>1 DEF Places
<1>3. QED
  BY <1>2

LEMMA PlacesApart ==
  ASSUME NEW S, NEW ts \in Seq(S), NEW us \in Seq(S)
  PROVE  ts \o us \in Seq(S) /\ Places(ts, FALSE, us, ts \o us)
<1> DEFINE xs == ts \o us
<1>1. /\ xs \in Seq(S)
      /\ Len(xs) = Len(ts) + Len(us)
      /\ \A i \in 1 .. Len(ts) + Len(us) :
           xs[i] = IF i <= Len(ts) THEN ts[i] ELSE us[i - Len(ts)]
  BY ConcatProperties
<1>2. Len(ts) \in Nat /\ Len(us) \in Nat
  OBVIOUS
<1> HIDE DEF xs
<1>3. Places(ts, FALSE, us, xs)
  BY <1>1, <1>2 DEF Places
<1>4. QED
  BY <1>1, <1>3 DEF xs

LEMMA PlacesGlued ==
  ASSUME NEW E, NEW ts \in Seq(LinesOf(E)), NEW us \in Seq(LinesOf(E)), ts # <<>>, us # <<>>
  PROVE  LET xs == SubSeq(ts, 1, Len(ts) - 1) \o <<L!Glue(ts[Len(ts)], us[1])>> \o Tail(us)
         IN xs \in Seq(LinesOf(E)) /\ Places(ts, TRUE, us, xs)
<1> DEFINE S == LinesOf(E)
           g == L!Glue(ts[Len(ts)], us[1])
           xs == SubSeq(ts, 1, Len(ts) - 1) \o <<g>> \o Tail(us)
<1>1. ts[Len(ts)] \in S /\ us[1] \in S /\ Len(ts) \in Nat /\ Len(ts) > 0 /\ Len(us) \in Nat
  OBVIOUS
<1>2. g \in S
  BY <1>1, Glued
<1> HIDE DEF g, S
<1>3. /\ xs \in Seq(S) /\ Len(xs) = Len(ts) + Len(us) - 1
      /\ \A i \in 1 .. Len(ts) - 1 : xs[i] = ts[i]
      /\ xs[Len(ts)] = g
      /\ \A i \in Len(ts) + 1 .. Len(ts) + Len(us) - 1 : xs[i] = us[i - Len(ts) + 1]
  <2>1. ts \in Seq(S) /\ us \in Seq(S)
    BY DEF S
  <2>2. QED
    BY <1>2, <2>1, Joined
<1> HIDE DEF xs
<1>4. Places(ts, TRUE, us, xs)
  BY <1>1, <1>3 DEF Places, g
<1>5. QED
  BY <1>3, <1>4 DEF xs, g, S

LEMMA BehindPlaces ==
  ASSUME NEW E, NEW t \in TextOf(E), NEW u \in PieceOf(E)
  PROVE  /\ L!Behind(t, u) \in TextOf(E)
         /\ u.lines = <<>> => L!Behind(t, u) = t
         /\ u.lines # <<>> => /\ L!Behind(t, u).unended = u.unended
                              /\ Places(t.lines, t.unended, u.lines, L!Behind(t, u).lines)
<1>0. /\ t.lines \in Seq(LinesOf(E)) /\ u.lines \in Seq(LinesOf(E))
      /\ t.unended \in BOOLEAN /\ u.unended \in BOOLEAN
      /\ t.unended => t.lines # <<>>
  BY DEF TextOf, PieceOf
<1>1. CASE u.lines = <<>>
  <2>1. L!Behind(t, u) = t
    BY <1>1 DEF L!Behind
  <2>2. QED
    BY <1>1, <2>1
<1>2. ASSUME u.lines # <<>>, NEW xs \in Seq(LinesOf(E)), L!Behind(t, u) = [u EXCEPT !.lines = xs],
             Places(t.lines, t.unended, u.lines, xs)
      PROVE  /\ L!Behind(t, u) \in TextOf(E)
             /\ L!Behind(t, u).unended = u.unended
             /\ Places(t.lines, t.unended, u.lines, L!Behind(t, u).lines)
  <2> DEFINE x == [u EXCEPT !.lines = xs]
  <2>1. x \in PieceOf(E) /\ x.lines = xs /\ x.unended = u.unended
    BY DEF PieceOf
  <2>2. xs # <<>>
    BY <1>0, <1>2, PlacesLength
  <2> HIDE DEF x
  <2>3. x \in TextOf(E)
    BY <2>1, <2>2 DEF TextOf
  <2>4. L!Behind(t, u) = x
    BY <1>2 DEF x
  <2>5. QED
    BY <1>2, <2>1, <2>3, <2>4
<1>3. CASE u.lines # <<>> /\ t.unended = FALSE
  <2> DEFINE xs == t.lines \o u.lines
  <2>1. L!Behind(t, u) = [u EXCEPT !.lines = xs]
    BY <1>3 DEF L!Behind
  <2>2. xs \in Seq(LinesOf(E)) /\ Places(t.lines, t.unended, u.lines, xs)
    BY <1>0, <1>3, PlacesApart
  <2> HIDE DEF xs
  <2>3. QED
    BY <1>2, <1>3, <2>1, <2>2
<1>4. CASE u.lines # <<>> /\ t.unended = TRUE
  <2> DEFINE front == SubSeq(t.lines, 1, Len(t.lines) - 1)
             xs == front \o <<L!Glue(t.lines[Len(t.lines)], u.lines[1])>> \o Tail(u.lines)
  <2>1. xs \in Seq(LinesOf(E)) /\ Places(t.lines, t.unended, u.lines, xs)
    BY <1>0, <1>4, PlacesGlued
  <2>2. L!Behind(t, u) = [u EXCEPT !.lines = xs]
    <3>1. /\ L!Front(t.lines) = front /\ L!Last(t.lines) = t.lines[Len(t.lines)]
          /\ Head(u.lines) = u.lines[1]
      BY DEF L!Front, L!Last
    <3>2. L!Behind(t, u) = [u EXCEPT !.lines = IF t.unended
             THEN L!Front(t.lines) \o <<L!Glue(L!Last(t.lines), Head(u.lines))>> \o Tail(u.lines)
             ELSE t.lines \o u.lines]
      BY <1>4, Zenon DEF L!Behind
    <3>3. (IF t.unended
           THEN L!Front(t.lines) \o <<L!Glue(L!Last(t.lines), Head(u.lines))>> \o Tail(u.lines)
           ELSE t.lines \o u.lines) = xs
      BY <1>4, <3>1
    <3> HIDE DEF xs
    <3>4. QED
      BY <3>2, <3>3
  <2> HIDE DEF xs, front
  <2>3. QED
    BY <1>2, <1>4, <2>1, <2>2
<1>5. QED
  BY <1>0, <1>1, <1>3, <1>4

-----------------------------------------------------------------------------
(* The order of lines                                                      *)

\* A line of ts or us, of which both are written one behind the other.
Source(ts, us, k) == IF k <= Len(ts) THEN ts[k] ELSE us[k - Len(ts)]

From(ts, us, line, k) == /\ k \in 1 .. Len(ts) + Len(us)
                         /\ Keyed(Source(ts, us, k))
                         /\ line.event = Source(ts, us, k).event

(* Each keyed line comes from one of ts or us, and not two from the same.  *)
LEMMA PlacesFrom ==
  ASSUME NEW E, NEW ts \in Seq(LinesOf(E)), NEW us \in Seq(LinesOf(E)), us # <<>>,
         NEW xs \in Seq(LinesOf(E)), NEW glued \in BOOLEAN, Places(ts, glued, us, xs)
  PROVE  \E f \in [1 .. Len(xs) -> Nat] :
            /\ \A i \in 1 .. Len(xs) : Keyed(xs[i]) => From(ts, us, xs[i], f[i])
            /\ \A i, j \in 1 .. Len(xs) : i < j => f[i] < f[j]
<1> DEFINE n == Len(ts)
           m == Len(us)
           f == [i \in 1 .. Len(xs) |->
                   IF glued /\ (i > n \/ (i = n /\ ts[n].form = "scrap")) THEN i + 1 ELSE i]
<1>0. n \in Nat /\ m \in Nat /\ m > 0 /\ Len(xs) \in Nat
  OBVIOUS
<1>1. f \in [1 .. Len(xs) -> Nat]
  BY <1>0
<1>2. \A i, j \in 1 .. Len(xs) : i < j => f[i] < f[j]
  BY <1>0
<1>3. CASE glued = FALSE
  <2>1. ASSUME NEW i \in 1 .. Len(xs), Keyed(xs[i])
        PROVE  From(ts, us, xs[i], f[i])
    <3>1. f[i] = i
      BY <1>3
    <3>2. i \in 1 .. n + m /\ xs[i] = Source(ts, us, i)
      BY <1>0, <1>3 DEF Places, Source
    <3> HIDE DEF f
    <3>3. QED
      BY <2>1, <3>1, <3>2 DEF From
  <2> HIDE DEF f
  <2>2. QED
    BY <1>1, <1>2, <2>1
<1>4. CASE glued = TRUE
  <2>0. /\ n > 0 /\ Len(xs) = n + m - 1
        /\ \A i \in 1 .. n - 1 : xs[i] = ts[i]
        /\ xs[n] = L!Glue(ts[n], us[1])
        /\ \A i \in n + 1 .. n + m - 1 : xs[i] = us[i - n + 1]
    BY <1>4 DEF Places
  <2>1. ASSUME NEW i \in 1 .. Len(xs), Keyed(xs[i])
        PROVE  From(ts, us, xs[i], f[i])
    <3>1. CASE i < n
      <4>1. f[i] = i /\ xs[i] = ts[i] /\ i \in 1 .. n + m /\ i <= n
        BY <1>0, <2>0, <3>1
      <4> HIDE DEF f
      <4>2. QED
        BY <2>1, <4>1 DEF From, Source
    <3>2. CASE i > n
      <4>1. f[i] = i + 1 /\ xs[i] = us[i - n + 1] /\ i + 1 \in 1 .. n + m /\ ~(i + 1 <= n)
            /\ (i + 1) - n = i - n + 1
        BY <1>0, <1>4, <2>0, <3>2
      <4> HIDE DEF f
      <4>2. QED
        BY <2>1, <4>1 DEF From, Source
    <3>3. CASE i = n
      <4>0. ts[n] \in LinesOf(E) /\ us[1] \in LinesOf(E)
        BY <1>0, <2>0
      <4>1. CASE ts[n].form # "scrap"
        <5>1. f[i] = n /\ n \in 1 .. n + m /\ n <= n
          BY <1>0, <2>0, <3>3, <4>1
        <5>2. Keyed(ts[n]) /\ xs[i].event = ts[n].event
          BY <2>0, <2>1, <3>3, <4>0, <4>1, Glued
        <5> HIDE DEF f
        <5>3. QED
          BY <5>1, <5>2 DEF From, Source
      <4>2. CASE ts[n].form = "scrap"
        <5>1. f[i] = n + 1 /\ n + 1 \in 1 .. n + m /\ ~(n + 1 <= n) /\ (n + 1) - n = 1
          BY <1>0, <1>4, <2>0, <3>3, <4>2
        <5>2. Keyed(us[1]) /\ xs[i].event = us[1].event
          BY <2>0, <2>1, <3>3, <4>0, <4>2, Glued
        <5> HIDE DEF f
        <5>3. QED
          BY <5>1, <5>2 DEF From, Source
      <4>3. QED
        BY <4>1, <4>2
    <3>4. QED
      BY <1>0, <3>1, <3>2, <3>3
  <2> HIDE DEF f
  <2>2. QED
    BY <1>1, <1>2, <2>1
<1>5. QED
  BY <1>3, <1>4

(* The lines of two ordered pieces are ordered, if those of the second are *)
(* newer.                                                                  *)
LEMMA PlacesOrdered ==
  ASSUME NEW E, NEW ts \in Seq(LinesOf(E)), NEW us \in Seq(LinesOf(E)), us # <<>>,
         NEW xs \in Seq(LinesOf(E)), NEW glued \in BOOLEAN, Places(ts, glued, us, xs),
         InOrder(ts), InOrder(us), Precedes(ts, us)
  PROVE  InOrder(xs)
<1>1. PICK f \in [1 .. Len(xs) -> Nat] :
            /\ \A i \in 1 .. Len(xs) : Keyed(xs[i]) => From(ts, us, xs[i], f[i])
            /\ \A i, j \in 1 .. Len(xs) : i < j => f[i] < f[j]
  BY PlacesFrom
<1> SUFFICES ASSUME NEW i \in 1 .. Len(xs), NEW j \in 1 .. Len(xs), i < j,
                    Keyed(xs[i]), Keyed(xs[j]), xs[i].event.by = xs[j].event.by
             PROVE  xs[i].event.n < xs[j].event.n
  BY DEF InOrder
<1> DEFINE n == Len(ts)
           m == Len(us)
           k == f[i]
           l == f[j]
<1>2. k \in Nat /\ l \in Nat /\ k < l /\ From(ts, us, xs[i], k) /\ From(ts, us, xs[j], l)
      /\ n \in Nat /\ m \in Nat
  BY <1>1
<1> HIDE DEF k, l, n
<1>3. CASE l <= n
  <2>1. k \in 1 .. n /\ l \in 1 .. n
    BY <1>2, <1>3 DEF From
  <2>2. Keyed(ts[k]) /\ Keyed(ts[l]) /\ xs[i].event = ts[k].event /\ xs[j].event = ts[l].event
    BY <1>2, <2>1 DEF From, Source, n
  <2>3. QED
    BY <1>2, <2>1, <2>2 DEF InOrder, n
<1>4. CASE k <= n /\ ~(l <= n)
  <2>1. k \in 1 .. n /\ l - n \in 1 .. m
    BY <1>2, <1>4 DEF From, n
  <2>2. Keyed(ts[k]) /\ Keyed(us[l - n]) /\ xs[i].event = ts[k].event
        /\ xs[j].event = us[l - n].event
    BY <1>2, <1>4, <2>1 DEF From, Source, n
  <2>3. QED
    BY <2>1, <2>2 DEF Precedes, n
<1>5. CASE ~(k <= n)
  <2>1. k - n \in 1 .. m /\ l - n \in 1 .. m /\ k - n < l - n /\ ~(l <= n)
    BY <1>2, <1>5 DEF From, n
  <2>2. Keyed(us[k - n]) /\ Keyed(us[l - n]) /\ xs[i].event = us[k - n].event
        /\ xs[j].event = us[l - n].event
    BY <1>2, <1>5, <2>1 DEF From, Source, n
  <2>3. QED
    BY <2>1, <2>2 DEF InOrder
<1>6. QED
  BY <1>2, <1>3, <1>4, <1>5

\* Each keyed line of xs is one of ys, perhaps with another command.
Among(xs, ys) == \A i \in 1 .. Len(xs) : Keyed(xs[i]) =>
                    \E k \in 1 .. Len(ys) : /\ Keyed(ys[k])
                                            /\ xs[i].event.by = ys[k].event.by
                                            /\ xs[i].event.n = ys[k].event.n

LEMMA PlacesAmong ==
  ASSUME NEW E, NEW ts \in Seq(LinesOf(E)), NEW us \in Seq(LinesOf(E)), us # <<>>,
         NEW xs \in Seq(LinesOf(E)), NEW glued \in BOOLEAN, Places(ts, glued, us, xs),
         NEW i \in 1 .. Len(xs), Keyed(xs[i])
  PROVE  \/ \E k \in 1 .. Len(ts) : Keyed(ts[k]) /\ xs[i].event = ts[k].event
         \/ \E k \in 1 .. Len(us) : Keyed(us[k]) /\ xs[i].event = us[k].event
<1>1. PICK f \in [1 .. Len(xs) -> Nat] : From(ts, us, xs[i], f[i])
  BY PlacesFrom
<1> DEFINE n == Len(ts)
           k == f[i]
<1>2. From(ts, us, xs[i], k) /\ k \in Nat /\ n \in Nat /\ Len(us) \in Nat
  BY <1>1
<1> HIDE DEF k, n
<1>3. CASE k <= n
  BY <1>2, <1>3 DEF From, Source, n
<1>4. CASE ~(k <= n)
  <2>1. k - n \in 1 .. Len(us)
    BY <1>2, <1>4 DEF From, n
  <2>2. QED
    BY <1>2, <1>4, <2>1 DEF From, Source, n
<1>5. QED
  BY <1>3, <1>4

(* Order is kept when lines are left out, cut or changed.                  *)
LEMMA AmongPrecedes ==
  ASSUME NEW xs, NEW ys, NEW zs, NEW vs, Precedes(ys, vs), Among(xs, ys), Among(zs, vs)
  PROVE  Precedes(xs, zs)
<1> SUFFICES ASSUME NEW i \in 1 .. Len(xs), NEW j \in 1 .. Len(zs),
                    Keyed(xs[i]), Keyed(zs[j]), xs[i].event.by = zs[j].event.by
             PROVE  xs[i].event.n < zs[j].event.n
  BY DEF Precedes
<1>1. PICK k \in 1 .. Len(ys) : /\ Keyed(ys[k])
                                /\ xs[i].event.by = ys[k].event.by
                                /\ xs[i].event.n = ys[k].event.n
  BY DEF Among
<1>2. PICK l \in 1 .. Len(vs) : /\ Keyed(vs[l])
                                /\ zs[j].event.by = vs[l].event.by
                                /\ zs[j].event.n = vs[l].event.n
  BY DEF Among
<1>3. QED
  BY <1>1, <1>2 DEF Precedes

-----------------------------------------------------------------------------
(* What is written                                                         *)

\* Lines of ys, the first and last of which may have been cut.
Part(xs, ys) == \E d \in Nat : /\ Len(xs) + d <= Len(ys)
                               /\ \A i \in 1 .. Len(xs) : xs[i] = ys[i + d] \/ ~Keyed(xs[i])

LEMMA PartOrdered ==
  ASSUME NEW S, NEW xs \in Seq(S), NEW ys \in Seq(S), Part(xs, ys), InOrder(ys)
  PROVE  InOrder(xs) /\ Among(xs, ys)
<1>1. PICK d \in Nat : /\ Len(xs) + d <= Len(ys)
                       /\ \A i \in 1 .. Len(xs) : xs[i] = ys[i + d] \/ ~Keyed(xs[i])
  BY DEF Part
<1>2. Len(xs) \in Nat /\ Len(ys) \in Nat
  OBVIOUS
<1>3. \A i \in 1 .. Len(xs) : i + d \in 1 .. Len(ys)
  BY <1>1, <1>2
<1>4. Among(xs, ys)
  BY <1>1, <1>3 DEF Among
<1>5. ASSUME NEW i \in 1 .. Len(xs), NEW j \in 1 .. Len(xs), i < j,
             Keyed(xs[i]), Keyed(xs[j]), xs[i].event.by = xs[j].event.by
      PROVE  xs[i].event.n < xs[j].event.n
  <2>1. xs[i] = ys[i + d] /\ xs[j] = ys[j + d]
    BY <1>1, <1>5
  <2>2. i + d < j + d
    BY <1>2, <1>5
  <2>3. QED
    BY <1>3, <1>5, <2>1, <2>2 DEF InOrder
<1>6. QED
  BY <1>4, <1>5 DEF InOrder

LEMMA Prefix ==
  ASSUME NEW S, NEW ys \in Seq(S), NEW k \in 0 .. Len(ys)
  PROVE  /\ SubSeq(ys, 1, k) \in Seq(S) /\ Len(SubSeq(ys, 1, k)) = k
         /\ \A i \in 1 .. k : SubSeq(ys, 1, k)[i] = ys[i]
<1>1. Len(ys) \in Nat
  OBVIOUS
<1>2. 1 \in Int /\ k \in Int /\ \A i \in 1 .. k : ys[i] \in S
  BY <1>1
<1> DEFINE xs == SubSeq(ys, 1, k)
<1>3. /\ xs \in Seq(S)
      /\ Len(xs) = IF 1 <= k THEN k - 1 + 1 ELSE 0
      /\ \A i \in 1 .. k - 1 + 1 : xs[i] = ys[1 + i - 1]
  BY <1>2, SubSeqProperties
<1> HIDE DEF xs
<1>4. Len(xs) = k /\ \A i \in 1 .. k : xs[i] = ys[i]
  BY <1>1, <1>3
<1>5. QED
  BY <1>3, <1>4 DEF xs

LEMMA Suffix ==
  ASSUME NEW S, NEW ys \in Seq(S), NEW k \in 1 .. Len(ys) + 1
  PROVE  /\ SubSeq(ys, k, Len(ys)) \in Seq(S) /\ Len(SubSeq(ys, k, Len(ys))) = Len(ys) - k + 1
         /\ \A i \in 1 .. Len(ys) - k + 1 : SubSeq(ys, k, Len(ys))[i] = ys[i + k - 1]
<1>1. Len(ys) \in Nat
  OBVIOUS
<1> DEFINE n == Len(ys)
           xs == SubSeq(ys, k, n)
<1>2. k \in Int /\ n \in Int /\ \A i \in k .. n : ys[i] \in S
  BY <1>1
<1>3. /\ xs \in Seq(S)
      /\ Len(xs) = IF k <= n THEN n - k + 1 ELSE 0
      /\ \A i \in 1 .. n - k + 1 : xs[i] = ys[k + i - 1]
  BY <1>2, SubSeqProperties
<1> HIDE DEF xs
<1>4. Len(xs) = n - k + 1 /\ \A i \in 1 .. n - k + 1 : xs[i] = ys[i + k - 1]
  BY <1>1, <1>3
<1>5. QED
  BY <1>3, <1>4 DEF xs

LEMMA CutForm ==
  ASSUME NEW E, NEW line \in LinesOf(E), NEW f \in {"torn", "scrap"}
  PROVE  [line EXCEPT !.form = f] \in LinesOf(E) /\ ~Keyed([line EXCEPT !.form = f])
BY DEF LinesOf, Forms, Keyed

LEMMA CutIsPart ==
  ASSUME NEW E, NEW t \in PieceOf(E), NEW u \in L!CutShort(t)
  PROVE  u \in TextOf(E) /\ Part(u.lines, t.lines)
<1> DEFINE ls == t.lines
           n == Len(ls)
<1>0. ls \in Seq(LinesOf(E)) /\ n \in Nat /\ \A i \in 1 .. n : ls[i] \in LinesOf(E)
  BY DEF PieceOf
<1>1. \/ \E k \in 0 .. n - 1 : u = L!Ended(SubSeq(ls, 1, k))
      \/ \E k \in 1 .. n : u = L!Unended(SubSeq(ls, 1, k))
      \/ \E k \in 1 .. n, f \in {"torn", "scrap"} :
           u = L!Unended(Append(SubSeq(ls, 1, k - 1), [ls[k] EXCEPT !.form = f]))
  BY DEF L!CutShort
<1> HIDE DEF ls
<1>2. CASE \E k \in 0 .. n - 1 : u = L!Ended(SubSeq(ls, 1, k))
  <2>1. PICK k \in 0 .. n - 1 : u = L!Ended(SubSeq(ls, 1, k))
    BY <1>2
  <2> DEFINE xs == SubSeq(ls, 1, k)
  <2>2. xs \in Seq(LinesOf(E)) /\ Len(xs) = k /\ \A i \in 1 .. k : xs[i] = ls[i]
    BY <1>0, Prefix
  <2> HIDE DEF xs
  <2>3. u = [lines |-> xs, unended |-> FALSE]
    BY <2>1 DEF L!Ended, xs
  <2>4. Part(xs, ls)
    <3>1. Len(xs) + 0 <= n /\ \A i \in 1 .. Len(xs) : xs[i] = ls[i + 0]
      BY <1>0, <2>2
    <3>2. QED
      BY <3>1 DEF Part
  <2>5. QED
    BY <2>2, <2>3, <2>4 DEF TextOf, PieceOf, ls
<1>3. CASE \E k \in 1 .. n : u = L!Unended(SubSeq(ls, 1, k))
  <2>1. PICK k \in 1 .. n : u = L!Unended(SubSeq(ls, 1, k))
    BY <1>3
  <2> DEFINE xs == SubSeq(ls, 1, k)
  <2>2. xs \in Seq(LinesOf(E)) /\ Len(xs) = k /\ \A i \in 1 .. k : xs[i] = ls[i]
    BY <1>0, Prefix
  <2> HIDE DEF xs
  <2>3. u = [lines |-> xs, unended |-> TRUE]
    BY <2>1 DEF L!Unended, xs
  <2>4. Part(xs, ls) /\ xs # <<>>
    <3>1. Len(xs) + 0 <= n /\ \A i \in 1 .. Len(xs) : xs[i] = ls[i + 0]
      BY <1>0, <2>2
    <3>2. xs # <<>>
      BY <2>2
    <3>3. QED
      BY <3>1, <3>2 DEF Part
  <2>5. QED
    BY <2>2, <2>3, <2>4 DEF TextOf, PieceOf, ls
<1>4. CASE \E k \in 1 .. n, f \in {"torn", "scrap"} :
             u = L!Unended(Append(SubSeq(ls, 1, k - 1), [ls[k] EXCEPT !.form = f]))
  <2>1. PICK k \in 1 .. n, f \in {"torn", "scrap"} :
             u = L!Unended(Append(SubSeq(ls, 1, k - 1), [ls[k] EXCEPT !.form = f]))
    BY <1>4
  <2> DEFINE c == [ls[k] EXCEPT !.form = f]
             front == SubSeq(ls, 1, k - 1)
             xs == Append(front, c)
  <2>2. c \in LinesOf(E) /\ ~Keyed(c)
    BY <1>0, CutForm
  <2>3. front \in Seq(LinesOf(E)) /\ Len(front) = k - 1 /\ \A i \in 1 .. k - 1 : front[i] = ls[i]
    <3>1. k - 1 \in 0 .. n
      BY <1>0
    <3>2. QED
      BY <1>0, <3>1, Prefix
  <2>4. u = [lines |-> xs, unended |-> TRUE]
    BY <2>1 DEF L!Unended
  <2> HIDE DEF c, front
  <2>5. xs \in Seq(LinesOf(E)) /\ Len(xs) = k /\ xs[k] = c /\ \A i \in 1 .. k - 1 : xs[i] = ls[i]
    BY <1>0, <2>2, <2>3
  <2> HIDE DEF xs
  <2>6. Part(xs, ls) /\ xs # <<>>
    <3>1. Len(xs) + 0 <= n /\ \A i \in 1 .. Len(xs) : xs[i] = ls[i + 0] \/ ~Keyed(xs[i])
      <4>1. \A i \in 1 .. Len(xs) : i = k \/ i \in 1 .. k - 1
        BY <1>0, <2>5
      <4>2. \A i \in 1 .. Len(xs) : i + 0 = i
        BY <1>0, <2>5
      <4>3. Len(xs) + 0 <= n
        BY <1>0, <2>5
      <4>4. QED
        BY <2>2, <2>5, <4>1, <4>2, <4>3
    <3>2. xs # <<>>
      BY <2>5
    <3>3. QED
      BY <3>1, <3>2 DEF Part
  <2>7. QED
    BY <2>4, <2>5, <2>6 DEF TextOf, PieceOf, ls
<1>5. QED
  BY <1>1, <1>2, <1>3, <1>4

\* Neither what is left of newer lines nor a copy is out of order.
LEMMA LeftoverIsPart ==
  ASSUME NEW E, lines \in Seq(LinesOf(E)), NEW t, NEW left \in L!Leftover(t)
  PROVE  left \in Seq(LinesOf(E)) /\ Part(left, lines)
<1> DEFINE n == Len(lines)
<1>0. n \in Nat /\ \A i \in 1 .. n : lines[i] \in LinesOf(E)
  OBVIOUS
<1>1. \/ left = lines
      \/ left = <<>>
      \/ \E k \in 2 .. n : left = L!From(k)
      \/ \E k \in 1 .. n, f \in {"torn", "scrap"} : left = L!CutAt(k, f)
  BY DEF L!Leftover
<1>2. CASE left = lines
  <2>1. Len(left) + 0 <= n /\ \A i \in 1 .. Len(left) : left[i] = lines[i + 0]
    BY <1>0, <1>2
  <2>2. QED
    BY <1>2, <2>1 DEF Part
<1>3. CASE left = <<>>
  <2>1. Len(left) + 0 <= n /\ \A i \in 1 .. Len(left) : left[i] = lines[i + 0]
    BY <1>0, <1>3
  <2>2. QED
    BY <1>3, <2>1 DEF Part
<1>4. ASSUME NEW k \in 2 .. n + 1
      PROVE  /\ L!From(k) \in Seq(LinesOf(E)) /\ Len(L!From(k)) = n - k + 1
             /\ \A i \in 1 .. n - k + 1 : L!From(k)[i] = lines[i + k - 1]
  <2>1. k \in 1 .. Len(lines) + 1
    BY <1>0
  <2>2. QED
    BY <2>1, Suffix DEF L!From
<1>5. CASE \E k \in 2 .. n : left = L!From(k)
  <2>1. PICK k \in 2 .. n : left = L!From(k)
    BY <1>5
  <2>2. k \in 2 .. n + 1 /\ k - 1 \in Nat
    BY <1>0
  <2>3. /\ left \in Seq(LinesOf(E)) /\ Len(left) = n - k + 1
        /\ \A i \in 1 .. n - k + 1 : left[i] = lines[i + k - 1]
    BY <1>4, <2>1, <2>2
  <2>4. Len(left) + (k - 1) <= n
    BY <1>0, <2>3
  <2>5. \A i \in 1 .. Len(left) : left[i] = lines[i + (k - 1)]
    <3>1. \A i \in 1 .. Len(left) : i \in 1 .. n - k + 1 /\ i + (k - 1) = i + k - 1
      BY <1>0, <2>3
    <3>2. QED
      BY <2>3, <3>1
  <2>6. QED
    BY <2>2, <2>3, <2>4, <2>5 DEF Part
<1>6. CASE \E k \in 1 .. n, f \in {"torn", "scrap"} : left = L!CutAt(k, f)
  <2>1. PICK k \in 1 .. n, f \in {"torn", "scrap"} : left = L!CutAt(k, f)
    BY <1>6
  <2> DEFINE c == [lines[k] EXCEPT !.form = f]
             one == <<c>>
             rest == L!From(k + 1)
  <2>2. c \in LinesOf(E) /\ ~Keyed(c)
    BY <1>0, CutForm
  <2>3. left = one \o rest
    BY <2>1 DEF L!CutAt
  <2>4. k + 1 \in 2 .. n + 1 /\ k - 1 \in Nat /\ k \in Nat
    BY <1>0
  <2>5. /\ rest \in Seq(LinesOf(E)) /\ Len(rest) = n - k
        /\ \A i \in 1 .. n - k : rest[i] = lines[i + k]
    <3>1. n - (k + 1) + 1 = n - k /\ \A i \in 1 .. n - k : i + (k + 1) - 1 = i + k
      BY <1>0, <2>4
    <3>2. QED
      BY <1>4, <2>4, <3>1
  <2> HIDE DEF c, rest
  <2>6. one \in Seq(LinesOf(E)) /\ Len(one) = 1 /\ one[1] = c
    BY <2>2
  <2> HIDE DEF one
  <2>7. /\ left \in Seq(LinesOf(E))
        /\ Len(left) = Len(one) + Len(rest)
        /\ \A i \in 1 .. Len(one) + Len(rest) :
             left[i] = IF i <= Len(one) THEN one[i] ELSE rest[i - Len(one)]
    BY <2>3, <2>5, <2>6, ConcatProperties
  <2>8. Len(left) + (k - 1) <= n
    BY <1>0, <2>4, <2>5, <2>6, <2>7
  <2>9. ASSUME NEW i \in 1 .. Len(left) PROVE left[i] = lines[i + (k - 1)] \/ ~Keyed(left[i])
    <3>1. CASE i = 1
      BY <2>2, <2>5, <2>6, <2>7, <3>1
    <3>2. CASE i # 1
      <4>1. i - 1 \in 1 .. n - k /\ (i - 1) + k = i + (k - 1)
        BY <1>0, <2>4, <2>5, <2>6, <2>7, <3>2
      <4>2. left[i] = rest[i - 1]
        <5>1. /\ Len(one) \in Nat /\ Len(rest) \in Nat /\ i \in 1 .. Len(one) + Len(rest)
              /\ ~(i <= Len(one)) /\ i - Len(one) = i - 1
          BY <2>5, <2>6, <2>7, <3>2
        <5>2. QED
          BY <2>7, <5>1
      <4>3. QED
        BY <2>5, <4>1, <4>2
    <3>3. QED
      BY <3>1, <3>2
  <2>10. QED
    BY <2>4, <2>7, <2>8, <2>9 DEF Part
<1>7. QED
  BY <1>1, <1>2, <1>3, <1>5, <1>6

\* xs is ys with one more element at k.
Widened(xs, ys, k, g) == /\ Len(xs) = Len(ys) + 1
                         /\ \A i \in 1 .. k - 1 : xs[i] = ys[i]
                         /\ xs[k] = g
                         /\ \A i \in k + 1 .. Len(ys) + 1 : xs[i] = ys[i - 1]

LEMMA Inserted ==
  ASSUME NEW S, NEW ys \in Seq(S), NEW k \in 1 .. Len(ys), NEW g \in S,
         NEW ls,
         ls = SubSeq(ys, 1, k - 1) \o <<g>> \o SubSeq(ys, k, Len(ys))
  PROVE  ls \in Seq(S) /\ Widened(ls, ys, k, g)
<1> DEFINE n == Len(ys)
           front == SubSeq(ys, 1, k - 1)
           one == <<g>>
           rest == SubSeq(ys, k, n)
           h == front \o one
           xs == h \o rest
<1>0. n \in Nat /\ k \in Nat /\ k > 0 /\ k - 1 \in 0 .. n /\ k \in 1 .. n + 1
  OBVIOUS
<1>1. ls = xs
  OBVIOUS
<1>2. front \in Seq(S) /\ Len(front) = k - 1 /\ \A i \in 1 .. k - 1 : front[i] = ys[i]
  BY <1>0, Prefix
<1>3. rest \in Seq(S) /\ Len(rest) = n - k + 1 /\ \A i \in 1 .. n - k + 1 : rest[i] = ys[i + k - 1]
  BY <1>0, Suffix
<1>4. one \in Seq(S) /\ Len(one) = 1 /\ one[1] = g
  OBVIOUS
<1> HIDE DEF front, one, rest, n
<1>5. /\ h \in Seq(S) /\ Len(h) = Len(front) + Len(one)
      /\ \A i \in 1 .. Len(front) + Len(one) :
           h[i] = IF i <= Len(front) THEN front[i] ELSE one[i - Len(front)]
  BY <1>2, <1>4, ConcatProperties
<1> HIDE DEF h
<1>6. Len(h) = k /\ h[k] = g /\ \A i \in 1 .. k - 1 : h[i] = ys[i]
  <2>1. Len(front) + Len(one) = k /\ k - Len(front) = 1 /\ ~(k <= Len(front)) /\ k \in 1 .. k
    BY <1>0, <1>2, <1>4
  <2>2. \A i \in 1 .. k - 1 : i \in 1 .. k /\ i <= Len(front)
    BY <1>0, <1>2
  <2>3. QED
    BY <1>2, <1>4, <1>5, <2>1, <2>2
<1>7. /\ xs \in Seq(S) /\ Len(xs) = Len(h) + Len(rest)
      /\ \A i \in 1 .. Len(h) + Len(rest) :
           xs[i] = IF i <= Len(h) THEN h[i] ELSE rest[i - Len(h)]
  <2>1. h \in Seq(S) /\ rest \in Seq(S)
    BY <1>3, <1>5
  <2>2. QED
    BY <2>1, ConcatProperties
<1> HIDE DEF xs
<1>8. Len(xs) = n + 1 /\ \A i \in 1 .. k : xs[i] = h[i]
  BY <1>0, <1>3, <1>6, <1>7
<1>9. ASSUME NEW i \in k + 1 .. n + 1 PROVE xs[i] = ys[i - 1]
  <2>1. i - k \in 1 .. n - k + 1 /\ (i - k) + k - 1 = i - 1
    BY <1>0
  <2>2. xs[i] = rest[i - k]
    BY <1>0, <1>3, <1>6, <1>7
  <2>3. QED
    BY <1>3, <2>1, <2>2
<1>10. (\A i \in 1 .. k - 1 : xs[i] = ys[i]) /\ xs[k] = g
  <2>1. k \in 1 .. k /\ \A i \in 1 .. k - 1 : i \in 1 .. k
    BY <1>0
  <2>2. QED
    BY <1>6, <1>8, <2>1
<1>11. /\ xs \in Seq(S) /\ Len(xs) = n + 1
       /\ \A i \in 1 .. k - 1 : xs[i] = ys[i]
       /\ xs[k] = g
       /\ \A i \in k + 1 .. n + 1 : xs[i] = ys[i - 1]
  BY <1>7, <1>8, <1>9, <1>10
<1>12. QED
  BY <1>1, <1>11 DEF n, Widened

LEMMA ChangedLine ==
  ASSUME NEW E, NEW line \in LinesOf(E)
  PROVE  LET c == [line EXCEPT !.event.command = "tampered"]
             o == [c EXCEPT !.open = TRUE]
             p == [o EXCEPT !.form = "torn"]
         IN /\ c \in LinesOf(E) /\ o \in LinesOf(E) /\ p \in LinesOf(E)
            /\ \A x \in {c, o, p} : x.event.by = line.event.by /\ x.event.n = line.event.n
            /\ (Keyed(c) => Keyed(line)) /\ (Keyed(o) => Keyed(line)) /\ ~Keyed(p)
            /\ (Workable(line) => Traced(c)) /\ Traced(o) /\ Traced(p)
<1> DEFINE e == [line.event EXCEPT !.command = "tampered"]
           c == [line EXCEPT !.event = e]
           o == [c EXCEPT !.open = TRUE]
           p == [o EXCEPT !.form = "torn"]
<1>1. line.event \in Fields
  BY DEF LinesOf
<1>2. e \in Fields /\ e.by = line.event.by /\ e.n = line.event.n /\ e.command = "tampered"
  BY <1>1 DEF Fields
<1>3. [line EXCEPT !.event.command = "tampered"] = c
  BY DEF LinesOf
<1> HIDE DEF e
<1>4. c \in LinesOf(E) /\ c.event = e /\ c.form = line.form /\ (line.open => c.open)
  BY <1>2 DEF LinesOf
<1> HIDE DEF c
<1>5. o \in LinesOf(E) /\ o.event = e /\ o.form = line.form /\ o.open
  BY <1>4 DEF LinesOf
<1> HIDE DEF o
<1>6. p \in LinesOf(E) /\ p.event = e /\ p.form = "torn" /\ p.open
  BY <1>5 DEF LinesOf, Forms
<1> HIDE DEF p
<1>7. /\ (Keyed(c) => Keyed(line)) /\ (Keyed(o) => Keyed(line)) /\ ~Keyed(p)
      /\ (Workable(line) => Traced(c)) /\ Traced(o) /\ Traced(p)
  BY <1>2, <1>4, <1>5, <1>6 DEF Keyed, Workable, Traced
<1>8. \A x \in {c, o, p} : x.event.by = line.event.by /\ x.event.n = line.event.n
  BY <1>2, <1>4, <1>5, <1>6
<1>9. QED
  BY <1>3, <1>4, <1>5, <1>6, <1>7, <1>8 DEF o, p

(* A copy in which a line was changed, or replaced by two.                 *)
LEMMA Changed ==
  ASSUME NEW E, cache \in Seq(LinesOf(E)), target \in 1 .. Len(cache),
         NEW c \in LinesOf(E), Keyed(c) => Keyed(cache[target]),
         c.event.by = cache[target].event.by, c.event.n = cache[target].event.n,
         InOrder(cache)
  PROVE  LET xs == [cache EXCEPT ![target] = c]
         IN /\ xs \in Seq(LinesOf(E)) /\ Len(xs) = Len(cache) /\ xs[target] = c
            /\ InOrder(xs) /\ Among(xs, cache)
<1> DEFINE xs == [cache EXCEPT ![target] = c]
           n == Len(cache)
<1>0. n \in Nat
  OBVIOUS
<1>1. /\ xs \in Seq(LinesOf(E)) /\ Len(xs) = n /\ xs[target] = c
      /\ \A i \in 1 .. n : i # target => xs[i] = cache[i]
  OBVIOUS
<1> HIDE DEF xs
<1>2. \A i \in 1 .. n : /\ xs[i].event.by = cache[i].event.by /\ xs[i].event.n = cache[i].event.n
                        /\ Keyed(xs[i]) => Keyed(cache[i])
  BY <1>1
<1>3. InOrder(xs)
  BY <1>1, <1>2 DEF InOrder
<1>4. Among(xs, cache)
  BY <1>1, <1>2 DEF Among
<1>5. QED
  BY <1>1, <1>3, <1>4 DEF xs

LEMMA Split ==
  ASSUME NEW E, NEW cs \in Seq(LinesOf(E)), NEW k \in 1 .. Len(cs),
         NEW p \in LinesOf(E), ~Keyed(p), InOrder(cs),
         NEW ys \in Seq(LinesOf(E)), Len(ys) = Len(cs), ys[k] = p,
         \A i \in 1 .. Len(cs) : i # k => ys[i] = cs[i],
         NEW xs \in Seq(LinesOf(E)), Widened(xs, ys, k, p)
  PROVE  /\ k \in 1 .. Len(xs) /\ xs[k] = p
         /\ InOrder(xs) /\ Among(xs, cs)
<1> DEFINE n == Len(cs)
<1>0. n \in Nat /\ k \in Nat /\ k > 0 /\ k <= n
  OBVIOUS
<1>1. /\ Len(ys) = n /\ ys[k] = p
      /\ \A i \in 1 .. n : i # k => ys[i] = cs[i]
  OBVIOUS
<1>2. /\ Len(xs) = n + 1
      /\ \A i \in 1 .. k - 1 : xs[i] = ys[i]
      /\ xs[k] = p
      /\ \A i \in k + 1 .. n + 1 : xs[i] = ys[i - 1]
  BY DEF Widened
<1> DEFINE from(i) == IF i < k THEN i ELSE i - 1
<1>3. ASSUME NEW i \in 1 .. n + 1, Keyed(xs[i])
      PROVE  from(i) \in 1 .. n /\ xs[i] = cs[from(i)] /\ i # k /\ i # k + 1
  <2>1. i # k
    BY <1>2, <1>3
  <2>2. i # k + 1
    BY <1>0, <1>1, <1>2, <1>3
  <2>3. CASE i < k
    BY <1>0, <1>1, <1>2, <2>1, <2>2, <2>3
  <2>4. CASE i > k + 1
    <3>1. i \in k + 1 .. n + 1 /\ i - 1 \in 1 .. n /\ i - 1 # k /\ ~(i < k)
      BY <1>0, <2>4
    <3>2. xs[i] = cs[i - 1]
      BY <1>1, <1>2, <3>1
    <3>3. QED
      BY <2>1, <2>2, <3>1, <3>2
  <2>5. QED
    BY <1>0, <2>1, <2>2, <2>3, <2>4
<1>4. Among(xs, cs)
  <2> HIDE DEF from
  <2>1. QED
    BY <1>2, <1>3 DEF Among
<1>5. ASSUME NEW i \in 1 .. n + 1, NEW j \in 1 .. n + 1, i < j, Keyed(xs[i]), Keyed(xs[j])
      PROVE  from(i) < from(j)
  BY <1>0, <1>3, <1>5
<1>6. ASSUME NEW i \in 1 .. Len(xs), NEW j \in 1 .. Len(xs), i < j,
             Keyed(xs[i]), Keyed(xs[j]), xs[i].event.by = xs[j].event.by
      PROVE  xs[i].event.n < xs[j].event.n
  <2> HIDE DEF from
  <2>1. i \in 1 .. n + 1 /\ j \in 1 .. n + 1
    BY <1>2
  <2>2. /\ xs[i] = cs[from(i)] /\ xs[j] = cs[from(j)] /\ from(i) < from(j)
        /\ from(i) \in 1 .. n /\ from(j) \in 1 .. n
    BY <1>3, <1>5, <1>6, <2>1
  <2>3. QED
    BY <1>6, <2>2 DEF InOrder
<1>7. QED
  BY <1>0, <1>2, <1>4, <1>6 DEF InOrder

LEMMA TamperedIs ==
  ASSUME NEW E, cache \in Seq(LinesOf(E)), target \in 1 .. Len(cache), Workable(cache[target]),
         InOrder(cache), NEW ls \in L!Tampered
  PROVE  /\ ls \in Seq(LinesOf(E)) /\ InOrder(ls) /\ Among(ls, cache)
         /\ target \in 1 .. Len(ls) /\ Traced(ls[target])
<1> DEFINE line == cache[target]
           c == [line EXCEPT !.event.command = "tampered"]
           o == [c EXCEPT !.open = TRUE]
           p == [o EXCEPT !.form = "torn"]
<1>1. line \in LinesOf(E) /\ target \in Nat /\ Len(cache) \in Nat
  OBVIOUS
<1>2. \/ ls = [cache EXCEPT ![target] = c]
      \/ ls = [cache EXCEPT ![target] = o]
      \/ ls = L!InsertAt([cache EXCEPT ![target] = p], target, p)
  BY DEF L!Tampered
<1>3. /\ c \in LinesOf(E) /\ o \in LinesOf(E) /\ p \in LinesOf(E)
      /\ \A x \in {c, o, p} : x.event.by = line.event.by /\ x.event.n = line.event.n
      /\ (Keyed(c) => Keyed(line)) /\ (Keyed(o) => Keyed(line)) /\ ~Keyed(p)
      /\ Traced(c) /\ Traced(o) /\ Traced(p)
  BY <1>1, ChangedLine
<1> HIDE DEF c, o, p
<1>4. CASE ls = [cache EXCEPT ![target] = c]
  BY <1>1, <1>3, <1>4, Changed
<1>5. CASE ls = [cache EXCEPT ![target] = o]
  BY <1>1, <1>3, <1>5, Changed
<1>6. CASE ls = L!InsertAt([cache EXCEPT ![target] = p], target, p)
  <2> DEFINE ys == [cache EXCEPT ![target] = p]
  <2>1. ls = SubSeq(ys, 1, target - 1) \o <<p>> \o SubSeq(ys, target, Len(ys))
    BY <1>6 DEF L!InsertAt
  <2>2. /\ ys \in Seq(LinesOf(E)) /\ Len(ys) = Len(cache) /\ ys[target] = p
        /\ \A i \in 1 .. Len(cache) : i # target => ys[i] = cache[i]
        /\ target \in 1 .. Len(ys) /\ p \in LinesOf(E)
    BY <1>1, <1>3
  <2> HIDE DEF ys, line
  <2>3. ls \in Seq(LinesOf(E)) /\ Widened(ls, ys, target, p)
    BY <2>1, <2>2, Inserted
  <2>4. /\ target \in 1 .. Len(ls) /\ ls[target] = p
        /\ InOrder(ls) /\ Among(ls, cache)
    BY <1>1, <1>3, <2>2, <2>3, Split
  <2>5. QED
    BY <1>3, <2>3, <2>4
<1>7. QED
  BY <1>2, <1>4, <1>5, <1>6

-----------------------------------------------------------------------------
(* The kinds of steps, with the numbers of the events they are about.      *)

OthersSame(w) == /\ \A v \in Writers \ {w} : Upto(v)' = Upto(v)
                 /\ UNCHANGED <<testerVars, marks>>

Given(w, e) == e.by = w /\ e.n = Upto(w) + 1

Skips(w) == L!NotOpened(w) /\ Upto(w)' = Upto(w) + 1 /\ OthersSame(w)

Takes(w, e) == L!Opened(w, e) /\ Given(w, e) /\ Upto(w)' = Upto(w) /\ OthersSame(w)

Appends(w) == L!Put(w) \/ L!PutHead(w)

Starts(w) == Appends(w) /\ Upto(w)' = Upto(w) + 1 /\ OthersSame(w)

Completes(w) == L!PutRest(w) /\ Upto(w)' = Upto(w) /\ OthersSame(w)

WritersSame == UNCHANGED writerVars /\ \A v \in Writers : Upto(v)' = Upto(v)

Kind == \/ \E w \in Writers : Skips(w) \/ (\E e \in EventSet : Takes(w, e))
        \/ \E w \in Writers : Starts(w) \/ Completes(w)
        \/ L!TesterStep /\ WritersSame
        \/ L!Clear /\ WritersSame
        \/ UNCHANGED logVars /\ WritersSame

LEMMA EventsGiven ==
  ASSUME Types
  PROVE  \A text : /\ RunEvent(text) \in EventSet
                   /\ RunEvent(text).by = "run" /\ RunEvent(text).n = ran + 1
                   /\ DaemonEvent(text) \in EventSet
                   /\ DaemonEvent(text).by = "daemon" /\ DaemonEvent(text).n = dispatched
<1>1. ran + 1 \in Nat /\ dispatched \in Nat /\ command \in Texts
  BY LocalAuditAssumption DEF Types, A!TypeOK, Texts
<1>2. ASSUME NEW by \in Writers, NEW n \in Nat, NEW c \in Texts, NEW d \in Texts,
             NEW long \in BOOLEAN
      PROVE  /\ Event(by, n, c, d, long) \in EventSet
             /\ Event(by, n, c, d, long).by = by
             /\ Event(by, n, c, d, long).n = n
  BY DEF Event, EventSet
<1>3. ASSUME NEW text
      PROVE  /\ RunEvent(text) \in EventSet
             /\ RunEvent(text).by = "run" /\ RunEvent(text).n = ran + 1
             /\ DaemonEvent(text) \in EventSet
             /\ DaemonEvent(text).by = "daemon" /\ DaemonEvent(text).n = dispatched
  <2> DEFINE c == IF text \in {"backslash", "quote", "newline"} THEN text ELSE "plain"
             d == CwdOf(text)
             long == text = "long"
  <2>1. /\ c \in Texts /\ long \in BOOLEAN /\ "run" \in Writers /\ "daemon" \in Writers
    BY DEF Texts, Writers
  <2>2. d \in Texts
    <3>1. CASE text = "dirBackslash"
      BY <3>1 DEF CwdOf, Texts
    <3>2. CASE text = "dirQuote"
      BY <3>2 DEF CwdOf, Texts
    <3>3. CASE text = "dirNewline"
      BY <3>3 DEF CwdOf, Texts
    <3>4. CASE text \notin {"dirBackslash", "dirQuote", "dirNewline"}
      BY <3>4 DEF CwdOf, Texts
    <3>5. QED
      BY <3>1, <3>2, <3>3, <3>4
  <2>3. /\ RunEvent(text) = Event("run", ran + 1, c, d, long)
        /\ DaemonEvent(text) = Event("daemon", dispatched, command, d, long)
    BY DEF RunEvent, DaemonEvent
  <2> HIDE DEF c, d, long
  <2>4. QED
    BY <1>1, <1>2, <2>1, <2>2, <2>3
<1>4. QED
  BY <1>3

LEMMA RunKind ==
  ASSUME Types, RunLogs
  PROVE  Kind
<1>0. /\ "run" \in Writers /\ wpc \in [Writers -> {"idle", "write", "rest"}]
      /\ ran \in Nat /\ dispatched \in Nat
  BY LocalAuditAssumption DEF Writers, Types, A!TypeOK
<1>1. UNCHANGED <<apc, dispatched, testerVars, marks>>
  BY DEF RunLogs, auditVars
<1>2. ASSUME NEW text, Begin("run", RunEvent(text)), ran' = ran + 1
      PROVE  Kind
  <2> DEFINE e == RunEvent(text)
  <2>1. e \in EventSet /\ e.by = "run" /\ e.n = ran + 1
    BY EventsGiven
  <2> HIDE DEF e
  <2>2. wpc["run"] = "idle" /\ Given("run", e)
    BY <1>0, <1>1, <1>2, <2>1 DEF Begin, L!NotOpened, L!Opened, Given, Upto, Count, e
  <2>3. CASE L!NotOpened("run")
    <3>1. wpc' = wpc
      BY <2>3 DEF L!NotOpened, L!writerVars
    <3>2. Upto("run")' = Upto("run") + 1 /\ OthersSame("run")
      BY <1>0, <1>1, <1>2, <2>2, <3>1 DEF Upto, Count, OthersSame, Writers
    <3>3. Skips("run")
      BY <2>3, <3>2 DEF Skips
    <3>4. QED
      BY <1>0, <3>3 DEF Kind
  <2>4. CASE L!Opened("run", e)
    <3>1. wpc' = [wpc EXCEPT !["run"] = "write"]
      BY <2>4 DEF L!Opened
    <3>2. Upto("run")' = Upto("run") /\ OthersSame("run")
      BY <1>0, <1>1, <1>2, <2>2, <3>1 DEF Upto, Count, OthersSame, Writers
    <3>3. Takes("run", e)
      BY <2>2, <2>4, <3>2 DEF Takes
    <3>4. QED
      BY <1>0, <2>1, <3>3 DEF Kind
  <2>5. QED
    BY <1>2, <2>3, <2>4 DEF Begin, e
<1>3. ASSUME Finish("run"), ran' = ran
      PROVE  Kind
  <2>1. CASE L!Put("run")
    <3>1. wpc["run"] = "write" /\ wpc' = [wpc EXCEPT !["run"] = "idle"]
      BY <2>1 DEF L!Put, L!Closes
    <3>2. Upto("run")' = Upto("run") + 1 /\ OthersSame("run")
      BY <1>0, <1>1, <1>3, <3>1 DEF Upto, Count, OthersSame, Writers
    <3>3. Starts("run")
      BY <2>1, <3>2 DEF Starts, Appends
    <3>4. QED
      BY <1>0, <3>3 DEF Kind
  <2>2. CASE L!PutHead("run")
    <3>1. wpc["run"] = "write" /\ wpc' = [wpc EXCEPT !["run"] = "rest"]
      BY <2>2 DEF L!PutHead
    <3>2. Upto("run")' = Upto("run") + 1 /\ OthersSame("run")
      BY <1>0, <1>1, <1>3, <3>1 DEF Upto, Count, OthersSame, Writers
    <3>3. Starts("run")
      BY <2>2, <3>2 DEF Starts, Appends
    <3>4. QED
      BY <1>0, <3>3 DEF Kind
  <2>3. CASE L!PutRest("run")
    <3>1. wpc["run"] = "rest" /\ wpc' = [wpc EXCEPT !["run"] = "idle"]
      BY <2>3 DEF L!PutRest, L!Closes
    <3>2. Upto("run")' = Upto("run") /\ OthersSame("run")
      BY <1>0, <1>1, <1>3, <3>1 DEF Upto, Count, OthersSame, Writers
    <3>3. Completes("run")
      BY <2>3, <3>2 DEF Completes
    <3>4. QED
      BY <1>0, <3>3 DEF Kind
  <2>4. QED
    BY <1>3, <2>1, <2>2, <2>3 DEF Finish
<1>4. QED
  BY <1>2, <1>3 DEF RunLogs

LEMMA DaemonKind ==
  ASSUME Types, DaemonLogs
  PROVE  Kind
<1>0. /\ "daemon" \in Writers /\ wpc \in [Writers -> {"idle", "write", "rest"}]
      /\ ran \in Nat /\ dispatched \in Nat
  BY LocalAuditAssumption DEF Writers, Types, A!TypeOK
<1>1. /\ apc = "callback" /\ UNCHANGED <<ran, dispatched, testerVars, marks>>
      /\ apc' = IF wpc'["daemon"] = "idle" THEN "read" ELSE "callback"
  BY DEF DaemonLogs, A!CallbackReturns, auditVars
<1>2. ASSUME NEW text, Begin("daemon", DaemonEvent(text))
      PROVE  Kind
  <2> DEFINE e == DaemonEvent(text)
  <2>1. e \in EventSet /\ e.by = "daemon" /\ e.n = dispatched
    BY EventsGiven
  <2> HIDE DEF e
  <2>2. wpc["daemon"] = "idle" /\ Given("daemon", e)
    BY <1>0, <1>1, <1>2, <2>1 DEF Begin, L!NotOpened, L!Opened, Given, Upto, Count, e
  <2>3. CASE L!NotOpened("daemon")
    <3>1. wpc' = wpc
      BY <2>3 DEF L!NotOpened, L!writerVars
    <3>2. Upto("daemon")' = Upto("daemon") + 1 /\ OthersSame("daemon")
      BY <1>0, <1>1, <1>2, <2>2, <3>1 DEF Upto, Count, OthersSame, Writers
    <3>3. Skips("daemon")
      BY <2>3, <3>2 DEF Skips
    <3>4. QED
      BY <1>0, <3>3 DEF Kind
  <2>4. CASE L!Opened("daemon", e)
    <3>1. wpc' = [wpc EXCEPT !["daemon"] = "write"]
      BY <2>4 DEF L!Opened
    <3>2. Upto("daemon")' = Upto("daemon") /\ OthersSame("daemon")
      BY <1>0, <1>1, <1>2, <2>2, <3>1 DEF Upto, Count, OthersSame, Writers
    <3>3. Takes("daemon", e)
      BY <2>2, <2>4, <3>2 DEF Takes
    <3>4. QED
      BY <1>0, <2>1, <3>3 DEF Kind
  <2>5. QED
    BY <1>2, <2>3, <2>4 DEF Begin, e
<1>3. ASSUME Finish("daemon")
      PROVE  Kind
  <2>1. CASE L!Put("daemon")
    <3>1. wpc["daemon"] = "write" /\ wpc' = [wpc EXCEPT !["daemon"] = "idle"]
      BY <2>1 DEF L!Put, L!Closes
    <3>2. Upto("daemon")' = Upto("daemon") + 1 /\ OthersSame("daemon")
      BY <1>0, <1>1, <1>3, <3>1 DEF Upto, Count, OthersSame, Writers
    <3>3. Starts("daemon")
      BY <2>1, <3>2 DEF Starts, Appends
    <3>4. QED
      BY <1>0, <3>3 DEF Kind
  <2>2. CASE L!PutHead("daemon")
    <3>1. wpc["daemon"] = "write" /\ wpc' = [wpc EXCEPT !["daemon"] = "rest"]
      BY <2>2 DEF L!PutHead
    <3>2. Upto("daemon")' = Upto("daemon") + 1 /\ OthersSame("daemon")
      BY <1>0, <1>1, <1>3, <3>1 DEF Upto, Count, OthersSame, Writers
    <3>3. Starts("daemon")
      BY <2>2, <3>2 DEF Starts, Appends
    <3>4. QED
      BY <1>0, <3>3 DEF Kind
  <2>3. CASE L!PutRest("daemon")
    <3>1. wpc["daemon"] = "rest" /\ wpc' = [wpc EXCEPT !["daemon"] = "idle"]
      BY <2>3 DEF L!PutRest, L!Closes
    <3>2. Upto("daemon")' = Upto("daemon") /\ OthersSame("daemon")
      BY <1>0, <1>1, <1>3, <3>1 DEF Upto, Count, OthersSame, Writers
    <3>3. Completes("daemon")
      BY <2>3, <3>2 DEF Completes
    <3>4. QED
      BY <1>0, <3>3 DEF Kind
  <2>4. QED
    BY <1>3, <2>1, <2>2, <2>3 DEF Finish
<1>4. QED
  BY <1>2, <1>3 DEF DaemonLogs

\* Only a step of the monitor gives the daemon an event.
LEMMA MonitorKind ==
  ASSUME Types, Monitor
  PROVE  Kind
<1> DEFINE InCallback == apc \in {"push", "callback", "blocked"}
<1>0. dispatched \in Nat
  BY LocalAuditAssumption DEF Types, A!TypeOK
<1>1. UNCHANGED <<ran, logVars>> /\ wpc["daemon"] = "idle"
  BY DEF Monitor, A!MonitorStep, A!Open, A!Read, A!Push, A!ReadFails, A!ParseExecve,
         A!ParseSyscall, A!ParsePath, A!ParseUserLogin, A!ParseAnomAbend,
         A!OtherRecord, A!GetReply, Types
<1>2. \/ ~InCallback /\ apc' = "push" /\ dispatched' = dispatched + 1
      \/ ~InCallback /\ apc' \in {"open", "read", "returned"} /\ dispatched' = dispatched
      \/ InCallback /\ apc' \in {"callback", "blocked"} /\ dispatched' = dispatched
  BY DEF Monitor, A!MonitorStep, A!Open, A!Read, A!Push, A!ReadFails, A!ParseExecve,
         A!ParseSyscall, A!ParsePath, A!ParseUserLogin, A!ParseAnomAbend,
         A!OtherRecord, A!GetReply, A!Ignore, A!Dispatch
<1>3. wpc' = wpc /\ ran' = ran
  BY <1>1 DEF logVars, writerVars
<1>4. Upto("run")' = Upto("run")
  BY <1>3 DEF Upto, Count
<1>5. Upto("daemon")' = Upto("daemon")
  BY <1>0, <1>1, <1>2, <1>3 DEF Upto, Count
<1>6. QED
  BY <1>1, <1>4, <1>5 DEF Kind, WritersSame, Writers, logVars, writerVars

LEMMA Kinds ==
  ASSUME Types, [Next]_vars
  PROVE  Kind
<1> USE DEF Upto, Count, WritersSame, writerVars
<1>1. CASE RunLogs
  BY <1>1, RunKind
<1>2. CASE DaemonLogs
  BY <1>2, DaemonKind
<1>3. CASE Monitor
  BY <1>3, MonitorKind
<1>4. CASE Kernel
  <2>1. UNCHANGED <<ran, logVars, apc, dispatched>>
    BY <1>4 DEF Kernel, A!Send
  <2>2. QED
    BY <2>1 DEF Kind, logVars
<1>5. CASE Tester
  <2>1. UNCHANGED <<ran, writerVars, apc, dispatched>> /\ L!TesterStep
    BY <1>5 DEF Tester, auditVars
  <2>2. QED
    BY <2>1 DEF Kind
<1>6. CASE Clear
  <2>1. UNCHANGED <<ran, writerVars, apc, dispatched>> /\ L!Clear
    BY <1>6 DEF Clear, auditVars
  <2>2. QED
    BY <2>1 DEF Kind
<1>7. CASE UNCHANGED vars
  <2>1. UNCHANGED <<ran, logVars, apc, dispatched>>
    BY <1>7 DEF vars, auditVars
  <2>2. QED
    BY <2>1 DEF Kind, logVars
<1>8. QED
  BY <1>1, <1>2, <1>3, <1>4, <1>5, <1>6, <1>7 DEF Next

-----------------------------------------------------------------------------
(* Types                                                                   *)

LEMMA AuditTypes ==
  ASSUME Types, [Next]_vars
  PROVE  /\ A!TypeOK' /\ ran' \in 0 .. MaxExecs
         /\ dispatched' + waiting' <= sent'
         /\ wpc'["daemon"] # "idle" => apc' = "callback"
<1> USE LocalAuditAssumption
<1>1. CASE RunLogs
  <2>1. UNCHANGED auditVars
    BY <1>1 DEF RunLogs
  <2>2. ran' \in 0 .. MaxExecs
    BY <1>1 DEF RunLogs, Types
  <2>3. wpc'["daemon"] = wpc["daemon"]
    <3>1. /\ wpc \in [Writers -> {"idle", "write", "rest"}] /\ "daemon" \in Writers
          /\ "daemon" # "run"
      BY DEF Types, Writers
    <3>2. \/ wpc' = wpc
          \/ wpc' = [wpc EXCEPT !["run"] = "write"]
          \/ wpc' = [wpc EXCEPT !["run"] = "idle"]
          \/ wpc' = [wpc EXCEPT !["run"] = "rest"]
      BY <1>1 DEF RunLogs, Begin, Finish, L!NotOpened, L!Opened, L!Put, L!PutHead, L!PutRest,
                  L!Closes, L!writerVars
    <3>3. QED
      BY <3>1, <3>2
  <2>4. QED
    BY <2>1, <2>2, <2>3 DEF auditVars, A!TypeOK, Types
<1>2. CASE DaemonLogs
  <2>1. ran' = ran /\ apc = "callback"
    BY <1>2 DEF DaemonLogs
  <2>2. \/ A!CallbackReturns /\ wpc'["daemon"] = "idle"
        \/ UNCHANGED auditVars
    BY <1>2 DEF DaemonLogs
  <2>3. CASE A!CallbackReturns /\ wpc'["daemon"] = "idle"
    BY <2>1, <2>3 DEF A!CallbackReturns, A!TypeOK, Types
  <2>4. CASE UNCHANGED auditVars
    BY <2>1, <2>4 DEF auditVars, A!TypeOK, Types
  <2>5. QED
    BY <2>2, <2>3, <2>4
<1>3. CASE Monitor
  <2>1. ran' = ran /\ wpc' = wpc /\ A!MonitorStep
    BY <1>3 DEF Monitor, logVars, writerVars
  <2>2. CASE A!Open
    BY <2>1, <2>2 DEF A!Open, A!TypeOK, Types
  <2>3. CASE A!ReadFails
    BY <2>1, <2>3 DEF A!ReadFails, A!TypeOK, Types
  <2>4. CASE A!Push
    BY <2>1, <2>4 DEF A!Push, A!TypeOK, Types
  <2>5. CASE A!Read
    <3>1. A!GetReply
      BY <2>5 DEF A!Read, A!ParseExecve, A!ParseSyscall, A!ParsePath, A!ParseUserLogin,
                  A!ParseAnomAbend, A!OtherRecord
    <3>2. A!Ignore \/ \E c \in {"plain", "quote"} : A!Dispatch(c)
      BY <2>5 DEF A!Read, A!ParseExecve, A!ParseSyscall, A!ParsePath, A!ParseUserLogin,
                  A!ParseAnomAbend, A!OtherRecord
    <3>3. \/ A!Ignore
          \/ apc' = "push" /\ dispatched' = dispatched + 1 /\ command' \in {"plain", "quote"}
      BY <3>2 DEF A!Dispatch
    <3>4. QED
      BY <2>1, <3>1, <3>3 DEF A!GetReply, A!Ignore, A!TypeOK, Types
  <2>6. QED
    BY <2>1, <2>2, <2>3, <2>4, <2>5 DEF A!MonitorStep
<1>4. CASE Kernel
  <2>1. ran' = ran /\ wpc' = wpc /\ A!Send
    BY <1>4 DEF Kernel, logVars, writerVars
  <2>2. /\ sent' = sent + 1 /\ sent < MaxRecords
        /\ UNCHANGED <<apc, dispatched, command>>
        /\ \/ waiting < Backlog /\ waiting' = waiting + 1 /\ overflowed' = overflowed
           \/ overflowed' = TRUE /\ waiting' = waiting
    BY <2>1 DEF A!Send
  <2>3. overflowed' \in BOOLEAN
    BY <2>2 DEF A!TypeOK, Types
  <2>4. /\ sent' \in 0 .. MaxRecords /\ waiting' \in 0 .. Backlog
        /\ dispatched' + waiting' <= sent'
    BY <2>2 DEF A!TypeOK, Types
  <2>5. QED
    BY <2>1, <2>2, <2>3, <2>4 DEF A!TypeOK, Types
<1>5. CASE Tester \/ Clear \/ UNCHANGED vars
  <2>1. ran' = ran /\ wpc' = wpc /\ UNCHANGED auditVars
    BY <1>5 DEF Tester, Clear, vars, logVars, writerVars
  <2>2. QED
    BY <2>1 DEF auditVars, A!TypeOK, Types
<1>6. QED
  BY <1>1, <1>2, <1>3, <1>4, <1>5 DEF Next

(* The parts of Types that are about the log.                              *)
InodeTypes == made \in Nat /\ inode \in 0 .. made

WriterTypes ==
  /\ wpc \in [Writers -> {"idle", "write", "rest"}]
  /\ fd \in [Writers -> Nat]
  /\ ev \in [Writers -> EventSet \cup {Nothing}]
  /\ \A w \in Writers : /\ wpc[w] = "idle" <=> fd[w] = 0
                        /\ fd[w] <= made
                        /\ wpc[w] # "idle" => ev[w] \in EventSet /\ ev[w].by = w
                        /\ wpc[w] = "rest" => ev[w].long
  /\ written \subseteq EventSet /\ cut \subseteq EventSet

TesterTypes ==
  /\ tpc \in {"start", "count", "tamper", "truncate", "rewrite", "check", "done", "crashed"}
  /\ tfd \in 0 .. made
  /\ Len(cache) <= MaxCached
  /\ target \in Nat
  /\ tampered \in BOOLEAN /\ short \in BOOLEAN /\ cleared \in BOOLEAN
  /\ short => tampered
  /\ tpc \in {"start", "count", "tamper", "truncate"} => ~tampered
  /\ tpc = "rewrite" => tampered /\ ~short /\ tfd # 0
  /\ tpc = "rewrite" => tfd = inode \/ cleared

LEMMA Opening ==
  ASSUME Types, L!Creates
  PROVE  /\ made' \in Nat /\ inode' = L!Handle /\ inode' \in 1 .. made' /\ made <= made'
         /\ inode # 0 => inode' = inode
         /\ inode = 0 => inode' = made'
         /\ inode = 0 => made' = made + 1
BY DEF Types, L!Creates, L!Handle

\* A write is the last of its event, or another follows.
Ends(w) == wpc[w] # "idle" /\ L!Closes(w)

Goes(w) == /\ wpc[w] = "write" /\ ev[w].long
           /\ wpc' = [wpc EXCEPT ![w] = "rest"]
           /\ UNCHANGED <<fd, ev, written>>

LEMMA WriteShape ==
  ASSUME NEW w \in Writers, Starts(w) \/ Completes(w)
  PROVE  /\ Ends(w) \/ Goes(w)
         /\ cut' = cut \/ cut' = cut \cup {ev[w]}
         /\ inode' = inode /\ made' = made
         /\ UNCHANGED <<testerVars, marks>>
BY DEF Starts, Completes, OthersSame, Appends, L!Put, L!PutHead, L!PutRest, L!Outputs, L!Writes,
       Ends, Goes

LEMMA InodeStep ==
  ASSUME Types, Kind
  PROVE  /\ InodeTypes' /\ made <= made'
         /\ inode' = inode \/ inode = 0 \/ (inode' = 0 /\ cleared')
<1>0. made \in Nat /\ inode \in 0 .. made
  BY DEF Types
<1>1. CASE UNCHANGED <<inode, made>>
  BY <1>0, <1>1 DEF InodeTypes
<1>2. CASE L!Creates
  BY <1>2, Opening DEF InodeTypes
<1>3. CASE L!Clear
  BY <1>0, <1>3 DEF L!Clear, InodeTypes
<1>4. ASSUME NEW w \in Writers, Skips(w) \/ (\E e \in EventSet : Takes(w, e))
      PROVE  UNCHANGED <<inode, made>> \/ L!Creates
  BY <1>4 DEF Skips, Takes, L!NotOpened, L!Opened, L!OpenToAppend, L!fileVars
<1>5. ASSUME L!TesterStep
      PROVE  UNCHANGED <<inode, made>> \/ L!Creates
  BY <1>5 DEF L!TesterStep, L!AskGateway, L!CountLines, L!FindTarget, L!Truncate, L!Rewrite,
              L!Check, L!OpenToRewrite, L!fileVars
<1>6. QED
  BY <1>1, <1>2, <1>3, <1>4, <1>5, WriteShape DEF Kind, logVars

LEMMA WriterTypesStep ==
  ASSUME Types, Kind
  PROVE  WriterTypes'
<1>0. made \in Nat /\ made' \in Nat /\ made <= made'
  BY InodeStep DEF Types, InodeTypes
<1> DEFINE Stages == {"idle", "write", "rest"}
<1>1. CASE UNCHANGED writerVars
  BY <1>0, <1>1 DEF writerVars, Types, WriterTypes
<1>2. ASSUME NEW w \in Writers, NEW e \in EventSet, Takes(w, e)
      PROVE  WriterTypes'
  <2>1. /\ wpc' = [wpc EXCEPT ![w] = "write"]
        /\ fd' = [fd EXCEPT ![w] = L!Handle]
        /\ ev' = [ev EXCEPT ![w] = e]
        /\ UNCHANGED <<written, cut>>
        /\ e.by = w /\ L!Creates
    BY <1>2 DEF Takes, Given, L!Opened, L!OpenToAppend
  <2>2. L!Handle \in Nat /\ L!Handle # 0 /\ L!Handle <= made'
    BY <2>1, Opening
  <2>3. /\ wpc' \in [Writers -> Stages] /\ fd' \in [Writers -> Nat]
        /\ ev' \in [Writers -> EventSet \cup {Nothing}]
    BY <2>1, <2>2 DEF Types
  <2>4. wpc'[w] = "write" /\ fd'[w] = L!Handle /\ ev'[w] = e
    BY <2>1 DEF Types
  <2>5. \A v \in Writers \ {w} : wpc'[v] = wpc[v] /\ fd'[v] = fd[v] /\ ev'[v] = ev[v]
    BY <2>1 DEF Types
  <2>6. ASSUME NEW v \in Writers
        PROVE  /\ wpc'[v] = "idle" <=> fd'[v] = 0
               /\ fd'[v] <= made'
               /\ wpc'[v] # "idle" => ev'[v] \in EventSet /\ ev'[v].by = v
               /\ wpc'[v] = "rest" => ev'[v].long
    <3>1. CASE v = w
      BY <2>1, <2>2, <2>4, <3>1
    <3>2. CASE v # w
      BY <1>0, <2>5, <3>2 DEF Types
    <3>3. QED
      BY <3>1, <3>2
  <2>7. QED
    BY <2>1, <2>3, <2>6 DEF Types, WriterTypes
<1>3. ASSUME NEW w \in Writers, Starts(w) \/ Completes(w)
      PROVE  WriterTypes'
  <2>1. Ends(w) \/ Goes(w)
    BY <1>3, WriteShape
  <2>2. cut' = cut \/ cut' = cut \cup {ev[w]}
    BY <1>3, WriteShape
  <2>3. cut' \subseteq EventSet
    BY <2>1, <2>2 DEF Types, Ends, Goes
  <2>4. CASE Ends(w)
    <3>1. /\ wpc' = [wpc EXCEPT ![w] = "idle"]
          /\ fd' = [fd EXCEPT ![w] = 0]
          /\ ev' = [ev EXCEPT ![w] = Nothing]
          /\ written' = written \cup ({ev[w]} \ cut')
      BY <2>4 DEF Ends, L!Closes
    <3>2. /\ wpc' \in [Writers -> Stages] /\ fd' \in [Writers -> Nat]
          /\ ev' \in [Writers -> EventSet \cup {Nothing}]
      BY <3>1 DEF Types
    <3>3. written' \subseteq EventSet
      BY <2>4, <3>1 DEF Types, Ends
    <3>4. wpc'[w] = "idle" /\ fd'[w] = 0
      BY <3>1 DEF Types
    <3>5. \A v \in Writers \ {w} : wpc'[v] = wpc[v] /\ fd'[v] = fd[v] /\ ev'[v] = ev[v]
      BY <3>1 DEF Types
    <3>6. ASSUME NEW v \in Writers
          PROVE  /\ wpc'[v] = "idle" <=> fd'[v] = 0
                 /\ fd'[v] <= made'
                 /\ wpc'[v] # "idle" => ev'[v] \in EventSet /\ ev'[v].by = v
                 /\ wpc'[v] = "rest" => ev'[v].long
      <4>1. CASE v = w
        BY <1>0, <3>4, <4>1
      <4>2. CASE v # w
        BY <1>0, <3>5, <4>2 DEF Types
      <4>3. QED
        BY <4>1, <4>2
    <3>7. QED
      BY <2>3, <3>2, <3>3, <3>6 DEF WriterTypes
  <2>5. CASE Goes(w)
    <3>1. wpc' \in [Writers -> Stages]
      BY <2>5 DEF Types, Goes
    <3>2. ASSUME NEW v \in Writers
          PROVE  /\ wpc'[v] = "idle" <=> fd'[v] = 0
                 /\ fd'[v] <= made'
                 /\ wpc'[v] # "idle" => ev'[v] \in EventSet /\ ev'[v].by = v
                 /\ wpc'[v] = "rest" => ev'[v].long
      BY <1>0, <2>5 DEF Types, Goes
    <3>3. QED
      BY <2>3, <2>5, <3>1, <3>2 DEF Types, WriterTypes, Goes
  <2>6. QED
    BY <2>1, <2>4, <2>5
<1>4. QED
  BY <1>1, <1>2, <1>3 DEF Kind, WritersSame, Skips, L!NotOpened, L!writerVars, writerVars, logVars

LEMMA ReadableLength ==
  ASSUME Types, NEW S, lines \in Seq(S)
  PROVE  /\ L!Readable \in Seq(S) /\ Len(L!Readable) <= MaxCached
         /\ Len(L!Readable) <= Len(lines)
         /\ \A i \in 1 .. Len(L!Readable) : L!Readable[i] = lines[i]
         /\ Len(L!Readable) = Len(lines) \/ Len(L!Readable) = MaxCached
<1> DEFINE k == IF Len(lines) < MaxCached THEN Len(lines) ELSE MaxCached
<1>1. k \in 0 .. Len(lines) /\ k <= MaxCached /\ (k = Len(lines) \/ k = MaxCached)
  BY LocalAuditAssumption
<1>2. L!Readable = SubSeq(lines, 1, k)
  BY DEF L!Readable
<1> HIDE DEF k
<1>3. QED
  BY <1>1, <1>2, Prefix

LEMMA TesterTypesStep ==
  ASSUME Types, HashesKnown, Kind
  PROVE  TesterTypes'
<1>0. /\ made \in Nat /\ made' \in Nat /\ made <= made'
      /\ inode' = inode \/ inode = 0 \/ (inode' = 0 /\ cleared')
  BY InodeStep DEF Types, InodeTypes
<1>1. CASE UNCHANGED <<testerVars, marks>>
  BY <1>0, <1>1 DEF Types, TesterTypes, testerVars, marks
<1>2. CASE L!TesterStep
  <2>0. lines \in Seq(LinesOf(L!Events))
    BY DEF HashesKnown, TextOf, PieceOf, L!File
  <2>1. Len(L!Readable) <= MaxCached /\ Len(L!Readable) \in Nat
    BY <2>0, ReadableLength
  <2>2. CASE L!AskGateway
    BY <1>0, <2>2 DEF L!AskGateway, L!GetIntoNull, L!fileVars, L!marks, Types, TesterTypes
  <2>3. CASE L!CountLines
    BY <1>0, <2>1, <2>3 DEF L!CountLines, L!fileVars, L!marks, Types, TesterTypes
  <2>4. CASE L!FindTarget
    BY <1>0, <2>1, <2>4 DEF L!FindTarget, L!fileVars, L!marks, Types, TesterTypes
  <2>5. CASE L!Truncate
    <3>0. UNCHANGED <<cache, target, short, cleared>> /\ tpc = "truncate"
      BY <2>5 DEF L!Truncate
    <3>1. CASE tpc' = "check" /\ UNCHANGED <<L!fileVars, tfd, tampered>>
      BY <1>0, <3>0, <3>1 DEF Types, TesterTypes
    <3>2. CASE /\ L!OpenToRewrite
               /\ tfd' = L!Handle /\ tampered' = TRUE /\ tpc' = "rewrite"
      <4>1. L!Handle \in 1 .. made' /\ inode' = L!Handle
        BY <3>2, Opening DEF L!OpenToRewrite
      <4>2. tampered' \in BOOLEAN /\ ~tampered
        BY <3>0, <3>2 DEF Types
      <4>3. QED
        BY <1>0, <3>0, <3>2, <4>1, <4>2 DEF Types, TesterTypes
    <3>3. QED
      BY <2>5, <3>1, <3>2 DEF L!Truncate
  <2>6. CASE L!Rewrite
    <3>1. /\ tpc = "rewrite" /\ tpc' = "check" /\ tfd' = 0
          /\ UNCHANGED <<inode, made, cache, target, tampered, cleared>>
          /\ short' = short \/ short' = TRUE
      BY <2>6 DEF L!Rewrite
    <3>2. short' \in BOOLEAN
      BY <3>1 DEF Types
    <3>3. QED
      BY <1>0, <3>1, <3>2 DEF Types, TesterTypes
  <2>7. CASE L!Check
    <3>1. Len(cache') = 0
      BY <2>7 DEF L!Check
    <3>2. QED
      BY <1>0, <2>7, <3>1, LocalAuditAssumption DEF L!Check, L!fileVars, L!marks, Types, TesterTypes
  <2>8. QED
    BY <1>2, <2>2, <2>3, <2>4, <2>5, <2>6, <2>7 DEF L!TesterStep
<1>3. CASE L!Clear
  <2>1. UNCHANGED <<tpc, tfd, cache, target, tampered, short>> /\ cleared' = TRUE
    BY <1>3 DEF L!Clear, L!testerVars
  <2>2. cleared' \in BOOLEAN
    BY <2>1
  <2>3. QED
    BY <1>0, <2>1, <2>2 DEF Types, TesterTypes
<1>4. QED
  BY <1>1, <1>2, <1>3 DEF Kind, Skips, Takes, Starts, Completes, OthersSame, logVars

LEMMA TypesStep ==
  ASSUME Types, HashesKnown, [Next]_vars
  PROVE  Types'
<1>1. Kind
  BY Kinds
<1>2. InodeTypes' /\ WriterTypes' /\ TesterTypes'
  BY <1>1, InodeStep, WriterTypesStep, TesterTypesStep
<1>3. QED
  BY <1>2, AuditTypes DEF Types, InodeTypes, WriterTypes, TesterTypes

-----------------------------------------------------------------------------
(* Events and their numbers                                                *)

LEMMA EventsGrow ==
  ASSUME Types, Types', Kind
  PROVE  L!Events \subseteq L!Events' /\ L!Events' \subseteq EventSet
<1>1. L!Events' \subseteq EventSet
  <2>1. \A w \in Writers : wpc'[w] # "idle" => ev'[w] \in EventSet
    BY DEF Types
  <2>2. written' \subseteq EventSet /\ cut' \subseteq EventSet
    BY DEF Types
  <2>3. QED
    BY <2>1, <2>2 DEF L!Events
<1>2. CASE UNCHANGED writerVars
  BY <1>1, <1>2 DEF L!Events, writerVars
<1>3. ASSUME NEW w \in Writers, NEW e \in EventSet, Takes(w, e)
      PROVE  L!Events \subseteq L!Events'
  BY <1>3 DEF Types, Takes, L!Opened, L!Events
<1>4. ASSUME NEW w \in Writers, Starts(w) \/ Completes(w)
      PROVE  L!Events \subseteq L!Events'
  <2>1. /\ Ends(w) \/ Goes(w)
        /\ cut' = cut \/ cut' = cut \cup {ev[w]}
    BY <1>4, WriteShape
  <2>2. CASE Ends(w)
    <3>1. written' = written \cup ({ev[w]} \ cut')
      BY <2>2 DEF Ends, L!Closes
    <3>2. written \subseteq written' /\ cut \subseteq cut' /\ ev[w] \in written' \cup cut'
      BY <2>1, <3>1
    <3>3. \A v \in Writers \ {w} : wpc'[v] = wpc[v] /\ ev'[v] = ev[v]
      BY <2>2 DEF Ends, L!Closes, Types
    <3>4. QED
      BY <3>2, <3>3 DEF L!Events
  <2>3. CASE Goes(w)
    <3>1. /\ written' = written /\ cut \subseteq cut' /\ ev' = ev
          /\ \A v \in Writers : wpc[v] # "idle" => wpc'[v] # "idle"
      BY <2>1, <2>3 DEF Goes, Types
    <3>2. QED
      BY <3>1 DEF L!Events
  <2>4. QED
    BY <2>1, <2>2, <2>3
<1>5. QED
  BY <1>1, <1>2, <1>3, <1>4 DEF Kind, WritersSame, Skips, L!NotOpened, L!writerVars, writerVars, logVars

LEMMA Numbers ==
  ASSUME Types
  PROVE  \A w \in Writers : Upto(w) \in Int
BY LocalAuditAssumption DEF Types, A!TypeOK, Upto, Count

LEMMA UptoGrows ==
  ASSUME Types, Types', Kind
  PROVE  \A w \in Writers : Upto(w)' = Upto(w) \/ Upto(w)' = Upto(w) + 1
BY Numbers DEF Kind, Skips, Takes, Starts, Completes, WritersSame, OthersSame

LEMMA NumberedStep ==
  ASSUME Types, Types', Kind, Numbered
  PROVE  Numbered'
<1>0. \A v \in Writers : Upto(v) \in Int /\ (Upto(v)' = Upto(v) \/ Upto(v)' = Upto(v) + 1)
  BY Numbers, UptoGrows
<1>e. \A e \in written \cup cut : e.by \in Writers /\ e.n \in Nat
  BY DEF Types, EventSet
<1>1. CASE UNCHANGED writerVars /\ (\A v \in Writers : Upto(v)' = Upto(v))
  BY <1>e, <1>1 DEF Numbered, writerVars
<1>2. ASSUME NEW w \in Writers, Skips(w)
      PROVE  Numbered'
  <2>1. /\ wpc[w] = "idle" /\ UNCHANGED <<wpc, ev, written, cut>>
        /\ \A v \in Writers \ {w} : Upto(v)' = Upto(v)
    BY <1>2 DEF Skips, OthersSame, L!NotOpened, L!writerVars
  <2>2. ASSUME NEW e \in written' \cup cut'
        PROVE  e.n <= Upto(e.by)'
    BY <1>0, <1>e, <2>1, <2>2 DEF Numbered
  <2>3. QED
    BY <2>1, <2>2 DEF Numbered
<1>3. ASSUME NEW w \in Writers, NEW e \in EventSet, Takes(w, e)
      PROVE  Numbered'
  <2>1. /\ wpc' = [wpc EXCEPT ![w] = "write"] /\ ev' = [ev EXCEPT ![w] = e]
        /\ UNCHANGED <<written, cut>>
        /\ e.by = w /\ e.n = Upto(w) + 1
        /\ \A v \in Writers : Upto(v)' = Upto(v)
    BY <1>3 DEF Takes, Given, OthersSame, L!Opened
  <2>2. \A v \in Writers \ {w} : wpc'[v] = wpc[v] /\ ev'[v] = ev[v]
    BY <2>1 DEF Types
  <2>3. wpc'[w] = "write" /\ ev'[w] = e
    BY <2>1 DEF Types
  <2>4. e \notin written
    BY <1>0, <2>1 DEF Numbered
  <2>5. \A x \in written \cup cut : x.n <= Upto(x.by)'
    BY <1>e, <2>1 DEF Numbered
  <2>6. QED
    BY <2>1, <2>2, <2>3, <2>4, <2>5 DEF Numbered
<1>4. ASSUME NEW w \in Writers, Starts(w) \/ Completes(w)
      PROVE  Numbered'
  <2>1. /\ Ends(w) \/ Goes(w)
        /\ cut' = cut \/ cut' = cut \cup {ev[w]}
    BY <1>4, WriteShape
  <2>2. \A v \in Writers \ {w} : Upto(v)' = Upto(v)
    BY <1>4 DEF Starts, Completes, OthersSame
  <2>3. wpc[w] # "idle" /\ ev[w] \in EventSet /\ ev[w].by = w /\ ev[w] \notin written
    BY <2>1 DEF Ends, Goes, Numbered, Types
  <2>4. Upto(w)' = ev[w].n
    <3>1. CASE Starts(w)
      BY <3>1 DEF Starts, Appends, L!Put, L!PutHead, Numbered
    <3>2. CASE Completes(w)
      BY <3>2 DEF Completes, L!PutRest, Numbered
    <3>3. QED
      BY <1>4, <3>1, <3>2
  <2>5. /\ \A v \in Writers \ {w} : wpc'[v] = wpc[v] /\ ev'[v] = ev[v]
        /\ written' = written \cup ({ev[w]} \ cut') \/ written' = written
        /\ wpc'[w] = "idle" \/ (wpc'[w] = "rest" /\ ev'[w] = ev[w] /\ written' = written)
    BY <2>1 DEF Ends, Goes, L!Closes, Types
  <2>6. \A x \in written' \cup cut' : x = ev[w] \/ x \in written \cup cut
    BY <2>1, <2>5
  <2>7. ASSUME NEW x \in written' \cup cut'
        PROVE  x.n <= Upto(x.by)'
    <3>1. CASE x = ev[w]
      <4>1. x.n \in Nat
        BY <2>3, <3>1 DEF EventSet
      <4>2. QED
        BY <2>3, <2>4, <3>1, <4>1
    <3>2. CASE x \in written \cup cut
      <4>1. x.n <= Upto(x.by) /\ x.by \in Writers /\ x.n \in Nat
        BY <1>e, <3>2 DEF Numbered
      <4>2. QED
        BY <1>0, <4>1
    <3>3. QED
      BY <2>6, <3>1, <3>2
  <2>8. cut' \cap written' = {}
    BY <2>1, <2>3, <2>5 DEF Numbered
  <2>9. ASSUME NEW v \in Writers
        PROVE  /\ wpc'[v] = "write" => ev'[v].n = Upto(v)' + 1
               /\ wpc'[v] = "rest" => ev'[v].n = Upto(v)'
               /\ wpc'[v] # "idle" => ev'[v] \notin written'
    <3>1. CASE v = w
      BY <2>3, <2>4, <2>5, <3>1
    <3>2. CASE v # w
      <4>1. wpc[v] # "idle" => ev[v] # ev[w]
        BY <2>3, <3>2 DEF Types
      <4>2. QED
        BY <2>2, <2>5, <3>2, <4>1 DEF Numbered
    <3>3. QED
      BY <3>1, <3>2
  <2>10. QED
    BY <2>7, <2>8, <2>9 DEF Numbered
<1>5. QED
  BY <1>1, <1>2, <1>3, <1>4 DEF Kind, WritersSame, writerVars, logVars

-----------------------------------------------------------------------------
(* What the steps make of the file                                         *)

\* The lines of u that can count as event e.
About(u, by, n) == \A i \in 1 .. Len(u.lines) :
                     Keyed(u.lines[i]) => u.lines[i].event.by = by /\ u.lines[i].event.n = n

LEMMA WholeTexts ==
  ASSUME NEW E \in SUBSET EventSet, NEW e \in E
  PROVE  /\ L!Ended(L!to_json(e)) \in TextOf(E) /\ InOrder(L!to_json(e))
         /\ About(L!Ended(L!to_json(e)), e.by, e.n)
         /\ \A f \in Forms : /\ L!Ended(<<L!Line(e, f)>>) \in TextOf(E)
                             /\ L!Unended(<<L!Line(e, f)>>) \in TextOf(E)
                             /\ InOrder(<<L!Line(e, f)>>)
                             /\ About(L!Ended(<<L!Line(e, f)>>), e.by, e.n)
                             /\ About(L!Unended(<<L!Line(e, f)>>), e.by, e.n)
<1>1. ASSUME NEW f \in Forms
      PROVE  /\ L!Ended(<<L!Line(e, f)>>) \in TextOf(E)
             /\ L!Unended(<<L!Line(e, f)>>) \in TextOf(E)
             /\ InOrder(<<L!Line(e, f)>>)
             /\ About(L!Ended(<<L!Line(e, f)>>), e.by, e.n)
             /\ About(L!Unended(<<L!Line(e, f)>>), e.by, e.n)
  <2> DEFINE x == L!Line(e, f)
  <2>1. x \in LinesOf(E) /\ x.event = e
    BY LineIsLine
  <2> HIDE DEF x
  <2>2. <<x>> \in Seq(LinesOf(E)) /\ <<x>> # <<>> /\ Len(<<x>>) = 1 /\ <<x>>[1] = x
    BY <2>1
  <2>3. InOrder(<<x>>)
    BY <2>2 DEF InOrder
  <2>4. L!Ended(<<x>>) \in TextOf(E) /\ L!Unended(<<x>>) \in TextOf(E)
    BY <2>2 DEF L!Ended, L!Unended, TextOf, PieceOf
  <2>5. About(L!Ended(<<x>>), e.by, e.n) /\ About(L!Unended(<<x>>), e.by, e.n)
    BY <2>1, <2>2 DEF About, L!Ended, L!Unended
  <2>6. QED
    BY <2>3, <2>4, <2>5 DEF x
<1>2. CASE "newline" \in {e.command, e.cwd}
  <2> DEFINE x == L!Line(e, "torn")
             xs == <<x, x>>
  <2>1. x \in LinesOf(E) /\ x.form = "torn"
    BY LineIsLine DEF Forms
  <2>2. L!to_json(e) = xs
    BY <1>2 DEF L!to_json
  <2> HIDE DEF x
  <2>3. xs \in Seq(LinesOf(E)) /\ Len(xs) = 2 /\ \A i \in 1 .. 2 : xs[i] = x
    BY <2>1
  <2>4. ~Keyed(x)
    BY <2>1 DEF Keyed
  <2> HIDE DEF xs
  <2>5. InOrder(xs)
    BY <2>3, <2>4 DEF InOrder
  <2>6. L!Ended(xs) \in TextOf(E) /\ About(L!Ended(xs), e.by, e.n)
    BY <2>3, <2>4 DEF L!Ended, TextOf, PieceOf, About
  <2>7. QED
    BY <1>1, <2>2, <2>5, <2>6
<1>3. CASE "newline" \notin {e.command, e.cwd}
  <2>1. L!to_json(e) = <<L!Line(e, "whole")>>
    BY <1>3 DEF L!to_json
  <2>2. "whole" \in Forms
    BY DEF Forms
  <2>3. QED
    BY <1>1, <2>1, <2>2
<1>4. QED
  BY <1>2, <1>3

\* u is what writer w writes in this step.
Wrote(w, u) == /\ u \in TextOf(L!Events) /\ InOrder(u.lines)
               /\ About(u, w, ev[w].n)
               /\ ~Appends(w) => \A i \in 1 .. Len(u.lines) : ~Keyed(u.lines[i])
               /\ fd[w] = inode => L!Becomes(L!Behind(L!File, u))
               /\ fd[w] # inode => UNCHANGED <<lines, unended>>

LEMMA CutStays ==
  ASSUME NEW E, NEW t \in PieceOf(E), InOrder(t.lines), NEW by, NEW n, About(t, by, n),
         NEW u \in L!CutShort(t)
  PROVE  u \in TextOf(E) /\ InOrder(u.lines) /\ About(u, by, n)
<1>1. u \in TextOf(E) /\ Part(u.lines, t.lines)
  BY CutIsPart
<1>2. u.lines \in Seq(LinesOf(E)) /\ t.lines \in Seq(LinesOf(E))
  BY <1>1 DEF TextOf, PieceOf
<1>3. InOrder(u.lines) /\ Among(u.lines, t.lines)
  BY <1>1, <1>2, PartOrdered
<1>4. QED
  BY <1>1, <1>3 DEF About, Among

LEMMA Writing ==
  ASSUME Types, NEW w \in Writers, Starts(w) \/ Completes(w)
  PROVE  \E u : Wrote(w, u)
<1> DEFINE e == ev[w]
<1>1. wpc[w] # "idle"
  BY WriteShape DEF Ends, Goes
<1>2. e \in L!Events /\ L!Events \in SUBSET EventSet /\ e.by = w
  BY <1>1 DEF L!Events, Types
<1>3. ASSUME NEW t \in TextOf(L!Events), InOrder(t.lines), About(t, w, e.n), L!Outputs(w, t),
             Appends(w) \/ (\A i \in 1 .. Len(t.lines) : ~Keyed(t.lines[i]))
      PROVE  \E u : Wrote(w, u)
  <2>1. \E u \in {t} \cup L!CutShort(t) : L!Writes(w, u)
    BY <1>3 DEF L!Outputs
  <2>2. PICK u \in {t} \cup L!CutShort(t) : L!Writes(w, u)
    BY <2>1
  <2>3. t \in PieceOf(L!Events)
    BY DEF TextOf
  <2>4. u \in TextOf(L!Events) /\ InOrder(u.lines) /\ About(u, w, e.n)
    BY <1>3, <2>2, <2>3, CutStays
  <2>5. ~Appends(w) => \A i \in 1 .. Len(u.lines) : ~Keyed(u.lines[i])
    <3>1. CASE u = t
      BY <1>3, <3>1
    <3>2. CASE u \in L!CutShort(t)
      <4>1. u \in TextOf(L!Events) /\ Part(u.lines, t.lines)
        BY <2>3, <3>2, CutIsPart
      <4>2. u.lines \in Seq(LinesOf(L!Events)) /\ t.lines \in Seq(LinesOf(L!Events))
        BY <2>3, <4>1 DEF TextOf, PieceOf
      <4>3. Among(u.lines, t.lines)
        BY <1>3, <4>1, <4>2, PartOrdered
      <4>4. QED
        BY <1>3, <4>3 DEF Among
    <3>3. QED
      BY <2>2, <3>1, <3>2
  <2>6. QED
    BY <2>2, <2>4, <2>5 DEF Wrote, L!Writes
<1>4. CASE L!Put(w)
  <2> DEFINE t == L!Ended(L!to_json(e))
  <2>1. t \in TextOf(L!Events) /\ InOrder(t.lines) /\ About(t, w, e.n)
    BY <1>2, WholeTexts DEF L!Ended
  <2>2. L!Outputs(w, t) /\ Appends(w)
    BY <1>4 DEF L!Put, Appends
  <2> HIDE DEF t
  <2>3. QED
    BY <1>3, <2>1, <2>2
<1>5. CASE L!PutHead(w)
  <2> DEFINE t == L!Unended(<<L!Line(e, "head")>>)
  <2>1. t \in TextOf(L!Events) /\ InOrder(t.lines) /\ About(t, w, e.n)
    BY <1>2, WholeTexts DEF L!Unended, Forms
  <2>2. L!Outputs(w, t) /\ Appends(w)
    BY <1>5 DEF L!PutHead, Appends
  <2> HIDE DEF t
  <2>3. QED
    BY <1>3, <2>1, <2>2
<1>6. CASE L!PutRest(w)
  <2> DEFINE t == L!Ended(<<L!Line(e, "rest")>>)
  <2>1. t \in TextOf(L!Events) /\ InOrder(t.lines) /\ About(t, w, e.n)
    BY <1>2, WholeTexts DEF L!Ended, Forms
  <2>2. L!Outputs(w, t)
    BY <1>6 DEF L!PutRest
  <2>3. \A i \in 1 .. Len(t.lines) : ~Keyed(t.lines[i])
    <3>1. t.lines = <<L!Line(e, "rest")>> /\ L!Line(e, "rest").form = "rest"
      BY <1>2, LineIsLine DEF L!Ended, Forms
    <3>2. \A i \in 1 .. Len(t.lines) : t.lines[i] = L!Line(e, "rest")
      BY <3>1
    <3>3. QED
      BY <3>1, <3>2 DEF Keyed
  <2> HIDE DEF t
  <2>4. QED
    BY <1>3, <2>1, <2>2, <2>3
<1>7. QED
  BY <1>4, <1>5, <1>6 DEF Starts, Appends, Completes

\* What the tester writes, and what is left behind it.
Rewrote(t, u) == /\ t \in TextOf(L!Events) /\ InOrder(t.lines) /\ Among(t.lines, cache)
                 /\ u \in PieceOf(L!Events) /\ InOrder(u.lines) /\ Among(u.lines, lines)
                 /\ L!Becomes(L!Behind(t, u))
                 /\ ~short' => /\ target \in 1 .. Len(t.lines) /\ Traced(t.lines[target])
                               /\ ~t.unended

LEMMA Rewriting ==
  ASSUME Types, HashesKnown, LinesOrdered, TamperTraced, L!Rewrite
  PROVE  (\E t, u : Rewrote(t, u)) \/ (tfd # inode /\ UNCHANGED <<lines, unended, short>>)
<1> DEFINE E == L!Events
<1>0. /\ lines \in Seq(LinesOf(E)) /\ unended \in BOOLEAN
      /\ cache \in Seq(LinesOf(E)) /\ InOrder(cache) /\ InOrder(lines)
  BY DEF HashesKnown, TextOf, PieceOf, L!File, LinesOrdered
<1>1. /\ tpc = "rewrite" /\ target \in 1 .. Len(cache) /\ Workable(cache[target])
      /\ ~short /\ (short' = short \/ short' = TRUE)
  BY DEF L!Rewrite, TamperTraced, Types
<1>2. PICK ls \in L!Tampered :
         \/ /\ IF tfd = inode THEN L!Overwrites(L!Ended(ls)) ELSE UNCHANGED <<lines, unended>>
            /\ UNCHANGED short
         \/ /\ tfd = inode
            /\ \E t \in L!CutShort(L!Ended(ls)) : L!Overwrites(t)
            /\ short' = TRUE
  BY DEF L!Rewrite
<1>3. /\ ls \in Seq(LinesOf(E)) /\ InOrder(ls) /\ Among(ls, cache)
      /\ target \in 1 .. Len(ls) /\ Traced(ls[target])
  BY <1>0, <1>1, TamperedIs
<1>4. L!Ended(ls) \in TextOf(E) /\ L!Ended(ls).lines = ls /\ ~L!Ended(ls).unended
  BY <1>3 DEF L!Ended, TextOf, PieceOf
<1>5. ASSUME NEW t \in TextOf(E), InOrder(t.lines), Among(t.lines, cache), L!Overwrites(t),
             short' \/ (target \in 1 .. Len(t.lines) /\ Traced(t.lines[target]) /\ ~t.unended)
      PROVE  \E x, y : Rewrote(x, y)
  <2>1. PICK left \in L!Leftover(t) :
             L!Becomes(L!Behind(t, [lines |-> left, unended |-> unended]))
    BY <1>5 DEF L!Overwrites
  <2>2. left \in Seq(LinesOf(E)) /\ Part(left, lines)
    BY <1>0, LeftoverIsPart
  <2>3. InOrder(left) /\ Among(left, lines)
    BY <1>0, <2>2, PartOrdered
  <2> DEFINE u == [lines |-> left, unended |-> unended]
  <2>4. u \in PieceOf(E) /\ u.lines = left
    BY <1>0, <2>2 DEF PieceOf
  <2>5. Rewrote(t, u)
    BY <1>5, <2>1, <2>3, <2>4 DEF Rewrote
  <2>6. QED
    BY <2>5
<1>6. CASE L!Overwrites(L!Ended(ls))
  BY <1>3, <1>4, <1>5, <1>6
<1>7. CASE (\E t \in L!CutShort(L!Ended(ls)) : L!Overwrites(t)) /\ short' = TRUE
  <2>1. PICK t \in L!CutShort(L!Ended(ls)) : L!Overwrites(t)
    BY <1>7
  <2>2. L!Ended(ls) \in PieceOf(E)
    BY <1>4 DEF TextOf
  <2>3. t \in TextOf(E) /\ Part(t.lines, ls)
    BY <1>4, <2>1, <2>2, CutIsPart
  <2>4. t.lines \in Seq(LinesOf(E))
    BY <2>3 DEF TextOf, PieceOf
  <2>5. InOrder(t.lines) /\ Among(t.lines, ls)
    BY <1>3, <2>3, <2>4, PartOrdered
  <2>6. Among(t.lines, cache)
    BY <1>3, <2>5 DEF Among
  <2>7. QED
    BY <1>5, <1>7, <2>1, <2>3, <2>5, <2>6
<1>8. QED
  BY <1>2, <1>6, <1>7

-----------------------------------------------------------------------------
(* The file and the copy of it from step to step                           *)

FileSame == UNCHANGED <<lines, unended>>

Untouched == /\ FileSame
             /\ cache' = cache \/ cache' = L!Readable \/ cache' = <<>>
             /\ tpc' = "rewrite" /\ tfd' = inode' =>
                  tpc = "rewrite" /\ tfd = inode /\ cache' = cache

Emptied == lines' = <<>> /\ unended' = FALSE /\ cache' = cache

Written(w, u) == /\ Starts(w) \/ Completes(w)
                 /\ Wrote(w, u)
                 /\ L!Becomes(L!Behind(L!File, u))

Rewritten(t, u) == L!Rewrite /\ WritersSame /\ Rewrote(t, u)

LEMMA FileSteps ==
  ASSUME Types, HashesKnown, LinesOrdered, TamperTraced, Kind
  PROVE  \/ Untouched
         \/ Emptied
         \/ \E w \in Writers : \E u : Written(w, u)
         \/ \E t, u : Rewritten(t, u)
<1>1. ASSUME NEW w \in Writers, Skips(w) \/ (\E e \in EventSet : Takes(w, e))
      PROVE  Untouched
  <2>1. UNCHANGED <<lines, unended, cache, tpc, tfd>>
    BY <1>1 DEF Skips, Takes, OthersSame, testerVars, L!NotOpened, L!Opened, L!OpenToAppend,
                L!fileVars
  <2>2. CASE inode' = inode
    BY <2>1, <2>2 DEF Untouched, FileSame
  <2>3. CASE inode' # inode
    <3>1. L!Creates
      BY <1>1, <2>3 DEF Skips, Takes, L!NotOpened, L!Opened, L!OpenToAppend, L!fileVars
    <3>2. inode' = made + 1 /\ tfd <= made /\ tfd \in Nat /\ made \in Nat
      BY <2>3, <3>1, Opening DEF Types
    <3>3. tfd' # inode'
      BY <2>1, <3>2
    <3>4. QED
      BY <2>1, <3>3 DEF Untouched, FileSame
  <2>4. QED
    BY <2>2, <2>3
<1>2. ASSUME NEW w \in Writers, Starts(w) \/ Completes(w)
      PROVE  Untouched \/ (\E u : Written(w, u))
  <2>1. PICK u : Wrote(w, u)
    BY <1>2, Writing
  <2>2. UNCHANGED <<cache, tpc, tfd, inode>>
    BY <1>2, WriteShape DEF testerVars
  <2>3. CASE fd[w] = inode
    BY <1>2, <2>1, <2>3 DEF Written, Wrote
  <2>4. CASE fd[w] # inode
    BY <2>1, <2>2, <2>4 DEF Wrote, Untouched, FileSame
  <2>5. QED
    BY <2>3, <2>4
<1>3. CASE L!TesterStep /\ WritersSame
  <2>1. CASE L!AskGateway
    BY <2>1 DEF L!AskGateway, L!GetIntoNull, L!fileVars, Untouched, FileSame
  <2>2. CASE L!CountLines
    BY <2>2 DEF L!CountLines, L!fileVars, Untouched, FileSame
  <2>3. CASE L!FindTarget
    BY <2>3 DEF L!FindTarget, L!fileVars, Untouched, FileSame
  <2>4. CASE L!Truncate
    <3>1. Emptied \/ (FileSame /\ tpc' = "check" /\ cache' = cache)
      BY <2>4 DEF L!Truncate, L!OpenToRewrite, L!fileVars, Emptied, FileSame
    <3>2. QED
      BY <3>1 DEF Untouched
  <2>5. CASE L!Check
    BY <2>5 DEF L!Check, L!fileVars, Untouched, FileSame
  <2>6. CASE L!Rewrite
    <3>1. CASE \E t, u : Rewrote(t, u)
      BY <1>3, <2>6, <3>1 DEF Rewritten
    <3>2. CASE tfd # inode /\ UNCHANGED <<lines, unended, short>>
      BY <2>6, <3>2 DEF L!Rewrite, Untouched, FileSame
    <3>3. QED
      BY <2>6, <3>1, <3>2, Rewriting
  <2>7. QED
    BY <1>3, <2>1, <2>2, <2>3, <2>4, <2>5, <2>6 DEF L!TesterStep
<1>4. CASE L!Clear
  BY <1>4 DEF L!Clear, L!testerVars, Emptied
<1>5. CASE UNCHANGED logVars
  BY <1>5 DEF logVars, testerVars, Untouched, FileSame
<1>6. QED
  BY <1>1, <1>2, <1>3, <1>4, <1>5 DEF Kind

LEMMA CacheSame ==
  ASSUME NEW w, NEW t, NEW u, Written(w, u) \/ Rewritten(t, u), w \in Writers
  PROVE  cache' = cache
BY WriteShape DEF Written, Rewritten, L!Rewrite, testerVars

LEMMA HashesStep ==
  ASSUME Types, Types', HashesKnown, LinesOrdered, TamperTraced, Kind
  PROVE  HashesKnown'
<1> DEFINE E == L!Events
<1>0. L!File \in TextOf(E) /\ cache \in Seq(LinesOf(E)) /\ lines \in Seq(LinesOf(E))
  BY DEF HashesKnown, TextOf, PieceOf, L!File
<1>1. ASSUME NEW t \in TextOf(E), L!Becomes(t)
      PROVE  L!File' \in TextOf(E)
  BY <1>1 DEF L!Becomes, L!File, TextOf, PieceOf
<1>2. L!File' \in TextOf(E) /\ cache' \in Seq(LinesOf(E))
  <2>1. CASE Untouched
    <3>1. L!File' = L!File
      BY <2>1 DEF Untouched, FileSame, L!File
    <3>2. L!Readable \in Seq(LinesOf(E)) /\ <<>> \in Seq(LinesOf(E))
      BY <1>0, ReadableLength
    <3> HIDE DEF E
    <3>3. QED
      BY <1>0, <2>1, <3>1, <3>2 DEF Untouched
  <2>2. CASE Emptied
    <3>1. L!File' = [lines |-> <<>>, unended |-> FALSE]
      BY <2>2 DEF Emptied, L!File
    <3>2. QED
      BY <1>0, <2>2, <3>1 DEF Emptied, TextOf, PieceOf
  <2>3. ASSUME NEW w \in Writers, NEW u, Written(w, u)
        PROVE  L!File' \in TextOf(E) /\ cache' \in Seq(LinesOf(E))
    <3>1. u \in PieceOf(E) /\ L!Becomes(L!Behind(L!File, u)) /\ cache' = cache
      BY <2>3, CacheSame DEF Written, Wrote, TextOf
    <3>2. L!Behind(L!File, u) \in TextOf(E)
      BY <1>0, <3>1, BehindPlaces
    <3>3. QED
      BY <1>0, <1>1, <3>1, <3>2
  <2>4. ASSUME NEW t, NEW u, Rewritten(t, u)
        PROVE  L!File' \in TextOf(E) /\ cache' \in Seq(LinesOf(E))
    <3>1. t \in TextOf(E) /\ u \in PieceOf(E) /\ L!Becomes(L!Behind(t, u)) /\ cache' = cache
      BY <2>4 DEF Rewritten, Rewrote, L!Rewrite
    <3>2. L!Behind(t, u) \in TextOf(E)
      BY <3>1, BehindPlaces
    <3>3. QED
      BY <1>0, <1>1, <3>1, <3>2
  <2>5. QED
    BY <2>1, <2>2, <2>3, <2>4, FileSteps
<1>3. /\ Seq(LinesOf(E)) \subseteq Seq(LinesOf(E'))
      /\ TextOf(E) \subseteq TextOf(E')
  BY EventsGrow, LinesGrow
<1>4. L!File' \in TextOf(E') /\ cache' \in Seq(LinesOf(E'))
  BY <1>2, <1>3
<1>5. QED
  BY <1>4 DEF HashesKnown

-----------------------------------------------------------------------------
(* The order of the lines                                                  *)

\* UpToDate after the step.
Dated(xs) == \A i \in 1 .. Len(xs), w \in Writers :
               Keyed(xs[i]) /\ xs[i].event.by = w => xs[i].event.n <= Upto(w)'

LEMMA StillDated ==
  ASSUME Types, Types', Kind, NEW E, NEW xs \in Seq(LinesOf(E)), UpToDate(xs)
  PROVE  Dated(xs)
<1> SUFFICES ASSUME NEW i \in 1 .. Len(xs), NEW w \in Writers, Keyed(xs[i]), xs[i].event.by = w
             PROVE  xs[i].event.n <= Upto(w)'
  BY DEF Dated
<1> DEFINE e == xs[i].event
<1>1. e.by = w /\ e.n \in Nat
  <2>1. xs[i] \in LinesOf(E)
    OBVIOUS
  <2>2. QED
    BY <2>1 DEF LinesOf, Fields
<1>2. e.n <= Upto(w)
  BY DEF UpToDate
<1> HIDE DEF e
<1>3. Upto(w) \in Int /\ (Upto(w)' = Upto(w) \/ Upto(w)' = Upto(w) + 1)
  BY Numbers, UptoGrows
<1>4. e.n <= Upto(w)'
  BY <1>1, <1>2, <1>3
<1>5. QED
  BY <1>4 DEF e

LEMMA AmongDated ==
  ASSUME NEW xs, NEW ys, Among(xs, ys), Dated(ys)
  PROVE  Dated(xs)
<1> SUFFICES ASSUME NEW i \in 1 .. Len(xs), NEW w \in Writers, Keyed(xs[i]), xs[i].event.by = w
             PROVE  xs[i].event.n <= Upto(w)'
  BY DEF Dated
<1>1. PICK k \in 1 .. Len(ys) : /\ Keyed(ys[k])
                                /\ xs[i].event.by = ys[k].event.by
                                /\ xs[i].event.n = ys[k].event.n
  BY DEF Among
<1>2. QED
  BY <1>1 DEF Dated

LEMMA PlacesDated ==
  ASSUME NEW E, NEW ts \in Seq(LinesOf(E)), NEW us \in Seq(LinesOf(E)), us # <<>>,
         NEW xs \in Seq(LinesOf(E)), NEW glued \in BOOLEAN, Places(ts, glued, us, xs),
         Dated(ts), Dated(us)
  PROVE  Dated(xs)
<1> SUFFICES ASSUME NEW i \in 1 .. Len(xs), NEW w \in Writers, Keyed(xs[i]), xs[i].event.by = w
             PROVE  xs[i].event.n <= Upto(w)'
  BY DEF Dated
<1>1. \/ \E k \in 1 .. Len(ts) : Keyed(ts[k]) /\ xs[i].event = ts[k].event
      \/ \E k \in 1 .. Len(us) : Keyed(us[k]) /\ xs[i].event = us[k].event
  BY PlacesAmong
<1>2. QED
  BY <1>1 DEF Dated

\* A text that is written behind another one.
LEMMA BehindOrdered ==
  ASSUME NEW E, NEW t \in TextOf(E), NEW u \in PieceOf(E),
         InOrder(t.lines), InOrder(u.lines), Precedes(t.lines, u.lines),
         Dated(t.lines), Dated(u.lines), L!Becomes(L!Behind(t, u))
  PROVE  InOrder(lines') /\ Dated(lines')
<1>1. CASE u.lines = <<>>
  BY <1>1, BehindPlaces DEF L!Becomes
<1>2. CASE u.lines # <<>>
  <2> DEFINE xs == L!Behind(t, u).lines
  <2>1. /\ t.lines \in Seq(LinesOf(E)) /\ u.lines \in Seq(LinesOf(E)) /\ t.unended \in BOOLEAN
        /\ lines' = xs
    BY DEF TextOf, PieceOf, L!Becomes
  <2>2. xs \in Seq(LinesOf(E)) /\ Places(t.lines, t.unended, u.lines, xs)
    BY <1>2, BehindPlaces DEF TextOf, PieceOf
  <2> HIDE DEF xs
  <2>3. InOrder(xs)
    BY <1>2, <2>1, <2>2, PlacesOrdered
  <2>4. Dated(xs)
    BY <1>2, <2>1, <2>2, PlacesDated
  <2>5. QED
    BY <2>1, <2>3, <2>4
<1>3. QED
  BY <1>1, <1>2

\* What is written by w is newer than what it wrote before.
LEMMA WrittenNewer ==
  ASSUME Types, Numbered, NEW w \in Writers, NEW u, Written(w, u),
         NEW E, NEW xs \in Seq(LinesOf(E)), UpToDate(xs)
  PROVE  Precedes(xs, u.lines) /\ Dated(u.lines)
<1>1. /\ About(u, w, ev[w].n)
      /\ ~Appends(w) => \A i \in 1 .. Len(u.lines) : ~Keyed(u.lines[i])
      /\ Starts(w) \/ Completes(w)
  BY DEF Written, Wrote
<1>2. CASE ~Appends(w)
  BY <1>1, <1>2 DEF Precedes, Dated
<1>3. CASE Appends(w)
  <2>1. wpc[w] = "write" /\ ev[w].n = Upto(w) + 1 /\ Upto(w) \in Int
    BY <1>3, Numbers DEF Appends, L!Put, L!PutHead, Numbered
  <2>2. Upto(w)' = Upto(w) + 1
    BY <1>1, <2>1 DEF Starts, Completes, L!PutRest
  <2>3. Dated(u.lines)
    BY <1>1, <2>1, <2>2 DEF About, Dated
  <2>4. ASSUME NEW i \in 1 .. Len(xs), NEW j \in 1 .. Len(u.lines),
               Keyed(xs[i]), Keyed(u.lines[j]), xs[i].event.by = u.lines[j].event.by
        PROVE  xs[i].event.n < u.lines[j].event.n
    <3>1. u.lines[j].event.by = w /\ u.lines[j].event.n = ev[w].n
      BY <1>1, <2>4 DEF About
    <3>2. xs[i].event.n <= Upto(w)
      BY <2>4, <3>1 DEF UpToDate
    <3>3. xs[i].event.n \in Nat
      <4>1. xs[i] \in LinesOf(E)
        OBVIOUS
      <4>2. QED
        BY <4>1 DEF LinesOf, Fields
    <3>4. QED
      BY <2>1, <3>1, <3>2, <3>3
  <2>5. QED
    BY <2>3, <2>4 DEF Precedes
<1>4. QED
  BY <1>2, <1>3

LEMMA ReadableIsPart ==
  ASSUME Types, HashesKnown
  PROVE  /\ L!Readable \in Seq(LinesOf(L!Events)) /\ lines \in Seq(LinesOf(L!Events))
         /\ Part(L!Readable, lines)
<1>1. lines \in Seq(LinesOf(L!Events))
  BY DEF HashesKnown, TextOf, PieceOf, L!File
<1>2. /\ L!Readable \in Seq(LinesOf(L!Events)) /\ Len(L!Readable) <= Len(lines)
      /\ \A i \in 1 .. Len(L!Readable) : L!Readable[i] = lines[i]
  BY <1>1, ReadableLength
<1> DEFINE xs == L!Readable
<1>3. xs \in Seq(LinesOf(L!Events)) /\ Len(xs) <= Len(lines)
      /\ \A i \in 1 .. Len(xs) : xs[i] = lines[i]
  BY <1>2
<1> HIDE DEF xs
<1>4. Len(xs) + 0 <= Len(lines) /\ \A i \in 1 .. Len(xs) : xs[i] = lines[i + 0]
  BY <1>1, <1>3
<1>5. Part(xs, lines)
  BY <1>4 DEF Part
<1>6. QED
  BY <1>1, <1>2, <1>5 DEF xs

\* What follows vs is newer than it, if the pieces are.
LEMMA PlacesPrecede ==
  ASSUME NEW E, NEW ts \in Seq(LinesOf(E)), NEW us \in Seq(LinesOf(E)), us # <<>>,
         NEW xs \in Seq(LinesOf(E)), NEW glued \in BOOLEAN, Places(ts, glued, us, xs),
         NEW vs, Precedes(vs, ts), Precedes(vs, us)
  PROVE  Precedes(vs, xs)
<1> SUFFICES ASSUME NEW i \in 1 .. Len(vs), NEW j \in 1 .. Len(xs),
                    Keyed(vs[i]), Keyed(xs[j]), vs[i].event.by = xs[j].event.by
             PROVE  vs[i].event.n < xs[j].event.n
  BY DEF Precedes
<1>1. \/ \E k \in 1 .. Len(ts) : Keyed(ts[k]) /\ xs[j].event = ts[k].event
      \/ \E k \in 1 .. Len(us) : Keyed(us[k]) /\ xs[j].event = us[k].event
  BY PlacesAmong
<1>2. QED
  BY <1>1 DEF Precedes

LEMMA LinesOrderedStep ==
  ASSUME Types, Types', HashesKnown, Numbered, TamperTraced, LinesOrdered, Kind
  PROVE  LinesOrdered'
<1> DEFINE E == L!Events
<1>0. /\ L!File \in TextOf(E) /\ L!File.lines = lines
      /\ lines \in Seq(LinesOf(E)) /\ cache \in Seq(LinesOf(E))
      /\ InOrder(lines) /\ InOrder(cache) /\ UpToDate(lines) /\ UpToDate(cache)
  BY DEF HashesKnown, TextOf, PieceOf, L!File, LinesOrdered
<1>1. Dated(lines) /\ Dated(cache)
  BY <1>0, StillDated
<1>2. Dated(<<>>) /\ InOrder(<<>>) /\ \A xs : Precedes(xs, <<>>)
  BY DEF Dated, InOrder, Precedes
<1>3. ASSUME InOrder(lines'), Dated(lines'), InOrder(cache'), Dated(cache'),
             tpc' = "rewrite" /\ tfd' = inode' => Precedes(cache', lines')
      PROVE  LinesOrdered'
  <2>1. lines' \in Seq(LinesOf(E')) /\ cache' \in Seq(LinesOf(E'))
    BY HashesStep DEF HashesKnown, TextOf, PieceOf, L!File
  <2>2. ASSUME NEW xs \in Seq(LinesOf(E')), NEW i \in 1 .. Len(xs)
        PROVE  xs[i].event.by \in Writers
    <3>1. xs[i] \in LinesOf(E')
      BY <2>2
    <3>2. QED
      BY <3>1 DEF LinesOf, Fields
  <2> HIDE DEF E
  <2>3. /\ \A i \in 1 .. Len(lines') : lines'[i].event.by \in Writers
        /\ \A i \in 1 .. Len(cache') : cache'[i].event.by \in Writers
    BY <2>1, <2>2
  <2>4. UpToDate(lines)' /\ UpToDate(cache)'
    BY <1>3, <2>3 DEF UpToDate, Dated
  <2>5. QED
    BY <1>3, <2>4 DEF LinesOrdered
<1>4. CASE Untouched
  <2>1. lines' = lines
    BY <1>4 DEF Untouched, FileSame
  <2>2. InOrder(L!Readable) /\ Dated(L!Readable)
    <3>1. InOrder(L!Readable) /\ Among(L!Readable, lines)
      BY <1>0, ReadableIsPart, PartOrdered
    <3>2. QED
      BY <1>1, <3>1, AmongDated
  <2>3. InOrder(cache') /\ Dated(cache')
    BY <1>0, <1>1, <1>2, <1>4, <2>2 DEF Untouched
  <2>4. tpc' = "rewrite" /\ tfd' = inode' => Precedes(cache', lines')
    BY <1>4, <2>1 DEF Untouched, LinesOrdered
  <2>5. QED
    BY <1>0, <1>1, <1>3, <2>1, <2>3, <2>4
<1>5. CASE Emptied
  <2>1. lines' = <<>> /\ cache' = cache
    BY <1>5 DEF Emptied
  <2>2. Precedes(cache', lines')
    BY <1>2, <2>1
  <2>3. QED
    BY <1>0, <1>1, <1>2, <1>3, <2>1, <2>2
<1>6. ASSUME NEW w \in Writers, NEW u, Written(w, u)
      PROVE  LinesOrdered'
  <2>1. /\ u \in PieceOf(E) /\ InOrder(u.lines) /\ L!Becomes(L!Behind(L!File, u))
        /\ UNCHANGED <<cache, tpc, tfd, inode>>
    BY <1>6, WriteShape DEF Written, Wrote, TextOf, testerVars
  <2>2. Precedes(lines, u.lines) /\ Precedes(cache, u.lines) /\ Dated(u.lines)
    BY <1>0, <1>6, WrittenNewer
  <2>3. InOrder(lines') /\ Dated(lines')
    BY <1>0, <1>1, <2>1, <2>2, BehindOrdered
  <2>4. ASSUME tpc = "rewrite", tfd = inode
        PROVE  Precedes(cache, lines')
    <3>1. Precedes(cache, lines)
      BY <2>4 DEF LinesOrdered
    <3>2. CASE u.lines = <<>>
      <4>1. lines' = lines
        BY <1>0, <2>1, <3>2, BehindPlaces DEF L!Becomes
      <4>2. QED
        BY <3>1, <4>1
    <3>3. CASE u.lines # <<>>
      <4>1. /\ lines' \in Seq(LinesOf(E)) /\ u.lines \in Seq(LinesOf(E)) /\ L!File.unended \in BOOLEAN
            /\ Places(lines, L!File.unended, u.lines, lines')
        BY <1>0, <2>1, <3>3, BehindPlaces DEF L!Becomes, TextOf, PieceOf
      <4> HIDE DEF E
      <4>2. QED
        BY <1>0, <2>2, <3>1, <3>3, <4>1, PlacesPrecede
    <3>4. QED
      BY <3>2, <3>3
  <2>5. QED
    BY <1>0, <1>1, <1>3, <2>1, <2>3, <2>4
<1>7. ASSUME NEW t, NEW u, Rewritten(t, u)
      PROVE  LinesOrdered'
  <2>1. /\ t \in TextOf(E) /\ u \in PieceOf(E) /\ InOrder(t.lines) /\ InOrder(u.lines)
        /\ Among(t.lines, cache) /\ Among(u.lines, lines) /\ L!Becomes(L!Behind(t, u))
    BY <1>7 DEF Rewritten, Rewrote
  <2>2. cache' = cache /\ tpc' = "check" /\ tpc = "rewrite"
    BY <1>7 DEF Rewritten, L!Rewrite
  <2>3. Dated(t.lines) /\ Dated(u.lines)
    BY <1>1, <2>1, AmongDated
  <2>4. CASE tfd = inode
    <3>1. Precedes(cache, lines)
      BY <2>2, <2>4 DEF LinesOrdered
    <3>2. Precedes(t.lines, u.lines)
      BY <2>1, <3>1, AmongPrecedes
    <3>3. InOrder(lines') /\ Dated(lines')
      BY <2>1, <2>3, <3>2, BehindOrdered
    <3>4. QED
      BY <1>0, <1>1, <1>3, <2>2, <3>3
  <2>5. CASE tfd # inode
    <3>1. lines' = lines
      BY <1>7, <2>5 DEF Rewritten, L!Rewrite
    <3>2. QED
      BY <1>0, <1>1, <1>3, <2>2, <3>1
  <2>6. QED
    BY <2>4, <2>5
<1>8. QED
  BY <1>4, <1>5, <1>6, <1>7, FileSteps

-----------------------------------------------------------------------------
(* The tampering and the verdicts                                          *)

(* Lines stay where they are when something is written behind them.        *)
LEMMA Kept ==
  ASSUME NEW E, NEW t \in TextOf(E), NEW u \in PieceOf(E), NEW i \in 1 .. Len(t.lines)
  PROVE  /\ i \in 1 .. Len(L!Behind(t, u).lines)
         /\ t.lines[i].form = "whole" => L!Behind(t, u).lines[i] = t.lines[i]
         /\ Traced(t.lines[i]) => Traced(L!Behind(t, u).lines[i])
<1> DEFINE ts == t.lines
           us == u.lines
           xs == L!Behind(t, u).lines
           n == Len(ts)
           m == Len(us)
<1>0. /\ ts \in Seq(LinesOf(E)) /\ us \in Seq(LinesOf(E)) /\ t.unended \in BOOLEAN
      /\ n \in Nat /\ m \in Nat /\ i \in 1 .. n
  BY DEF TextOf, PieceOf
<1>1. CASE us = <<>>
  <2>1. xs = ts
    BY <1>1, BehindPlaces
  <2> HIDE DEF xs, ts
  <2>2. QED
    BY <1>0, <2>1 DEF xs, ts
<1>2. CASE us # <<>>
  <2>1. Places(ts, t.unended, us, xs)
    BY <1>2, BehindPlaces
  <2>2. m > 0
    BY <1>0, <1>2
  <2>3. CASE t.unended = TRUE /\ i = n
    <3>1. Len(xs) = n + m - 1 /\ xs[n] = L!Glue(ts[n], us[1])
      BY <2>1, <2>3 DEF Places
    <3>2. ts[n] \in LinesOf(E) /\ us[1] \in LinesOf(E)
      BY <1>0, <2>2
    <3>3. /\ ts[n].form = "whole" => L!Glue(ts[n], us[1]) = ts[n]
          /\ Traced(ts[n]) => Traced(L!Glue(ts[n], us[1]))
      BY <3>2, Glued
    <3>4. n \in 1 .. Len(xs)
      BY <1>0, <2>2, <3>1
    <3>5. QED
      BY <2>3, <3>1, <3>3, <3>4
  <2>4. CASE ~(t.unended = TRUE /\ i = n)
    <3> HIDE DEF ts, us, xs, n, m
    <3>1. Len(xs) >= n /\ xs[i] = ts[i] /\ Len(xs) \in Nat
      <4>1. CASE t.unended = TRUE
        <5>1. Len(xs) = n + m - 1 /\ \A k \in 1 .. n - 1 : xs[k] = ts[k]
          BY <2>1, <4>1 DEF Places, n, m
        <5>2. i \in 1 .. n - 1
          BY <1>0, <2>4, <4>1
        <5>3. QED
          BY <1>0, <2>2, <5>1, <5>2
      <4>2. CASE t.unended = FALSE
        <5>1. Len(xs) = n + m /\ \A k \in 1 .. n : xs[k] = ts[k]
          BY <2>1, <4>2 DEF Places, n, m
        <5>2. QED
          BY <1>0, <2>2, <5>1
      <4>3. QED
        BY <1>0, <4>1, <4>2
    <3>2. i \in 1 .. Len(xs)
      BY <1>0, <3>1
    <3>3. QED
      BY <3>1, <3>2 DEF xs, ts
  <2>5. QED
    BY <2>3, <2>4
<1>3. QED
  BY <1>1, <1>2

LEMMA FoundWorkable ==
  ASSUME NEW line, TRUE \in L!Found(line)
  PROVE  Workable(line)
BY DEF L!Found, Workable

LEMMA TamperTracedStep ==
  ASSUME Types, HashesKnown, LinesOrdered, TamperTraced, Kind
  PROVE  TamperTraced'
<1> DEFINE E == L!Events
           Altered == tpc = "check" /\ tampered /\ ~short /\ ~cleared
           Stays(ls) == target # 0 /\ target <= MaxCached /\ target <= Len(ls) /\ Traced(ls[target])
<1>0. /\ L!File \in TextOf(E) /\ L!File.lines = lines /\ target \in Nat
      /\ lines \in Seq(LinesOf(E)) /\ cache \in Seq(LinesOf(E)) /\ Len(cache) <= MaxCached
  BY DEF HashesKnown, TextOf, PieceOf, L!File, Types
<1>a. Len(lines) \in Nat /\ Len(cache) \in Nat
  BY <1>0
<1>b. Altered => Stays(lines)
  BY DEF TamperTraced
<1>1. ASSUME UNCHANGED <<testerVars, marks>>, Altered => Stays(lines')
      PROVE  TamperTraced'
  BY <1>1 DEF TamperTraced, testerVars, marks
<1>2. ASSUME UNCHANGED <<testerVars, marks>>, lines' = lines
      PROVE  TamperTraced'
  BY <1>1, <1>2, <1>b
<1>3. ASSUME NEW w \in Writers, Skips(w) \/ (\E e \in EventSet : Takes(w, e))
      PROVE  TamperTraced'
  BY <1>2, <1>3 DEF Skips, Takes, OthersSame, L!NotOpened, L!Opened, L!OpenToAppend, L!fileVars
<1>4. ASSUME NEW w \in Writers, Starts(w) \/ Completes(w)
      PROVE  TamperTraced'
  <2>1. UNCHANGED <<testerVars, marks>>
    BY <1>4, WriteShape
  <2>2. PICK u : Wrote(w, u)
    BY <1>4, Writing
  <2>3. CASE fd[w] # inode
    BY <1>2, <2>1, <2>2, <2>3 DEF Wrote
  <2>4. CASE fd[w] = inode
    <3>1. lines' = L!Behind(L!File, u).lines /\ u \in PieceOf(E)
      BY <2>2, <2>4 DEF Wrote, L!Becomes, TextOf
    <3>2. ASSUME Altered
          PROVE  Stays(lines')
      <4>1. target \in 1 .. Len(lines) /\ Traced(lines[target])
        BY <1>0, <1>a, <1>b, <3>2
      <4>2. target \in 1 .. Len(lines') /\ Traced(lines'[target])
        BY <1>0, <3>1, <4>1, Kept
      <4>3. QED
        BY <1>b, <3>2, <4>2
    <3>3. QED
      BY <1>1, <2>1, <3>2
  <2>5. QED
    BY <2>3, <2>4
<1>5. CASE L!TesterStep
  <2>1. CASE L!AskGateway
    BY <2>1 DEF L!AskGateway, L!GetIntoNull, TamperTraced
  <2>2. CASE L!CountLines
    <3>1. ~tampered' /\ (tpc' = "check" \/ (tpc' = "tamper" /\ target' # 0))
      BY <2>2 DEF L!CountLines, L!marks, Types
    <3>2. QED
      BY <3>1 DEF TamperTraced
  <2>3. CASE L!FindTarget
    <3>1. ~tampered' /\ target' = target /\ target # 0
      BY <2>3 DEF L!FindTarget, L!marks, Types, TamperTraced
    <3>2. CASE tpc' = "truncate"
      <4>1. target <= Len(cache') /\ TRUE \in L!Found(cache'[target])
        BY <2>3, <3>2 DEF L!FindTarget
      <4>2. Workable(cache'[target])
        BY <4>1, FoundWorkable
      <4>3. QED
        BY <3>1, <3>2, <4>1, <4>2 DEF TamperTraced
    <3>3. CASE tpc' = "check"
      BY <3>1, <3>3 DEF TamperTraced
    <3>4. tpc' = "truncate" \/ tpc' = "check"
      BY <2>3 DEF L!FindTarget
    <3>5. QED
      BY <3>2, <3>3, <3>4
  <2>4. CASE L!Truncate
    <3>1. /\ tpc = "truncate" /\ UNCHANGED <<cache, target>>
          /\ tpc' = "rewrite" \/ (tpc' = "check" /\ tampered' = tampered)
      BY <2>4 DEF L!Truncate
    <3>2. ~tampered
      BY <3>1 DEF Types
    <3>3. QED
      BY <3>1, <3>2 DEF TamperTraced
  <2>5. CASE L!Rewrite
    <3>1. /\ tpc = "rewrite" /\ tpc' = "check"
          /\ UNCHANGED <<cache, target, tampered, cleared>>
      BY <2>5 DEF L!Rewrite
    <3>2. target \in 1 .. Len(cache) /\ (tfd = inode \/ cleared)
      BY <1>0, <1>a, <3>1 DEF TamperTraced, Types
    <3>3. ASSUME ~short', ~cleared
          PROVE  Stays(lines')
      <4>1. PICK t, u : Rewrote(t, u)
        BY <2>5, <3>2, <3>3, Rewriting
      <4>2. /\ t \in TextOf(E) /\ u \in PieceOf(E) /\ lines' = L!Behind(t, u).lines
            /\ target \in 1 .. Len(t.lines) /\ Traced(t.lines[target])
        BY <3>3, <4>1 DEF Rewrote, L!Becomes
      <4>3. target \in 1 .. Len(lines') /\ Traced(lines'[target])
        BY <4>2, Kept
      <4>4. target <= MaxCached
        BY <1>0, <1>a, <3>2, LocalAuditAssumption
      <4>5. QED
        BY <4>3, <4>4
    <3>4. QED
      BY <3>1, <3>3 DEF TamperTraced
  <2>6. CASE L!Check
    BY <2>6 DEF L!Check, TamperTraced
  <2>7. QED
    BY <1>5, <2>1, <2>2, <2>3, <2>4, <2>5, <2>6 DEF L!TesterStep
<1>6. CASE L!Clear
  <2>1. UNCHANGED <<tpc, target, cache>> /\ cleared'
    BY <1>6 DEF L!Clear, L!testerVars
  <2>2. QED
    BY <2>1 DEF TamperTraced
<1>7. CASE UNCHANGED logVars
  BY <1>2, <1>7 DEF logVars
<1>8. QED
  BY <1>3, <1>4, <1>5, <1>6, <1>7 DEF Kind

LEMMA CheckedLines ==
  ASSUME Types, HashesKnown, NEW i \in 1 .. Len(L!Checked)
  PROVE  L!Checked[i] \in LinesOf(L!Events)
<1>1. lines \in Seq(LinesOf(L!Events)) /\ cache \in Seq(LinesOf(L!Events))
  BY DEF HashesKnown, TextOf, PieceOf, L!File
<1>2. L!Checked \in Seq(LinesOf(L!Events))
  BY <1>1, ReadableLength DEF L!Checked
<1> DEFINE xs == L!Checked
<1>3. xs \in Seq(LinesOf(L!Events)) /\ i \in 1 .. Len(xs)
  BY <1>2
<1> HIDE DEF xs
<1>4. xs[i] \in LinesOf(L!Events)
  BY <1>3
<1>5. QED
  BY <1>4 DEF xs

(* A line that is not open verifies only if its event is the one that was  *)
(* hashed.                                                                 *)
LEMMA VerifiedLine ==
  ASSUME NEW E \in SUBSET EventSet, NEW line \in LinesOf(E), ~line.open,
         NEW parsed \in L!from_json(line), L!SameHash(parsed)
  PROVE  line.event = line.hash
<1> DEFINE e == line.event
           h == line.hash
           p == [e EXCEPT !.command = L!Unescaped(@), !.cwd = L!UntilQuote(@)]
<1>1. e \in Fields /\ h \in EventSet /\ h \in Fields
  BY DEF LinesOf, EventSet, Fields
<1>2. parsed.event = p /\ parsed.hash = h
  BY DEF L!from_json, L!Parsed
<1>3. p = h
  BY <1>2 DEF L!SameHash, L!compute_hash
<1>4. h.command = L!Unescaped(e.command) /\ h.cwd = L!UntilQuote(e.cwd)
      /\ h.by = e.by /\ h.n = e.n /\ h.long = e.long
  BY <1>1, <1>3 DEF Fields
<1>5. h.command # "altered" /\ h.cwd # "altered"
  BY <1>1 DEF EventSet, Texts
<1>6. h.command = e.command /\ h.cwd = e.cwd
  BY <1>4, <1>5 DEF L!Unescaped, L!UntilQuote
<1> HIDE DEF e, h
<1>7. e = h
  BY <1>1, <1>4, <1>6 DEF Fields
<1>8. QED
  BY <1>7 DEF e, h

LEMMA OfVerdict ==
  ASSUME NEW v \in L!Verdicts
  PROVE  \E i \in 1 .. Len(L!Checked) : \E parsed \in L!from_json(L!Checked[i]) :
            /\ v = L!Verdict(i, parsed) /\ v.line = L!Checked[i]
            /\ v.changed = (i = target) /\ v.verified = L!SameHash(parsed) /\ tpc = "check"
BY DEF L!Verdicts, L!Verdict

LEMMA Honest ==
  ASSUME Types, HashesKnown
  PROVE  VerifiedIsHonest
<1> SUFFICES ASSUME NEW v \in L!Verdicts, v.verified, ~v.line.open
             PROVE  v.line.event \in L!Events
  BY DEF VerifiedIsHonest, L!VerifiedIsHonest
<1>1. PICK i \in 1 .. Len(L!Checked) : \E parsed \in L!from_json(L!Checked[i]) :
            v.line = L!Checked[i] /\ v.verified = L!SameHash(parsed)
  BY OfVerdict
<1>2. v.line \in LinesOf(L!Events) /\ L!Events \in SUBSET EventSet
  BY <1>1, CheckedLines DEF L!Events, Types
<1>3. v.line.event = v.line.hash
  BY <1>1, <1>2, VerifiedLine
<1>4. QED
  BY <1>2, <1>3 DEF LinesOf

LEMMA Matching ==
  ASSUME Types, HashesKnown
  PROVE  HonestLinesMatch
<1> SUFFICES ASSUME NEW v \in L!Verdicts, v.line = L!Line(v.line.event, "whole"),
                    v.line.event.command = "plain", v.line.event.cwd \notin {"quote", "newline"}
             PROVE  v.verified
  BY DEF HonestLinesMatch, L!HonestLinesMatch
<1>0. PICK i \in 1 .. Len(L!Checked) : \E parsed \in L!from_json(L!Checked[i]) :
            v.line = L!Checked[i] /\ v.verified = L!SameHash(parsed)
  BY OfVerdict
<1>1. PICK parsed \in L!from_json(L!Checked[i]) :
            v.line = L!Checked[i] /\ v.verified = L!SameHash(parsed)
  BY <1>0
<1> DEFINE line == v.line
           e == line.event
           p == [e EXCEPT !.command = L!Unescaped(@), !.cwd = L!UntilQuote(@)]
<1>2. line \in LinesOf(L!Events) /\ e \in Fields
  BY <1>1, CheckedLines DEF LinesOf
<1>3. line.form = "whole" /\ line.hash = e /\ ~line.open
  <2>1. line = L!Line(e, "whole") /\ ~L!Open(e)
    BY DEF L!Open
  <2>2. ASSUME NEW x, ~L!Open(x)
        PROVE  /\ L!Line(x, "whole").form = "whole" /\ L!Line(x, "whole").hash = x
               /\ ~L!Line(x, "whole").open
    BY <2>2 DEF L!Line, L!compute_hash
  <2> HIDE DEF line, e
  <2>3. QED
    BY <2>1, <2>2
<1>4. parsed = L!Parsed(p, line.hash, line.form = "whole")
  BY <1>1, <1>3 DEF L!from_json
<1>5. L!Unescaped(e.command) = e.command /\ L!UntilQuote(e.cwd) = e.cwd
  BY DEF L!Unescaped, L!UntilQuote
<1>6. p = e
  BY <1>2, <1>5 DEF Fields
<1> HIDE DEF p, e, line
<1>7. L!SameHash(parsed)
  BY <1>3, <1>4, <1>6 DEF L!Parsed, L!SameHash, L!compute_hash
<1>8. QED
  BY <1>1, <1>7

LEMMA Detected ==
  ASSUME Types, HashesKnown, TamperTraced
  PROVE  TamperDetected
<1> SUFFICES ASSUME tampered, ~short, ~cleared, NEW v \in L!Verdicts, v.changed, ~v.line.open,
                    v.verified
             PROVE  FALSE
  BY DEF TamperDetected, L!TamperDetected
<1>1. PICK i \in 1 .. Len(L!Checked) : \E parsed \in L!from_json(L!Checked[i]) :
            /\ v.line = L!Checked[i] /\ v.verified = L!SameHash(parsed)
            /\ v.changed = (i = target) /\ tpc = "check"
  BY OfVerdict
<1>2. i = target /\ tpc = "check"
  BY <1>1
<1>3. target # 0 /\ Traced(lines[target])
  BY <1>2 DEF TamperTraced
<1>4. lines \in Seq(LinesOf(L!Events))
  BY DEF HashesKnown, TextOf, PieceOf, L!File
<1>5. L!Checked[target] = lines[target]
  BY <1>1, <1>2, <1>3, <1>4, ReadableLength DEF L!Checked
<1>6. v.line.event.command = "tampered"
  BY <1>1, <1>2, <1>3, <1>5 DEF Traced
<1>7. v.line \in LinesOf(L!Events) /\ L!Events \in SUBSET EventSet
  BY <1>1, CheckedLines DEF L!Events, Types
<1>8. v.line.event = v.line.hash
  BY <1>1, <1>7, VerifiedLine
<1>9. v.line.hash.command \in Texts
  BY <1>7 DEF LinesOf, EventSet
<1>10. QED
  BY <1>6, <1>8, <1>9 DEF Texts

-----------------------------------------------------------------------------
(* The log while nothing but the auditors touches it and no write fails    *)

Calm == ~tampered /\ ~cleared /\ cut = {}

LEMMA DisturbedGrows ==
  ASSUME Types, Types', Kind, NEW e, Disturbed(e)
  PROVE  Disturbed(e)'
BY EventsGrow DEF Disturbed

(* An event that writes while another one is half written disturbs it.     *)
LEMMA Disturbing ==
  ASSUME Types, Types', Kind, NEW v \in Writers, NEW w \in Writers, v # w,
         wpc[v] # "idle", wpc[w] # "idle", ev[v].long \/ ev[w].long, NEW e, e = ev[v]
  PROVE  Disturbed(e)'
<1>1. e.by = v /\ ev[w].by = w /\ ev[w] \in L!Events /\ (e.long \/ ev[w].long)
  BY DEF Types, L!Events
<1>2. Disturbed(e)
  BY <1>1 DEF Disturbed
<1>3. QED
  BY <1>2, DisturbedGrows

LEMMA WholeStays ==
  ASSUME HashesKnown, NEW u \in PieceOf(L!Events), lines' = L!Behind(L!File, u).lines,
         NEW e, L!Whole(e)
  PROVE  L!Whole(e)'
<1>0. L!File \in TextOf(L!Events) /\ L!File.lines = lines
  BY DEF HashesKnown, L!File
<1>1. PICK i \in 1 .. Len(lines) : lines[i] = L!Line(e, "whole")
  BY DEF L!Whole
<1>2. lines[i].form = "whole"
  BY <1>1 DEF L!Line
<1>3. i \in 1 .. Len(lines') /\ lines'[i] = lines[i]
  BY <1>0, <1>2, Kept
<1>4. QED
  BY <1>1, <1>3 DEF L!Whole, L!Line, L!compute_hash, L!Open

(* One line that is written behind the file, as a line of its own or       *)
(* behind its unended last one.                                            *)
LEMMA LastLine ==
  ASSUME HashesKnown, NEW x \in LinesOf(L!Events), NEW b \in BOOLEAN,
         L!Becomes(L!Behind(L!File, [lines |-> <<x>>, unended |-> b]))
  PROVE  /\ unended' = b /\ Len(lines') \in 1 .. Len(lines')
         /\ ~unended => lines'[Len(lines')] = x
         /\ unended => lines'[Len(lines')] = L!Glue(lines[Len(lines)], x)
<1> DEFINE u == [lines |-> <<x>>, unended |-> b]
           us == <<x>>
           E == L!Events
           n == Len(lines)
<1>0. /\ L!File \in TextOf(E) /\ L!File.lines = lines /\ L!File.unended = unended
      /\ lines \in Seq(LinesOf(E)) /\ n \in Nat /\ unended \in BOOLEAN /\ (unended => n > 0)
  BY DEF HashesKnown, TextOf, PieceOf, L!File
<1>1. us \in Seq(LinesOf(E)) /\ us # <<>> /\ Len(us) = 1 /\ us[1] = x
  OBVIOUS
<1>2. u \in PieceOf(E) /\ u.lines = us /\ u.unended = b
  BY <1>1 DEF PieceOf
<1>3. lines' = L!Behind(L!File, u).lines /\ unended' = L!Behind(L!File, u).unended
  BY DEF L!Becomes
<1> HIDE DEF u, us
<1>4. unended' = b /\ Places(lines, unended, us, lines')
  BY <1>0, <1>1, <1>2, <1>3, BehindPlaces
<1> HIDE DEF n
<1>5. CASE unended = FALSE
  <2>1. Len(lines') = n + 1 /\ \A i \in n + 1 .. n + 1 : lines'[i] = us[i - n]
    BY <1>1, <1>4, <1>5 DEF Places, n
  <2>2. lines'[n + 1] = us[1]
    BY <1>0, <2>1
  <2>3. QED
    BY <1>0, <1>1, <1>4, <1>5, <2>1, <2>2
<1>6. CASE unended = TRUE
  <2>1. Len(lines') = n + 1 - 1 /\ lines'[n] = L!Glue(lines[n], us[1])
    BY <1>1, <1>4, <1>6 DEF Places, n
  <2>2. Len(lines') = n
    BY <1>0, <2>1
  <2>3. QED
    BY <1>0, <1>1, <1>4, <1>6, <2>1, <2>2 DEF n
<1>7. QED
  BY <1>0, <1>5, <1>6

UndisturbedSame == UNCHANGED <<inode, made, lines, unended, wpc, fd, ev, written>>

LEMMA UndisturbedStep ==
  ASSUME Types, Types', HashesKnown, Undisturbed, IntactUnlessLong, Kind
  PROVE  Undisturbed' /\ IntactUnlessLong'
<1> SUFFICES ASSUME Calm'
             PROVE  Undisturbed' /\ IntactUnlessLong'
  BY DEF Undisturbed, IntactUnlessLong, L!IntactUnlessLong, Calm
<1>a. Calm
  <2>1. CASE L!TesterStep /\ WritersSame
    BY <2>1 DEF L!TesterStep, L!AskGateway, L!CountLines, L!FindTarget, L!Truncate, L!Rewrite,
                L!Check, L!marks, WritersSame, writerVars, Calm, Types
  <2>2. CASE L!Clear
    BY <2>2 DEF L!Clear, Calm
  <2>3. ASSUME NEW w \in Writers, Starts(w) \/ Completes(w)
        PROVE  Calm
    BY <2>3, WriteShape DEF marks, Calm
  <2>4. QED
    BY <2>1, <2>2, <2>3 DEF Kind, Skips, Takes, OthersSame, L!NotOpened, L!Opened, L!writerVars,
                            marks, logVars, writerVars, Calm
<1>b. /\ inode = 0 => made = 0
      /\ \A v \in Writers : wpc[v] # "idle" => fd[v] = inode
      /\ unended => \E v \in Writers : wpc[v] = "rest"
      /\ \A v \in Writers : wpc[v] = "rest" =>
            Disturbed(ev[v]) \/ (unended /\ lines[Len(lines)] = L!Line(ev[v], "head"))
  BY <1>a DEF Undisturbed, Calm
<1> DEFINE Spread(e) == "newline" \in {e.command, e.cwd}
<1>c. \A e \in written : L!Whole(e) \/ Spread(e) \/ Disturbed(e)
  BY <1>a DEF IntactUnlessLong, L!IntactUnlessLong, Disturbed, Calm
<1>d. ASSUME NEW e, Disturbed(e)
      PROVE  Disturbed(e)'
  BY <1>d, DisturbedGrows
<1>e. ASSUME \A e \in written' : L!Whole(e)' \/ Spread(e) \/ Disturbed(e)'
      PROVE  IntactUnlessLong'
  BY <1>e DEF IntactUnlessLong, L!IntactUnlessLong, Disturbed
<1>f. ASSUME lines' = lines, NEW e, L!Whole(e)
      PROVE  L!Whole(e)'
  BY <1>f DEF L!Whole, L!Line, L!compute_hash, L!Open
<1>g. ASSUME NEW v \in Writers, wpc[v] = "rest", lines' = lines, unended' = unended,
             ev'[v] = ev[v]
      PROVE  Disturbed(ev[v])' \/ (unended' /\ lines'[Len(lines')] = L!Line(ev[v], "head")')
  <2>1. PICK e : e = ev[v]
    OBVIOUS
  <2>2. CASE Disturbed(ev[v])
    <3>1. Disturbed(e)'
      BY <1>d, <2>1, <2>2
    <3>2. QED
      BY <1>g, <2>1, <3>1 DEF Disturbed
  <2>3. CASE unended /\ lines[Len(lines)] = L!Line(ev[v], "head")
    BY <1>g, <2>3 DEF L!Line, L!compute_hash, L!Open
  <2>4. QED
    BY <1>b, <1>g, <2>2, <2>3
<1>h. ASSUME UndisturbedSame
      PROVE  Undisturbed' /\ IntactUnlessLong'
  <2>1. IntactUnlessLong'
    BY <1>c, <1>d, <1>e, <1>f, <1>h DEF UndisturbedSame
  <2>2. ASSUME NEW v \in Writers, wpc'[v] = "rest"
        PROVE  Disturbed(ev[v])' \/ (unended' /\ lines'[Len(lines')] = L!Line(ev[v], "head")')
    BY <1>g, <1>h, <2>2 DEF UndisturbedSame
  <2>3. QED
    BY <1>b, <1>h, <2>1, <2>2 DEF UndisturbedSame, Undisturbed
<1>1. ASSUME NEW w \in Writers, Skips(w)
      PROVE  UndisturbedSame
  BY <1>1 DEF Skips, L!NotOpened, L!fileVars, L!writerVars, UndisturbedSame
<1>2. ASSUME NEW w \in Writers, NEW e \in EventSet, Takes(w, e)
      PROVE  Undisturbed' /\ IntactUnlessLong'
  <2>1. /\ L!Creates /\ UNCHANGED <<lines, unended, written>>
        /\ wpc[w] = "idle" /\ wpc' = [wpc EXCEPT ![w] = "write"]
        /\ fd' = [fd EXCEPT ![w] = L!Handle] /\ ev' = [ev EXCEPT ![w] = e]
    BY <1>2 DEF Takes, L!Opened, L!OpenToAppend
  <2>2. IntactUnlessLong'
    BY <1>c, <1>d, <1>e, <1>f, <2>1
  <2>3. /\ wpc'[w] = "write" /\ fd'[w] = inode'
        /\ \A v \in Writers \ {w} : wpc'[v] = wpc[v] /\ fd'[v] = fd[v] /\ ev'[v] = ev[v]
    BY <2>1, Opening DEF Types
  <2>4. inode' # 0
    BY <2>1, Opening
  <2>5. ASSUME NEW v \in Writers, wpc'[v] # "idle"
        PROVE  fd'[v] = inode'
    <3>1. CASE v = w
      BY <2>3, <3>1
    <3>2. CASE v # w
      <4>1. fd[v] = inode /\ inode # 0 /\ fd'[v] = fd[v]
        BY <1>b, <2>3, <2>5, <3>2 DEF Types
      <4>2. QED
        BY <2>1, <4>1, Opening
    <3>3. QED
      BY <3>1, <3>2
  <2>6. ASSUME NEW v \in Writers, wpc'[v] = "rest"
        PROVE  Disturbed(ev[v])' \/ (unended' /\ lines'[Len(lines')] = L!Line(ev[v], "head")')
    <3>1. wpc[v] = "rest" /\ ev'[v] = ev[v]
      BY <2>3, <2>6
    <3>2. QED
      BY <1>g, <2>1, <3>1
  <2>7. ASSUME unended'
        PROVE  \E v \in Writers : wpc'[v] = "rest"
    <3>1. PICK v \in Writers : wpc[v] = "rest"
      BY <1>b, <2>1, <2>7
    <3>2. wpc'[v] = "rest"
      BY <2>1, <2>3, <3>1
    <3>3. QED
      BY <3>2
  <2>8. QED
    BY <2>2, <2>4, <2>5, <2>6, <2>7 DEF Undisturbed
<1>3. ASSUME NEW w \in Writers, Starts(w) \/ Completes(w)
      PROVE  Undisturbed' /\ IntactUnlessLong'
  <2>1. PICK e : e = ev[w]
    OBVIOUS
  <2>2. /\ wpc[w] # "idle" /\ e \in EventSet /\ e.by = w /\ e \in L!Events
        /\ L!Events \in SUBSET EventSet
    BY <1>3, <2>1, WriteShape DEF Ends, Goes, Types, L!Events
  <2>3. fd[w] = inode /\ inode' = inode /\ made' = made /\ cut' = {}
    BY <1>3, <1>b, <2>2, WriteShape DEF Calm
  <2>4. ASSUME NEW t, L!Outputs(w, t)
        PROVE  L!Becomes(L!Behind(L!File, t))
    BY <2>3, <2>4 DEF L!Outputs, L!Writes
  <2>5. PICK u \in PieceOf(L!Events) : lines' = L!Behind(L!File, u).lines
    <3>1. PICK u : Wrote(w, u)
      BY <1>3, Writing
    <3>2. u \in PieceOf(L!Events) /\ lines' = L!Behind(L!File, u).lines
      BY <2>3, <3>1 DEF Wrote, L!Becomes, TextOf
    <3>3. QED
      BY <3>2
  <2>6. \A g \in written : L!Whole(g)' \/ Spread(g) \/ Disturbed(g)'
    <3>1. ASSUME NEW g, L!Whole(g)
          PROVE  L!Whole(g)'
      BY <2>5, <3>1, WholeStays
    <3>2. QED
      BY <1>c, <1>d, <3>1
  <2>7. \A v \in Writers \ {w} : wpc'[v] = wpc[v] /\ fd'[v] = fd[v] /\ ev'[v] = ev[v]
    BY <1>3, WriteShape DEF Ends, Goes, L!Closes, Types
  <2>8. ASSUME NEW v \in Writers \ {w}, wpc[v] = "rest"
        PROVE  Disturbed(ev[v])' /\ Disturbed(e)'
    <3>1. ev[v].long /\ ev'[v] = ev[v]
      BY <2>7, <2>8 DEF Types
    <3>2. PICK d : d = ev[v]
      OBVIOUS
    <3>3. Disturbed(d)' /\ Disturbed(e)'
      BY <2>1, <2>2, <2>8, <3>1, <3>2, Disturbing
    <3>4. QED
      BY <3>1, <3>2, <3>3 DEF Disturbed
  <2>9. \A v \in Writers \ {w} : wpc'[v] = "rest" => Disturbed(ev[v])'
    BY <2>7, <2>8
  <2>10. unended /\ wpc[w] = "write" => Disturbed(e)'
    <3>1. ASSUME unended, wpc[w] = "write"
          PROVE  \E v \in Writers \ {w} : wpc[v] = "rest"
      BY <1>b, <3>1
    <3>2. QED
      BY <2>8, <3>1
  <2>11. CASE L!Put(w) \/ L!PutRest(w)
    <3>1. Ends(w)
      BY <2>11 DEF L!Put, L!PutRest, Ends
    <3>2. /\ wpc'[w] = "idle" /\ written' = written \cup {e}
      BY <2>1, <2>3, <3>1 DEF Ends, L!Closes, Types
    <3>3. unended' = FALSE /\ (L!Whole(e)' \/ Spread(e) \/ Disturbed(e)')
      <4> DEFINE whole == L!Line(e, "whole")
                 head == L!Line(e, "head")
                 rest == L!Line(e, "rest")
      <4>0. /\ whole \in LinesOf(L!Events) /\ rest \in LinesOf(L!Events)
            /\ head.form = "head" /\ rest.form = "rest" /\ head.hash = rest.hash
        BY <2>2, LineIsLine DEF Forms
      <4>1. CASE L!Put(w) /\ Spread(e)
        <5>1. L!Becomes(L!Behind(L!File, L!Ended(L!to_json(e)))) /\ L!to_json(e) # <<>>
          BY <2>1, <2>4, <4>1 DEF L!Put, L!to_json
        <5>2. /\ L!Ended(L!to_json(e)) \in PieceOf(L!Events) /\ L!File \in TextOf(L!Events)
              /\ L!Ended(L!to_json(e)).lines = L!to_json(e) /\ L!Ended(L!to_json(e)).unended = FALSE
          BY <2>2, WholeTexts DEF TextOf, HashesKnown, L!Ended
        <5>3. unended' = FALSE
          BY <5>1, <5>2, BehindPlaces DEF L!Becomes
        <5>4. QED
          BY <4>1, <5>3
      <4>2. CASE L!Put(w) /\ ~Spread(e)
        <5>1. L!Becomes(L!Behind(L!File, [lines |-> <<whole>>, unended |-> FALSE]))
          <6>1. L!Ended(L!to_json(e)) = [lines |-> <<whole>>, unended |-> FALSE]
            BY <4>2 DEF L!to_json, L!Ended
          <6>2. L!Outputs(w, L!Ended(L!to_json(e)))
            BY <2>1, <4>2 DEF L!Put
          <6>3. QED
            BY <2>4, <6>1, <6>2
        <5> HIDE DEF whole
        <5>2. /\ unended' = FALSE /\ Len(lines') \in 1 .. Len(lines')
              /\ ~unended => lines'[Len(lines')] = whole
          BY <4>0, <5>1, LastLine
        <5>3. ~unended => L!Whole(e)'
          BY <5>2 DEF L!Whole, whole, L!Line, L!compute_hash, L!Open
        <5>4. wpc[w] = "write"
          BY <4>2 DEF L!Put
        <5>5. QED
          BY <2>10, <5>2, <5>3, <5>4
      <4>3. CASE L!PutRest(w)
        <5>1. L!Becomes(L!Behind(L!File, [lines |-> <<rest>>, unended |-> FALSE]))
          <6>1. L!Ended(<<L!Line(ev[w], "rest")>>) = [lines |-> <<rest>>, unended |-> FALSE]
            BY <2>1 DEF L!Ended
          <6>2. L!Outputs(w, L!Ended(<<L!Line(ev[w], "rest")>>))
            BY <4>3 DEF L!PutRest
          <6>3. QED
            BY <2>4, <6>1, <6>2
        <5> HIDE DEF rest
        <5>2. /\ unended' = FALSE /\ Len(lines') \in 1 .. Len(lines')
              /\ unended => lines'[Len(lines')] = L!Glue(lines[Len(lines)], rest)
          BY <4>0, <5>1, LastLine
        <5>3. CASE Disturbed(e)
          BY <1>d, <5>2, <5>3
        <5>4. CASE unended /\ lines[Len(lines)] = head
          <6>1. L!Glue(head, rest) = [head EXCEPT !.form = "whole"]
            <7> HIDE DEF head
            <7>1. QED
              BY <4>0 DEF L!Glue
          <6>2. [head EXCEPT !.form = "whole"] = whole
            BY DEF L!Line
          <6> HIDE DEF head, whole
          <6>3. lines'[Len(lines')] = whole
            BY <5>2, <5>4, <6>1, <6>2
          <6>4. L!Whole(e)'
            BY <5>2, <6>3 DEF L!Whole, whole, L!Line, L!compute_hash, L!Open
          <6>5. QED
            BY <5>2, <6>4
        <5>5. QED
          <6>1. wpc[w] = "rest"
            BY <4>3 DEF L!PutRest
          <6>2. QED
            BY <1>b, <2>1, <5>3, <5>4, <6>1
      <4>4. QED
        BY <2>11, <4>1, <4>2, <4>3
    <3>4. IntactUnlessLong'
      BY <1>e, <2>6, <3>2, <3>3
    <3>5. \A v \in Writers : wpc'[v] # "idle" => fd'[v] = inode'
      BY <1>b, <2>3, <2>7, <3>2
    <3>6. \A v \in Writers : wpc'[v] = "rest" => Disturbed(ev[v])'
      BY <2>9, <3>2
    <3>7. QED
      BY <1>b, <2>3, <3>3, <3>4, <3>5, <3>6 DEF Undisturbed
  <2>12. CASE L!PutHead(w)
    <3> DEFINE head == L!Line(e, "head")
    <3>0. head \in LinesOf(L!Events)
      BY <2>2, LineIsLine DEF Forms
    <3>1. wpc[w] = "write" /\ wpc'[w] = "rest" /\ UNCHANGED <<fd, ev, written>>
      BY <2>12 DEF L!PutHead, Types
    <3>2. L!Becomes(L!Behind(L!File, [lines |-> <<head>>, unended |-> TRUE]))
      <4>1. L!Unended(<<L!Line(ev[w], "head")>>) = [lines |-> <<head>>, unended |-> TRUE]
        BY <2>1 DEF L!Unended
      <4>2. L!Outputs(w, L!Unended(<<L!Line(ev[w], "head")>>))
        BY <2>12 DEF L!PutHead
      <4>3. QED
        BY <2>4, <4>1, <4>2
    <3> HIDE DEF head
    <3>3. unended' = TRUE /\ (~unended => lines'[Len(lines')] = head)
      BY <3>0, <3>2, LastLine
    <3>4. ASSUME NEW v \in Writers, wpc'[v] = "rest"
          PROVE  Disturbed(ev[v])' \/ (unended' /\ lines'[Len(lines')] = L!Line(ev[v], "head")')
      <4>1. CASE v = w
        <5>1. ev'[v] = e
          BY <2>1, <3>1, <4>1
        <5>2. CASE Disturbed(e)'
          BY <5>1, <5>2 DEF Disturbed
        <5>3. CASE ~unended
          BY <3>3, <5>1, <5>3 DEF head, L!Line, L!compute_hash, L!Open
        <5>4. QED
          BY <2>10, <3>1, <5>2, <5>3
      <4>2. CASE v # w
        BY <2>9, <3>4, <4>2
      <4>3. QED
        BY <4>1, <4>2
    <3>5. \A v \in Writers : wpc'[v] # "idle" => fd'[v] = inode'
      BY <1>b, <2>2, <2>3, <2>7, <3>1
    <3>6. IntactUnlessLong'
      BY <1>e, <2>6, <3>1
    <3>7. QED
      BY <1>b, <2>3, <3>1, <3>4, <3>5, <3>6 DEF Undisturbed
  <2>13. QED
    BY <1>3, <2>11, <2>12 DEF Starts, Appends, Completes
<1>4. CASE L!TesterStep /\ WritersSame
  <2>1. UNCHANGED <<inode, made, lines, unended>>
    <3>1. tpc # "rewrite" /\ tampered' = FALSE
      BY <1>a DEF Calm, Types
    <3>2. QED
      BY <1>4, <3>1 DEF L!TesterStep, L!AskGateway, L!CountLines, L!FindTarget, L!Truncate,
                        L!Rewrite, L!Check, L!fileVars
  <2>2. UndisturbedSame
    BY <1>4, <2>1 DEF WritersSame, writerVars, UndisturbedSame
  <2>3. QED
    BY <1>h, <2>2
<1>5. CASE L!Clear
  BY <1>5 DEF L!Clear, Calm
<1>6. CASE UNCHANGED logVars
  BY <1>h, <1>6 DEF logVars, writerVars, UndisturbedSame
<1>7. QED
  BY <1>1, <1>2, <1>3, <1>4, <1>5, <1>6, <1>h DEF Kind

-----------------------------------------------------------------------------
(* The theorems                                                            *)

LEMMA InitInv == Init => IInv
<1> SUFFICES ASSUME Init PROVE IInv
  OBVIOUS
<1>1. /\ ran = 0 /\ apc = "open" /\ sent = 0 /\ waiting = 0 /\ overflowed = FALSE
      /\ dispatched = 0 /\ command = "none"
  BY DEF Init, A!Init
<1>2. /\ inode = 0 /\ made = 0 /\ lines = <<>> /\ unended = FALSE
      /\ wpc = [w \in Writers |-> "idle"] /\ fd = [w \in Writers |-> 0]
      /\ ev = [w \in Writers |-> Nothing]
      /\ written = {} /\ cut = {} /\ tampered = FALSE /\ short = FALSE /\ cleared = FALSE
      /\ tpc = "start" /\ tfd = 0 /\ cache = <<>> /\ target = 0
  BY DEF Init, L!Init, L!FileInit, L!WriterInit, L!TesterInit
<1>3. Types
  <2>1. /\ overflowed \in BOOLEAN /\ tampered \in BOOLEAN
        /\ short \in BOOLEAN /\ cleared \in BOOLEAN
    BY <1>1, <1>2
  <2>2. A!TypeOK
    BY <1>1, <2>1, LocalAuditAssumption DEF A!TypeOK
  <2>3. Len(cache) <= MaxCached /\ ran \in 0 .. MaxExecs
    BY <1>1, <1>2, LocalAuditAssumption
  <2>4. /\ wpc \in [Writers -> {"idle", "write", "rest"}] /\ fd \in [Writers -> Nat]
        /\ ev \in [Writers -> EventSet \cup {Nothing}]
        /\ \A w \in Writers : wpc[w] = "idle" /\ fd[w] = 0
    BY <1>2
  <2>5. wpc["daemon"] = "idle"
    BY <2>4 DEF Writers
  <2>6. QED
    BY <1>1, <1>2, <2>1, <2>2, <2>3, <2>4, <2>5 DEF Types
<1>4. Numbered
  BY <1>2 DEF Numbered
<1>5. HashesKnown
  <2>1. L!File = [lines |-> <<>>, unended |-> FALSE]
    BY <1>2 DEF L!File
  <2>2. <<>> \in Seq(LinesOf(L!Events))
    OBVIOUS
  <2>3. QED
    BY <1>2, <2>1, <2>2 DEF HashesKnown, TextOf, PieceOf
<1>6. LinesOrdered /\ TamperTraced
  BY <1>2 DEF LinesOrdered, InOrder, UpToDate, TamperTraced
<1>7. Undisturbed /\ IntactUnlessLong
  BY <1>2 DEF Undisturbed, IntactUnlessLong, L!IntactUnlessLong
<1>8. QED
  BY <1>3, <1>4, <1>5, <1>6, <1>7 DEF IInv

LEMMA NextInv == IInv /\ [Next]_vars => IInv'
<1> SUFFICES ASSUME IInv, [Next]_vars PROVE IInv'
  OBVIOUS
<1> USE DEF IInv
<1>1. Types' /\ Kind
  BY TypesStep, Kinds
<1>2. Numbered' /\ HashesKnown' /\ LinesOrdered' /\ TamperTraced'
  BY <1>1, NumberedStep, HashesStep, LinesOrderedStep, TamperTracedStep
<1>3. Undisturbed' /\ IntactUnlessLong'
  BY <1>1, UndisturbedStep
<1>4. QED
  BY <1>1, <1>2, <1>3

LEMMA Inductive == Spec => []IInv
BY InitInv, NextInv, PTL DEF Spec

(* The types, and that no event is both written and cut short              *)
(* (log_local.c:21-39, 73-108).                                            *)
THEOREM TypesHold == Spec => []TypeOK
<1>1. IInv => TypeOK
  BY DEF IInv, Types, HashesKnown, TextOf, L!File, Numbered, TypeOK
<1>2. QED
  BY <1>1, Inductive, PTL

(* Whatever is appended, rewritten, cut or mixed, what the integrity test  *)
(* calls verified is what an auditor logged, but for the lines whose texts *)
(* or new value have quotes or newlines (main.c:365-377, event.c:29-100).  *)
THEOREM VerifiedAlwaysHonest == Spec => []VerifiedIsHonest
<1>1. IInv => VerifiedIsHonest
  BY Honest DEF IInv
<1>2. QED
  BY <1>1, Inductive, PTL

(* An undamaged plain line never fails the test but for the unwritten byte *)
(* (main.c:372-376).                                                       *)
THEOREM HonestLinesAlwaysMatch == Spec => []HonestLinesMatch
<1>1. IInv => HonestLinesMatch
  BY Matching DEF IInv
<1>2. QED
  BY <1>1, Inductive, PTL

(* The test reports the line that the simulation changed, wherever the     *)
(* appends of the auditors fall and whichever of them are cut short, but   *)
(* not for a new value with quotes or newlines or one that reads as the    *)
(* old one (main.c:336, 356-361, log_local.c:73-105).                      *)
THEOREM TamperAlwaysDetected == Spec => []TamperDetected
<1>1. IInv => TamperDetected
  BY Detected DEF IInv
<1>2. QED
  BY <1>1, Inductive, PTL

(* The lines of an auditor are in order also after a rewrite from an old   *)
(* copy over newer appends, and after writes that failed                   *)
(* (log_local.c:30-38, 73-108).                                            *)
THEOREM LogAlwaysInOrder == Spec => []LogInOrder
<1>1. IInv => LogInOrder
  BY DEF IInv, LinesOrdered, InOrder, Keyed, LogInOrder, L!LogInOrder
<1>2. QED
  BY <1>1, Inductive, PTL

(* Without tampering, clearing and failed writes only an event too long    *)
(* for one write damages a line or is damaged (log_local.c:30-38).         *)
THEOREM AlwaysIntactUnlessLong == Spec => []IntactUnlessLong
<1>1. IInv => IntactUnlessLong
  BY DEF IInv
<1>2. QED
  BY <1>1, Inductive, PTL

-----------------------------------------------------------------------------
(* What an overflow costs                                                  *)

(* The one record that the kernel drops costs the whole backlog: from then *)
(* on the monitor dispatches nothing more and leaves the records in the    *)
(* socket, which is full.  The same is true once it is blocked in          *)
(* queue_push (audit_monitor.c:300-312, main.c:29-31).                     *)
OverflowStrandsBacklog ==
  [][/\ overflowed \/ apc = "returned" => UNCHANGED <<waiting, dispatched>>
     /\ overflowed => waiting = Backlog /\ (overflowed' \/ apc' = "returned")
     /\ apc \in {"returned", "blocked"} => apc' = apc /\ UNCHANGED dispatched]_vars

\* The records wait behind the overflow, which is looked at first.
LEMMA MonitorKeepsBacklog ==
  ASSUME Types, overflowed => waiting = Backlog, A!Next
  PROVE  /\ overflowed' => waiting' = Backlog
         /\ overflowed \/ apc = "returned" => UNCHANGED <<waiting, dispatched>>
         /\ overflowed => overflowed' \/ apc' = "returned"
         /\ apc \in {"returned", "blocked"} => apc' = apc /\ UNCHANGED dispatched
<1>1. CASE A!Open
  BY <1>1 DEF A!Open
<1>2. CASE A!Read
  BY <1>2 DEF A!Read, A!ParseExecve, A!ParseSyscall, A!ParsePath, A!ParseUserLogin, A!ParseAnomAbend,
              A!OtherRecord, A!GetReply
<1>3. CASE A!Push
  BY <1>3 DEF A!Push
<1>4. CASE A!ReadFails
  BY <1>4 DEF A!ReadFails
<1>5. CASE A!CallbackReturns
  BY <1>5 DEF A!CallbackReturns
<1>6. CASE A!Send
  BY <1>6, LocalAuditAssumption DEF A!Send, Types, A!TypeOK
<1>7. QED
  BY <1>1, <1>2, <1>3, <1>4, <1>5, <1>6 DEF A!Next, A!MonitorStep

(* The safety half of OverflowEndsMonitor.                                 *)
THEOREM OverflowAlwaysStrands == Spec => OverflowStrandsBacklog
<1> DEFINE Full == overflowed => waiting = Backlog
           Stranded == /\ overflowed \/ apc = "returned" => UNCHANGED <<waiting, dispatched>>
                       /\ overflowed => waiting = Backlog /\ (overflowed' \/ apc' = "returned")
                       /\ apc \in {"returned", "blocked"} => apc' = apc /\ UNCHANGED dispatched
<1>1. [Next]_vars => A!Next \/ UNCHANGED auditVars
  BY DEF Next, RunLogs, DaemonLogs, Monitor, Kernel, Tester, Clear, A!Next, vars
<1>2. Init => Full
  BY DEF Init, A!Init
<1>3. Types /\ Full /\ [Next]_vars => Full'
  BY <1>1, MonitorKeepsBacklog DEF auditVars
<1>4. IInv => Types
  BY DEF IInv
<1>5. Spec => []Full
  BY <1>2, <1>3, <1>4, Inductive, PTL DEF Spec
<1>6. Types /\ Full /\ [Next]_vars => [Stranded]_vars
  BY <1>1, MonitorKeepsBacklog DEF auditVars
<1>7. QED
  BY <1>4, <1>5, <1>6, Inductive, PTL DEF Spec, OverflowStrandsBacklog
=============================================================================
