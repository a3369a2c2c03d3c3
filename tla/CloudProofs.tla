----------------------------- MODULE CloudProofs -----------------------------
(***************************************************************************)
(* Proofs about AuditLog, CloudSync and AuditRepo, for any number of       *)
(* processes, events, syncs, projects and faults.                          *)
(***************************************************************************)
EXTENDS AuditRepo, RecursionProofs, FiniteSetTheorems, SequenceTheorems

(***************************************************************************)
(* The records of a file                                                   *)
(***************************************************************************)
\* upTo[n] of RecordsOf, by its equations: what the first n lines hold
Passed(file, n, upTo) ==
    /\ upTo \in [0..n -> Seq(Line)]
    /\ upTo[0] = << >>
    /\ \A k \in 1..n : upTo[k] = IF IsRecord(file[k]) THEN Append(upTo[k - 1], file[k]) ELSE upTo[k - 1]

LEMMA PassExists ==
    ASSUME NEW file \in Seq(Line)
    PROVE  \A n \in 0..Len(file) : \E upTo : Passed(file, n, upTo)
<1>. DEFINE T == {n \in Nat : n <= Len(file) => \E upTo : Passed(file, n, upTo)}
<1>1. 0 \in T
  <2>. DEFINE g == [k \in 0..0 |-> << >>]
  <2>1. << >> \in Seq(Line)
    OBVIOUS
  <2>2. g \in [0..0 -> Seq(Line)] /\ g[0] = << >>
    BY <2>1
  <2>3. Passed(file, 0, g)
    BY <2>2 DEF Passed
  <2>. QED BY <2>3
<1>2. ASSUME NEW n \in Nat, n \in T PROVE n + 1 \in T
  <2>. SUFFICES ASSUME n + 1 <= Len(file) PROVE \E upTo : Passed(file, n + 1, upTo)
    OBVIOUS
  <2>1. PICK h : Passed(file, n, h)
    BY <1>2
  <2>. DEFINE last == IF IsRecord(file[n + 1]) THEN Append(h[n], file[n + 1]) ELSE h[n]
              g == [k \in 0..(n + 1) |-> IF k <= n THEN h[k] ELSE last]
  <2>2. last \in Seq(Line)
    <3>1. file[n + 1] \in Line
      BY ElementOfSeq
    <3>2. h[n] \in Seq(Line)
      BY <2>1 DEF Passed
    <3>. QED BY <3>1, <3>2, AppendProperties
  <2>3. g \in [0..(n + 1) -> Seq(Line)]
    <3>. HIDE DEF last
    <3>. QED BY <2>1, <2>2 DEF Passed
  <2>4. g[0] = << >>
    BY <2>1 DEF Passed
  <2>5. ASSUME NEW k \in 1..(n + 1)
        PROVE  g[k] = IF IsRecord(file[k]) THEN Append(g[k - 1], file[k]) ELSE g[k - 1]
    <3>1. CASE k = n + 1
      BY <3>1
    <3>2. CASE k \in 1..n
      <4>1. g[k] = h[k] /\ g[k - 1] = h[k - 1]
        BY <3>2
      <4>. QED BY <4>1, <3>2, <2>1 DEF Passed
    <3>. QED BY <3>1, <3>2
  <2>. HIDE DEF g
  <2>6. Passed(file, n + 1, g)
    BY <2>3, <2>4, <2>5 DEF Passed
  <2>. QED BY <2>6
<1>. HIDE DEF T
<1>3. \A n \in Nat : n \in T
  BY <1>1, <1>2, NatInd
<1>. QED BY <1>3 DEF T

LEMMA RecordsPassed ==
    ASSUME NEW file \in Seq(Line)
    PROVE  \E upTo : Passed(file, Len(file), upTo) /\ RecordsOf(file) = upTo[Len(file)]
<1>. DEFINE D(f) == [n \in 0..Len(file) |->
                        IF n = 0 THEN << >>
                        ELSE IF IsRecord(file[n]) THEN Append(f[n - 1], file[n]) ELSE f[n - 1]]
            g == CHOOSE f : f = D(f)
<1>1. \E f : f = D(f)
  <2>1. PICK h : Passed(file, Len(file), h)
    BY PassExists
  <2>2. ASSUME NEW k \in 0..Len(file) PROVE h[k] = D(h)[k]
    <3>1. CASE k = 0
      BY <3>1, <2>1 DEF Passed
    <3>2. CASE k \in 1..Len(file)
      BY <3>2, <2>1 DEF Passed
    <3>. QED BY <3>1, <3>2
  <2>3. h = D(h)
    <3>1. h = [k \in 0..Len(file) |-> h[k]]
      BY <2>1 DEF Passed
    <3>. HIDE DEF D
    <3>2. D(h) = [k \in 0..Len(file) |-> D(h)[k]]
      BY DEF D
    <3>. QED BY <3>1, <3>2, <2>2
  <2>. QED BY <2>3
<1>2. RecordsOf(file) = g[Len(file)]
  BY DEF RecordsOf
<1>3. g = D(g)
  BY <1>1
<1>4. \A k \in 0..Len(file) : g[k] = D(g)[k]
  BY <1>3
<1>5. g[0] = << >> /\ \A k \in 1..Len(file) :
          g[k] = IF IsRecord(file[k]) THEN Append(g[k - 1], file[k]) ELSE g[k - 1]
  <2>. HIDE DEF g
  <2>. QED BY <1>4
<1>6. g \in [0..Len(file) -> Seq(Line)]
  <2>. DEFINE T == {n \in Nat : n <= Len(file) => g[n] \in Seq(Line)}
  <2>1. 0 \in T
    <3>. HIDE DEF g
    <3>1. << >> \in Seq(Line)
      OBVIOUS
    <3>. QED BY <3>1, <1>5
  <2>2. ASSUME NEW n \in Nat, n \in T PROVE n + 1 \in T
    <3>. HIDE DEF g
    <3>. SUFFICES ASSUME n + 1 <= Len(file) PROVE g[n + 1] \in Seq(Line)
      OBVIOUS
    <3>1. g[n] \in Seq(Line) /\ file[n + 1] \in Line /\ n + 1 \in 1..Len(file)
      BY <2>2, ElementOfSeq
    <3>2. Append(g[n], file[n + 1]) \in Seq(Line)
      BY <3>1, AppendProperties
    <3>3. g[n + 1] = IF IsRecord(file[n + 1]) THEN Append(g[n], file[n + 1]) ELSE g[n]
      BY <1>5, <3>1
    <3>. QED BY <3>1, <3>2, <3>3
  <2>. HIDE DEF T
  <2>3. \A n \in Nat : n \in T
    BY <2>1, <2>2, NatInd
  <2>4. \A n \in 0..Len(file) : g[n] \in Seq(Line)
    BY <2>3 DEF T
  <2>5. g = [n \in 0..Len(file) |-> g[n]]
    BY <1>3
  <2>. HIDE DEF g
  <2>. QED BY <2>4, <2>5
<1>. HIDE DEF g
<1>7. Passed(file, Len(file), g)
  BY <1>5, <1>6 DEF Passed
<1>. QED BY <1>2, <1>7
LEMMA RecordsType ==
    ASSUME NEW file \in Seq(Line) PROVE RecordsOf(file) \in Seq(Line)
BY RecordsPassed DEF Passed

LEMMA NoRecords == RecordsOf(<< >>) = << >>
<1>1. << >> \in Seq(Line) /\ Len(<< >>) = 0
  OBVIOUS
<1>. QED BY <1>1, RecordsPassed DEF Passed

\* A line at the end adds its record and changes no other.
LEMMA RecordsAppend ==
    ASSUME NEW file \in Seq(Line), NEW line \in Line
    PROVE  RecordsOf(Append(file, line)) =
               IF IsRecord(line) THEN Append(RecordsOf(file), line) ELSE RecordsOf(file)
<1>. DEFINE longer == Append(file, line)
            n == Len(file)
<1>1. /\ longer \in Seq(Line) /\ Len(longer) = n + 1 /\ longer[n + 1] = line
      /\ \A k \in 1..n : longer[k] = file[k]
  BY AppendProperties
<1>2. n \in Nat
  OBVIOUS
<1>3. PICK f : Passed(file, n, f) /\ RecordsOf(file) = f[n]
  BY RecordsPassed
<1>. HIDE DEF longer, n
<1>4. PICK g : Passed(longer, n + 1, g) /\ RecordsOf(longer) = g[n + 1]
  BY <1>1, RecordsPassed
<1>5. \A k \in 0..n : g[k] = f[k]
  <2>. DEFINE T == {k \in Nat : k <= n => g[k] = f[k]}
  <2>1. 0 \in T
    BY <1>3, <1>4 DEF Passed
  <2>2. ASSUME NEW k \in Nat, k \in T PROVE k + 1 \in T
    <3>. SUFFICES ASSUME k + 1 <= n PROVE g[k + 1] = f[k + 1]
      OBVIOUS
    <3>1. k + 1 \in 1..n /\ k + 1 \in 1..(n + 1) /\ g[k] = f[k] /\ (k + 1) - 1 = k
      BY <2>2, <1>2
    <3>2. f[k + 1] = IF IsRecord(file[k + 1]) THEN Append(f[k], file[k + 1]) ELSE f[k]
      BY <3>1, <1>3 DEF Passed
    <3>3. g[k + 1] = IF IsRecord(longer[k + 1]) THEN Append(g[k], longer[k + 1]) ELSE g[k]
      BY <3>1, <1>4 DEF Passed
    <3>. QED BY <3>1, <3>2, <3>3, <1>1
  <2>. HIDE DEF T
  <2>3. \A k \in Nat : k \in T
    BY <2>1, <2>2, NatInd
  <2>. QED BY <2>3, <1>2 DEF T
<1>6. g[n + 1] = IF IsRecord(longer[n + 1]) THEN Append(g[n], longer[n + 1]) ELSE g[n]
  <2>1. n + 1 \in 1..(n + 1) /\ (n + 1) - 1 = n
    BY <1>2
  <2>. QED BY <2>1, <1>4 DEF Passed
<1>. QED BY <1>1, <1>2, <1>3, <1>4, <1>5, <1>6 DEF longer

(***************************************************************************)
(* The log                                                                 *)
(***************************************************************************)
LEMMA LogInit == AuditInit => LogOK /\ RecordsOf(lines) = << >>
<1>. SUFFICES ASSUME AuditInit PROVE LogOK /\ RecordsOf(lines) = << >>
  OBVIOUS
<1>1. lines = << >> /\ << >> \in Seq(Line)
  BY DEF AuditInit
<1>. QED BY <1>1, NoRecords DEF AuditInit, LogOK, FileOK, Tree

\* What a line that is written does to the file
LEMMA PutLine ==
    ASSUME LogOK, NEW line \in Line, Put(line)
    PROVE  /\ lines' \in Seq(Line) /\ lines' # << >>
           /\ ~open => /\ lines' = Append(lines, line) /\ Len(lines') = Len(lines) + 1
                       /\ lines'[Len(lines) + 1] = line /\ \A k \in 1..Len(lines) : lines'[k] = lines[k]
           /\ open => /\ Len(lines) \in Nat \ {0} /\ Len(lines') = Len(lines)
                      /\ lines' = [lines EXCEPT ![Len(lines)] = Torn] /\ ~IsRecord(lines'[Len(lines')])
<1>0. lines \in Seq(Line) /\ (open => lines # << >>)
  BY DEF LogOK, FileOK, Tree
<1>1. CASE ~open
  <2>1. lines' = Append(lines, line)
    BY <1>1 DEF Put
  <2>2. /\ lines' \in Seq(Line) /\ Len(lines') = Len(lines) + 1 /\ lines'[Len(lines) + 1] = line
        /\ \A k \in 1..Len(lines) : lines'[k] = lines[k]
    BY <1>0, <2>1, AppendProperties
  <2>3. lines' # << >>
    BY <1>0, <2>1, AppendProperties
  <2>. QED BY <1>1, <2>1, <2>2, <2>3
<1>2. CASE open
  <2>1. lines' = [lines EXCEPT ![Len(lines)] = Torn] /\ lines # << >>
    BY <1>0, <1>2 DEF Put
  <2>2. Torn \in Line /\ Len(lines) \in Nat \ {0} /\ Len(lines) \in 1..Len(lines)
    BY <1>0, <2>1, EmptySeq DEF Torn, Line
  <2>3. lines' \in Seq(Line) /\ Len(lines') = Len(lines) /\ lines'[Len(lines)] = Torn
    BY <1>0, <2>1, <2>2, ExceptSeq
  <2>. QED BY <1>2, <2>1, <2>2, <2>3 DEF IsRecord
<1>. QED BY <1>1, <1>2

LEMMA NextRecordIs ==
    ASSUME LogOK, NEW w \in Writers, CanLog(w)
    PROVE  /\ NextRecord(w) \in Line /\ IsRecord(NextRecord(w))
           /\ NextRecord(w).id = count + 1 /\ NextRecord(w).prev = cache[w] /\ cache[w] \in Int
BY DEF LogOK, CanLog, NextRecord, Line, IsRecord, Torn

LEMMA TornLine == Torn \in Line /\ ~IsRecord(Torn)
BY DEF Torn, Line, IsRecord

\* The steps of a log: it takes a line, or what it holds stays
LEMMA LogSteps ==
    ASSUME LogOK, NEW w \in Writers
    PROVE  /\ LoadLastHash(w) \/ End(w) => UNCHANGED <<lines, open, count, logged>>
           /\ Log(w) => /\ Put(NextRecord(w)) /\ logged' = logged \union {count + 1}
                        /\ NextRecord(w) \in Line /\ count' # count /\ count' \in Nat
           /\ \A what : Tear(w, what) => /\ Put(IF what = "part" THEN Torn ELSE NextRecord(w))
                                         /\ logged' = logged /\ count' # count /\ count' \in Nat
                                         /\ (IF what = "part" THEN Torn ELSE NextRecord(w)) \in Line
<1>1. LoadLastHash(w) \/ End(w) => UNCHANGED <<lines, open, count, logged>>
  BY DEF LoadLastHash, End
<1>2. CanLog(w) => NextRecord(w) \in Line
  BY NextRecordIs
<1>3. count + 1 # count /\ count + 1 \in Nat
  BY DEF LogOK
<1>. QED BY <1>1, <1>2, <1>3, TornLine DEF Log, Tear

LEMMA LogTypes ==
    ASSUME LogOK, NEW w \in Writers, LogStep(w) \/ End(w) PROVE LogOK'
<1>0. lines \in Seq(Line) /\ open \in BOOLEAN /\ cache \in [Writers -> Int \union {NoProcess}]
  BY DEF LogOK, FileOK, Tree
<1>1. CASE LoadLastHash(w)
  <2>1. Records \in Seq(Line)
    BY <1>0, RecordsType DEF Records
  <2>2. UNCHANGED <<lines, open, count>>
    BY <1>1 DEF LoadLastHash
  <2>. DEFINE hash == IF Records = << >> THEN Genesis ELSE Id(Len(Records))
  <2>3. hash \in Int
    <3>1. CASE Records = << >>
      BY <3>1 DEF Genesis
    <3>2. CASE Records # << >>
      <4>1. Records[Len(Records)] \in Line
        BY <2>1, <3>2, EmptySeq, ElementOfSeq
      <4>. QED BY <3>2, <4>1 DEF Id, Line
    <3>. QED BY <3>1, <3>2
  <2>4. cache' = [cache EXCEPT ![w] = hash]
    BY <1>1 DEF LoadLastHash
  <2>. HIDE DEF hash
  <2>. QED BY <2>2, <2>3, <2>4 DEF LogOK, FileOK, Tree
<1>2. CASE Log(w)
  <2>1. NextRecord(w) \in Line /\ Put(NextRecord(w))
    BY <1>2, NextRecordIs DEF Log
  <2>2. lines' \in Seq(Line) /\ lines' # << >>
    BY <2>1, PutLine
  <2>3. count + 1 \in Int /\ open' = FALSE /\ count' \in Nat /\ cache' = [cache EXCEPT ![w] = count + 1]
    BY <1>2 DEF Log, LogOK
  <2>. QED BY <1>0, <2>2, <2>3 DEF LogOK, FileOK, Tree
<1>3. CASE End(w)
  BY <1>3 DEF End, LogOK, FileOK, Tree
<1>4. ASSUME NEW what \in Tears, Tear(w, what) PROVE LogOK'
  <2>1. lines' \in Seq(Line) /\ lines' # << >> /\ count' \in Nat
    BY <1>4, LogSteps, PutLine
  <2>2. open' = TRUE /\ cache' = [cache EXCEPT ![w] = NoProcess]
    BY <1>4 DEF Tear
  <2>. QED BY <1>0, <2>1, <2>2 DEF LogOK, FileOK, Tree
<1>. QED BY <1>1, <1>2, <1>3, <1>4 DEF LogStep

\* A line that joins a torn one spoils it.
LEMMA WholeStep ==
    ASSUME LogOK, NEW line \in Line, Put(line), Whole(lines')
    PROVE  Whole(lines) /\ ~open /\ IsRecord(line)
<1>1. CASE open
  <2>1. Len(lines') \in 1..Len(lines') /\ ~IsRecord(lines'[Len(lines')])
    BY <1>1, PutLine
  <2>. QED BY <2>1 DEF Whole
<1>2. CASE ~open
  <2>1. /\ Len(lines') = Len(lines) + 1 /\ lines'[Len(lines) + 1] = line
        /\ \A k \in 1..Len(lines) : lines'[k] = lines[k]
    BY <1>2, PutLine
  <2>2. Len(lines) \in Nat
    BY DEF LogOK, FileOK, Tree
  <2>. QED BY <1>2, <2>1, <2>2 DEF Whole
<1>. QED BY <1>1, <1>2

LEMMA KeptStep ==
    ASSUME LogOK, Kept(lines), NEW w \in Writers, LogStep(w) PROVE Kept(lines)'
<1>. SUFFICES ASSUME Whole(lines')
              PROVE  \A id \in logged' : \E k \in 1..Len(lines') : lines'[k].id = id
  BY DEF Kept, Whole
<1>2. CASE LoadLastHash(w)
  <2>1. UNCHANGED <<lines, logged>>
    BY <1>2, LogSteps
  <2>. QED BY <2>1 DEF Kept
<1>3. ASSUME NEW line \in Line, Put(line), logged' \in {logged, logged \union {line.id}}
      PROVE  \A id \in logged' : \E k \in 1..Len(lines') : lines'[k].id = id
  <2>1. Whole(lines) /\ ~open
    BY <1>3, WholeStep
  <2>2. /\ Len(lines') = Len(lines) + 1 /\ lines'[Len(lines) + 1] = line
        /\ \A k \in 1..Len(lines) : lines'[k] = lines[k]
    BY <1>3, <2>1, PutLine
  <2>3. Len(lines) \in Nat
    BY DEF LogOK, FileOK, Tree
  <2>4. \A id \in logged : \E k \in 1..Len(lines') : lines'[k].id = id
    BY <2>1, <2>2, <2>3 DEF Kept
  <2>5. Len(lines) + 1 \in 1..Len(lines')
    BY <2>2, <2>3
  <2>. QED BY <1>3, <2>2, <2>4, <2>5
<1>4. CASE Log(w)
  <2>1. NextRecord(w).id = count + 1
    BY DEF NextRecord
  <2>. QED BY <1>3, <1>4, <2>1, LogSteps
<1>5. ASSUME NEW what \in Tears, Tear(w, what)
      PROVE  \A id \in logged' : \E k \in 1..Len(lines') : lines'[k].id = id
  BY <1>3, <1>5, LogSteps
<1>. QED BY <1>2, <1>4, <1>5 DEF LogStep

(***************************************************************************)
(* The repository                                                          *)
(***************************************************************************)
LEMMA LogOf ==
    /\ Tree.log = [lines |-> lines, open |-> open]
    /\ Tree.log.lines = lines /\ Tree.log.open = open /\ Tree.link = link
    /\ Tree'.log.lines = lines' /\ Tree'.log.open = open' /\ Tree'.link = link'
BY DEF Tree

\* A switch that git allows leaves the log of the tree it goes to, where the two trees differ in it.
LEMMA SwitchIs ==
    ASSUME NEW from, NEW to, Switch(from, to)
    PROVE  /\ from.log # to.log => Tree.log = from.log /\ lines' = to.log.lines /\ open' = to.log.open
           /\ from.log = to.log => UNCHANGED <<lines, open>>
           /\ link' \in {link, to.link}
           /\ UNCHANGED <<cache, count, logged, sync, server, faults, links>>
<1>1. from.log = to.log => lines' = Tree.log.lines /\ open' = Tree.log.open
  BY DEF Switch
<1>2. from.log # to.log => Tree.log = from.log
  BY DEF Switch, Clean
<1>3. from.log # to.log => lines' = to.log.lines /\ open' = to.log.open
  BY DEF Switch
<1>4. link' \in {link, to.link} /\ UNCHANGED <<cache, count, logged, sync, server, faults, links>>
  BY DEF Switch
<1>. QED BY <1>1, <1>2, <1>3, <1>4, LogOf

\* The steps of git: what they do to the two files and to the trees
LEMMA CheckoutIs ==
    ASSUME RepoOK, NEW w \in Writers, CheckoutMain(w)
    PROVE  /\ head = "branch" /\ head' = "away" /\ switcher = w
           /\ Tree.log = branch.log /\ lines' = main.log.lines /\ open' = main.log.open
           /\ link' \in {link, main.link}
           /\ UNCHANGED <<cache, count, logged, sync, server, main, branch, switcher, reversed>>
<1>1. branch.log # main.log /\ Switch(branch, main)
  BY DEF CheckoutMain, RepoOK
<1>. QED BY <1>1, SwitchIs DEF CheckoutMain

LEMMA MergeIs ==
    ASSUME RepoOK, NEW w \in Writers, Merge(w)
    PROVE  /\ head = "away" /\ head' = "main" /\ switcher = w /\ switcher' = NoProcess
           /\ lines' = branch.log.lines /\ open' = branch.log.open
           /\ link' \in {link, branch.link} /\ main' = branch
           /\ UNCHANGED <<cache, count, logged, sync, server, branch, reversed>>
<1>1. branch.log # main.log /\ Switch(main, branch)
  BY DEF Merge, RepoOK
<1>. QED BY <1>1, SwitchIs DEF Merge

LEMMA RestartIs ==
    ASSUME RepoOK, NEW w \in Writers, Restart(w)
    PROVE  /\ lines' = main.log.lines /\ open' = main.log.open /\ head' = "main" /\ Alone(w)
           /\ branch' = main /\ reversed' = TRUE
           /\ UNCHANGED <<cache, count, logged, main, switcher>>
<1>1. branch.log # main.log /\ Switch(branch, main)
  BY DEF Restart, RepoOK
<1>. QED BY <1>1, SwitchIs DEF Restart

LEMMA CloudKeepsLog ==
    CloudStep => UNCHANGED audit
BY DEF CloudStep, Link, LoadLink, SyncStep, ReadLog, Push, SaveCursor, Defer

LEMMA NextIs ==
    ASSUME [Next]_vars
    PROVE  \/ \E w \in Writers : Logging(w) \/ EndRun(w) \/ Commit(w) \/ CheckoutMain(w) \/ Merge(w)
                                 \/ Abandon(w) \/ Restart(w)
           \/ (CloudStep \/ UNCHANGED cloud) /\ UNCHANGED <<audit, repo>>
BY CloudKeepsLog DEF Next, GitStep, vars

LEMMA RepoTypes ==
    ASSUME LogOK, RepoOK, [Next]_vars PROVE LogOK' /\ RepoOK'
<1>1. ASSUME NEW w \in Writers, Logging(w) PROVE LogOK' /\ RepoOK'
  BY <1>1, LogTypes DEF Logging, RepoOK
<1>2. ASSUME NEW w \in Writers, EndRun(w) PROVE LogOK' /\ RepoOK'
  BY <1>2, LogTypes DEF EndRun, RepoOK, repo
<1>3. ASSUME NEW w \in Writers, Commit(w) PROVE LogOK' /\ RepoOK'
  <2>1. Tree' = Tree /\ UNCHANGED <<lines, open, cache, count, main, reversed>>
    BY <1>3 DEF Commit, audit, cloud, Tree
  <2>2. FileOK(Tree.log) /\ Tree.log # main.log
    BY <1>3 DEF LogOK, Commit
  <2>3. branch' = Tree /\ head' = "branch" /\ switcher' = w
    BY <1>3 DEF Commit
  <2>. QED BY <2>1, <2>2, <2>3 DEF RepoOK, LogOK, FileOK
<1>4. ASSUME NEW w \in Writers, CheckoutMain(w) PROVE LogOK' /\ RepoOK'
  <2>1. switcher # NoProcess
    BY <1>4, ProcessAssumption, CheckoutIs
  <2>. QED BY <1>4, <2>1, CheckoutIs, LogOf DEF RepoOK, LogOK, FileOK
<1>5. ASSUME NEW w \in Writers, Merge(w) PROVE LogOK' /\ RepoOK'
  BY <1>5, MergeIs, LogOf DEF RepoOK, LogOK, FileOK
<1>6. ASSUME NEW w \in Writers, Abandon(w) PROVE LogOK' /\ RepoOK'
  <2>1. LogOK'
    BY <1>6, LogTypes DEF Abandon
  <2>2. /\ switcher' = NoProcess /\ main' = main
        /\ \/ head' = "main" /\ branch' = main /\ reversed' = TRUE
           \/ head # "away" /\ UNCHANGED <<head, branch, reversed>>
    BY <1>6 DEF Abandon
  <2>. QED BY <2>1, <2>2 DEF RepoOK
<1>7. ASSUME NEW w \in Writers, Restart(w) PROVE LogOK' /\ RepoOK'
  BY <1>7, RestartIs, LogOf DEF RepoOK, LogOK, FileOK
<1>8. CASE UNCHANGED <<audit, repo>>
  BY <1>8, LogOf DEF audit, repo, LogOK, RepoOK, FileOK
<1>. QED BY NextIs, <1>1, <1>2, <1>3, <1>4, <1>5, <1>6, <1>7, <1>8

\* While nothing is reversed, the log that counts is the same before and after a step of git;
\* a logger adds to it where it is in place.
LEMMA CurrentStep ==
    ASSUME LogOK, RepoOK, [Next]_vars, ~reversed'
    PROVE  /\ ~reversed
           /\ \/ Current' = Current /\ logged' = logged
              \/ \E w \in Writers : Logging(w) /\ LogStep(w) /\ head # "away" /\ UNCHANGED head
<1>1. ASSUME NEW w \in Writers, Logging(w)
      PROVE  /\ ~reversed
             /\ \/ Current' = Current /\ logged' = logged
                \/ Logging(w) /\ LogStep(w) /\ head # "away" /\ UNCHANGED head
  <2>1. LogStep(w) /\ UNCHANGED <<head, branch>> /\ ~reversed /\ (head = "away" => count' = count)
    BY <1>1 DEF Logging
  <2>2. CASE head = "away"
    <3>1. LoadLastHash(w)
      BY <2>1, <2>2, LogSteps DEF LogStep
    <3>. QED BY <2>1, <2>2, <3>1, LogSteps DEF Current
  <2>. QED BY <1>1, <2>1, <2>2
<1>2. ASSUME NEW w \in Writers, EndRun(w) PROVE ~reversed /\ Current' = Current /\ logged' = logged
  BY <1>2 DEF EndRun, End, repo, Current
<1>3. ASSUME NEW w \in Writers, Commit(w) PROVE ~reversed /\ Current' = Current /\ logged' = logged
  BY <1>3 DEF Commit, audit, Current
<1>4. ASSUME NEW w \in Writers, CheckoutMain(w) PROVE ~reversed /\ Current' = Current /\ logged' = logged
  BY <1>4, CheckoutIs, LogOf DEF Current
<1>5. ASSUME NEW w \in Writers, Merge(w) PROVE ~reversed /\ Current' = Current /\ logged' = logged
  BY <1>5, MergeIs DEF Current
<1>6. ASSUME NEW w \in Writers, Abandon(w) PROVE ~reversed /\ Current' = Current /\ logged' = logged
  BY <1>6 DEF Abandon, End, Current
<1>7. ASSUME NEW w \in Writers, Restart(w) PROVE FALSE
  BY <1>7, RestartIs
<1>8. CASE UNCHANGED <<audit, repo>>
  BY <1>8 DEF audit, repo, Current
<1>. QED BY NextIs, <1>1, <1>2, <1>3, <1>4, <1>5, <1>6, <1>7, <1>8

LEMMA LossStep ==
    ASSUME LossInv, [Next]_vars PROVE LossInv'
<1>1. LogOK /\ RepoOK /\ LogOK' /\ RepoOK'
  BY RepoTypes DEF LossInv
<1>2. ASSUME ~reversed' PROVE Kept(Current)'
  <2>1. ~reversed /\ Kept(Current)
    BY <1>1, <1>2, CurrentStep DEF LossInv
  <2>2. CASE Current' = Current /\ logged' = logged
    BY <2>1, <2>2 DEF Kept
  <2>3. ASSUME NEW w \in Writers, LogStep(w), head # "away", head' = head PROVE Kept(Current)'
    <3>1. Current = lines /\ Current' = lines'
      BY <2>3 DEF Current
    <3>. QED BY <1>1, <2>1, <2>3, <3>1, KeptStep DEF Kept
  <2>. QED BY <1>1, <1>2, <2>2, <2>3, CurrentStep
<1>. QED BY <1>1, <1>2 DEF LossInv

\* A chain that verifies has every event whose call of log returned, also when processes log at
\* the same time, whatever kills leave of a line, and whatever the commits, checkouts and merges
\* of the runs do to the file - as long as no run ended with main checked out and its task not
\* merged, and none was restarted over its commit (logger.py:105-134, verify.py:47-93,
\* git_ops.py:120-143).
THEOREM LossesShow == Spec => []LossShows
<1>1. Init => LossInv
  <2>. SUFFICES ASSUME Init PROVE LossInv
    OBVIOUS
  <2>1. LogOK /\ logged = {} /\ main = Tree /\ branch = Tree /\ head = "main" /\ switcher = NoProcess
        /\ reversed = FALSE
    BY LogInit DEF Init, AuditInit
  <2>2. FileOK(Tree.log)
    BY <2>1 DEF LogOK
  <2>. QED BY <2>1, <2>2 DEF LossInv, RepoOK, Kept
<1>2. LossInv /\ [Next]_vars => LossInv'
  BY LossStep
<1>3. LossInv => LossShows
  BY DEF LossInv, Kept, LossShows, VerifyChain, ChainOf, Whole, Current
<1>. QED BY <1>1, <1>2, <1>3, PTL DEF Spec

(***************************************************************************)
(* The chain                                                               *)
(***************************************************************************)
\* Of a file without torn lines, every line is read.
LEMMA AllRead ==
    ASSUME NEW file \in Seq(Line), Whole(file) PROVE RecordsOf(file) = file
<1>2. PICK f : Passed(file, Len(file), f) /\ RecordsOf(file) = f[Len(file)]
  BY RecordsPassed
<1>. DEFINE T == {n \in Nat : n <= Len(file) => Len(f[n]) = n /\ \A k \in 1..n : f[n][k] = file[k]}
<1>3. 0 \in T
  BY <1>2 DEF Passed
<1>4. ASSUME NEW n \in Nat, n \in T PROVE n + 1 \in T
  <2>. SUFFICES ASSUME n + 1 <= Len(file)
                PROVE  Len(f[n + 1]) = n + 1 /\ \A k \in 1..(n + 1) : f[n + 1][k] = file[k]
    OBVIOUS
  <2>1. n + 1 \in 1..Len(file) /\ (n + 1) - 1 = n /\ n \in 0..Len(file) /\ Len(file) \in Nat
    OBVIOUS
  <2>2. Len(f[n]) = n /\ (\A k \in 1..n : f[n][k] = file[k]) /\ f[n] \in Seq(Line)
    BY <1>2, <1>4, <2>1 DEF Passed
  <2>3. f[n + 1] = Append(f[n], file[n + 1]) /\ file[n + 1] \in Line
    BY <1>2, <2>1, ElementOfSeq DEF Passed, Whole
  <2>4. /\ Len(f[n + 1]) = n + 1 /\ f[n + 1][n + 1] = file[n + 1]
        /\ \A k \in 1..n : f[n + 1][k] = f[n][k]
    BY <2>2, <2>3, AppendProperties
  <2>. QED BY <2>2, <2>4
<1>. HIDE DEF T
<1>5. \A n \in Nat : n \in T
  BY <1>3, <1>4, NatInd
<1>6. Len(file) \in T /\ Len(file) \in Nat /\ RecordsOf(file) \in Seq(Line)
  BY <1>5, RecordsType
<1>7. Len(RecordsOf(file)) = Len(file) /\ \A k \in 1..Len(file) : RecordsOf(file)[k] = file[k]
  BY <1>2, <1>6 DEF T
<1>. QED BY <1>6, <1>7, SeqEqual

LEMMA ChainOfLine ==
    ASSUME LogOK, NEW w \in Writers, CanLog(w), Put(NextRecord(w)), Whole(lines'),
           Chained(lines), Whole(lines) => cache[w] = LastId(lines)
    PROVE  ChainOf(lines') /\ LastId(lines') = count + 1
<1>1. NextRecord(w) \in Line /\ NextRecord(w).prev = cache[w] /\ NextRecord(w).id = count + 1
      /\ IsRecord(NextRecord(w))
  BY NextRecordIs
<1>2. Whole(lines) /\ ~open
  BY <1>1, WholeStep
<1>3. /\ Len(lines') = Len(lines) + 1 /\ lines'[Len(lines) + 1] = NextRecord(w)
      /\ \A k \in 1..Len(lines) : lines'[k] = lines[k]
      /\ lines' # << >> /\ Len(lines) \in Nat /\ (lines = << >> <=> Len(lines) = 0)
  BY <1>1, <1>2, PutLine, EmptySeq DEF LogOK, FileOK, Tree
<1>4. ChainOf(lines) /\ cache[w] = IF lines = << >> THEN Genesis ELSE lines[Len(lines)].id
  BY <1>2 DEF Chained, LastId
<1>5. ASSUME NEW k \in 1..Len(lines')
      PROVE  IsRecord(lines'[k]) /\ lines'[k].prev = IF k = 1 THEN Genesis ELSE lines'[k - 1].id
  <2>1. CASE k = Len(lines) + 1
    BY <1>1, <1>3, <1>4, <2>1
  <2>2. CASE k \in 1..Len(lines)
    <3>1. lines'[k] = lines[k] /\ (k # 1 => lines'[k - 1] = lines[k - 1])
      BY <1>3, <2>2
    <3>. QED BY <1>4, <2>2, <3>1 DEF ChainOf
  <2>. QED BY <1>3, <2>1, <2>2
<1>. QED BY <1>1, <1>3, <1>5 DEF ChainOf, LastId

\* A logger, where processes follow one another
LEMMA ChainLogged ==
    ASSUME Overlap = FALSE, ChainInv, NEW w \in Writers, LogStep(w), head # "away", head' = head
    PROVE  /\ OneWriter' /\ Continues' /\ Chained(lines')
           /\ \A v \in Writers \ {w} : cache[v] = NoProcess /\ cache'[v] = NoProcess
<1>1. LogOK' /\ LogOK /\ OneWriter /\ Continues /\ Chained(lines)
  BY LogTypes DEF ChainInv
<1>2. Current = lines /\ Current' = lines' /\ lines \in Seq(Line) /\ cache \in [Writers -> Int \union {NoProcess}]
  BY <1>1 DEF Current, LogOK, FileOK, Tree
<1>3. CASE LoadLastHash(w)
  <2>1. /\ \A v \in Writers : cache[v] = NoProcess
        /\ cache' = [cache EXCEPT ![w] = IF Records = << >> THEN Genesis ELSE Id(Len(Records))]
        /\ UNCHANGED lines
    BY <1>3 DEF LoadLastHash, Alone
  <2>2. \A v \in Writers \ {w} : cache[v] = NoProcess /\ cache'[v] = NoProcess
    BY <1>2, <2>1
  <2>3. Whole(lines) => cache'[w] = LastId(lines)
    BY <1>2, <2>1, AllRead DEF LastId, Records, Id
  <2>4. Continues'
    BY <1>2, <2>1, <2>2, <2>3 DEF Continues
  <2>. QED BY <1>1, <2>1, <2>2, <2>4 DEF OneWriter
<1>4. ASSUME CanLog(w) PROVE \A v \in Writers \ {w} : cache[v] = NoProcess
  BY <1>1, <1>4 DEF OneWriter, CanLog
<1>5. ASSUME CanLog(w), Put(NextRecord(w)), Whole(lines') PROVE ChainOf(lines') /\ LastId(lines') = count + 1
  <2>1. Whole(lines) => cache[w] = LastId(lines)
    BY <1>1, <1>2, <1>5 DEF Continues, CanLog
  <2>. QED BY <1>1, <1>5, <2>1, ChainOfLine
<1>6. CASE Log(w)
  <2>1. CanLog(w) /\ Put(NextRecord(w)) /\ cache' = [cache EXCEPT ![w] = count + 1]
    BY <1>6 DEF Log
  <2>2. \A v \in Writers \ {w} : cache'[v] = NoProcess
    BY <1>2, <1>4, <2>1
  <2>3. cache'[w] = count + 1
    BY <1>2, <2>1
  <2>4. Continues' /\ Chained(lines')
    BY <1>2, <1>5, <2>1, <2>2, <2>3 DEF Continues, Chained
  <2>. QED BY <1>4, <2>1, <2>2, <2>4 DEF OneWriter
<1>7. ASSUME NEW what \in Tears, Tear(w, what)
      PROVE  /\ OneWriter' /\ Continues' /\ Chained(lines')
             /\ \A v \in Writers \ {w} : cache[v] = NoProcess /\ cache'[v] = NoProcess
  <2>1. /\ CanLog(w) /\ Put(IF what = "part" THEN Torn ELSE NextRecord(w))
        /\ cache' = [cache EXCEPT ![w] = NoProcess]
    BY <1>7 DEF Tear
  <2>2. \A v \in Writers : cache'[v] = NoProcess
    BY <1>2, <1>4, <2>1
  <2>3. what = "part" => ~Whole(lines')
    BY <1>1, <2>1, WholeStep, TornLine
  <2>4. Chained(lines')
    BY <1>5, <2>1, <2>3 DEF Chained
  <2>. QED BY <1>4, <2>1, <2>2, <2>4 DEF OneWriter, Continues
<1>. QED BY <1>3, <1>6, <1>7 DEF LogStep

LEMMA ChainStep ==
    ASSUME Overlap = FALSE, ChainInv, [Next]_vars PROVE ChainInv'
<1>0. LogOK /\ RepoOK /\ LogOK' /\ RepoOK' /\ OneWriter /\ SwitcherLogs /\ Continues
      /\ Chained(lines) /\ Chained(main.log.lines) /\ Chained(branch.log.lines)
  BY RepoTypes DEF ChainInv
<1>a. cache \in [Writers -> Int \union {NoProcess}]
  BY <1>0 DEF LogOK
\* Where no process has logged, nothing has to continue.
<1>b. ASSUME \A v \in Writers : cache'[v] = NoProcess, switcher' = NoProcess
      PROVE  OneWriter' /\ SwitcherLogs' /\ Continues'
  BY <1>b DEF OneWriter, SwitcherLogs, Continues
<1>c. ASSUME UNCHANGED cache, Current' = Current PROVE OneWriter' /\ Continues'
  BY <1>0, <1>c DEF OneWriter, Continues
<1>1. ASSUME NEW w \in Writers, Logging(w) PROVE ChainInv'
  <2>1. LogStep(w) /\ switcher # w /\ UNCHANGED <<head, main, branch, switcher>>
    BY <1>1 DEF Logging
  <2>2. switcher = NoProcess
    <3>1. CASE LoadLastHash(w)
      BY <3>1, <1>0 DEF LoadLastHash, Alone, SwitcherLogs, RepoOK
    <3>2. CASE cache[w] # NoProcess
      BY <2>1, <3>2, <1>0 DEF OneWriter, SwitcherLogs, RepoOK
    <3>. QED BY <2>1, <3>1, <3>2 DEF LogStep, Log, Tear, CanLog
  <2>3. head # "away"
    BY <2>2, <1>0 DEF RepoOK
  <2>4. OneWriter' /\ Continues' /\ Chained(lines')
    BY <2>1, <2>3, ChainLogged
  <2>. QED BY <1>0, <2>1, <2>2, <2>4 DEF ChainInv, SwitcherLogs, Chained
<1>2. ASSUME NEW w \in Writers, EndRun(w) PROVE ChainInv'
  <2>1. /\ cache' = [cache EXCEPT ![w] = NoProcess] /\ switcher # w
        /\ UNCHANGED <<lines, head, main, branch, switcher>>
    BY <1>2 DEF EndRun, End, repo
  <2>2. \A v \in Writers : cache'[v] # NoProcess => cache'[v] = cache[v] /\ v # w
    BY <1>a, <2>1
  <2>3. Current' = Current
    BY <2>1 DEF Current
  <2>4. OneWriter' /\ Continues'
    BY <1>0, <2>2, <2>3 DEF OneWriter, Continues
  <2>5. SwitcherLogs'
    BY <1>0, <1>a, <2>1 DEF SwitcherLogs, RepoOK
  <2>. QED BY <1>0, <2>1, <2>4, <2>5 DEF ChainInv, Chained
<1>3. ASSUME NEW w \in Writers, Commit(w) PROVE ChainInv'
  <2>1. UNCHANGED <<lines, cache, main>> /\ branch' = Tree /\ switcher' = w /\ cache[w] # NoProcess
    BY <1>3 DEF Commit, audit
  <2>2. Current' = Current
    BY <1>3 DEF Commit, audit, Current
  <2>3. OneWriter' /\ Continues'
    BY <1>c, <2>1, <2>2
  <2>4. branch'.log.lines = lines
    BY <2>1, LogOf
  <2>. QED BY <1>0, <2>1, <2>3, <2>4 DEF ChainInv, Chained, SwitcherLogs
<1>4. ASSUME NEW w \in Writers, CheckoutMain(w) PROVE ChainInv'
  <2>1. UNCHANGED <<cache, main, branch, switcher>> /\ lines' = main.log.lines
    BY <1>0, <1>4, CheckoutIs
  <2>2. Current' = Current
    BY <1>0, <1>4, CheckoutIs, LogOf DEF Current
  <2>3. OneWriter' /\ Continues'
    BY <1>c, <2>1, <2>2
  <2>. QED BY <1>0, <2>1, <2>3 DEF ChainInv, Chained, SwitcherLogs
<1>5. ASSUME NEW w \in Writers, Merge(w) PROVE ChainInv'
  <2>1. UNCHANGED <<cache, branch>> /\ switcher' = NoProcess /\ lines' = branch.log.lines /\ main' = branch
    BY <1>0, <1>5, MergeIs
  <2>2. Current' = Current
    BY <1>0, <1>5, MergeIs DEF Current
  <2>3. OneWriter' /\ Continues'
    BY <1>c, <2>1, <2>2
  <2>. QED BY <1>0, <2>1, <2>3 DEF ChainInv, Chained, SwitcherLogs
<1>6. ASSUME NEW w \in Writers, Abandon(w) PROVE ChainInv'
  <2>1. /\ cache' = [cache EXCEPT ![w] = NoProcess] /\ cache[w] # NoProcess
        /\ UNCHANGED <<lines, main>> /\ switcher' = NoProcess
        /\ branch' \in {branch, main}
    BY <1>6 DEF Abandon, End
  <2>2. \A v \in Writers : cache'[v] = NoProcess
    BY <1>0, <1>a, <2>1 DEF OneWriter
  <2>. QED BY <1>0, <1>b, <2>1, <2>2 DEF ChainInv, Chained
<1>7. ASSUME NEW w \in Writers, Restart(w) PROVE ChainInv'
  <2>1. /\ UNCHANGED <<cache, main, switcher>> /\ lines' = main.log.lines /\ branch' = main
        /\ switcher = NoProcess
    BY <1>0, <1>7, RestartIs DEF Restart
  <2>2. \A v \in Writers : cache'[v] = NoProcess
    BY <1>7, <2>1 DEF Restart, Alone
  <2>. QED BY <1>0, <1>b, <2>1, <2>2 DEF ChainInv, Chained
<1>8. CASE UNCHANGED <<audit, repo>>
  <2>1. UNCHANGED <<lines, cache, main, branch, head, switcher>>
    BY <1>8 DEF audit, repo
  <2>2. Current' = Current
    BY <2>1 DEF Current
  <2>3. OneWriter' /\ Continues'
    BY <1>c, <2>1, <2>2
  <2>. QED BY <1>0, <2>1, <2>3 DEF ChainInv, Chained, SwitcherLogs
<1>. QED BY NextIs, <1>1, <1>2, <1>3, <1>4, <1>5, <1>6, <1>7, <1>8

\* Processes that follow one another write one chain, until a kill tears a line: also on the
\* branches of the tasks, and over the versions that git puts back (logger.py:79-134,
\* git_ops.py:109-143).
THEOREM ChainUnbroken ==
    ASSUME Overlap = FALSE PROVE Spec => []Unbroken
<1>1. Init => ChainInv
  <2>. SUFFICES ASSUME Init PROVE ChainInv
    OBVIOUS
  <2>1. /\ LogOK /\ main = Tree /\ branch = Tree /\ head = "main" /\ switcher = NoProcess /\ reversed = FALSE
        /\ lines = << >> /\ Len(lines) = 0 /\ \A w \in Writers : cache[w] = NoProcess
    BY LogInit DEF Init, AuditInit
  <2>2. RepoOK
    BY <2>1 DEF LogOK, RepoOK
  <2>3. Chained(lines) /\ main.log.lines = lines /\ branch.log.lines = lines
    BY <2>1, LogOf DEF Chained, ChainOf
  <2>. QED BY <2>1, <2>2, <2>3 DEF ChainInv, OneWriter, SwitcherLogs, Continues
<1>2. ChainInv /\ [Next]_vars => ChainInv'
  BY ChainStep
<1>3. ChainInv => Unbroken
  BY DEF ChainInv, Chained, Whole, Unbroken, VerifyChain
<1>. QED BY <1>1, <1>2, <1>3, PTL DEF Spec

(***************************************************************************)
(* The copy                                                                *)
(***************************************************************************)
\* A line adds a record, unless it joins a torn one.
LEMMA OpenStep ==
    ASSUME Tears \subseteq {"part"}, LogOK, OpenIsTorn(Tree.log), NEW w \in Writers, LogStep(w)
    PROVE  /\ OpenIsTorn(Tree.log)'
           /\ \E record \in Line : RecordsOf(lines') \in {RecordsOf(lines), Append(RecordsOf(lines), record)}
<1>0. lines \in Seq(Line) /\ (open => ~IsRecord(lines[Len(lines)]))
      /\ (OpenIsTorn(Tree.log)' <=> (open' => ~IsRecord(lines'[Len(lines')])))
  BY LogOf DEF LogOK, FileOK, Tree, OpenIsTorn
<1>1. ASSUME NEW line \in Line, Put(line)
      PROVE  \E record \in Line : RecordsOf(lines') \in {RecordsOf(lines), Append(RecordsOf(lines), record)}
  <2>1. CASE open
    <3>1. lines[Len(lines)] = Torn /\ lines' = [lines EXCEPT ![Len(lines)] = Torn]
      BY <1>0, <1>1, <2>1, PutLine DEF IsRecord
    <3>2. lines' = lines
      BY <1>0, <3>1
    <3>. QED BY <1>1, <3>2
  <2>2. CASE ~open
    BY <1>0, <1>1, <2>2, PutLine, RecordsAppend
  <2>. QED BY <2>1, <2>2
<1>3. CASE LoadLastHash(w)
  <2>1. UNCHANGED <<lines, open>>
    BY <1>3, LogSteps
  <2>. QED BY <1>0, <2>1, TornLine
<1>4. CASE Log(w)
  BY <1>0, <1>1, <1>4, LogSteps DEF Log
<1>5. CASE Tear(w, "part")
  <2>1. Put(Torn)
    BY <1>5 DEF Tear
  <2>2. ~IsRecord(lines'[Len(lines')])
    <3>1. CASE open
      BY <2>1, <3>1, PutLine, TornLine
    <3>2. CASE ~open
      BY <2>1, <3>2, PutLine, TornLine
    <3>. QED BY <3>1, <3>2
  <2>. QED BY <1>0, <1>1, <2>1, <2>2, TornLine
<1>. QED BY <1>3, <1>4, <1>5 DEF LogStep

Entry == [seq : Nat, id : Int]

LEMMA TrailType ==
    ASSUME LogOK, RepoOK PROVE Trail \in Seq(Line)
BY RecordsType DEF Trail, Current, LogOK, RepoOK, FileOK, Tree

LEMMA FirstRecordsType ==
    ASSUME Trail \in Seq(Line)
    PROVE  /\ Len(Trail) \in Nat
           /\ \A k \in 1..Len(Trail) : Trail[k].id \in Int
           /\ \A n \in 0..Len(Trail) : FirstRecords(n) \subseteq Entry
<1>2. ASSUME NEW k \in 1..Len(Trail) PROVE Trail[k].id \in Int
  <2>1. Trail[k] \in Line
    BY ElementOfSeq
  <2>. QED BY <2>1 DEF Line
<1>. QED BY <1>2 DEF FirstRecords, Entry

\* Records that only grow keep the prefixes there were.
LEMMA PrefixesStay ==
    ASSUME Trail \in Seq(Line), NEW record \in Line, Trail' \in {Trail, Append(Trail, record)}
    PROVE  /\ 0..Len(Trail) \subseteq 0..Len(Trail')
           /\ \A k \in 1..Len(Trail) : Trail'[k] = Trail[k]
           /\ \A n \in 0..Len(Trail) : FirstRecords(n)' = FirstRecords(n)
<1>1. Len(Trail) \in Nat
  OBVIOUS
<1>2. Len(Trail') \in {Len(Trail), Len(Trail) + 1} /\ \A k \in 1..Len(Trail) : Trail'[k] = Trail[k]
  BY <1>1, AppendProperties
<1>4. ASSUME NEW n \in 0..Len(Trail) PROVE FirstRecords(n)' = FirstRecords(n)
  <2>1. \A k \in 1..n : Trail'[k].id = Trail[k].id
    BY <1>1, <1>2
  <2>2. FirstRecords(n)' = {[seq |-> k, id |-> Trail'[k].id] : k \in 1..n}
    BY DEF FirstRecords
  <2>. QED BY <2>1, <2>2 DEF FirstRecords
<1>. QED BY <1>1, <1>2, <1>4

\* Where the log grows, and git puts one of the three link files in the place of another
LEMMA CloudUnderLog ==
    ASSUME Trail \in Seq(Line), CloudOK, NEW record \in Line, Trail' \in {Trail, Append(Trail, record)},
           UNCHANGED <<sync, server>>,
           {link', main'.link, branch'.link} \subseteq {link, main.link, branch.link}
    PROVE  CloudOK'
<1>1. /\ 0..Len(Trail) \subseteq 0..Len(Trail') /\ Len(Trail) \in Nat
      /\ \A k \in 1..Len(Trail) : Trail'[k].id = Trail[k].id
      /\ \A n \in 0..Len(Trail) : FirstRecords(n)' = FirstRecords(n)
  BY PrefixesStay, FirstRecordsType
<1>3. ASSUME NEW p, NEW c, Covered(p, c) PROVE Covered(p, c)'
  <2>1. c \in 0..Len(Trail) /\ FirstRecords(c)' = FirstRecords(c)
    BY <1>1, <1>3 DEF Covered
  <2>. QED BY <1>1, <1>3, <2>1 DEF Covered
<1>4. Prefix'
  BY <1>1 DEF CloudOK, Prefix
<1>5. ASSUME NEW x, InSync(x) PROVE InSync(x)'
  <2>1. CASE x.at = "push" /\ Covered(x.project, x.cursor)
             /\ x.total \in 0..Len(Trail) /\ x.events = Span(x.cursor, x.total)
    <3>1. x.cursor \in Nat /\ x.total \in 0..Len(Trail')
      BY <2>1, <1>1 DEF Covered
    <3>2. \A k \in (x.cursor + 1)..x.total : Trail'[k].id = Trail[k].id
      BY <3>1, <2>1, <1>1
    <3>3. Span(x.cursor, x.total)' = {[seq |-> k, id |-> Trail'[k].id] : k \in (x.cursor + 1)..x.total}
      BY DEF Span
    <3>4. x.events = Span(x.cursor, x.total)'
      BY <2>1, <3>2, <3>3 DEF Span
    <3>. QED BY <2>1, <3>1, <3>4, <1>3 DEF InSync
  <2>2. CASE x.at = "idle"
    BY <2>2 DEF InSync
  <2>3. CASE x.at = "read" /\ Covered(x.project, x.cursor)
    BY <1>3, <2>3 DEF InSync
  <2>4. CASE x.at = "save" /\ Covered(x.project, x.total)
    BY <1>3, <2>4 DEF InSync
  <2>. QED BY <1>5, <2>1, <2>2, <2>3, <2>4 DEF InSync
<1>6. ASSUME NEW l, Linked(l) PROVE Linked(l)'
  BY <1>3, <1>6 DEF Linked
<1>7. Linked(link)' /\ Linked(main.link)' /\ Linked(branch.link)'
  <2>1. \A l \in {link, main.link, branch.link} : Linked(l)'
    BY <1>6 DEF CloudOK
  <2>. QED BY <2>1 DEF Linked
<1>8. \A s \in Syncers : InSync(sync[s])'
  BY <1>5 DEF CloudOK
<1>. QED BY <1>4, <1>7, <1>8 DEF CloudOK

\* What git does, while nothing is reversed
LEMMA GitKeeps ==
    ASSUME Tears \subseteq {"part"}, LogOK, RepoOK, GitOK, ~reversed',
           NEW w \in Writers,
           \/ Logging(w) \/ EndRun(w) \/ Commit(w) \/ CheckoutMain(w) \/ Merge(w)
           \/ Abandon(w) \/ Restart(w)
    PROVE  /\ GitOK' /\ UNCHANGED <<sync, server>>
           /\ {link', main'.link, branch'.link} \subseteq {link, main.link, branch.link}
           /\ \E record \in Line : Trail' \in {Trail, Append(Trail, record)}
<1>0. Trail \in Seq(Line) /\ RecordsOf(main.log.lines) \in Seq(Line) /\ RecordsOf(branch.log.lines) \in Seq(Line)
  BY TrailType, RecordsType DEF RepoOK, FileOK
<1>a. \A f, g : f = g => (OpenIsTorn(f) <=> OpenIsTorn(g))
  OBVIOUS
<1>1. CASE Logging(w)
  <2>1. LogStep(w) /\ UNCHANGED <<cloud, main, branch, head>> /\ (head = "away" => count' = count)
    BY <1>1 DEF Logging
  <2>2. CASE head = "away"
    <3>1. UNCHANGED <<lines, open>>
      BY <2>1, <2>2, LogSteps DEF LogStep
    <3>2. Tree' = Tree /\ Trail' = Trail
      BY <2>1, <3>1 DEF Tree, cloud, Trail, Current
    <3>. QED BY <2>1, <3>1, <3>2, TornLine DEF GitOK, cloud, Before, OpenIsTorn
  <2>3. CASE head # "away"
    <3>1. OpenIsTorn(Tree.log)'
          /\ \E record \in Line : RecordsOf(lines') \in {RecordsOf(lines), Append(RecordsOf(lines), record)}
      BY <2>1, OpenStep DEF GitOK
    <3>2. Trail = RecordsOf(lines) /\ Trail' = RecordsOf(lines')
      BY <2>1, <2>3 DEF Trail, Current
    <3>3. PICK record \in Line : Trail' \in {Trail, Append(Trail, record)}
      BY <3>1, <3>2
    <3>4. Before(RecordsOf(main.log.lines))'
      <4>1. \A k \in 1..Len(Trail) : Trail'[k] = Trail[k]
        BY <1>0, <3>3, PrefixesStay
      <4>2. Len(Trail) \in Nat /\ Len(Trail') \in {Len(Trail), Len(Trail) + 1}
        BY <1>0, <3>3, AppendProperties
      <4>3. PICK r \in Seq(Line) : r = RecordsOf(main.log.lines)
        BY <1>0
      <4>4. Len(r) <= Len(Trail) /\ (\A k \in 1..Len(r) : r[k] = Trail[k]) /\ Len(r) \in Nat
        BY <4>3 DEF GitOK, Before
      <4>5. Len(r) <= Len(Trail') /\ \A k \in 1..Len(r) : r[k] = Trail'[k]
        BY <4>1, <4>2, <4>4
      <4>. QED BY <2>1, <4>3, <4>5 DEF Before
    <3>. QED BY <2>1, <2>3, <3>1, <3>3, <3>4 DEF GitOK, cloud, OpenIsTorn
  <2>. QED BY <2>2, <2>3
<1>2. CASE EndRun(w) \/ Abandon(w)
  <2>1. UNCHANGED <<lines, open, link, sync, server, main, branch, head>>
    BY <1>2 DEF EndRun, Abandon, End, cloud, repo
  <2>2. Tree' = Tree /\ Trail' = Trail
    BY <2>1 DEF Tree, Trail, Current
  <2>. QED BY <2>1, <2>2, TornLine DEF GitOK, Before, OpenIsTorn
<1>3. CASE Commit(w)
  <2>1. UNCHANGED <<lines, open, link, sync, server, main>> /\ branch' = Tree /\ head' = "branch" /\ head = "main"
    BY <1>3 DEF Commit, audit, cloud
  <2>2. Tree' = Tree /\ Trail' = Trail /\ branch'.link = link
    BY <2>1, LogOf DEF Tree, Trail, Current
  <2>. QED BY <2>1, <2>2, TornLine DEF GitOK, Before, OpenIsTorn
<1>4. CASE CheckoutMain(w)
  <2>1. /\ lines' = main.log.lines /\ open' = main.log.open /\ link' \in {link, main.link}
        /\ UNCHANGED <<sync, server, main, branch>> /\ Tree.log = branch.log /\ head = "branch"
    BY <1>4, CheckoutIs
  <2>2. Trail' = Trail
    BY <1>4, CheckoutIs, LogOf DEF Trail, Current
  <2>3. OpenIsTorn(Tree.log)'
    BY <2>1, LogOf DEF GitOK, OpenIsTorn
  <2>. QED BY <2>1, <2>2, <2>3, TornLine DEF GitOK, Before, OpenIsTorn
<1>5. CASE Merge(w)
  <2>1. /\ lines' = branch.log.lines /\ open' = branch.log.open /\ link' \in {link, branch.link}
        /\ UNCHANGED <<sync, server, branch>> /\ main' = branch /\ head = "away" /\ head' = "main"
    BY <1>5, MergeIs
  <2>2. Trail' = Trail /\ Trail = RecordsOf(branch.log.lines)
    BY <2>1 DEF Trail, Current
  <2>3. Before(RecordsOf(main.log.lines))'
    BY <1>0, <2>1, <2>2 DEF Before
  <2>4. OpenIsTorn(Tree.log)'
    BY <2>1, LogOf DEF GitOK, OpenIsTorn
  <2>. QED BY <2>1, <2>2, <2>3, <2>4, TornLine DEF GitOK, OpenIsTorn
<1>6. CASE Restart(w)
  BY <1>6, RestartIs
<1>. QED BY <1>1, <1>2, <1>3, <1>4, <1>5, <1>6

\* What the log and the server give, a step that leaves both cannot take.
LEMMA SameCopy ==
    ASSUME Trail' = Trail, UNCHANGED server
    PROVE  /\ \A p, c : Covered(p, c)' <=> Covered(p, c)
           /\ \A x : InSync(x)' <=> InSync(x)
           /\ \A l : Linked(l)' <=> Linked(l)
           /\ Prefix' <=> Prefix
<1>1. \A n : FirstRecords(n)' = FirstRecords(n)
  BY DEF FirstRecords
<1>2. \A c, t : Span(c, t)' = Span(c, t)
  BY DEF Span
<1>3. \A p, c : Covered(p, c)' <=> Covered(p, c)
  BY <1>1 DEF Covered
<1>4. Prefix' <=> Prefix
  BY <1>1 DEF Prefix
<1>5. \A x : InSync(x)' <=> InSync(x)
  BY <1>2, <1>3 DEF InSync
<1>6. \A l : Linked(l)' <=> Linked(l)
  BY <1>3 DEF Linked
<1>. QED BY <1>3, <1>4, <1>5, <1>6

LEMMA IdleSync == Idle \in SyncRecord /\ InSync(Idle)
BY DEF Idle, SyncRecord, InSync

\* A sync that moves on, or saves what the cloud has
LEMMA SyncMoves ==
    ASSUME CloudOK, Trail' = Trail, UNCHANGED <<server, main, branch>>, NEW s \in Syncers,
           NEW x \in SyncRecord, InSync(x), sync' = [sync EXCEPT ![s] = x], Linked(link')
    PROVE  CloudOK'
<1>1. \A q \in Syncers : sync'[q] \in SyncRecord /\ InSync(sync'[q])
  BY DEF CloudOK
<1>2. \A q \in Syncers : InSync(sync[q])'
  BY <1>1, SameCopy
<1>3. sync' \in [Syncers -> SyncRecord]
  BY DEF CloudOK
<1>4. \A l \in {link', main.link, branch.link} : Linked(l)'
  BY SameCopy DEF CloudOK
<1>5. Linked(link)' /\ Linked(main.link)' /\ Linked(branch.link)'
  BY <1>4 DEF Linked
<1>. QED BY <1>2, <1>3, <1>5, SameCopy DEF CloudOK

LEMMA SavedLink ==
    ASSUME NEW l, Linked(l), SaveLink(l) PROVE Linked(link')
BY DEF SaveLink, NoLink, Linked, LinkFile

LEMMA LinkStep ==
    ASSUME Trail \in Seq(Line), CloudOK, Trail' = Trail, UNCHANGED <<main, branch>>,
           NEW p \in Projects, Link(p)
    PROVE  CloudOK'
<1>1. UNCHANGED <<sync, server>> /\ SaveLink([project |-> p, cursor |-> 0])
  BY DEF Link
<1>2. FirstRecords(0) = {} /\ Len(Trail) \in Nat
  BY FirstRecordsType DEF FirstRecords
<1>3. Linked([project |-> p, cursor |-> 0])
  BY <1>2 DEF Linked, LinkFile, Covered
<1>4. Linked(link')
  BY <1>1, <1>3, SavedLink
<1>5. \A l \in {link', main.link, branch.link} : Linked(l)'
  BY <1>4, <1>1, SameCopy DEF CloudOK
<1>6. Linked(link)' /\ Linked(main.link)' /\ Linked(branch.link)'
  BY <1>5 DEF Linked
<1>7. \A q \in Syncers : InSync(sync[q])'
  BY <1>1, SameCopy DEF CloudOK
<1>. QED BY <1>1, <1>6, <1>7, SameCopy DEF CloudOK

LEMMA LoadLinkStep ==
    ASSUME CloudOK, Trail' = Trail, UNCHANGED <<main, branch>>, NEW s \in Syncers, LoadLink(s)
    PROVE  CloudOK'
<1>. DEFINE x == [Idle EXCEPT !.at = "read", !.project = link.project, !.cursor = link.cursor]
<1>1. UNCHANGED <<link, server>> /\ sync' = [sync EXCEPT ![s] = x] /\ link.project # NoProject
  BY DEF LoadLink
<1>2. x \in SyncRecord /\ x.at = "read" /\ x.project = link.project /\ x.cursor = link.cursor
  BY DEF CloudOK, Idle, SyncRecord, Linked, LinkFile
<1>3. Covered(link.project, link.cursor) /\ Linked(link')
  BY <1>1 DEF CloudOK, Linked
<1>. HIDE DEF x
<1>4. InSync(x)
  BY <1>2, <1>3 DEF InSync
<1>. QED BY <1>1, <1>2, <1>3, <1>4, SyncMoves

\* The log that a sync reads is the beginning of the one that counts.
LEMMA ReadIsBefore ==
    ASSUME LogOK, RepoOK, GitOK
    PROVE  /\ Trail \in Seq(Line) /\ Len(Trail) \in Nat /\ Len(Records) \in 0..Len(Trail)
           /\ \A k \in 1..Len(Records) : Id(k) = Trail[k].id
<1>1. Trail \in Seq(Line) /\ Len(Trail) \in Nat
  BY TrailType
<1>2. Records \in Seq(Line) /\ Len(Records) \in Nat
  BY RecordsType DEF LogOK, FileOK, Tree, Records
<1>3. Before(Records)
  <2>1. CASE head = "away"
    BY <2>1 DEF GitOK, Records
  <2>2. CASE head # "away"
    <3>1. Records = Trail
      BY <2>2 DEF Records, Trail, Current
    <3>. QED BY <1>1, <3>1 DEF Before
  <2>. QED BY <2>1, <2>2
<1>. QED BY <1>1, <1>2, <1>3 DEF Before, Id

LEMMA ReadLogStep ==
    ASSUME LogOK, RepoOK, GitOK, CloudOK, Trail' = Trail, UNCHANGED <<main, branch>>,
           NEW s \in Syncers, ReadLog(s)
    PROVE  CloudOK'
<1>. DEFINE old == sync[s]
            events == Events(old.cursor)
            total == Len(Records)
<1>1. /\ UNCHANGED <<link, server>> /\ old.at = "read"
      /\ sync' = [sync EXCEPT ![s] = IF events = {} /\ total = old.cursor THEN Idle
                                     ELSE [old EXCEPT !.at = "push", !.events = events, !.total = total]]
  BY DEF ReadLog
<1>2. old \in SyncRecord /\ Covered(old.project, old.cursor)
  BY <1>1 DEF CloudOK, InSync
<1>3. Len(Trail) \in Nat /\ total \in 0..Len(Trail) /\ old.cursor \in 0..Len(Trail) /\ Trail \in Seq(Line)
      /\ \A k \in 1..total : Id(k) = Trail[k].id
  BY <1>2, ReadIsBefore DEF Covered
<1>4. events = Span(old.cursor, total)
  <2>1. \A k \in (old.cursor + 1)..total : Id(k) = Trail[k].id
    BY <1>3
  <2>2. events = {[seq |-> k, id |-> Id(k)] : k \in (old.cursor + 1)..total}
    BY DEF Events
  <2>. HIDE DEF events, Id
  <2>. QED BY <2>1, <2>2 DEF Span
<1>5. events \subseteq Entry
  <2>1. \A k \in (old.cursor + 1)..total : k \in Nat /\ Trail[k].id \in Int
    BY <1>3, FirstRecordsType
  <2>. HIDE DEF old, events, total
  <2>. QED BY <1>4, <2>1 DEF Entry, Span
<1>. DEFINE x == [old EXCEPT !.at = "push", !.events = events, !.total = total]
<1>6. /\ x \in SyncRecord /\ x.at = "push" /\ x.project = old.project /\ x.cursor = old.cursor
      /\ x.events = events /\ x.total = total
  <2>1. total \in Nat
    BY <1>3
  <2>. HIDE DEF old, events, total
  <2>. QED BY <1>2, <2>1, <1>5 DEF SyncRecord, Entry
<1>7. sync' = [sync EXCEPT ![s] = x] \/ sync' = [sync EXCEPT ![s] = Idle]
  BY <1>1
<1>8. InSync(x)
  <2>. HIDE DEF x, old, events, total
  <2>. QED BY <1>2, <1>3, <1>4, <1>6 DEF InSync
<1>9. Linked(link')
  BY <1>1 DEF CloudOK
<1>. HIDE DEF x
<1>. QED BY <1>1, <1>6, <1>7, <1>8, <1>9, IdleSync, SyncMoves

LEMMA SaveCursorStep ==
    ASSUME CloudOK, Trail' = Trail, UNCHANGED <<main, branch>>, NEW s \in Syncers, SaveCursor(s)
    PROVE  CloudOK'
<1>1. /\ UNCHANGED server /\ sync[s].at = "save"
      /\ SaveLink([project |-> sync[s].project, cursor |-> sync[s].total]) /\ sync' = [sync EXCEPT ![s] = Idle]
  BY DEF SaveCursor
<1>2. Covered(sync[s].project, sync[s].total) /\ sync[s] \in SyncRecord
  BY <1>1 DEF CloudOK, InSync
<1>3. Linked([project |-> sync[s].project, cursor |-> sync[s].total])
  BY <1>2 DEF SyncRecord, Linked, LinkFile
<1>4. Linked(link')
  BY <1>1, <1>3, SavedLink
<1>. QED BY <1>1, <1>4, IdleSync, SyncMoves

LEMMA DeferStep ==
    ASSUME CloudOK, Trail' = Trail, UNCHANGED <<main, branch>>, NEW s \in Syncers, Defer(s)
    PROVE  CloudOK'
<1>1. Linked(link') /\ UNCHANGED server /\ sync' = [sync EXCEPT ![s] = Idle]
  BY DEF Defer, CloudOK
<1>. QED BY <1>1, IdleSync, SyncMoves

Unknown(known, events) == {e \in events : \A d \in known : d.seq # e.seq}

\* The server takes what continues its prefix, and skips what it has.
LEMMA Accepted ==
    ASSUME Trail \in Seq(Line), NEW n \in 0..Len(Trail), NEW c \in 0..n, NEW t \in 0..Len(Trail)
    PROVE  FirstRecords(n) \union Unknown(FirstRecords(n), Span(c, t)) = FirstRecords(IF t > n THEN t ELSE n)
<1>1. Len(Trail) \in Nat
  BY FirstRecordsType
<1>. DEFINE known == FirstRecords(n)
            events == Span(c, t)
            new == {e \in events : \A d \in known : d.seq # e.seq}
            m == IF t > n THEN t ELSE n
<1>2. ASSUME NEW k \in (c + 1)..t PROVE [seq |-> k, id |-> Trail[k].id] \in new <=> k > n
  <2>1. [seq |-> k, id |-> Trail[k].id] \in events
    BY DEF Span
  <2>2. (\E d \in known : d.seq = k) <=> k \in 1..n
    <3>1. ASSUME k \in 1..n PROVE \E d \in known : d.seq = k
      <4>1. [seq |-> k, id |-> Trail[k].id] \in known
        BY <3>1 DEF FirstRecords
      <4>. QED BY <4>1
    <3>2. ASSUME NEW d \in known, d.seq = k PROVE k \in 1..n
      <4>1. PICK j \in 1..n : d = [seq |-> j, id |-> Trail[j].id]
        BY DEF FirstRecords
      <4>. QED BY <4>1, <3>2
    <3>. QED BY <3>1, <3>2
  <2>3. k \in 1..n <=> ~(k > n)
    BY <1>1
  <2>. QED BY <2>1, <2>2, <2>3
<1>3. new \subseteq FirstRecords(m)
  <2>1. ASSUME NEW e \in new PROVE e \in FirstRecords(m)
    <3>1. PICK k \in (c + 1)..t : e = [seq |-> k, id |-> Trail[k].id]
      BY DEF Span
    <3>2. k \in 1..m
      BY <1>1
    <3>. QED BY <3>1, <3>2 DEF FirstRecords
  <2>. QED BY <2>1
<1>4. known \subseteq FirstRecords(m)
  <2>1. 1..n \subseteq 1..m
    BY <1>1
  <2>. QED BY <2>1 DEF FirstRecords
<1>5. FirstRecords(m) \subseteq known \union new
  <2>1. ASSUME NEW k \in 1..m PROVE [seq |-> k, id |-> Trail[k].id] \in known \union new
    <3>1. CASE k \in 1..n
      BY <3>1 DEF FirstRecords
    <3>2. CASE k > n
      <4>1. k \in (c + 1)..t
        BY <3>2, <1>1
      <4>. QED BY <4>1, <3>2, <1>2
    <3>. QED BY <3>1, <3>2, <1>1
  <2>. QED BY <2>1 DEF FirstRecords
<1>. QED BY <1>3, <1>4, <1>5 DEF Unknown

\* A push that reaches the server makes the copy the first records, with the last of the events.
LEMMA PushIs ==
    ASSUME Trail \in Seq(Line), CloudOK, NEW s \in Syncers, Push(s)
    PROVE  \E n \in 0..Len(Trail) :
              /\ server[sync[s].project] = FirstRecords(n) /\ sync[s].total \in 0..Len(Trail)
              /\ server' = [server EXCEPT ![sync[s].project] =
                                FirstRecords(IF sync[s].total > n THEN sync[s].total ELSE n)]
<1>. DEFINE p == sync[s].project
            c == sync[s].cursor
            t == sync[s].total
<1>1. Covered(p, c) /\ t \in 0..Len(Trail) /\ sync[s].events = Span(c, t)
  BY DEF Push, CloudOK, InSync
<1>2. PICK n \in 0..Len(Trail) : server[p] = FirstRecords(n)
  BY <1>1 DEF Covered, CloudOK, Prefix
<1>3. Len(Trail) \in Nat /\ c \in 0..Len(Trail)
  BY <1>1, FirstRecordsType DEF Covered
<1>4. c \in 0..n
  <2>1. CASE c = 0
    BY <2>1, <1>3
  <2>2. CASE c # 0
    <3>1. [seq |-> c, id |-> Trail[c].id] \in FirstRecords(n)
      BY <1>1, <1>2, <1>3, <2>2 DEF Covered, FirstRecords
    <3>2. PICK k \in 1..n : [seq |-> c, id |-> Trail[c].id] = [seq |-> k, id |-> Trail[k].id]
      BY <3>1 DEF FirstRecords
    <3>3. c = k
      BY <3>2
    <3>. QED BY <3>3, <1>3
  <2>. QED BY <2>1, <2>2
<1>6. server' = [server EXCEPT ![p] = server[p] \union Unknown(server[p], sync[s].events)]
  BY DEF Push, Accept, Unknown
<1>8. FirstRecords(n) \union Unknown(FirstRecords(n), Span(c, t)) = FirstRecords(IF t > n THEN t ELSE n)
  <2>. HIDE DEF c, t
  <2>. QED BY <1>1, <1>4, Accepted
<1>. QED BY <1>1, <1>2, <1>6, <1>8

LEMMA PushStep ==
    ASSUME Trail \in Seq(Line), CloudOK, Trail' = Trail, UNCHANGED <<main, branch>>,
           NEW s \in Syncers, Push(s)
    PROVE  CloudOK'
<1>0. PICK p, t : p = sync[s].project /\ t = sync[s].total
  OBVIOUS
<1>1. PICK n \in 0..Len(Trail) :
          /\ server[p] = FirstRecords(n) /\ t \in 0..Len(Trail)
          /\ server' = [server EXCEPT ![p] = FirstRecords(IF t > n THEN t ELSE n)]
  BY <1>0, PushIs
<1>. DEFINE m == IF t > n THEN t ELSE n
<1>2. /\ link' = link /\ sync[s].at = "push"
      /\ sync' = [sync EXCEPT ![s] = [sync[s] EXCEPT !.at = "save", !.cursor = 0, !.events = {}]]
      /\ p \in Projects /\ sync[s] \in SyncRecord
  BY <1>0 DEF Push, CloudOK, InSync, Covered
<1>3. m \in 0..Len(Trail) /\ n \in 0..m /\ t \in 0..m /\ Len(Trail) \in Nat
  BY <1>1, FirstRecordsType
<1>. HIDE DEF m
<1>4. \A i, k \in Nat : i <= k => FirstRecords(i) \subseteq FirstRecords(k)
  <2>1. \A i, k \in Nat : i <= k => 1..i \subseteq 1..k
    OBVIOUS
  <2>. QED BY <2>1 DEF FirstRecords
<1>5. /\ server' \in [Projects -> SUBSET Entry] /\ server'[p] = FirstRecords(m)
      /\ \A q \in Projects \ {p} : server'[q] = server[q]
  <2>1. server \in [Projects -> SUBSET Entry] /\ server' = [server EXCEPT ![p] = FirstRecords(m)]
    BY <1>1 DEF CloudOK, Entry, m
  <2>. QED BY <2>1, <1>2, <1>3, FirstRecordsType
<1>6. \A q \in Projects : server[q] \subseteq server'[q]
  <2>1. FirstRecords(n) \subseteq FirstRecords(m)
    BY <1>3, <1>4
  <2>2. server[p] \subseteq server'[p]
    BY <1>1, <1>5, <2>1
  <2>. QED BY <1>5, <2>2
<1>a. (\A k : FirstRecords(k)' = FirstRecords(k)) /\ \A i, k : Span(i, k)' = Span(i, k)
  BY DEF FirstRecords, Span
<1>7. ASSUME NEW q, NEW c, Covered(q, c) PROVE Covered(q, c)'
  BY <1>a, <1>6, <1>7 DEF Covered
<1>8. Prefix'
  BY <1>a, <1>3, <1>5 DEF CloudOK, Prefix
<1>9. ASSUME NEW x, InSync(x) PROVE InSync(x)'
  BY <1>a, <1>7, <1>9 DEF InSync
<1>10. Covered(p, t)'
  <2>1. FirstRecords(t) \subseteq server'[p]
    BY <1>3, <1>4, <1>5
  <2>. QED BY <1>a, <1>1, <1>2, <2>1 DEF Covered
<1>11. PICK x : x = [sync[s] EXCEPT !.at = "save", !.cursor = 0, !.events = {}]
  OBVIOUS
<1>12. /\ x \in SyncRecord /\ x.at = "save" /\ x.project = p /\ x.total = t
       /\ sync' = [sync EXCEPT ![s] = x]
  BY <1>0, <1>2, <1>11 DEF SyncRecord
<1>13. sync' \in [Syncers -> SyncRecord] /\ sync'[s] = x /\ \A q \in Syncers \ {s} : sync'[q] = sync[q]
  BY <1>12 DEF CloudOK
<1>14. ASSUME NEW q \in Syncers PROVE InSync(sync[q])'
  <2>1. CASE q = s
    <3>1. InSync(x)'
      BY <1>10, <1>12 DEF InSync
    <3>. QED BY <2>1, <3>1, <1>13 DEF InSync
  <2>2. CASE q # s
    <3>1. \E y : y = sync[q] /\ InSync(y) /\ y = sync'[q]
      BY <2>2, <1>13 DEF CloudOK
    <3>. QED BY <3>1, <1>9 DEF InSync
  <2>. QED BY <2>1, <2>2
<1>15. \A l \in {link', main.link, branch.link} : Linked(l)'
  <2>1. ASSUME NEW l, Linked(l) PROVE Linked(l)'
    BY <1>7, <2>1 DEF Linked
  <2>. QED BY <1>2, <2>1 DEF CloudOK
<1>16. Linked(link)' /\ Linked(main.link)' /\ Linked(branch.link)'
  BY <1>15 DEF Linked
<1>. QED BY <1>5, <1>8, <1>13, <1>14, <1>16 DEF CloudOK, Entry

LEMMA CloudStart ==
    ASSUME Init PROVE CloudInv
<1>1. LogOK /\ main = Tree /\ branch = Tree /\ head = "main" /\ switcher = NoProcess /\ reversed = FALSE
  BY LogInit DEF Init
<1>2. RepoOK
  BY <1>1 DEF LogOK, RepoOK
<1>3. Trail = << >> /\ Len(Trail) = 0 /\ RecordsOf(main.log.lines) = << >>
  <2>1. Current = lines /\ main.log.lines = lines
    BY <1>1, LogOf DEF Current
  <2>. QED BY <2>1, LogInit DEF Init, Trail
<1>4. GitOK
  <2>1. open = FALSE
    BY DEF Init, AuditInit
  <2>2. OpenIsTorn(Tree.log)
    BY <2>1, LogOf DEF OpenIsTorn
  <2>. QED BY <1>1, <1>3, <2>2 DEF GitOK, Before
<1>5. server = [p \in Projects |-> {}] /\ FirstRecords(0) = {} /\ 0 \in 0..Len(Trail)
  BY <1>3 DEF Init, CloudInit, FirstRecords
<1>6. Prefix
  BY <1>5 DEF Prefix
<1>7. link = NoLink /\ main.link = NoLink /\ branch.link = NoLink /\ sync = [s \in Syncers |-> Idle]
  BY <1>1, LogOf DEF Init, CloudInit
<1>8. Linked(NoLink)
  BY DEF Linked, NoLink, LinkFile
<1>9. CloudOK
  BY <1>5, <1>6, <1>7, <1>8, IdleSync DEF CloudOK
<1>. QED BY <1>1, <1>2, <1>4, <1>9 DEF CloudInv

LEMMA CloudInvStep ==
    ASSUME Tears \subseteq {"part"}, CloudInv, [Next]_vars PROVE CloudInv'
<1>1. LogOK /\ RepoOK /\ LogOK' /\ RepoOK'
  BY RepoTypes DEF CloudInv
<1>. SUFFICES ASSUME ~reversed' PROVE GitOK' /\ CloudOK'
  BY <1>1 DEF CloudInv
<1>2. GitOK /\ CloudOK /\ Trail \in Seq(Line)
  BY <1>1, CurrentStep, TrailType DEF CloudInv
<1>3. ASSUME NEW w \in Writers,
             \/ Logging(w) \/ EndRun(w) \/ Commit(w) \/ CheckoutMain(w) \/ Merge(w)
             \/ Abandon(w) \/ Restart(w)
      PROVE  GitOK' /\ CloudOK'
  BY <1>1, <1>2, <1>3, GitKeeps, CloudUnderLog
<1>4. ASSUME UNCHANGED <<audit, repo>> PROVE GitOK'
  <2>1. UNCHANGED <<lines, open, main, branch, head>> /\ Trail' = Trail
    BY <1>4 DEF audit, repo, Trail, Current
  <2>2. OpenIsTorn(Tree.log)'
    BY <1>2, <2>1, LogOf DEF GitOK, OpenIsTorn
  <2>3. OpenIsTorn(main.log)' /\ OpenIsTorn(branch.log)'
    BY <1>2, <2>1 DEF GitOK, OpenIsTorn
  <2>4. Before(RecordsOf(main.log.lines))'
    BY <1>2, <2>1 DEF GitOK, Before
  <2>. QED BY <1>2, <2>1, <2>2, <2>3, <2>4 DEF GitOK
<1>5. ASSUME UNCHANGED <<audit, repo>>, CloudStep \/ UNCHANGED cloud PROVE CloudOK'
  <2>1. UNCHANGED <<main, branch>> /\ Trail' = Trail
    BY <1>5 DEF audit, repo, Trail, Current
  <2>2. ASSUME NEW p \in Projects, Link(p) PROVE CloudOK'
    BY <1>2, <2>1, <2>2, LinkStep
  <2>3. ASSUME NEW s \in Syncers, LoadLink(s) \/ SyncStep(s) \/ Defer(s) PROVE CloudOK'
    BY <1>1, <1>2, <2>1, <2>3, LoadLinkStep, ReadLogStep, PushStep, SaveCursorStep, DeferStep DEF SyncStep
  <2>4. CASE UNCHANGED cloud
    BY <1>2, <2>1, <2>4, TornLine, CloudUnderLog DEF cloud
  <2>. QED BY <1>5, <2>2, <2>3, <2>4 DEF CloudStep
<1>. QED BY NextIs, <1>3, <1>4, <1>5

LEMMA CloudInvHolds ==
    ASSUME Tears \subseteq {"part"} PROVE Spec => []CloudInv
<1>1. Init => CloudInv
  BY CloudStart
<1>2. CloudInv /\ [Next]_vars => CloudInv'
  BY CloudInvStep
<1>. QED BY <1>1, <1>2, PTL DEF Spec

LEMMA IdsAre ==
    ASSUME Trail \in Seq(Line)
    PROVE  /\ Ids \in Seq(Int) /\ Len(Ids) = Len(Trail) /\ Len(Trail) \in Nat
           /\ \A k \in 1..Len(Trail) : Ids[k] = Trail[k].id
<1>1. Len(Trail) \in Nat /\ \A k \in 1..Len(Trail) : Trail[k].id \in Int
  BY FirstRecordsType
<1>. QED BY <1>1 DEF Ids

\* What the cursor has passed is in the cloud, whatever overtakes what, whichever link file git
\* puts in place, and wherever a kill empties it - as long as a kill in a write of the log does
\* not lose a newline alone, and no older log has taken the place of the log (hooks.py:98-132,
\* sync.py:80-173, git_ops.py:120-143).
THEOREM NothingIsSkipped ==
    ASSUME Tears \subseteq {"part"} PROVE Spec => []NothingSkipped
<1>1. CloudInv => NothingSkipped
  <2>. SUFFICES ASSUME CloudInv, link.project # NoProject, ~reversed
                PROVE  /\ link.cursor <= Len(Trail)
                       /\ \A k \in 1..link.cursor : [seq |-> k, id |-> Ids[k]] \in server[link.project]
    BY DEF NothingSkipped
  <2>1. Trail \in Seq(Line)
    BY TrailType DEF CloudInv
  <2>2. Covered(link.project, link.cursor)
    BY DEF CloudInv, CloudOK, Linked
  <2>3. \A k \in 1..link.cursor : Ids[k] = Trail[k].id
    BY <2>1, <2>2, IdsAre DEF Covered
  <2>4. Len(Trail) \in Nat
    BY <2>1, FirstRecordsType
  <2>. QED BY <2>2, <2>3, <2>4 DEF Covered, FirstRecords
<1>. QED BY <1>1, CloudInvHolds, PTL

(***************************************************************************)
(* The refinement                                                          *)
(***************************************************************************)
LEMMA MirrorFirst ==
    ASSUME Trail \in Seq(Line), NEW n \in 0..Len(Trail) PROVE Mirror!First(n) = FirstRecords(n)
<1>1. \A k \in 1..n : Ids[k] = Trail[k].id
  BY IdsAre
<1>2. Mirror!First(n) = {[seq |-> k, id |-> Ids[k]] : k \in 1..n}
  BY DEF Mirror!First
<1>. QED BY <1>1, <1>2 DEF FirstRecords

LEMMA MirrorRecord ==
    ASSUME Trail \in Seq(Line), Trail' \in Seq(Line), NEW record \in Line,
           Trail' \in {Trail, Append(Trail, record)}, server' = server, reversed' = reversed
    PROVE  Ids' = Ids \/ Mirror!Record
<1>1. CASE Trail' = Trail
  BY <1>1 DEF Ids
<1>2. CASE Trail' = Append(Trail, record)
  <2>1. Len(Trail') = Len(Trail) + 1 /\ \A k \in 1..Len(Trail) : Trail'[k] = Trail[k]
    BY <1>2, AppendProperties
  <2>2. Ids \in Seq(Int) /\ Len(Ids) = Len(Trail) /\ Len(Trail) \in Nat
    BY IdsAre
  <2>3. PICK r \in Seq(Line) : r = Trail'
    OBVIOUS
  <2>4. Ids' = [k \in 1..Len(r) |-> r[k].id] /\ \A k \in 1..Len(r) : r[k].id \in Int
    <3>1. \A k \in 1..Len(r) : r[k] \in Line
      BY <2>3, ElementOfSeq
    <3>. QED BY <2>3, <3>1 DEF Ids, Line
  <2>5. Len(r) \in Nat
    BY <2>3
  <2>6. Ids' \in Seq(Int) /\ Len(Ids') = Len(r)
    BY <2>4, <2>5
  <2>7. \A k \in 1..Len(Ids) : Ids'[k] = Ids[k]
    <3>1. \A k \in 1..Len(Trail) : k \in 1..Len(r) /\ Ids'[k] = r[k].id /\ r[k] = Trail[k]
      BY <2>1, <2>2, <2>3, <2>4
    <3>. QED BY <2>2, <3>1, IdsAre
  <2>8. SubSeq(Ids', 1, Len(Ids)) = Ids
    <3>. DEFINE sub == SubSeq(Ids', 1, Len(Ids))
    <3>1. 1 \in 1..(Len(Ids') + 1) /\ Len(Ids) \in 0..Len(Ids') /\ Len(Ids) \in (1 - 1)..Len(Ids')
      BY <2>1, <2>2, <2>3, <2>6
    <3>2. sub \in Seq(Int) /\ Len(sub) = Len(Ids) /\ \A k \in 1..Len(Ids) : sub[k] = Ids'[k]
      BY <2>6, <2>2, <3>1, SubSeqProperties
    <3>. HIDE DEF sub
    <3>3. sub = Ids
      BY <2>2, <2>7, <3>2, SeqEqual
    <3>. QED BY <3>3 DEF sub
  <2>. QED BY <2>1, <2>2, <2>3, <2>6, <2>8 DEF Mirror!Record
<1>. QED BY <1>1, <1>2

LEMMA MirrorCopy ==
    ASSUME Trail \in Seq(Line), CloudOK, Trail' = Trail, reversed' = reversed, NEW s \in Syncers, Push(s)
    PROVE  Ids' = Ids /\ (server' = server \/ \E p \in Projects : Mirror!Copy(p))
<1>1. Ids' = Ids
  BY DEF Ids
<1>2. PICK p, t : p = sync[s].project /\ t = sync[s].total
  OBVIOUS
<1>3. PICK n \in 0..Len(Trail) :
          /\ server[p] = FirstRecords(n) /\ t \in 0..Len(Trail)
          /\ server' = [server EXCEPT ![p] = FirstRecords(IF t > n THEN t ELSE n)]
  BY <1>2, PushIs
<1>4. p \in Projects
  BY <1>2 DEF Push, CloudOK, InSync, Covered
<1>5. Len(Trail) \in Nat
  BY FirstRecordsType
<1>6. CASE t > n
  <2>1. t \in 1..Len(Trail) /\ t \in 0..Len(Trail) /\ 1..n \subseteq 1..t
    BY <1>3, <1>5, <1>6
  <2>2. FirstRecords(n) \subseteq FirstRecords(t)
    BY <2>1 DEF FirstRecords
  <2>3. Mirror!First(t) = FirstRecords(t) /\ Len(Ids) = Len(Trail)
    BY <2>1, MirrorFirst, IdsAre
  <2>4. server[p] \subseteq Mirror!First(t) /\ server' = [server EXCEPT ![p] = Mirror!First(t)]
    BY <1>3, <1>6, <2>2, <2>3
  <2>5. Mirror!Copy(p)
    BY <1>1, <2>1, <2>3, <2>4 DEF Mirror!Copy
  <2>. QED BY <1>1, <1>4, <2>5
<1>7. CASE ~(t > n)
  <2>1. server' = [server EXCEPT ![p] = server[p]]
    BY <1>3, <1>7
  <2>. QED BY <1>1, <2>1 DEF CloudOK
<1>. QED BY <1>6, <1>7

\* The copy in the cloud is a growing prefix of the records until git reverses the log: the
\* repository implements AuditMirror (sync.py:80-117, client.py:53-75, git_ops.py:120-143).
THEOREM CopyIsMirror ==
    ASSUME Tears \subseteq {"part"} PROVE Spec => ImplementsMirror
<1>1. Init => Mirror!MirrorInit
  <2>. SUFFICES ASSUME Init PROVE Mirror!MirrorInit
    OBVIOUS
  <2>1. Trail = << >> /\ Len(Trail) = 0
    <3>1. Current = lines
      BY DEF Init, Current
    <3>. QED BY <3>1, LogInit DEF Init, Trail
  <2>2. Ids = << >>
    BY <2>1 DEF Ids
  <2>. QED BY <2>2 DEF Init, CloudInit, Mirror!MirrorInit
<1>. DEFINE Steps == [Mirror!Record \/ (\E p \in Projects : Mirror!Copy(p)) \/ Mirror!Rewrite]_<<Ids, server, reversed>>
<1>2. CloudInv /\ CloudInv' /\ [Next]_vars => Steps
  <2>. SUFFICES ASSUME CloudInv, CloudInv', [Next]_vars, ~reversed' PROVE Steps
    BY DEF Mirror!Rewrite
  <2>1. LogOK /\ RepoOK /\ LogOK' /\ RepoOK' /\ ~reversed /\ GitOK /\ CloudOK
    BY CurrentStep DEF CloudInv
  <2>2. Trail \in Seq(Line) /\ Trail' \in Seq(Line) /\ reversed' = reversed
    <3>1. reversed' = reversed
      BY <2>1 DEF RepoOK
    <3>2. Trail' \in Seq(Line)
      BY <2>1, RecordsType DEF Trail, Current, LogOK, RepoOK, FileOK, Tree
    <3>. QED BY <2>1, <3>1, <3>2, TrailType
  <2>3. ASSUME NEW w \in Writers,
               \/ Logging(w) \/ EndRun(w) \/ Commit(w) \/ CheckoutMain(w) \/ Merge(w)
               \/ Abandon(w) \/ Restart(w)
        PROVE  Steps
    <3>1. server' = server /\ \E record \in Line : Trail' \in {Trail, Append(Trail, record)}
      BY <2>1, <2>3, GitKeeps
    <3>. QED BY <2>2, <3>1, MirrorRecord
  <2>4. ASSUME UNCHANGED <<audit, repo>>, CloudStep \/ UNCHANGED cloud PROVE Steps
    <3>1. Trail' = Trail /\ Ids' = Ids
      BY <2>4 DEF audit, repo, Trail, Current, Ids
    <3>2. ASSUME NEW s \in Syncers, Push(s) PROVE Steps
      BY <2>1, <2>2, <3>1, <3>2, MirrorCopy
    <3>3. CASE server' = server
      BY <2>2, <3>1, <3>3
    <3>. QED BY <2>4, <3>2, <3>3 DEF CloudStep, cloud, Link, LoadLink, SyncStep, ReadLog, SaveCursor, Defer
  <2>. QED BY NextIs, <2>3, <2>4
<1>. QED BY <1>1, <1>2, CloudInvHolds, PTL DEF Spec, ImplementsMirror, Mirror!MirrorSpec

==============================================================================
