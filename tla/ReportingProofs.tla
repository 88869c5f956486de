---------------------------- MODULE ReportingProofs ----------------------------
(***************************************************************************)
(* What holds of the reports for every command line, every number of       *)
(* engines, thread counts, swept values and repeats, and every number of   *)
(* samples.                                                                *)
(***************************************************************************)
EXTENDS Reporting, CountingProofs, SequenceTheorems

SP == INSTANCE RunFileProofs

-----------------------------------------------------------------------------
(* The inductive invariant                                                   *)

Threads == {"main", "watch"}
Samples == {"seed", "run"}
Kinds   == {"none", "start", "probe", "point", "table"} \cup Samples
Recs    == [what : Kinds, cell : Int \X Int \X Int, rep : Int, n : Int, size : Nat]
Lines   == [sink : Nat, rec : Recs, part : Int]

Types ==
    /\ job \in Jobs
    /\ stage \in {"parse", "start", "sweep", "close", "plot", "exit 0", "exit 2"}
    /\ k \in Nat
    /\ sinks \in Seq([name : {"console", "tsv", "timeline"}, path : Paths, hdr : BOOLEAN])
    /\ disk \in [Paths -> [lines : Seq(Lines), flushed : Nat, open : BOOLEAN]]
    /\ wr \in [Threads -> [rec : Recs, at : Nat, todo : Seq(Lines)]]
    /\ watch \in {"off", "joined"} \cup Samples
    /\ nsamp \in Nat
    /\ told \in Seq(Recs)

\* Who may be doing what: the watcher is there while main waits in its phase,
\* and main reports before the sweep or when it is not waiting for anything.
Turns ==
    /\ watch = "seed" => stage = "sweep" /\ pc = "setup"
    /\ watch = "run" => stage = "sweep" /\ pc = "timed"
    /\ watch = "joined" => stage = "sweep" /\ pc \in {"setup", "timed"}
    /\ watch # "off" => Sampling
    /\ pt # NoPoint => stage = "sweep" /\ pc = "row"
    /\ stage \in {"close", "plot", "exit 0"} => pc = "done"
    /\ ~Quiet("watch") => /\ watch \in Samples
                          /\ wr["watch"].rec = Rec(watch, Tag, r, nsamp, Metrics)
    /\ ~Quiet("main") =>
          \/ /\ stage = "start"
             /\ wr["main"].rec.what \in {"start", "probe"} /\ wr["main"].rec.cell = SP!NoCell
          \/ /\ pt # NoPoint
             /\ wr["main"].rec = Rec("point", SP!Cell, 0, 0, Cardinality(DOMAIN pt.ops))

-----------------------------------------------------------------------------

\* A line of a report; its line 0 is the header.
Piece(i, rec, q) == [sink |-> i, rec |-> IF q = HeaderPart THEN NoRec ELSE rec, part |-> q]
FlushLine(i) == [sink |-> i, rec |-> NoRec, part |-> FlushPart]

\* What is left of a report to a sink before its line q.
RestOf(name, i, rec, q) ==
    LET S == Size(name, rec) IN
    [m \in 1 .. (S - q + 1) + (IF Tabular(name) THEN 1 ELSE 0) |->
        IF m <= S - q + 1 THEN Piece(i, rec, q + m - 1) ELSE FlushLine(i)]
Rest(i, rec, q) == RestOf(sinks[i].name, i, rec, q)

File(i) == disk[sinks[i].path].lines
Holds(i, rec, q, m) == \E a \in 1 .. m : File(i)[a] = [sink |-> i, rec |-> rec, part |-> q]

\* A thread in a sink has written the lines before line q, in one piece.
Written(w, q) ==
    LET i == wr[w].at  rec == wr[w].rec  tab == Tabular(sinks[i].name)  L == File(i) IN
    /\ wr[w].todo = Rest(i, rec, q)
    /\ ~tab => q \in 1 .. Size(sinks[i].name, rec)
    /\ tab => (q = 0 <=> ~sinks[i].hdr)
    /\ q > 1 => L # << >> /\ L[Len(L)] = Piece(i, rec, q - 1)
    /\ tab => /\ \A a \in DOMAIN L : L[a].sink = i /\ L[a].rec = rec => L[a].part < q
              /\ \A p \in 1 .. q - 1 : Holds(i, rec, p, Len(L))

Writers ==
    \A w \in Threads :
        /\ ~Quiet(w) => wr[w].at \in DOMAIN sinks /\ wr[w].rec.what \in Handles(sinks[wr[w].at].name)
        /\ wr[w].todo # << >> => ~Quiet(w) /\ \E q \in 0 .. Size(sinks[wr[w].at].name, wr[w].rec) + 1 : Written(w, q)

\* The reports sink i has been given: those that are over, and those that have
\* gone on to a later sink. The one it is being given is InHand.
Given(i) == {told[n] : n \in DOMAIN told} \cup {wr[w].rec : w \in {v \in Threads : i < wr[v].at}}
InHand(i) == {wr[w].rec : w \in {v \in Threads : i = wr[v].at /\ wr[v].todo # << >>}}

\* Every line is of such a report.
Origins ==
    \A p \in Paths : \A a \in DOMAIN disk[p].lines :
        LET line == disk[p].lines[a] IN
        /\ line.sink = 0 \/ (line.sink \in DOMAIN sinks /\ sinks[line.sink].path = p)
        /\ line.part >= 0 /\ (line.part = 0 => line.rec.what = "none")
        /\ line.sink > 0 /\ line.part > 0 =>
              /\ line.part <= Size(sinks[line.sink].name, line.rec)
              /\ line.rec \in Given(line.sink) \cup InHand(line.sink)

\* A tabular sink has written something once its header is out, which is before
\* everything else.
HeaderFirst(i, hdr, L) ==
    /\ hdr <=> \E a \in DOMAIN L : L[a].sink = i
    /\ \A a \in DOMAIN L : L[a].sink = i =>
          (L[a].part = HeaderPart <=> \A m \in 1 .. a - 1 : L[m].sink # i)
Headers ==
    \A i \in DOMAIN sinks : Tabular(sinks[i].name) => HeaderFirst(i, sinks[i].hdr, File(i))

\* No line twice.
Once ==
    \A i \in DOMAIN sinks : Tabular(sinks[i].name) =>
        \A a, b \in DOMAIN File(i) :
            File(i)[a] = File(i)[b] /\ File(i)[a].sink = i /\ File(i)[a].part > 0 => a = b

\* A report a tabular sink has been given is in its file and flushed.
Flushed(i) == disk[sinks[i].path].flushed
Kept(i, rec) == \A p \in 1 .. rec.size : Holds(i, rec, p, Flushed(i))
Safely ==
    /\ \A p \in Paths : disk[p].flushed <= Len(disk[p].lines)
    /\ \A i \in DOMAIN sinks : Tabular(sinks[i].name) =>
          \A rec \in Given(i) : rec.what \in Handles(sinks[i].name) => Kept(i, rec)

\* The lines of a report follow each other, and what comes after the last line of
\* a file, if that is not the end of its report, is the next line to be written.
Shift(x, d) == [sink |-> x.sink, rec |-> x.rec, part |-> x.part + d]
Together ==
    \A p \in Paths : LET L == disk[p].lines IN \A n \in DOMAIN L :
        /\ L[n].part > 1 => n > 1 /\ L[n - 1] = Shift(L[n], -1)
        /\ L[n].part \in 1 .. Total(L[n]) - 1 =>
              IF n < Len(L) THEN L[n + 1] = Shift(L[n], 1)
              ELSE \E w \in Threads : wr[w].todo # << >> /\ Head(wr[w].todo) = Shift(L[n], 1)

Pages == Writers /\ Origins /\ Headers /\ Once /\ Safely /\ Together

-----------------------------------------------------------------------------

\* The store that was seeded for a cell is behind.
Gone(c) ==
    IF SP!Mode = "repeat" THEN SP!Passed(c)
    ELSE pc = "done" \/ c[1] < ei \/ (SP!Mode = "value" /\ c[1] = ei /\ c[3] < si)

\* A sample of the phase that is on.
Recent(x) ==
    \/ watch = "joined"
    \/ watch = x.what /\ x.n <= nsamp /\ (~Quiet("watch") => x.n < nsamp)

SeedBehind(x) ==
    \/ Gone(x.cell)
    \/ /\ x.cell \in SP!Share
       /\ SP!Mode # "repeat" => x.rep = 0
       /\ x.rep < r \/ (x.rep = r /\ (pc # "setup" \/ Recent(x)))

RunBehind(x) ==
    \/ SP!Passed(x.cell)
    \/ x.cell = SP!Cell /\ (x.rep < r \/ pc = "row" \/ (pc = "timed" /\ x.rep = r /\ Recent(x)))

Pending == pt # NoPoint /\ Quiet("main")

PointBehind(x) == SP!Passed(x.cell) \/ (x.cell = SP!Cell /\ Pending)

\* A report made is of what the sweep has left behind.
OneBehind(x) ==
    /\ x.what \in {"start", "probe", "point"} \cup Samples
    /\ x.what \in {"start", "probe"} => x.cell = SP!NoCell
    /\ x.what \in {"point"} \cup Samples => x.cell \in SP!Cells /\ x.rep \in Nat
    /\ x.what = "point" => PointBehind(x)
    /\ x.what = "seed" => SeedBehind(x)
    /\ x.what = "run" => RunBehind(x)
Behind == \A a \in DOMAIN told : OneBehind(told[a])

Ordered ==
    \A b \in DOMAIN told : \A a \in 1 .. b - 1 :
        told[b].what \in Samples /\ told[a].cell = told[b].cell =>
            /\ told[a].what # "point"
            /\ told[a].rep = told[b].rep =>
                  \/ told[a].what = "seed" /\ told[b].what = "run"
                  \/ told[a].what = told[b].what /\ told[a].n < told[b].n

\* The points told are the rows, but for the one whose row is still to come.
Points == {n \in DOMAIN told : told[n].what = "point"}
HasRow(c) == \E a \in DOMAIN rows : rows[a].cell = c
RowsTold ==
    After(0, "point") # 0 =>
        /\ \A n \in Points : HasRow(told[n].cell) \/ (Pending /\ told[n].cell = SP!Cell)
        /\ \A a \in DOMAIN rows : \E n \in Points : told[n].cell = rows[a].cell
        /\ Pending => \E n \in Points : told[n].cell = SP!Cell
        /\ \A a, b \in Points : a < b =>
              \/ \E c, d \in DOMAIN rows :
                    c < d /\ rows[c].cell = told[a].cell /\ rows[d].cell = told[b].cell
              \/ Pending /\ HasRow(told[a].cell) /\ told[b].cell = SP!Cell

\* The sinks, and the files behind them.
Opened ==
    /\ stage = "parse" => /\ k = Len(sinks) + 1 /\ Len(sinks) <= Len(job.spec)
                          /\ \A s \in DOMAIN sinks : sinks[s].path = job.spec[s].path
    /\ stage \in {"parse", "exit 2"} => /\ told = << >> /\ rows = << >>
                                        /\ \A w \in Threads : wr[w] = Idle
                                        /\ \A p \in Paths : disk[p].lines = << >>
    /\ stage \notin {"parse", "exit 2"} =>
          \A p \in Paths \ {Stdout} : \E s \in DOMAIN sinks : sinks[s].path = p
Closed ==
    /\ stage = "close" => \A s \in DOMAIN sinks : s < k /\ sinks[s].path # Stdout =>
          ~disk[sinks[s].path].open /\ disk[sinks[s].path].flushed = Len(disk[sinks[s].path].lines)
    /\ stage \in {"plot", "exit 0"} =>
          \A p \in Paths \ {Stdout} : ~disk[p].open /\ disk[p].flushed = Len(disk[p].lines)

\* The results in hand.
Taken ==
    /\ res \in [0 .. cfg.repeat - 1 -> PointResults \cup {NoResult}]
    /\ \A n \in 0 .. cfg.repeat - 1 :
          (pc \in {"setup", "timed"} /\ n < r) \/ pc = "row" => res[n] \in job.results
    /\ pt # NoPoint => pt = summarize_point([n \in 1 .. cfg.repeat |-> res[n - 1]])

\* A sample fits its array.
Fits == \A w \in Threads : wr[w].rec.what \in Samples => wr[w].rec.size <= SAMPLE_METRIC_MAX

IInv == Types /\ Turns /\ Pages /\ Behind /\ Ordered /\ RowsTold /\ Opened /\ Closed /\ Taken /\ Fits

-----------------------------------------------------------------------------
(* The sweep                                                                 *)

LEMMA SweepSizes == SP!SizesAssumption
BY SweepAssumption DEF SP!SizesAssumption

LEMMA SameNames ==
    /\ Sweep!Cell = SP!Cell /\ Sweep!NoCell = SP!NoCell /\ Sweep!NSteps = SP!NSteps
    /\ Sweep!Cells = SP!Cells /\ Sweep!Mode = SP!Mode /\ Sweep!Share = SP!Share
<1>1. Sweep!NSteps = SP!NSteps  BY DEF Sweep!NSteps, SP!NSteps
<1>2. Sweep!Cells = SP!Cells  BY <1>1 DEF Sweep!Cells, SP!Cells
<1>3. Sweep!Mode = SP!Mode  BY DEF Sweep!Mode, SP!Mode
<1>4. Sweep!Share = SP!Share  BY <1>2, <1>3 DEF Sweep!Share, SP!Share
<1> QED BY <1>1, <1>2, <1>3, <1>4 DEF Sweep!Cell, SP!Cell, Sweep!NoCell, SP!NoCell

LEMMA SameLoops ==
    /\ Sweep!NextCell <=> SP!NextCell
    /\ Sweep!NextGroup <=> SP!NextGroup
<1>1. Sweep!NextEngine <=> SP!NextEngine  BY DEF Sweep!NextEngine, SP!NextEngine
<1>2. Sweep!NextCell <=> SP!NextCell
      BY <1>1, SameNames, Zenon DEF Sweep!NextCell, SP!NextCell
<1>3. Sweep!NextGroup <=> SP!NextGroup
      BY <1>1, SameNames, Zenon DEF Sweep!NextGroup, SP!NextGroup
<1> QED BY <1>2, <1>3

LEMMA SameSteps ==
    /\ Sweep!Init <=> SP!Init
    /\ Sweep!SetupOk <=> SP!SetupOk
    /\ Sweep!SetupNull <=> SP!SetupNull
    /\ Sweep!TimedOk <=> SP!TimedOk
    /\ Sweep!TimedFailed <=> SP!TimedFailed
    /\ Sweep!Row <=> SP!Row
    /\ Sweep!Close <=> SP!Close
    /\ Sweep!Done <=> SP!Done
    /\ Sweep!vars = SP!vars
<1>1. Sweep!Init <=> SP!Init
      BY DEF Sweep!Init, SP!Init, Sweep!NoStore, SP!NoStore, Sweep!NoCell, SP!NoCell
<1>2. Sweep!SetupOk <=> SP!SetupOk  BY DEF Sweep!SetupOk, SP!SetupOk
<1>3. Sweep!SetupNull <=> SP!SetupNull
      BY SameNames, SameLoops, Zenon DEF Sweep!SetupNull, SP!SetupNull
<1>4. Sweep!StoreAfter = SP!StoreAfter
      BY SameNames, Zenon DEF Sweep!StoreAfter, SP!StoreAfter, Sweep!NoStore, SP!NoStore
<1>5. Sweep!TimedOk <=> SP!TimedOk
      BY <1>4, SameNames, Zenon DEF Sweep!TimedOk, SP!TimedOk
<1>6. Sweep!TimedFailed <=> SP!TimedFailed
      BY <1>4, SameNames, SameLoops, Zenon
      DEF Sweep!TimedFailed, SP!TimedFailed, Sweep!AfterFailure, SP!AfterFailure
<1>7. Sweep!Row <=> SP!Row
      BY SameNames, SameLoops, Zenon DEF Sweep!Row, SP!Row
<1>8. Sweep!Close <=> SP!Close
      BY SameLoops, Zenon DEF Sweep!Close, SP!Close, Sweep!NoStore, SP!NoStore
<1>9. Sweep!vars = SP!vars  BY DEF Sweep!vars, SP!vars
<1>10. Sweep!Done <=> SP!Done  BY <1>9, Zenon DEF Sweep!Done, SP!Done, Sweep!vars, SP!vars
<1> QED BY <1>1, <1>2, <1>3, <1>5, <1>6, <1>7, <1>8, <1>9, <1>10

\* A step of the program is one of the sweep, or leaves the sweep alone.
LEMMA SweepSteps ==
    ASSUME [Next]_vars
    PROVE  [SP!Next]_(SP!vars)
<1> USE SameSteps
<1>0. UNCHANGED sweepVars => UNCHANGED SP!vars  BY DEF sweepVars, SP!vars
<1>1. CASE UNCHANGED vars  BY <1>0, <1>1 DEF vars
<1>2. CASE ParseToken \/ ParseDone \/ Probe \/ StartSweep
      BY <1>0, <1>2 DEF ParseToken, ParseDone, Probe, StartSweep
<1>3. CASE \E w \in {"main", "watch"} : Turn(w) \/ Put(w)
      BY <1>0, <1>3 DEF Turn, Put
<1>4. CASE StartWatch \/ Sample \/ StopWatch \/ JoinWatch
      BY <1>0, <1>4 DEF StartWatch, Sample, StopWatch, JoinWatch
<1>5. CASE SetupReturns  BY <1>5 DEF SetupReturns, SP!Next
<1>6. CASE TimedReturns  BY <1>6 DEF TimedReturns, SP!Next
<1>7. CASE PointDone  BY <1>7 DEF PointDone, SP!Next
<1>8. CASE CloseStore  BY <1>8 DEF CloseStore, SP!Next
<1>9. CASE Point \/ EndSweep \/ CloseSink \/ Plot \/ Exit
      BY <1>0, <1>9 DEF Point, EndSweep, CloseSink, Plot, Exit
<1>10. CASE Ended  BY <1>0, <1>10 DEF Ended, vars
<1> QED BY <1>1, <1>2, <1>3, <1>4, <1>5, <1>6, <1>7, <1>8, <1>9, <1>10 DEF Next

LEMMA SweepHolds == Spec => []SP!IInv
<1>1. Init => SP!Init  BY SameSteps DEF Init
<1>2. [Next]_vars => [SP!Next]_(SP!vars)  BY SweepSteps
<1>3. SP!Spec => []SP!IInv  BY SweepSizes, SP!SweepInvariant
<1> QED BY <1>1, <1>2, <1>3, PTL DEF Spec, SP!Spec

\* The program with its reports and its watchers makes the sweep of run_file,
\* as RunFile has it: reporting neither holds it up half-way nor leads it
\* elsewhere.
THEOREM SweepIsRunFile == Spec => Sweep!Spec
<1>1. Init => Sweep!Init  BY DEF Init
<1>2. [Next]_vars => [Sweep!Next]_(Sweep!vars)
  <2>1. SP!Next <=> Sweep!Next  BY SameSteps DEF SP!Next, Sweep!Next
  <2> QED BY <2>1, SweepSteps DEF SP!vars, Sweep!vars
<1> QED BY <1>1, <1>2, PTL DEF Spec, Sweep!Spec

-----------------------------------------------------------------------------
(* The sinks                                                                 *)

Names == {"console", "tsv", "timeline"}

LEMMA Taking ==
    /\ Handles("console") = {"start", "probe", "point"}
    /\ Handles("tsv") = {"point"}
    /\ Handles("timeline") = {"seed", "run"}
    /\ ~Tabular("console") /\ Tabular("tsv") /\ Tabular("timeline")
BY DEF Handles, Tabular

LEMMA Lengths ==
    ASSUME NEW name \in Names, NEW rec \in Recs, rec.what \in Handles(name)
    PROVE  /\ Size(name, rec) \in Nat
           /\ Tabular(name) => Size(name, rec) = rec.size
           /\ ~Tabular(name) => Size(name, rec) > 0
<1>1. rec.size \in Nat  BY DEF Recs
<1>2. CASE name = "console"  BY <1>1, <1>2, Taking DEF Size
<1>3. CASE name = "tsv"  BY <1>1, <1>3, Taking DEF Size
<1>4. CASE name = "timeline"  BY <1>1, <1>4, Taking DEF Size
<1> QED BY <1>2, <1>3, <1>4 DEF Names

LEMMA Sinks ==
    ASSUME Types, NEW i \in DOMAIN sinks
    PROVE  /\ i \in Nat \ {0} /\ i \in 1 .. Len(sinks) /\ Len(sinks) \in Nat
           /\ sinks[i].name \in Names /\ sinks[i].path \in Paths /\ sinks[i].hdr \in BOOLEAN
           /\ sinks[i] \in [name : Names, path : Paths, hdr : BOOLEAN]
<1> DEFINE X == [name : Names, path : Paths, hdr : BOOLEAN]
<1>1. sinks \in Seq(X)  BY DEF Types, Names
<1> HIDE DEF X
<1>2. Len(sinks) \in Nat /\ DOMAIN sinks = 1 .. Len(sinks) /\ sinks[i] \in X  BY <1>1
<1> QED BY <1>2 DEF X

\* After is the loop over the sinks going on to the next that takes the report.
LEMMA Following ==
    ASSUME Types, NEW i \in Nat, NEW what
    PROVE  /\ After(i, what) \in Nat
           /\ After(i, what) # 0 => /\ After(i, what) \in DOMAIN sinks /\ After(i, what) > i
                                    /\ what \in Handles(sinks[After(i, what)].name)
           /\ \A s \in DOMAIN sinks :
                 s > i /\ what \in Handles(sinks[s].name) => After(i, what) # 0 /\ After(i, what) <= s
<1> DEFINE takers == {s \in DOMAIN sinks : s > i /\ what \in Handles(sinks[s].name)}
<1>1. After(i, what) = IF takers = {} THEN 0 ELSE Min(takers)  BY DEF After
<1>2. takers \subseteq Nat /\ 0 \notin takers  BY Sinks
<1>3. CASE takers = {}  BY <1>1, <1>3
<1>4. CASE takers # {}
  <2>1. PICK x \in takers : \A y \in takers : x <= y
    <3> HIDE DEF takers
    <3> QED BY <1>2, <1>4, LeastNumber
  <2>2. Min(takers) \in takers /\ \A y \in takers : Min(takers) <= y
    <3> HIDE DEF takers
    <3> QED BY <2>1 DEF Min
  <2>3. After(i, what) = Min(takers)  BY <1>1, <1>4
  <2> HIDE DEF takers
  <2>4. After(i, what) \in takers /\ \A y \in takers : After(i, what) <= y
        BY <2>2, <2>3
  <2> QED BY <1>2, <2>4 DEF takers
<1> QED BY <1>3, <1>4

\* The shape of what is left, and what a step makes of it.
LEMMA Remainder ==
    ASSUME Types, NEW i \in DOMAIN sinks, NEW rec, NEW q \in Int,
           Size(sinks[i].name, rec) \in Nat, q <= Size(sinks[i].name, rec) + 1
    PROVE  /\ q <= Size(sinks[i].name, rec) =>
                 /\ Rest(i, rec, q) # << >>
                 /\ Head(Rest(i, rec, q)) = Piece(i, rec, q)
                 /\ Tail(Rest(i, rec, q)) = Rest(i, rec, q + 1)
           /\ q = Size(sinks[i].name, rec) + 1 =>
                 /\ ~Tabular(sinks[i].name) => Rest(i, rec, q) = << >>
                 /\ Tabular(sinks[i].name) => Rest(i, rec, q) = <<FlushLine(i)>>
<1> DEFINE S == Size(sinks[i].name, rec)
           t == IF Tabular(sinks[i].name) THEN 1 ELSE 0
           R(p) == [m \in 1 .. (S - p + 1) + t |-> IF m <= S - p + 1 THEN Piece(i, rec, p + m - 1) ELSE FlushLine(i)]
<1>1. \A p : Rest(i, rec, p) = R(p)  BY DEF Rest, RestOf
<1>2. t \in {0, 1} /\ S \in Nat  OBVIOUS
<1>t. /\ ~Tabular(sinks[i].name) => t = 0
      /\ Tabular(sinks[i].name) => t = 1
      OBVIOUS
<1>q. q <= S + 1  OBVIOUS
<1> HIDE DEF S, t
<1>3. ASSUME q <= S
      PROVE  R(q) # << >> /\ Head(R(q)) = Piece(i, rec, q) /\ Tail(R(q)) = R(q + 1)
  <2>1. (S - q + 1) + t \in Nat \ {0} /\ 1 <= S - q + 1  BY <1>2, <1>3
  <2>2. DOMAIN R(q) = 1 .. (S - q + 1) + t /\ Len(R(q)) = (S - q + 1) + t  BY <2>1
  <2>3. R(q) # << >>  BY <2>1, <2>2
  <2>4. Head(R(q)) = R(q)[1]
    <3> DEFINE f == R(q)
    <3>1. \A g : g # << >> => Head(g) = g[1]  OBVIOUS
    <3> HIDE DEF f
    <3>2. Head(f) = f[1]  BY <2>3, <3>1 DEF f
    <3> QED BY <3>2 DEF f
  <2>5. R(q)[1] = Piece(i, rec, q + 1 - 1)  BY <2>1
  <2>6. q + 1 - 1 = q  OBVIOUS
  <2>7. Tail(R(q)) = [m \in 1 .. ((S - q + 1) + t) - 1 |-> R(q)[m + 1]]
        BY <2>1, <2>2
  <2>8. ((S - q + 1) + t) - 1 = (S - (q + 1) + 1) + t  BY <1>2
  <2>9. \A m \in 1 .. ((S - q + 1) + t) - 1 : R(q)[m + 1] = R(q + 1)[m]
    <3> SUFFICES ASSUME NEW m \in 1 .. ((S - q + 1) + t) - 1 PROVE R(q)[m + 1] = R(q + 1)[m]
        OBVIOUS
    <3>1. m + 1 \in 1 .. (S - q + 1) + t /\ m \in 1 .. (S - (q + 1) + 1) + t
          BY <1>2, <2>1
    <3>2. m + 1 <= S - q + 1 <=> m <= S - (q + 1) + 1  BY <1>2
    <3>3. q + (m + 1) - 1 = (q + 1) + m - 1  OBVIOUS
    <3> QED BY <3>1, <3>2, <3>3
  <2>10. Tail(R(q)) = R(q + 1)  BY <2>7, <2>8, <2>9
  <2> QED BY <2>3, <2>4, <2>5, <2>6, <2>10
<1>4. ASSUME q = S + 1
      PROVE  /\ t = 0 => R(q) = << >>
             /\ t = 1 => R(q) = <<FlushLine(i)>>
  <2>1. S - q + 1 = 0  BY <1>2, <1>4
  <2>2. ASSUME t = 0 PROVE R(q) = << >>
    <3>1. 1 .. (S - q + 1) + t = {}  BY <2>1, <2>2
    <3> QED BY <3>1
  <2>3. ASSUME t = 1 PROVE R(q) = <<FlushLine(i)>>
    <3>1. 1 .. (S - q + 1) + t = {1}  BY <2>1, <2>3
    <3>2. \A m \in {1} : ~(m <= S - q + 1)  BY <2>1
    <3> QED BY <3>1, <3>2
  <2> QED BY <2>2, <2>3
<1> QED BY <1>1, <1>3, <1>4, <1>t, <1>q DEF S

LEMMA Joining ==
    ASSUME NEW T, NEW s \in Seq(T), NEW u \in Seq(T)
    PROVE  /\ s \o u \in Seq(T) /\ Len(s \o u) = Len(s) + Len(u)
           /\ s \o u = [m \in 1 .. Len(s) + Len(u) |-> IF m <= Len(s) THEN s[m] ELSE u[m - Len(s)]]
<1>1. /\ s \o u \in Seq(T) /\ Len(s \o u) = Len(s) + Len(u)
      /\ \A m \in 1 .. Len(s) + Len(u) :
            (s \o u)[m] = IF m <= Len(s) THEN s[m] ELSE u[m - Len(s)]
      BY ConcatProperties
<1>2. \A f \in Seq(T) : f = [m \in 1 .. Len(f) |-> f[m]]  OBVIOUS
<1> QED BY <1>1, <1>2

\* A call of a sink's function is about to write all of the report.
LEMMA Beginning ==
    ASSUME Types, NEW i \in DOMAIN sinks, NEW rec \in Recs, Size(sinks[i].name, rec) \in Nat
    PROVE  Output(i, rec) =
               Rest(i, rec, IF Tabular(sinks[i].name) /\ ~sinks[i].hdr THEN 0 ELSE 1)
<1> DEFINE S == Size(sinks[i].name, rec)
           tab == Tabular(sinks[i].name)
           hd == tab /\ ~sinks[i].hdr
           M == [n \in 1 .. S |-> [sink |-> i, rec |-> rec, part |-> n]]
           H == IF hd THEN <<Piece(i, rec, 0)>> ELSE << >>
           F == IF tab THEN <<FlushLine(i)>> ELSE << >>
           q == IF hd THEN 0 ELSE 1
           t == IF tab THEN 1 ELSE 0
           X == [sink : {i}, rec : {rec, NoRec}, part : Int]
<1>1. Header(i) = H  BY DEF Header, Piece, HeaderPart
<1>2. Flush(i) = F  BY DEF Flush, FlushLine
<1>3. Output(i, rec) = H \o M \o F  BY <1>1, <1>2 DEF Output
<1>4. S \in Nat  OBVIOUS
<1>5. \A n \in 1 .. S : [sink |-> i, rec |-> rec, part |-> n] = Piece(i, rec, n)
      BY DEF Piece, HeaderPart
<1> HIDE DEF S, tab
<1>6. M \in Seq(X) /\ Len(M) = S  BY <1>4
<1>7. \A p \in Int : Piece(i, rec, p) \in X  BY DEF Piece
<1>8. FlushLine(i) \in X  BY DEF FlushLine, FlushPart
<1>9. H \in Seq(X) /\ Len(H) = 1 - q /\ (Len(H) = 1 => H[1] = Piece(i, rec, 0))
  <2>1. CASE hd
    <3>1. Piece(i, rec, 0) \in X  BY <1>7
    <3>2. H = <<Piece(i, rec, 0)>> /\ q = 0  BY <2>1
    <3> HIDE DEF X, H, q
    <3> QED BY <3>1, <3>2
  <2>2. CASE ~hd
    <3>1. H = << >> /\ q = 1  BY <2>2
    <3> HIDE DEF X, H, q
    <3> QED BY <3>1
  <2> QED BY <2>1, <2>2
<1>10. F \in Seq(X) /\ Len(F) = t /\ (t = 1 => F[1] = FlushLine(i))
  <2>1. CASE tab
    <3>1. F = <<FlushLine(i)>> /\ t = 1  BY <2>1
    <3> HIDE DEF X, F, t
    <3> QED BY <1>8, <3>1
  <2>2. CASE ~tab
    <3>1. F = << >> /\ t = 0  BY <2>2
    <3> HIDE DEF X, F, t
    <3> QED BY <3>1
  <2> QED BY <2>1, <2>2
<1>11. M = [n \in 1 .. S |-> Piece(i, rec, n)]  BY <1>5
<1>12. q \in {0, 1} /\ t \in {0, 1}  OBVIOUS
<1> HIDE DEF X, M, H, F
<1>13. /\ H \o M \in Seq(X) /\ Len(H \o M) = 1 - q + S
       /\ H \o M = [m \in 1 .. 1 - q + S |-> IF m <= 1 - q THEN H[m] ELSE M[m - (1 - q)]]
  <2>1. H \in Seq(X) /\ M \in Seq(X) /\ Len(H) = 1 - q /\ Len(M) = S  BY <1>6, <1>9
  <2> HIDE DEF q
  <2>2. /\ H \o M \in Seq(X) /\ Len(H \o M) = Len(H) + Len(M)
        /\ H \o M = [m \in 1 .. Len(H) + Len(M) |-> IF m <= Len(H) THEN H[m] ELSE M[m - Len(H)]]
        BY <2>1, Joining
  <2> QED BY <2>1, <2>2
<1>14. (H \o M) \o F = [m \in 1 .. 1 - q + S + t |->
                          IF m <= 1 - q + S THEN (H \o M)[m] ELSE F[m - (1 - q + S)]]
  <2> DEFINE G == H \o M
  <2>1. G \in Seq(X) /\ Len(G) = 1 - q + S  BY <1>13
  <2> HIDE DEF G
  <2>2. G \o F = [m \in 1 .. Len(G) + Len(F) |-> IF m <= Len(G) THEN G[m] ELSE F[m - Len(G)]]
        BY <1>10, <2>1, Joining
  <2>3. Len(F) = t  BY <1>10
  <2> HIDE DEF q, t
  <2>4. G \o F = [m \in 1 .. 1 - q + S + t |->
                    IF m <= 1 - q + S THEN G[m] ELSE F[m - (1 - q + S)]]
        BY <2>1, <2>2, <2>3
  <2> QED BY <2>4 DEF G
<1> HIDE DEF q, t
<1>15. \A m \in 1 .. 1 - q + S : (H \o M)[m] = Piece(i, rec, q + m - 1)
  <2> SUFFICES ASSUME NEW m \in 1 .. 1 - q + S PROVE (H \o M)[m] = Piece(i, rec, q + m - 1)
      OBVIOUS
  <2>1. (H \o M)[m] = IF m <= 1 - q THEN H[m] ELSE M[m - (1 - q)]  BY <1>13
  <2>2. CASE m <= 1 - q
    <3>1. m = 1 /\ q = 0  BY <1>12, <2>2
    <3>2. q + m - 1 = 0 /\ Len(H) = 1  BY <1>9, <3>1
    <3>3. H[m] = Piece(i, rec, 0)  BY <1>9, <3>1, <3>2
    <3> QED BY <2>1, <2>2, <3>2, <3>3
  <2>3. CASE ~(m <= 1 - q)
    <3>1. m - (1 - q) \in 1 .. S /\ m - (1 - q) = q + m - 1  BY <1>4, <1>12, <2>3
    <3>2. M[m - (1 - q)] = Piece(i, rec, m - (1 - q))  BY <1>11, <3>1
    <3> QED BY <2>1, <2>3, <3>1, <3>2
  <2> QED BY <2>2, <2>3
<1>16. 1 - q + S = S - q + 1 /\ 1 - q + S + t = (S - q + 1) + t  BY <1>4, <1>12
<1>17. \A m \in 1 .. (S - q + 1) + t : ~(m <= S - q + 1) =>
          F[m - (1 - q + S)] = FlushLine(i)
  <2> SUFFICES ASSUME NEW m \in 1 .. (S - q + 1) + t, ~(m <= S - q + 1)
               PROVE  F[m - (1 - q + S)] = FlushLine(i)
      OBVIOUS
  <2>1. t = 1 /\ m - (1 - q + S) = 1  BY <1>4, <1>12
  <2> QED BY <1>10, <2>1
<1>18. (H \o M) \o F = [m \in 1 .. (S - q + 1) + t |->
                          IF m <= S - q + 1 THEN Piece(i, rec, q + m - 1) ELSE FlushLine(i)]
  <2>1. \A m \in 1 .. (S - q + 1) + t : m <= S - q + 1 => m \in 1 .. 1 - q + S
        BY <1>4, <1>12
  <2> QED BY <1>14, <1>15, <1>16, <1>17, <2>1
<1>19. Rest(i, rec, q) = (H \o M) \o F  BY <1>18 DEF Rest, RestOf, S, t, tab
<1> QED BY <1>3, <1>19 DEF q, tab

-----------------------------------------------------------------------------
(* The files                                                                 *)

LEMMA Writing ==
    ASSUME Types, NEW w \in Threads
    PROVE  /\ wr[w].rec \in Recs /\ wr[w].at \in Nat /\ wr[w].todo \in Seq(Lines)
           /\ wr[w] = [rec |-> wr[w].rec, at |-> wr[w].at, todo |-> wr[w].todo]
<1> DEFINE X == Seq(Lines)
           Y == Recs
<1>1. wr[w] \in [rec : Y, at : Nat, todo : X]  BY DEF Types
<1> HIDE DEF X, Y
<1>2. wr[w].rec \in Y /\ wr[w].at \in Nat /\ wr[w].todo \in X
      /\ wr[w] = [rec |-> wr[w].rec, at |-> wr[w].at, todo |-> wr[w].todo]
      BY <1>1
<1> QED BY <1>2 DEF X, Y

LEMMA Disk ==
    ASSUME Types, NEW p \in Paths
    PROVE  /\ disk[p].lines \in Seq(Lines) /\ Len(disk[p].lines) \in Nat
           /\ DOMAIN disk[p].lines = 1 .. Len(disk[p].lines)
           /\ disk[p].flushed \in Nat /\ disk[p].open \in BOOLEAN
           /\ \A a \in DOMAIN disk[p].lines :
                 /\ disk[p].lines[a] \in Lines
                 /\ disk[p].lines[a].sink \in Nat /\ disk[p].lines[a].rec \in Recs
                 /\ disk[p].lines[a].part \in Int
<1> DEFINE X == Lines
<1>1. disk[p] \in [lines : Seq(X), flushed : Nat, open : BOOLEAN]  BY DEF Types
<1>2. \A x \in X : x.sink \in Nat /\ x.rec \in Recs /\ x.part \in Int  BY DEF Lines
<1> HIDE DEF X
<1>3. /\ disk[p].lines \in Seq(X) /\ Len(disk[p].lines) \in Nat
      /\ DOMAIN disk[p].lines = 1 .. Len(disk[p].lines)
      /\ disk[p].flushed \in Nat /\ disk[p].open \in BOOLEAN
      /\ \A a \in DOMAIN disk[p].lines : disk[p].lines[a] \in X
      BY <1>1
<1> QED BY <1>2, <1>3 DEF X

\* fprintf: a line is put behind the others of its file.
LEMMA Appended ==
    ASSUME Types, NEW p \in Paths, NEW x \in Lines,
           disk' = [disk EXCEPT ![p].lines = Append(@, x)]
    PROVE  /\ disk' \in [Paths -> [lines : Seq(Lines), flushed : Nat, open : BOOLEAN]]
           /\ \A s \in Paths : /\ disk'[s].flushed = disk[s].flushed
                               /\ s # p => disk'[s].lines = disk[s].lines
           /\ Len(disk'[p].lines) = Len(disk[p].lines) + 1
           /\ DOMAIN disk'[p].lines = 1 .. Len(disk[p].lines) + 1
           /\ \A a \in DOMAIN disk[p].lines : disk'[p].lines[a] = disk[p].lines[a]
           /\ disk'[p].lines[Len(disk[p].lines) + 1] = x
<1> DEFINE X == Lines
           D == [lines : Seq(X), flushed : Nat, open : BOOLEAN]
           L == disk[p].lines
           M == Append(L, x)
<1>1. disk \in [Paths -> D]  BY DEF Types
<1>2. L \in Seq(X) /\ x \in X  BY Disk
<1> HIDE DEF X, L
<1>3. /\ M \in Seq(X) /\ Len(M) = Len(L) + 1 /\ DOMAIN M = 1 .. Len(L) + 1
      /\ \A a \in DOMAIN L : M[a] = L[a]
      /\ M[Len(L) + 1] = x
      BY <1>2
<1>4. disk' = [disk EXCEPT ![p] = [disk[p] EXCEPT !.lines = M]]  BY DEF L
<1>5. [disk[p] EXCEPT !.lines = M] \in D /\ [disk[p] EXCEPT !.lines = M].lines = M
      /\ [disk[p] EXCEPT !.lines = M].flushed = disk[p].flushed
  <2> HIDE DEF M
  <2> QED BY <1>1, <1>3
<1>6. disk' \in [Paths -> D]
  <2> HIDE DEF M, D
  <2> QED BY <1>1, <1>4, <1>5
<1>7. disk'[p] = [disk[p] EXCEPT !.lines = M] /\ \A s \in Paths : s # p => disk'[s] = disk[s]
  <2> HIDE DEF M, D
  <2> QED BY <1>1, <1>4
<1>8. disk'[p].lines = M /\ disk'[p].flushed = disk[p].flushed  BY <1>5, <1>7
<1> HIDE DEF M, D
<1>9. \A s \in Paths : disk'[s].flushed = disk[s].flushed /\ (s # p => disk'[s].lines = disk[s].lines)
      BY <1>7, <1>8
<1> QED BY <1>3, <1>6, <1>8, <1>9 DEF L, D, X

-----------------------------------------------------------------------------
(* A step in a sink                                                          *)

Length(w) == Size(sinks[wr[w].at].name, wr[w].rec)

\* The two things Put does: it writes line q of the report, or flushes.
WritesLine(w, q) ==
    LET i == wr[w].at  rec == wr[w].rec IN
    /\ q <= Length(w)
    /\ disk' = [disk EXCEPT ![sinks[i].path].lines = Append(@, Piece(i, rec, q))]
    /\ sinks' = IF q = 0 THEN [sinks EXCEPT ![i].hdr = TRUE] ELSE sinks
    /\ wr'[w].todo = Rest(i, rec, q + 1)

Flushes(w, q) ==
    LET i == wr[w].at  p == sinks[i].path IN
    /\ q = Length(w) + 1 /\ Tabular(sinks[i].name)
    /\ disk' = [disk EXCEPT ![p].flushed = Len(disk[p].lines)]
    /\ sinks' = sinks
    /\ wr'[w].todo = << >>

\* It stays in the sink or, at the end of the report there, goes on to the next
\* and at the last is done.
GoesOn(w) ==
    LET i == wr[w].at  rec == wr[w].rec IN
    /\ wr'[w].rec = rec
    /\ wr'[w].at = IF wr'[w].todo = << >> THEN After(i, rec.what) ELSE i
    /\ told' = IF wr'[w].at = 0 THEN Append(told, rec) ELSE told
    /\ \A v \in Threads : v # w => wr'[v] = wr[v]
    /\ DOMAIN wr' = Threads
    /\ wr'[w] = [rec |-> wr'[w].rec, at |-> wr'[w].at, todo |-> wr'[w].todo]

LEMMA InASink ==
    ASSUME Types, Writers, NEW w \in Threads, ~Quiet(w)
    PROVE  /\ wr[w].at \in DOMAIN sinks /\ wr[w].at \in Nat \ {0} /\ wr[w].rec \in Recs
           /\ wr[w].rec.what \in Handles(sinks[wr[w].at].name)
           /\ sinks[wr[w].at].path \in Paths /\ sinks[wr[w].at].name \in Names
           /\ Length(w) \in Nat
           /\ Tabular(sinks[wr[w].at].name) => Length(w) = wr[w].rec.size
           /\ ~Tabular(sinks[wr[w].at].name) => Length(w) > 0
<1>1. wr[w].at \in DOMAIN sinks /\ wr[w].rec.what \in Handles(sinks[wr[w].at].name)
      BY DEF Writers
<1>2. wr[w].rec \in Recs  BY Writing
<1> QED BY <1>1, <1>2, Sinks, Lengths DEF Length

LEMMA PutStep ==
    ASSUME Types, Writers, NEW w \in Threads, Put(w)
    PROVE  /\ ~Quiet(w) /\ GoesOn(w)
           /\ wr[w].todo # << >> /\ wr'[w].todo = Tail(wr[w].todo)
           /\ \E q \in 0 .. Length(w) + 1 : Written(w, q) /\ (WritesLine(w, q) \/ Flushes(w, q))
<1> DEFINE i == wr[w].at
           rec == wr[w].rec
           T == wr[w].todo
           S == Length(w)
           tab == Tabular(sinks[i].name)
<1>1. T # << >>  BY DEF Put
<1>2. ~Quiet(w)  BY <1>1 DEF Writers
<1>3. PICK q \in 0 .. S + 1 : Written(w, q)  BY <1>1 DEF Writers, Length
<1>4. /\ i \in DOMAIN sinks /\ i # 0 /\ rec \in Recs /\ S \in Nat
      BY <1>2, InASink
<1>5. T = Rest(i, rec, q) /\ (~tab => q \in 1 .. S)  BY <1>3 DEF Written, Length
<1>6. wr' = [wr EXCEPT ![w].todo = Tail(T),
                       ![w].at = IF Tail(T) = << >> THEN After(i, rec.what) ELSE i]
      BY DEF Put
<1>7. /\ \A v \in Threads : v # w => wr'[v] = wr[v]
      /\ DOMAIN wr' = Threads
      /\ wr'[w] = [rec |-> rec, at |-> IF Tail(T) = << >> THEN After(i, rec.what) ELSE i,
                   todo |-> Tail(T)]
  <2>1. wr[w] = [rec |-> rec, at |-> i, todo |-> T]  BY Writing
  <2>2. DOMAIN wr = Threads /\ wr = [v \in Threads |-> wr[v]]  BY DEF Types
  <2> DEFINE A == Tail(T)
             B == IF Tail(T) = << >> THEN After(i, rec.what) ELSE i
             x == [[wr[w] EXCEPT !.todo = A] EXCEPT !.at = B]
  <2>3. wr' = [wr EXCEPT ![w].todo = A, ![w].at = B]  BY <1>6
  <2> HIDE DEF rec, i, T, A, B
  <2>4. x = [rec |-> rec, at |-> B, todo |-> A]
    <3>1. [wr[w] EXCEPT !.todo = A] = [rec |-> rec, at |-> i, todo |-> A]  BY <2>1
    <3>2. x = [[rec |-> rec, at |-> i, todo |-> A] EXCEPT !.at = B]  BY <3>1
    <3>3. [[rec |-> rec, at |-> i, todo |-> A] EXCEPT !.at = B] = [rec |-> rec, at |-> B, todo |-> A]
          OBVIOUS
    <3> QED BY <3>2, <3>3
  <2>5. wr' = [v \in Threads |-> IF v = w THEN x ELSE wr[v]]
        BY <2>2, <2>3
  <2>6. wr'[w] = [rec |-> rec, at |-> B, todo |-> A] /\ DOMAIN wr' = Threads
        /\ \A v \in Threads : v # w => wr'[v] = wr[v]
        BY <2>4, <2>5
  <2> QED BY <2>6 DEF A, B
<1>8. wr'[w].todo = Tail(T) /\ wr'[w].rec = rec
      /\ wr'[w].at = IF Tail(T) = << >> THEN After(i, rec.what) ELSE i
      BY <1>7
<1>9. told' = IF wr'[w].at = 0 THEN Append(told, rec) ELSE told  BY <1>8 DEF Put
<1>10. GoesOn(w)  BY <1>7, <1>8, <1>9 DEF GoesOn
<1>11. CASE q <= S
  <2>1. Head(T) = Piece(i, rec, q) /\ Tail(T) = Rest(i, rec, q + 1)
        BY <1>4, <1>5, <1>11, Remainder DEF Length
  <2>2. Head(T).part = q /\ Head(T).sink = i  BY <2>1 DEF Piece
  <2>3. q # FlushPart /\ (q = HeaderPart <=> q = 0)  BY <1>3 DEF FlushPart, HeaderPart
  <2>4. WritesLine(w, q)
        BY <1>8, <1>11, <2>1, <2>2, <2>3 DEF Put, WritesLine
  <2> QED BY <1>1, <1>2, <1>3, <1>8, <1>10, <2>4
<1>12. CASE q = S + 1
  <2>1. tab  BY <1>4, <1>5, <1>12
  <2>2. T = <<FlushLine(i)>>  BY <1>4, <1>5, <1>12, <2>1, Remainder DEF Length
  <2>3. Head(T) = FlushLine(i) /\ Tail(T) = << >>  BY <2>2
  <2>4. Head(T).part = FlushPart /\ Head(T).sink = i /\ FlushPart # HeaderPart
        BY <2>3 DEF FlushLine, FlushPart, HeaderPart
  <2>5. Flushes(w, q)  BY <1>8, <1>12, <2>1, <2>3, <2>4 DEF Put, Flushes
  <2> QED BY <1>1, <1>2, <1>3, <1>8, <1>10, <2>5
<1>13. q <= S \/ q = S + 1  BY <1>3, <1>4
<1> QED BY <1>11, <1>12, <1>13

-----------------------------------------------------------------------------
(* The files after a line and after a flush                                  *)

\* One thread at a time is in the sinks.
Alone == \A v, w \in Threads : ~Quiet(v) /\ ~Quiet(w) => v = w

LEMMA InGiven ==
    ASSUME NEW i, NEW x
    PROVE  /\ x \in Given(i) <=> \/ \E n \in DOMAIN told : told[n] = x
                                 \/ \E v \in Threads : i < wr[v].at /\ wr[v].rec = x
           /\ x \in InHand(i) <=> \E v \in Threads : i = wr[v].at /\ wr[v].todo # << >> /\ wr[v].rec = x
BY DEF Given, InHand

LEMMA Idling ==
    ASSUME Types, Writers, Alone, NEW w \in Threads, ~Quiet(w), NEW v \in Threads, v # w
    PROVE  wr[v].at = 0 /\ wr[v].todo = << >>
BY DEF Alone, Writers, Quiet

LEMMA Told ==
    ASSUME Types
    PROVE  Len(told) \in Nat /\ DOMAIN told = 1 .. Len(told) /\ \A n \in DOMAIN told : told[n] \in Recs
<1> DEFINE X == Recs
<1>1. told \in Seq(X)  BY DEF Types
<1> HIDE DEF X
<1>2. Len(told) \in Nat /\ DOMAIN told = 1 .. Len(told) /\ \A n \in DOMAIN told : told[n] \in X
      BY <1>1
<1> QED BY <1>2 DEF X

LEMMA ToldMore ==
    ASSUME Types, NEW x \in Recs, told' = Append(told, x)
    PROVE  /\ told' \in Seq(Recs) /\ Len(told') = Len(told) + 1
           /\ DOMAIN told' = 1 .. Len(told) + 1
           /\ \A n \in DOMAIN told : told'[n] = told[n]
           /\ told'[Len(told) + 1] = x
<1> DEFINE X == Recs
<1>1. told \in Seq(X) /\ x \in X  BY DEF Types
<1> HIDE DEF X
<1>2. /\ told' \in Seq(X) /\ Len(told') = Len(told) + 1
      /\ DOMAIN told' = 1 .. Len(told) + 1
      /\ \A n \in DOMAIN told : told'[n] = told[n]
      /\ told'[Len(told) + 1] = x
      BY <1>1
<1> QED BY <1>2 DEF X

\* A step in a sink takes no report from those given; the one it is about is
\* given to the sink when it is through there, and to no other.
LEMMA Onward ==
    ASSUME Types, Writers, Alone, NEW w \in Threads, ~Quiet(w), GoesOn(w),
           NEW s \in DOMAIN sinks, NEW x
    PROVE  /\ x \in Given(s) => x \in Given(s)'
           /\ x \in InHand(s) => x \in Given(s)' \cup InHand(s)'
           /\ s = wr[w].at => wr[w].rec \in Given(s)' \cup InHand(s)'
           /\ x \in Given(s)' /\ x.what \in Handles(sinks[s].name) =>
                 x \in Given(s) \/ (s = wr[w].at /\ x = wr[w].rec /\ wr'[w].todo = << >>)
<1> DEFINE i == wr[w].at
           rec == wr[w].rec
<1>1. i \in DOMAIN sinks /\ i \in Nat \ {0} /\ s \in Nat \ {0} /\ rec \in Recs  BY InASink, Sinks
<1>2. \A v \in Threads : v # w => wr[v].at = 0 /\ wr[v].todo = << >> /\ wr'[v] = wr[v]
      BY Idling DEF GoesOn
<1>3. /\ After(i, rec.what) \in Nat
      /\ After(i, rec.what) # 0 => After(i, rec.what) > i
      /\ s > i /\ rec.what \in Handles(sinks[s].name) => After(i, rec.what) # 0 /\ After(i, rec.what) <= s
      BY <1>1, Following
<1>4. /\ wr'[w].rec = rec /\ wr'[w].at = IF wr'[w].todo = << >> THEN After(i, rec.what) ELSE i
      /\ told' = IF wr'[w].at = 0 THEN Append(told, rec) ELSE told
      BY DEF GoesOn
<1>5. \/ wr'[w].at = 0 /\ wr'[w].todo = << >> /\ After(i, rec.what) = 0
      \/ wr'[w].at > i /\ wr'[w].todo = << >> /\ wr'[w].at = After(i, rec.what)
      \/ wr'[w].at = i /\ wr'[w].todo # << >>
      BY <1>1, <1>3, <1>4
<1>6. \A y : (\E n \in DOMAIN told' : told'[n] = y) <=>
                 (\E n \in DOMAIN told : told[n] = y) \/ (wr'[w].at = 0 /\ y = rec)
  <2>1. CASE wr'[w].at = 0
    <3>1. /\ DOMAIN told' = 1 .. Len(told) + 1 /\ \A n \in DOMAIN told : told'[n] = told[n]
          /\ told'[Len(told) + 1] = rec
          BY <1>1, <1>4, <2>1, ToldMore
    <3> QED BY <2>1, <3>1, Told
  <2>2. CASE wr'[w].at # 0  BY <1>4, <2>2
  <2> QED BY <2>1, <2>2
<1>7. \A j, y : (y \in Given(j))' <=> \/ \E n \in DOMAIN told' : told'[n] = y
                                     \/ \E v \in Threads : j < wr'[v].at /\ wr'[v].rec = y
      BY DEF Given
<1>8. \A j, y : (y \in InHand(j))' <=>
            \E v \in Threads : j = wr'[v].at /\ wr'[v].todo # << >> /\ wr'[v].rec = y
      BY DEF InHand
<1> HIDE DEF i, rec
<1>9. x \in Given(s) => \/ \E n \in DOMAIN told : told[n] = x
                        \/ s < i /\ x = rec
  <2>1. x \in Given(s) => \/ \E n \in DOMAIN told : told[n] = x
                          \/ \E v \in Threads : s < wr[v].at /\ wr[v].rec = x
        BY InGiven
  <2>2. \A v \in Threads : s < wr[v].at => v = w  BY <1>1, <1>2
  <2> QED BY <2>1, <2>2 DEF i, rec
<1>10. x \in InHand(s) => s = i /\ x = rec
  <2>1. x \in InHand(s) => \E v \in Threads : s = wr[v].at /\ wr[v].todo # << >> /\ wr[v].rec = x
        BY InGiven
  <2> QED BY <1>2, <2>1 DEF i, rec
<1>11. \A j : j \in 0 .. i => (rec \in Given(j)') \/ (j = i /\ rec \in InHand(j)')
  <2> SUFFICES ASSUME NEW j \in 0 .. i PROVE rec \in Given(j)' \/ (j = i /\ rec \in InHand(j)')
      OBVIOUS
  <2>1. CASE wr'[w].at = 0  BY <1>6, <1>7, <2>1
  <2>2. CASE wr'[w].at > i
    <3>1. j < wr'[w].at  BY <1>1, <1>3, <1>5, <2>2
    <3> QED BY <1>4, <1>7, <3>1
  <2>3. CASE wr'[w].at = i /\ wr'[w].todo # << >>  BY <1>1, <1>4, <1>7, <1>8, <2>3
  <2> QED BY <1>5, <2>1, <2>2, <2>3
<1>12. ASSUME x \in Given(s) PROVE x \in Given(s)'
  <2>1. CASE \E n \in DOMAIN told : told[n] = x  BY <1>6, <1>7, <2>1
  <2>2. CASE s < i /\ x = rec  BY <1>1, <1>11, <2>2
  <2> QED BY <1>9, <1>12, <2>1, <2>2
<1>13. ASSUME x \in InHand(s) PROVE x \in Given(s)' \cup InHand(s)'
       BY <1>1, <1>10, <1>11, <1>13
<1>14. s = i => rec \in Given(s)' \cup InHand(s)'  BY <1>1, <1>11
<1>15. ASSUME x \in Given(s)', x.what \in Handles(sinks[s].name)
       PROVE  x \in Given(s) \/ (s = i /\ x = rec /\ wr'[w].todo = << >>)
  <2>1. CASE \E n \in DOMAIN told : told[n] = x  BY <2>1, InGiven
  <2>2. CASE x = rec /\ wr'[w].at = 0
    <3>1. s <= i  BY <1>1, <1>3, <1>5, <1>15, <2>2
    <3>2. CASE s < i  BY <2>2, <3>2, InGiven DEF i, rec
    <3>3. CASE s = i  BY <1>1, <1>5, <2>2, <3>3
    <3> QED BY <1>1, <3>1, <3>2, <3>3
  <2>3. CASE \E v \in Threads : s < wr'[v].at /\ wr'[v].rec = x
    <3>1. s < wr'[w].at /\ x = rec  BY <1>1, <1>2, <1>4, <2>3
    <3>2. s < i \/ (s = i /\ wr'[w].todo = << >>)
          BY <1>1, <1>3, <1>5, <1>15, <3>1
    <3>3. CASE s < i  BY <3>1, <3>3, InGiven DEF i, rec
    <3> QED BY <3>1, <3>2, <3>3
  <2> QED BY <1>6, <1>7, <1>15, <2>1, <2>2, <2>3
<1> QED BY <1>12, <1>13, <1>14, <1>15 DEF i, rec

\* The list of the sinks stays as it was parsed.
SameSinks ==
    /\ DOMAIN sinks' = DOMAIN sinks
    /\ \A s \in DOMAIN sinks : sinks'[s].name = sinks[s].name /\ sinks'[s].path = sinks[s].path

LEMMA Marking ==
    ASSUME Types, NEW i \in DOMAIN sinks, NEW q, job' = job,
           sinks' = IF q = 0 THEN [sinks EXCEPT ![i].hdr = TRUE] ELSE sinks
    PROVE  /\ SameSinks
           /\ sinks' \in Seq([name : Names, path : Paths, hdr : BOOLEAN])
           /\ sinks'[i].hdr <=> sinks[i].hdr \/ q = 0
           /\ \A s \in DOMAIN sinks : s # i => sinks'[s].hdr = sinks[s].hdr
<1> DEFINE X == [name : Names, path : Paths, hdr : BOOLEAN]
           y == [sinks[i] EXCEPT !.hdr = TRUE]
<1>1. sinks \in Seq(X)  BY DEF Types, Names
<1>2. sinks[i] \in X /\ sinks[i].hdr \in BOOLEAN  BY Sinks
<1>3. y \in X /\ y.name = sinks[i].name /\ y.path = sinks[i].path /\ y.hdr = TRUE
      BY <1>2
<1>4. CASE q = 0
  <2>1. sinks' = [sinks EXCEPT ![i] = y]  BY <1>4
  <2> HIDE DEF X, y
  <2>2. sinks' \in Seq(X) /\ DOMAIN sinks' = DOMAIN sinks /\ sinks'[i] = y
        /\ \A s \in DOMAIN sinks : s # i => sinks'[s] = sinks[s]
    <3>1. Len(sinks) \in Nat /\ sinks \in [1 .. Len(sinks) -> X] /\ i \in 1 .. Len(sinks)
          BY <1>1
    <3>2. /\ sinks' \in [1 .. Len(sinks) -> X] /\ sinks'[i] = y
          /\ \A s \in 1 .. Len(sinks) : s # i => sinks'[s] = sinks[s]
          BY <1>3, <2>1, <3>1
    <3>3. sinks' \in Seq(X)  BY <3>1, <3>2
    <3> QED BY <3>1, <3>2, <3>3
  <2>3. SameSinks  BY <1>3, <2>2 DEF SameSinks
  <2> QED BY <1>2, <1>3, <1>4, <2>2, <2>3 DEF X
<1>5. CASE q # 0  BY <1>1, <1>2, <1>5 DEF SameSinks
<1> QED BY <1>4, <1>5

\* What a line of a report is.
LEMMA Pieces ==
    ASSUME NEW i \in Nat, NEW rec \in Recs, NEW q \in Nat
    PROVE  /\ Piece(i, rec, q) \in Lines
           /\ Piece(i, rec, q).sink = i /\ Piece(i, rec, q).part = q
           /\ q # 0 => Piece(i, rec, q).rec = rec /\ Piece(i, rec, q) = [sink |-> i, rec |-> rec, part |-> q]
           /\ q = 0 => Piece(i, rec, q).rec.what = "none"
<1>1. NoRec \in Recs /\ NoRec.what = "none"
      BY DEF NoRec, Rec, Recs, Kinds, Sweep!NoCell
<1> QED BY <1>1 DEF Piece, HeaderPart, Lines

LEMMA FileOf ==
    ASSUME Types, NEW s \in DOMAIN sinks
    PROVE  /\ Len(File(s)) \in Nat /\ DOMAIN File(s) = 1 .. Len(File(s))
           /\ Flushed(s) \in Nat
           /\ \A a \in DOMAIN File(s) : File(s)[a].sink \in Nat /\ File(s)[a].rec \in Recs
                                       /\ File(s)[a].part \in Int
<1>1. sinks[s].path \in Paths  BY Sinks
<1> QED BY <1>1, Disk DEF File, Flushed

\* The files when a line has been written.
Longer(w, q) ==
    LET i == wr[w].at  P == sinks[i].path  x == Piece(i, wr[w].rec, q)  N == Len(disk[P].lines) IN
    /\ Paths' = Paths /\ P \in Paths /\ N \in Nat
    /\ disk' \in [Paths -> [lines : Seq(Lines), flushed : Nat, open : BOOLEAN]]
    /\ \A p \in Paths : /\ disk'[p].flushed = disk[p].flushed
                        /\ p # P => disk'[p].lines = disk[p].lines
    /\ Len(disk'[P].lines) = N + 1 /\ DOMAIN disk'[P].lines = 1 .. N + 1
    /\ DOMAIN disk[P].lines = 1 .. N
    /\ \A a \in 1 .. N : disk'[P].lines[a] = disk[P].lines[a]
    /\ disk'[P].lines[N + 1] = x
    /\ x.sink = i /\ x.part = q /\ x \in Lines
    /\ q # 0 => x.rec = wr[w].rec
    /\ SameSinks
    /\ sinks' \in Seq([name : Names, path : Paths, hdr : BOOLEAN])
    /\ sinks'[i].hdr <=> sinks[i].hdr \/ q = 0
    /\ \A s \in DOMAIN sinks : s # i => sinks'[s].hdr = sinks[s].hdr

LEMMA LineWritten ==
    ASSUME Types, Writers, NEW w \in Threads, ~Quiet(w), NEW q \in Nat, WritesLine(w, q), job' = job
    PROVE  Longer(w, q)
<1> DEFINE i == wr[w].at
           P == sinks[i].path
           x == Piece(i, wr[w].rec, q)
<1>1. i \in DOMAIN sinks /\ i \in Nat /\ wr[w].rec \in Recs /\ P \in Paths  BY InASink
<1>2. x \in Lines /\ x.sink = i /\ x.part = q /\ (q # 0 => x.rec = wr[w].rec)  BY <1>1, Pieces
<1>3. Paths' = Paths  BY DEF Paths
<1>4. /\ disk' = [disk EXCEPT ![P].lines = Append(@, x)]
      /\ sinks' = IF q = 0 THEN [sinks EXCEPT ![i].hdr = TRUE] ELSE sinks
      BY DEF WritesLine
<1>5. /\ SameSinks
      /\ sinks' \in Seq([name : Names, path : Paths, hdr : BOOLEAN])
      /\ sinks'[i].hdr <=> sinks[i].hdr \/ q = 0
      /\ \A s \in DOMAIN sinks : s # i => sinks'[s].hdr = sinks[s].hdr
      BY <1>1, <1>4, Marking
<1>6. /\ Len(disk[P].lines) \in Nat /\ DOMAIN disk[P].lines = 1 .. Len(disk[P].lines)  BY <1>1, Disk
<1> HIDE DEF x, P, i
<1>7. /\ disk' \in [Paths -> [lines : Seq(Lines), flushed : Nat, open : BOOLEAN]]
      /\ \A s \in Paths : /\ disk'[s].flushed = disk[s].flushed
                          /\ s # P => disk'[s].lines = disk[s].lines
      /\ Len(disk'[P].lines) = Len(disk[P].lines) + 1
      /\ DOMAIN disk'[P].lines = 1 .. Len(disk[P].lines) + 1
      /\ \A a \in DOMAIN disk[P].lines : disk'[P].lines[a] = disk[P].lines[a]
      /\ disk'[P].lines[Len(disk[P].lines) + 1] = x
      BY <1>1, <1>2, <1>4, Appended
<1> QED BY <1>1, <1>2, <1>3, <1>5, <1>6, <1>7 DEF Longer, x, P, i

\* What holds as thread w writes line q.
Line1(w, q) ==
    /\ Types /\ Pages /\ Alone /\ ~Quiet(w) /\ job' = job
    /\ Written(w, q) /\ WritesLine(w, q) /\ GoesOn(w) /\ Longer(w, q)

\* The sink is through when the last line is out and nothing is to be flushed.
LEMMA LastLine ==
    ASSUME NEW w \in Threads, NEW q \in Nat, Line1(w, q)
    PROVE  /\ Tabular(sinks[wr[w].at].name) \/ q < Length(w) => wr'[w].todo # << >>
           /\ ~Tabular(sinks[wr[w].at].name) /\ q = Length(w) => wr'[w].todo = << >>
           /\ q < Length(w) => Head(wr'[w].todo) = Piece(wr[w].at, wr[w].rec, q + 1)
           /\ q \in 0 .. Length(w) /\ Length(w) \in Nat
<1> DEFINE i == wr[w].at
           rec == wr[w].rec
           S == Length(w)
<1>1. i \in DOMAIN sinks /\ S \in Nat /\ rec \in Recs  BY InASink DEF Line1, Pages
<1>2. q <= S /\ wr'[w].todo = Rest(i, rec, q + 1)  BY DEF Line1, WritesLine
<1>3. q + 1 \in Int /\ q + 1 <= S + 1  BY <1>1, <1>2
<1>4. /\ q + 1 <= S => /\ Rest(i, rec, q + 1) # << >>
                       /\ Head(Rest(i, rec, q + 1)) = Piece(i, rec, q + 1)
      /\ q + 1 = S + 1 => /\ ~Tabular(sinks[i].name) => Rest(i, rec, q + 1) = << >>
                          /\ Tabular(sinks[i].name) => Rest(i, rec, q + 1) = <<FlushLine(i)>>
      BY <1>1, <1>3, Remainder DEF Length, Line1
<1>5. \A x : <<x>> # << >>  OBVIOUS
<1> HIDE DEF i, rec, S
<1>6. q \in 0 .. S  BY <1>1, <1>2
<1>7. CASE q < S  BY <1>1, <1>2, <1>4, <1>6, <1>7 DEF i, rec, S
<1>8. CASE q = S
  <2>1. /\ ~Tabular(sinks[i].name) => wr'[w].todo = << >>
        /\ Tabular(sinks[i].name) => wr'[w].todo # << >>
    <3>1. q + 1 = S + 1  BY <1>8
    <3>2. /\ ~Tabular(sinks[i].name) => Rest(i, rec, q + 1) = << >>
          /\ Tabular(sinks[i].name) => Rest(i, rec, q + 1) # << >>
          BY <1>4, <1>5, <3>1, Zenon
    <3> QED BY <1>2, <3>2
  <2> QED BY <1>1, <1>6, <1>8, <2>1 DEF i, rec, S
<1> QED BY <1>1, <1>6, <1>7, <1>8 DEF S

LEMMA LineWriters ==
    ASSUME NEW w \in Threads, NEW q \in Nat, Line1(w, q)
    PROVE  Writers'
<1> DEFINE i == wr[w].at
           rec == wr[w].rec
           S == Length(w)
           P == sinks[i].path
           L == disk[P].lines
           M == disk'[P].lines
           N == Len(L)
           x == Piece(i, rec, q)
           tab == Tabular(sinks[i].name)
<1>0. Types /\ Writers /\ Alone /\ ~Quiet(w) /\ GoesOn(w) /\ Longer(w, q) /\ Written(w, q) /\ WritesLine(w, q)
      BY DEF Line1, Pages
<1>1. i \in DOMAIN sinks /\ i \in Nat \ {0} /\ S \in Nat /\ rec \in Recs /\ rec.what \in Handles(sinks[i].name)
      BY <1>0, InASink
<1>2. SameSinks  BY <1>0 DEF Longer
<1>3. ASSUME NEW v \in Threads, v # w
      PROVE  Quiet(v)' /\ wr'[v].todo = << >>
      BY <1>0, <1>3, Idling DEF GoesOn, Quiet
<1>4. CASE wr'[w].todo = << >>
  <2>1. wr'[w].at = After(i, rec.what) /\ wr'[w].rec = rec  BY <1>0, <1>4 DEF GoesOn
  <2>2. wr'[w].at # 0 => wr'[w].at \in DOMAIN sinks /\ rec.what \in Handles(sinks[wr'[w].at].name)
        BY <1>0, <1>1, <2>1, Following
  <2> QED BY <1>2, <1>3, <1>4, <2>1, <2>2 DEF Writers, Quiet, SameSinks
<1>5. CASE wr'[w].todo # << >>
  <2>1. wr'[w].at = i /\ wr'[w].rec = rec  BY <1>0, <1>5 DEF GoesOn
  <2>2. sinks'[i].name = sinks[i].name /\ sinks'[i].path = P /\ i \in DOMAIN sinks'
        BY <1>1, <1>2 DEF SameSinks
  <2>3. /\ N \in Nat /\ Len(M) = N + 1 /\ DOMAIN M = 1 .. N + 1
        /\ DOMAIN L = 1 .. N
        /\ \A a \in 1 .. N : M[a] = L[a]
        /\ M[N + 1] = x /\ x.part = q
        /\ sinks'[i].hdr <=> sinks[i].hdr \/ q = 0
        BY <1>0 DEF Longer
  <2>4. wr'[w].todo = RestOf(sinks[i].name, i, rec, q + 1)  BY <1>0 DEF WritesLine, Rest
  <2>5. ~tab => q + 1 \in 1 .. S
    <3>1. ~tab => q # S  BY <1>5, LastLine
    <3>2. q \in 0 .. S  BY LastLine
    <3> QED BY <1>1, <3>1, <3>2
  <2>6. /\ tab => (q = 0 <=> ~sinks[i].hdr)
        /\ tab => /\ \A a \in DOMAIN L : L[a].sink = i /\ L[a].rec = rec => L[a].part < q
                  /\ \A p \in 1 .. q - 1 : \E a \in 1 .. N : L[a] = [sink |-> i, rec |-> rec, part |-> p]
        BY <1>0 DEF Written, File, Holds
  <2>7. \A a \in DOMAIN L : L[a].part \in Int
    <3>1. P \in Paths  BY <1>0 DEF Longer
    <3> QED BY <1>0, <3>1, Disk
  <2>8. q # 0 => x = [sink |-> i, rec |-> rec, part |-> q]  BY <1>1, Pieces
  <2>9. q \in 0 .. S  BY LastLine
  <2>10. Size(sinks[i].name, rec) = S  BY DEF Length
  <2> HIDE DEF L, M, N, x, P, i, rec, S
  <2>11. tab => sinks'[i].hdr  BY <2>3, <2>6
  <2>12. ASSUME tab, NEW a \in DOMAIN M, M[a].sink = i, M[a].rec = rec
         PROVE  M[a].part < q + 1
    <3>1. CASE a \in 1 .. N
      <4>1. M[a] = L[a] /\ a \in DOMAIN L  BY <2>3, <3>1
      <4>2. L[a].part < q /\ L[a].part \in Int  BY <2>6, <2>7, <2>12, <4>1
      <4> QED BY <4>1, <4>2
    <3>2. CASE a = N + 1  BY <2>3, <3>2
    <3> QED BY <2>3, <3>1, <3>2
  <2>13. ASSUME tab, NEW p \in 1 .. (q + 1) - 1
         PROVE  \E a \in 1 .. Len(M) : M[a] = [sink |-> i, rec |-> rec, part |-> p]
    <3> DEFINE y == [sink |-> i, rec |-> rec, part |-> p]
    <3> HIDE DEF y
    <3>1. CASE p = q
      <4>1. q # 0  BY <3>1
      <4>2. M[N + 1] = y /\ N + 1 \in 1 .. Len(M)  BY <2>3, <2>8, <3>1, <4>1 DEF y
      <4> QED BY <4>2 DEF y
    <3>2. CASE p # q
      <4>1. p \in 1 .. q - 1  BY <3>2
      <4>2. PICK a \in 1 .. N : L[a] = y  BY <2>6, <2>13, <4>1 DEF y
      <4>3. M[a] = y /\ a \in 1 .. Len(M)  BY <2>3, <4>2
      <4> QED BY <4>3 DEF y
    <3> QED BY <3>1, <3>2
  <2>14. (q + 1) - 1 = q /\ M # << >> /\ q + 1 # 0
    <3>1. N + 1 \in DOMAIN M  BY <2>3
    <3> QED BY <3>1
  <2>15. M[Len(M)] = x  BY <2>3
  <2>16. Written(w, q + 1)'
    <3> DEFINE A == wr'[w].at
               R == wr'[w].rec
               K == disk'[sinks'[A].path].lines
    <3>1. A = i /\ R = rec /\ sinks'[A].name = sinks[i].name /\ K = M
          BY <2>1, <2>2 DEF M
    <3> HIDE DEF A, R, K
    <3>2. Size(sinks'[A].name, R) = S /\ (Tabular(sinks'[A].name) <=> tab)
          BY <2>10, <3>1
    <3>3. wr'[w].todo = RestOf(sinks'[A].name, A, R, q + 1)  BY <2>4, <3>1
    <3>4. /\ ~tab => q + 1 \in 1 .. Size(sinks'[A].name, R)
          /\ tab => (q + 1 = 0 <=> ~sinks'[A].hdr)
          BY <2>5, <2>11, <2>14, <3>1, <3>2
    <3>5. q + 1 > 1 => K # << >> /\ K[Len(K)] = Piece(A, R, (q + 1) - 1)
          BY <2>14, <2>15, <3>1 DEF x
    <3>6. tab => \A a \in DOMAIN K : K[a].sink = A /\ K[a].rec = R => K[a].part < q + 1
          BY <2>12, <3>1
    <3>7. tab => \A p \in 1 .. (q + 1) - 1 : \E a \in 1 .. Len(K) : K[a] = [sink |-> A, rec |-> R, part |-> p]
          BY <2>13, <3>1
    <3> HIDE DEF tab
    <3> QED BY <3>2, <3>3, <3>4, <3>5, <3>6, <3>7 DEF Written, Rest, Holds, File, A, R, K
  <2>17. q + 1 \in 0 .. Size(sinks'[wr'[w].at].name, wr'[w].rec) + 1
    <3>1. Size(sinks'[wr'[w].at].name, wr'[w].rec) = S  BY <2>1, <2>2, <2>10
    <3> QED BY <1>1, <2>9, <3>1
  <2>18. wr'[w].at # 0 /\ wr'[w].at \in DOMAIN sinks' /\ wr'[w].rec.what \in Handles(sinks'[wr'[w].at].name)
         BY <1>1, <2>1, <2>2
  <2> QED BY <1>3, <2>16, <2>17, <2>18 DEF Writers, Quiet
<1> QED BY <1>4, <1>5

LEMMA LineOrigins ==
    ASSUME NEW w \in Threads, NEW q \in Nat, Line1(w, q)
    PROVE  Origins'
<1> DEFINE i == wr[w].at
           rec == wr[w].rec
           P == sinks[i].path
           N == Len(disk[P].lines)
           x == Piece(i, rec, q)
<1>0. Types /\ Writers /\ Origins /\ Alone /\ ~Quiet(w) /\ GoesOn(w) /\ Longer(w, q)
      BY DEF Line1, Pages
<1>1. i \in DOMAIN sinks /\ i \in Nat \ {0} /\ P \in Paths  BY <1>0, InASink
<1>2. /\ Paths' = Paths
      /\ \A p \in Paths : p # P => disk'[p].lines = disk[p].lines
      /\ N \in Nat /\ DOMAIN disk'[P].lines = 1 .. N + 1 /\ DOMAIN disk[P].lines = 1 .. N
      /\ \A a \in 1 .. N : disk'[P].lines[a] = disk[P].lines[a]
      /\ disk'[P].lines[N + 1] = x
      /\ x.sink = i /\ x.part = q /\ (q # 0 => x.rec = rec)
      BY <1>0 DEF Longer
<1>3. /\ DOMAIN sinks' = DOMAIN sinks
      /\ \A s \in DOMAIN sinks : sinks'[s].name = sinks[s].name /\ sinks'[s].path = sinks[s].path
      BY <1>0 DEF Longer, SameSinks
<1>4. \A s \in DOMAIN sinks : \A y : y \in Given(s) \cup InHand(s) => y \in Given(s)' \cup InHand(s)'
      BY <1>0, Onward
<1>5. \A s \in DOMAIN sinks : s = i => rec \in Given(s)' \cup InHand(s)'
      BY <1>0, Onward
<1>6. q <= Size(sinks[i].name, rec)  BY LastLine DEF Length
<1> DEFINE Fine(p, y) ==
              /\ y.sink = 0 \/ (y.sink \in DOMAIN sinks /\ sinks[y.sink].path = p)
              /\ y.part >= 0 /\ (y.part = 0 => y.rec.what = "none")
              /\ y.sink > 0 /\ y.part > 0 => y.part <= Size(sinks[y.sink].name, y.rec)
<1> HIDE DEF i, rec, P, N, x
<1>7. ASSUME NEW p \in Paths, NEW a \in DOMAIN disk[p].lines
      PROVE  /\ Fine(p, disk[p].lines[a])
             /\ \A s \in DOMAIN sinks : \A y : y = disk[p].lines[a] /\ s = y.sink /\ y.part > 0 =>
                    y.rec \in Given(s)' \cup InHand(s)'
  <2>1. Fine(p, disk[p].lines[a])  BY <1>0 DEF Origins
  <2>2. \A s \in DOMAIN sinks : s > 0  BY <1>0, Sinks
  <2>3. \A s \in DOMAIN sinks : s = disk[p].lines[a].sink /\ disk[p].lines[a].part > 0 =>
            disk[p].lines[a].rec \in Given(s) \cup InHand(s)
        BY <1>0, <2>2 DEF Origins
  <2> QED BY <1>4, <2>1, <2>3
<1>8. /\ Fine(P, x)
      /\ \A s \in DOMAIN sinks : s = x.sink /\ x.part > 0 => x.rec \in Given(s)' \cup InHand(s)'
  <2>1. sinks[i].path = P  BY DEF P
  <2>2. q > 0 => x.rec = rec  BY <1>2
  <2>3. q = 0 => x.rec.what = "none"
    <3>1. rec \in Recs  BY <1>0, Writing DEF rec
    <3> QED BY <1>1, <3>1, Pieces DEF x
  <2> QED BY <1>1, <1>2, <1>5, <1>6, <2>1, <2>2, <2>3
<1>9. ASSUME NEW p \in Paths, NEW a \in DOMAIN disk'[p].lines
      PROVE  /\ Fine(p, disk'[p].lines[a])
             /\ \A s \in DOMAIN sinks : s = disk'[p].lines[a].sink /\ disk'[p].lines[a].part > 0 =>
                    disk'[p].lines[a].rec \in Given(s)' \cup InHand(s)'
  <2>1. CASE p # P \/ a # N + 1
    <3>1. a \in DOMAIN disk[p].lines /\ disk'[p].lines[a] = disk[p].lines[a]
          BY <1>2, <2>1
    <3> HIDE DEF Fine
    <3> QED BY <1>7, <3>1
  <2>2. CASE p = P /\ a = N + 1
    <3> HIDE DEF Fine
    <3> QED BY <1>2, <1>8, <2>2
  <2> QED BY <2>1, <2>2
<1>10. ASSUME NEW p \in Paths, NEW a \in DOMAIN disk'[p].lines, NEW y, y = disk'[p].lines[a]
       PROVE  /\ y.sink = 0 \/ (y.sink \in DOMAIN sinks' /\ sinks'[y.sink].path = p)
              /\ y.part >= 0 /\ (y.part = 0 => y.rec.what = "none")
              /\ y.sink > 0 /\ y.part > 0 =>
                    /\ y.part <= Size(sinks'[y.sink].name, y.rec)
                    /\ y.rec \in Given(y.sink)' \cup InHand(y.sink)'
  <2>1. Fine(p, y)  BY <1>9, <1>10
  <2>2. y.sink # 0 => y.sink \in DOMAIN sinks  BY <2>1
  <2>3. CASE y.sink = 0  BY <2>1, <2>3
  <2>4. CASE y.sink # 0
    <3>1. y.sink \in DOMAIN sinks  BY <2>2, <2>4
    <3>2. sinks'[y.sink].path = p /\ y.part >= 0 /\ (y.part = 0 => y.rec.what = "none")  BY <1>3, <2>1, <2>4, <3>1
    <3>3. y.sink > 0 /\ y.part > 0 => y.part <= Size(sinks'[y.sink].name, y.rec)
          BY <1>3, <2>1, <3>1
    <3>4. y.part > 0 => y.rec \in Given(y.sink)' \cup InHand(y.sink)'
          BY <1>9, <1>10, <3>1
    <3> QED BY <1>3, <3>1, <3>2, <3>3, <3>4
  <2> QED BY <2>3, <2>4
<1> QED BY <1>2, <1>10 DEF Origins

\* The file of a sink, before and after.
LEMMA FileGrows ==
    ASSUME NEW w \in Threads, NEW q \in Nat, Line1(w, q), NEW s \in DOMAIN sinks
    PROVE  /\ s \in DOMAIN sinks' /\ sinks'[s].name = sinks[s].name
           /\ File(s)' = disk'[sinks[s].path].lines
           /\ Flushed(s)' = Flushed(s)
           /\ Len(File(s)) \in Nat /\ DOMAIN File(s) = 1 .. Len(File(s))
           /\ DOMAIN File(s)' = 1 .. Len(File(s)')
           /\ Len(File(s)) <= Len(File(s)') /\ Len(File(s)') \in Nat
           /\ \A a \in DOMAIN File(s) : File(s)'[a] = File(s)[a]
           /\ \/ File(s)' = File(s) /\ s # wr[w].at
              \/ /\ Len(File(s)') = Len(File(s)) + 1
                 /\ File(s)'[Len(File(s)) + 1] = Piece(wr[w].at, wr[w].rec, q)
           /\ s = wr[w].at => Len(File(s)') = Len(File(s)) + 1
<1> DEFINE i == wr[w].at
           x == Piece(i, wr[w].rec, q)
           P == sinks[i].path
           N == Len(disk[P].lines)
<1>1. Types /\ Longer(w, q)  BY DEF Line1
<1>2. /\ P \in Paths /\ N \in Nat
      /\ \A p \in Paths : /\ disk'[p].flushed = disk[p].flushed
                          /\ p # P => disk'[p].lines = disk[p].lines
      /\ Len(disk'[P].lines) = N + 1 /\ DOMAIN disk'[P].lines = 1 .. N + 1
      /\ DOMAIN disk[P].lines = 1 .. N
      /\ \A a \in 1 .. N : disk'[P].lines[a] = disk[P].lines[a]
      /\ disk'[P].lines[N + 1] = x
      BY <1>1 DEF Longer
<1>3. s \in DOMAIN sinks' /\ sinks'[s].name = sinks[s].name /\ sinks'[s].path = sinks[s].path
      BY <1>1 DEF Longer, SameSinks
<1>4. sinks[s].path \in Paths  BY <1>1, Sinks
<1>5. File(s)' = disk'[sinks[s].path].lines /\ Flushed(s)' = disk'[sinks[s].path].flushed
      BY <1>3 DEF File, Flushed
<1>6. File(s) = disk[sinks[s].path].lines /\ Flushed(s) = disk[sinks[s].path].flushed
      BY DEF File, Flushed
<1>7. Len(File(s)) \in Nat /\ DOMAIN File(s) = 1 .. Len(File(s))  BY <1>1, FileOf
<1>8. CASE sinks[s].path = P
  <2>1. File(s) = disk[P].lines /\ File(s)' = disk'[P].lines  BY <1>5, <1>6, <1>8
  <2> HIDE DEF P, N, i, x
  <2>2. Len(File(s)) = N /\ Len(File(s)') = N + 1  BY <1>2, <2>1 DEF N
  <2> QED BY <1>2, <1>3, <1>4, <1>5, <1>6, <1>7, <2>1, <2>2 DEF i, x
<1>9. CASE sinks[s].path # P
  <2>1. File(s)' = File(s)  BY <1>2, <1>4, <1>5, <1>6, <1>9
  <2>2. s # i  BY <1>9
  <2> HIDE DEF P, N, x, i
  <2> QED BY <1>2, <1>3, <1>4, <1>5, <1>6, <1>7, <2>1, <2>2 DEF i
<1> QED BY <1>8, <1>9

\* Once a line is out, the header is; what was first in the file still is.
LEMMA HeaderStays ==
    ASSUME NEW s, NEW h \in BOOLEAN, NEW g \in BOOLEAN, NEW N \in Nat, NEW L, NEW M, NEW x,
           DOMAIN L = 1 .. N, DOMAIN M = 1 .. N + 1, \A a \in 1 .. N : M[a] = L[a], M[N + 1] = x,
           HeaderFirst(s, h, L),
           \/ x.sink # s /\ g = h
           \/ x.sink = s /\ (x.part = 0 <=> ~h) /\ g
    PROVE  HeaderFirst(s, g, M)
<1>1. /\ h <=> \E a \in 1 .. N : L[a].sink = s
      /\ \A a \in 1 .. N : L[a].sink = s =>
            (L[a].part = 0 <=> \A m \in 1 .. a - 1 : L[m].sink # s)
      BY DEF HeaderFirst, HeaderPart
<1>2. \A a \in 1 .. N : \A m \in 1 .. a - 1 : m \in 1 .. N  OBVIOUS
<1>3. \A a \in 1 .. N + 1 : a \in 1 .. N \/ a = N + 1  OBVIOUS
<1>4. \A a \in 1 .. N : (\A m \in 1 .. a - 1 : M[m].sink # s) <=> (\A m \in 1 .. a - 1 : L[m].sink # s)
      BY <1>2
<1>5. g <=> \E a \in 1 .. N + 1 : M[a].sink = s
  <2>1. N + 1 \in 1 .. N + 1 /\ \A a \in 1 .. N : a \in 1 .. N + 1  OBVIOUS
  <2> QED BY <1>1, <1>3, <2>1
<1>6. ASSUME NEW a \in 1 .. N + 1, M[a].sink = s
      PROVE  M[a].part = 0 <=> \A m \in 1 .. a - 1 : M[m].sink # s
  <2>1. CASE a \in 1 .. N  BY <1>1, <1>4, <1>6, <2>1
  <2>2. CASE a = N + 1
    <3>1. 1 .. a - 1 = 1 .. N  BY <2>2
    <3>2. (\A m \in 1 .. N : M[m].sink # s) <=> ~h  BY <1>1
    <3> QED BY <1>6, <2>2, <3>1, <3>2
  <2> QED BY <1>3, <2>1, <2>2
<1> QED BY <1>5, <1>6 DEF HeaderFirst, HeaderPart

LEMMA LineHeaders ==
    ASSUME NEW w \in Threads, NEW q \in Nat, Line1(w, q)
    PROVE  Headers'
<1> DEFINE i == wr[w].at
           x == Piece(i, wr[w].rec, q)
<1>0. Types /\ Writers /\ Headers /\ Written(w, q) /\ Longer(w, q) /\ ~Quiet(w)  BY DEF Line1, Pages
<1>1. i \in DOMAIN sinks /\ \A s \in DOMAIN sinks : sinks[s].hdr \in BOOLEAN  BY <1>0, InASink, Sinks
<1>2. x.sink = i /\ x.part = q /\ (sinks'[i].hdr <=> sinks[i].hdr \/ q = 0)
      /\ \A s \in DOMAIN sinks : s # i => sinks'[s].hdr = sinks[s].hdr
      /\ DOMAIN sinks' = DOMAIN sinks
      BY <1>0 DEF Longer, SameSinks
<1>3. Tabular(sinks[i].name) => (q = 0 <=> ~sinks[i].hdr)  BY <1>0 DEF Written
<1>4. \A s \in DOMAIN sinks : sinks'[s].hdr \in BOOLEAN
  <2> DEFINE X == [name : Names, path : Paths, hdr : BOOLEAN]
  <2>1. sinks' \in Seq(X)  BY <1>0 DEF Longer
  <2>2. \A y \in X : y.hdr \in BOOLEAN  OBVIOUS
  <2> HIDE DEF X
  <2>3. \A s \in DOMAIN sinks' : sinks'[s] \in X  BY <2>1
  <2>4. DOMAIN sinks' = DOMAIN sinks  BY <1>0 DEF Longer, SameSinks
  <2> QED BY <2>2, <2>3, <2>4
<1> HIDE DEF x, i
<1>5. ASSUME NEW s \in DOMAIN sinks, Tabular(sinks[s].name)
      PROVE  HeaderFirst(s, sinks'[s].hdr, File(s)')
  <2> DEFINE L == File(s)
             M == File(s)'
             N == Len(L)
  <2>1. /\ N \in Nat /\ DOMAIN L = 1 .. N /\ DOMAIN M = 1 .. Len(M)
        /\ \A a \in DOMAIN L : M[a] = L[a]
        /\ \/ M = L /\ s # i
           \/ Len(M) = N + 1 /\ M[N + 1] = x
        /\ s = i => Len(M) = N + 1
        BY FileGrows DEF i, x
  <2>2. HeaderFirst(s, sinks[s].hdr, L)  BY <1>0, <1>5 DEF Headers
  <2> HIDE DEF L, M, N
  <2>3. CASE M = L /\ s # i  BY <1>2, <2>2, <2>3 DEF M
  <2>4. CASE Len(M) = N + 1 /\ M[N + 1] = x
    <3>1. DOMAIN M = 1 .. N + 1 /\ \A a \in 1 .. N : M[a] = L[a]  BY <2>1, <2>4
    <3>2. sinks[s].hdr \in BOOLEAN /\ sinks'[s].hdr \in BOOLEAN  BY <1>1, <1>4
    <3>3. \/ x.sink # s /\ sinks'[s].hdr = sinks[s].hdr
          \/ x.sink = s /\ (x.part = 0 <=> ~sinks[s].hdr) /\ sinks'[s].hdr
          BY <1>2, <1>3, <1>5
    <3>4. HeaderFirst(s, sinks'[s].hdr, M)  BY <2>1, <2>2, <2>4, <3>1, <3>2, <3>3, HeaderStays
    <3> QED BY <3>4 DEF M
  <2> QED BY <2>1, <2>3, <2>4
<1>6. DOMAIN sinks' = DOMAIN sinks /\ \A s \in DOMAIN sinks : sinks'[s].name = sinks[s].name
      BY <1>0 DEF Longer, SameSinks
<1> QED BY <1>5, <1>6 DEF Headers

LEMMA LineOnce ==
    ASSUME NEW w \in Threads, NEW q \in Nat, Line1(w, q)
    PROVE  Once'
<1> DEFINE i == wr[w].at
           rec == wr[w].rec
           x == Piece(i, rec, q)
<1>0. Types /\ Once /\ Written(w, q) /\ Longer(w, q)  BY DEF Line1, Pages
<1>1. x.sink = i /\ x.part = q /\ DOMAIN sinks' = DOMAIN sinks /\ (q # 0 => x.rec = rec)
      BY <1>0 DEF Longer, SameSinks
<1> SUFFICES ASSUME NEW s \in DOMAIN sinks, Tabular(sinks[s].name),
                    NEW a \in DOMAIN File(s)', NEW b \in DOMAIN File(s)',
                    File(s)'[a] = File(s)'[b], File(s)'[a].sink = s, File(s)'[a].part > 0
             PROVE  a = b
  <2>1. \A s \in DOMAIN sinks : sinks'[s].name = sinks[s].name  BY FileGrows
  <2> QED BY <1>1, <2>1 DEF Once
<1> DEFINE L == File(s)
           M == File(s)'
           N == Len(L)
<1>2. /\ N \in Nat /\ DOMAIN L = 1 .. N /\ DOMAIN M = 1 .. Len(M)
      /\ \A c \in DOMAIN L : M[c] = L[c]
      /\ M = L \/ (Len(M) = N + 1 /\ M[N + 1] = x)
      BY FileGrows
<1>3. \A c, d \in DOMAIN L : L[c] = L[d] /\ L[c].sink = s /\ L[c].part > 0 => c = d
      BY <1>0 DEF Once
<1>4. s = i => \A c \in DOMAIN L : L[c].sink = i /\ L[c].rec = rec => L[c].part < q
      BY <1>0 DEF Written
<1>5. \A c \in DOMAIN L : L[c].part \in Int  BY <1>0, FileOf
<1>6. /\ a \in DOMAIN M /\ b \in DOMAIN M /\ M[a] = M[b] /\ M[a].sink = s /\ M[a].part > 0
      OBVIOUS
<1> HIDE DEF x, L, M, N, i, rec
<1>7. ASSUME NEW c \in DOMAIN L, L[c] = x, s = i, q > 0 PROVE FALSE
      BY <1>1, <1>4, <1>5, <1>7
<1>8. CASE M = L  BY <1>3, <1>6, <1>8
<1>9. CASE Len(M) = N + 1 /\ M[N + 1] = x
  <2>1. /\ a \in DOMAIN L \/ a = N + 1
        /\ b \in DOMAIN L \/ b = N + 1
        BY <1>2, <1>6, <1>9
  <2>2. CASE a \in DOMAIN L /\ b \in DOMAIN L  BY <1>2, <1>3, <1>6, <2>2
  <2>3. CASE a = N + 1 /\ b \in DOMAIN L
    <3>1. L[b] = x /\ s = i /\ q > 0  BY <1>1, <1>2, <1>6, <1>9, <2>3
    <3> QED BY <1>7, <2>3, <3>1
  <2>4. CASE a \in DOMAIN L /\ b = N + 1
    <3>1. L[a] = x /\ s = i /\ q > 0  BY <1>1, <1>2, <1>6, <1>9, <2>4
    <3> QED BY <1>7, <2>4, <3>1
  <2> QED BY <2>1, <2>2, <2>3, <2>4
<1> QED BY <1>2, <1>8, <1>9

\* What is kept stays kept: the file only grows, and so does what is flushed.
LEMMA KeptOn ==
    ASSUME NEW s, NEW x, Kept(s, x), Flushed(s) \in Nat, Flushed(s)' \in Nat, Flushed(s) <= Flushed(s)',
           \A a \in 1 .. Flushed(s) : File(s)'[a] = File(s)[a]
    PROVE  Kept(s, x)'
<1> DEFINE m == Flushed(s)
           n == Flushed(s)'
           L == File(s)
           M == File(s)'
           Y(p) == [sink |-> s, rec |-> x, part |-> p]
<1>1. \A p \in 1 .. x.size : \E a \in 1 .. m : L[a] = Y(p)  BY DEF Kept, Holds
<1>2. m \in Nat /\ n \in Nat /\ m <= n /\ \A a \in 1 .. m : M[a] = L[a]  OBVIOUS
<1> HIDE DEF m, n, L, M, Y
<1>3. \A p \in 1 .. x.size : \E a \in 1 .. n : M[a] = Y(p)
  <2> SUFFICES ASSUME NEW p \in 1 .. x.size PROVE \E a \in 1 .. n : M[a] = Y(p)  OBVIOUS
  <2>1. PICK a \in 1 .. m : L[a] = Y(p)  BY <1>1
  <2>2. a \in 1 .. n /\ M[a] = Y(p)  BY <1>2, <2>1
  <2> QED BY <2>2
<1> QED BY <1>3 DEF Kept, Holds, n, M, Y

LEMMA LineSafely ==
    ASSUME NEW w \in Threads, NEW q \in Nat, Line1(w, q)
    PROVE  Safely'
<1>0. Types /\ Writers /\ Safely /\ Alone /\ GoesOn(w) /\ Longer(w, q) /\ ~Quiet(w)  BY DEF Line1, Pages
<1>1. \A p \in Paths' : disk'[p].flushed <= Len(disk'[p].lines)
  <2> SUFFICES ASSUME NEW p \in Paths PROVE disk'[p].flushed <= Len(disk'[p].lines)
      BY <1>0 DEF Longer
  <2>1. disk[p].flushed <= Len(disk[p].lines) /\ disk[p].flushed \in Nat /\ Len(disk[p].lines) \in Nat
        BY <1>0, Disk DEF Safely
  <2>2. disk'[p].flushed = disk[p].flushed
        /\ (disk'[p].lines = disk[p].lines \/ Len(disk'[p].lines) = Len(disk[p].lines) + 1)
        BY <1>0 DEF Longer
  <2> QED BY <2>1, <2>2
<1>2. ASSUME NEW s \in DOMAIN sinks, Tabular(sinks[s].name), NEW y \in Given(s)',
             y.what \in Handles(sinks[s].name)
      PROVE  Kept(s, y)'
  <2>1. y \in Given(s) \/ (s = wr[w].at /\ wr'[w].todo = << >>)  BY <1>0, <1>2, Onward
  <2>2. s = wr[w].at => wr'[w].todo # << >>  BY <1>2, LastLine
  <2>3. Kept(s, y)  BY <1>0, <1>2, <2>1, <2>2 DEF Safely
  <2>4. /\ Flushed(s)' = Flushed(s) /\ Flushed(s) \in Nat
        /\ Len(File(s)) \in Nat /\ DOMAIN File(s) = 1 .. Len(File(s))
        /\ \A a \in DOMAIN File(s) : File(s)'[a] = File(s)[a]
        BY <1>0, FileGrows, FileOf
  <2>5. Flushed(s) <= Len(File(s))
    <3>1. sinks[s].path \in Paths  BY <1>0, Sinks
    <3> QED BY <1>0, <3>1 DEF Safely, Flushed, File
  <2>6. \A a \in 1 .. Flushed(s) : a \in DOMAIN File(s)  BY <2>4, <2>5
  <2>7. \A a \in 1 .. Flushed(s) : File(s)'[a] = File(s)[a]  BY <2>4, <2>6
  <2>8. Flushed(s)' \in Nat /\ Flushed(s) <= Flushed(s)'  BY <2>4
  <2> QED BY <2>3, <2>4, <2>7, <2>8, KeptOn
<1>3. DOMAIN sinks' = DOMAIN sinks /\ \A s \in DOMAIN sinks : sinks'[s].name = sinks[s].name
      BY <1>0 DEF Longer, SameSinks
<1> QED BY <1>1, <1>2, <1>3 DEF Safely

LEMMA LineTogether ==
    ASSUME NEW w \in Threads, NEW q \in Nat, Line1(w, q)
    PROVE  Together'
<1> DEFINE i == wr[w].at
           rec == wr[w].rec
           S == Length(w)
           P == sinks[i].path
           x == Piece(i, rec, q)
<1>0. Types /\ Writers /\ Origins /\ Together /\ Alone /\ GoesOn(w) /\ Longer(w, q) /\ Written(w, q) /\ ~Quiet(w)
      BY DEF Line1, Pages
<1>1. i \in DOMAIN sinks /\ i \in Nat \ {0} /\ rec \in Recs /\ S \in Nat /\ P \in Paths  BY <1>0, InASink
<1>2. /\ Paths' = Paths
      /\ \A p \in Paths : p # P => disk'[p].lines = disk[p].lines
      /\ Len(disk'[P].lines) = Len(disk[P].lines) + 1
      /\ DOMAIN disk'[P].lines = 1 .. Len(disk[P].lines) + 1
      /\ \A a \in 1 .. Len(disk[P].lines) : disk'[P].lines[a] = disk[P].lines[a]
      /\ disk'[P].lines[Len(disk[P].lines) + 1] = x
      /\ x.sink = i /\ x.part = q /\ (q # 0 => x.rec = rec)
      BY <1>0 DEF Longer
<1>3. q <= S /\ (q < S => wr'[w].todo # << >> /\ Head(wr'[w].todo) = Piece(i, rec, q + 1))
      BY LastLine
<1>4. Head(wr[w].todo) = x
  <2>1. wr[w].todo = Rest(i, rec, q)  BY <1>0 DEF Written
  <2> QED BY <1>0, <1>1, <1>3, <2>1, Remainder DEF Length
<1>5. \A v \in Threads : wr[v].todo # << >> => v = w  BY <1>0, Idling
<1>6. q > 1 => disk[P].lines # << >> /\ disk[P].lines[Len(disk[P].lines)] = Piece(i, rec, q - 1)
      BY <1>0 DEF Written, File
<1>7. \A p \in Paths : /\ Len(disk[p].lines) \in Nat /\ DOMAIN disk[p].lines = 1 .. Len(disk[p].lines)
                       /\ \A a \in DOMAIN disk[p].lines : disk[p].lines[a].sink \in Nat /\ disk[p].lines[a].part \in Int
      BY <1>0, Disk
<1>8. \A y : y.sink = 0 \/ y.sink \in DOMAIN sinks => Total(y)' = Total(y)
      BY <1>0 DEF Longer, SameSinks, Total
<1>9. Total(x) = IF q = 0 THEN Total(x) ELSE S  BY <1>1, <1>2 DEF Total, Length
<1>10. \A y : y.sink = 0 => Total(y) = 1  BY DEF Total
<1>11. ASSUME NEW p \in Paths, NEW a \in DOMAIN disk[p].lines
       PROVE  LET y == disk[p].lines[a] IN y.sink = 0 \/ (y.sink \in DOMAIN sinks /\ sinks[y.sink].path = p)
       BY <1>0 DEF Origins
<1>12. ASSUME NEW p \in Paths, NEW a \in DOMAIN disk[p].lines
       PROVE  LET L == disk[p].lines IN
              /\ L[a].part > 1 => a > 1 /\ L[a - 1] = Shift(L[a], -1)
              /\ L[a].part \in 1 .. Total(L[a]) - 1 =>
                    IF a < Len(L) THEN L[a + 1] = Shift(L[a], 1) ELSE Shift(L[a], 1) = x
       BY <1>0, <1>4, <1>5 DEF Together
<1>13. /\ \A y : Shift(y, 1).sink = y.sink /\ Shift(y, -1).sink = y.sink
       /\ q > 1 => Shift(x, -1) = Piece(i, rec, q - 1)
       /\ q > 0 => Shift(x, 1) = Piece(i, rec, q + 1)
  <2>1. \A y : Shift(y, 1).sink = y.sink /\ Shift(y, -1).sink = y.sink  BY DEF Shift
  <2>2. ASSUME q > 1 PROVE Shift(x, -1) = Piece(i, rec, q - 1)
    <3>1. q - 1 \in Nat \ {0} /\ q # 0 /\ q + -1 = q - 1  BY <2>2
    <3>2. Piece(i, rec, q - 1) = [sink |-> i, rec |-> rec, part |-> q - 1]  BY <1>1, <3>1, Pieces
    <3> QED BY <1>2, <3>1, <3>2 DEF Shift
  <2>3. ASSUME q > 0 PROVE Shift(x, 1) = Piece(i, rec, q + 1)
    <3>1. q + 1 \in Nat \ {0} /\ q # 0  BY <2>3
    <3>2. Piece(i, rec, q + 1) = [sink |-> i, rec |-> rec, part |-> q + 1]  BY <1>1, <3>1, Pieces
    <3> QED BY <1>2, <3>1, <3>2 DEF Shift
  <2> QED BY <2>1, <2>2, <2>3
<1>14. sinks[i].path = P  OBVIOUS
<1> DEFINE Goal(p, L, n) ==
              /\ L[n].part > 1 => n > 1 /\ L[n - 1] = Shift(L[n], -1)
              /\ L[n].part \in 1 .. Total(L[n]) - 1 =>
                    IF n < Len(L) THEN L[n + 1] = Shift(L[n], 1)
                    ELSE wr'[w].todo # << >> /\ Head(wr'[w].todo) = Shift(L[n], 1)
<1> HIDE DEF i, rec, S, P, x
<1>15. ASSUME NEW p \in Paths, p # P, NEW n \in DOMAIN disk'[p].lines
       PROVE  Goal(p, disk'[p].lines, n)
  <2> DEFINE L == disk[p].lines
  <2>1. disk'[p].lines = L /\ n \in DOMAIN L  BY <1>2, <1>15
  <2>2. /\ L[n].part > 1 => n > 1 /\ L[n - 1] = Shift(L[n], -1)
        /\ L[n].part \in 1 .. Total(L[n]) - 1 =>
              IF n < Len(L) THEN L[n + 1] = Shift(L[n], 1) ELSE Shift(L[n], 1) = x
        BY <1>12, <2>1
  <2>3. L[n].sink # i  BY <1>1, <1>11, <1>14, <1>15, <2>1
  <2>4. Shift(L[n], 1) # x  BY <1>2, <1>13, <2>3
  <2> HIDE DEF L
  <2> QED BY <2>1, <2>2, <2>4
<1>16. ASSUME NEW n \in DOMAIN disk'[P].lines
       PROVE  Goal(P, disk'[P].lines, n)
  <2> DEFINE L == disk[P].lines
             M == disk'[P].lines
             N == Len(L)
  <2>1. /\ N \in Nat /\ DOMAIN L = 1 .. N /\ Len(M) = N + 1 /\ DOMAIN M = 1 .. N + 1
        /\ \A a \in 1 .. N : M[a] = L[a]
        /\ M[N + 1] = x
        BY <1>1, <1>2, <1>7
  <2>2. \A a \in 1 .. N : /\ L[a].part > 1 => a > 1 /\ L[a - 1] = Shift(L[a], -1)
                          /\ L[a].part \in 1 .. Total(L[a]) - 1 =>
                                IF a < Len(L) THEN L[a + 1] = Shift(L[a], 1) ELSE Shift(L[a], 1) = x
        BY <1>1, <1>12, <2>1
  <2>3. q > 1 => L # << >> /\ L[N] = Piece(i, rec, q - 1)  BY <1>6 DEF i, rec, P
  <2>4. L # << >> => N >= 1
    <3>1. L \in Seq(Lines)  BY <1>0, <1>1, Disk
    <3> HIDE DEF L
    <3> QED BY <2>1, <3>1
  <2>5. n \in 1 .. N + 1  BY <2>1
  <2> HIDE DEF L, M
  <2>6. CASE n \in 1 .. N
    <3>1. M[n] = L[n] /\ n < Len(M) /\ n + 1 \in 1 .. N + 1  BY <2>1, <2>6
    <3>2. L[n].part > 1 => n - 1 \in 1 .. N  BY <2>1, <2>2, <2>6
    <3>3. L[n].part > 1 => n > 1 /\ M[n - 1] = Shift(L[n], -1)  BY <2>1, <2>2, <2>6, <3>2
    <3>4. n < N => M[n + 1] = L[n + 1]  BY <2>1, <2>6
    <3>5. n = N => M[n + 1] = x  BY <2>1
    <3>6. L[n].part \in 1 .. Total(L[n]) - 1 => M[n + 1] = Shift(L[n], 1)
      <4>1. CASE n < N  BY <2>2, <2>6, <3>4, <4>1
      <4>2. CASE n = N  BY <2>2, <2>6, <3>5, <4>2
      <4> QED BY <2>1, <2>6, <4>1, <4>2
    <3> QED BY <3>1, <3>3, <3>6 DEF M
  <2>7. CASE n = N + 1
    <3>1. M[n] = x /\ ~(n < Len(M))  BY <2>1, <2>7
    <3>2. x.part > 1 => n > 1 /\ M[n - 1] = Shift(x, -1)
      <4>1. SUFFICES ASSUME q > 1 PROVE n > 1 /\ M[n - 1] = Shift(x, -1)  BY <1>2
      <4>2. L[N] = Shift(x, -1) /\ N >= 1  BY <1>13, <2>3, <2>4, <4>1
      <4>3. n - 1 = N /\ N \in 1 .. N  BY <2>1, <2>7, <4>2
      <4>4. M[n - 1] = L[N]  BY <2>1, <4>3
      <4> QED BY <2>1, <2>7, <4>2, <4>4
    <3>3. x.part \in 1 .. Total(x) - 1 => wr'[w].todo # << >> /\ Head(wr'[w].todo) = Shift(x, 1)
      <4>1. SUFFICES ASSUME q \in 1 .. Total(x) - 1
                     PROVE  wr'[w].todo # << >> /\ Head(wr'[w].todo) = Shift(x, 1)
            BY <1>2
      <4>2. q > 0 /\ q # 0 /\ q < S  BY <1>1, <1>9, <4>1
      <4> QED BY <1>3, <1>13, <4>2 DEF i, rec, S
    <3> QED BY <3>1, <3>2, <3>3 DEF M
  <2> QED BY <2>5, <2>6, <2>7
<1>17. ASSUME NEW p \in Paths, NEW n \in DOMAIN disk'[p].lines
       PROVE  Goal(p, disk'[p].lines, n)
  <2> HIDE DEF Goal
  <2> QED BY <1>15, <1>16
<1>18. ASSUME NEW p \in Paths, NEW n \in DOMAIN disk'[p].lines, NEW y, y = disk'[p].lines[n]
       PROVE  Total(y)' = Total(y)
  <2>1. y = x \/ \E a \in DOMAIN disk[p].lines : y = disk[p].lines[a]
    <3>1. CASE p # P  BY <1>2, <1>18, <3>1
    <3>2. CASE p = P
      <4>1. n \in 1 .. Len(disk[P].lines) \/ n = Len(disk[P].lines) + 1
        <5> DEFINE N == Len(disk[P].lines)
        <5>1. N \in Nat  BY <1>1, <1>7
        <5>2. n \in 1 .. N + 1  BY <1>2, <3>2
        <5> HIDE DEF N
        <5>3. n \in 1 .. N \/ n = N + 1  BY <5>1, <5>2
        <5> QED BY <5>3 DEF N
      <4> QED BY <1>1, <1>2, <1>7, <1>18, <3>2, <4>1
    <3> QED BY <3>1, <3>2
  <2>2. y.sink = 0 \/ y.sink \in DOMAIN sinks  BY <1>1, <1>2, <1>11, <2>1
  <2> QED BY <1>8, <2>2
<1> QED BY <1>2, <1>17, <1>18 DEF Together

LEMMA LinePages ==
    ASSUME NEW w \in Threads, NEW q \in Nat, Line1(w, q)
    PROVE  Pages'
BY LineWriters, LineOrigins, LineHeaders, LineOnce, LineSafely, LineTogether DEF Pages

\* A flush leaves the lines as they are, and is the last thing a tabular sink
\* does for a report.
LEMMA FlushPages ==
    ASSUME Types, Pages, Alone, NEW w \in Threads, ~Quiet(w), job' = job, NEW q \in Nat,
           Written(w, q), Flushes(w, q), GoesOn(w)
    PROVE  /\ Pages'
           /\ disk' \in [Paths -> [lines : Seq(Lines), flushed : Nat, open : BOOLEAN]]
<1> DEFINE i == wr[w].at
           rec == wr[w].rec
           S == Length(w)
           P == sinks[i].path
<1>0. Writers /\ Origins /\ Headers /\ Once /\ Safely /\ Together  BY DEF Pages
<1>1. /\ i \in DOMAIN sinks /\ i \in Nat \ {0} /\ S \in Nat /\ rec \in Recs /\ P \in Paths
      /\ rec.what \in Handles(sinks[i].name)
      /\ Tabular(sinks[i].name) => S = rec.size
      BY <1>0, InASink
<1>2. /\ q = S + 1 /\ Tabular(sinks[i].name)
      /\ disk' = [disk EXCEPT ![P].flushed = Len(disk[P].lines)]
      /\ sinks' = sinks /\ wr'[w].todo = << >>
      BY DEF Flushes
<1>3. /\ Paths' = Paths
      /\ disk' \in [Paths -> [lines : Seq(Lines), flushed : Nat, open : BOOLEAN]]
      /\ \A p \in Paths : disk'[p].lines = disk[p].lines
      /\ \A p \in Paths : p # P => disk'[p].flushed = disk[p].flushed
      /\ disk'[P].flushed = Len(disk[P].lines)
  <2> DEFINE X == Seq(Lines)
             D == [lines : X, flushed : Nat, open : BOOLEAN]
             n == Len(disk[P].lines)
             d == [disk[P] EXCEPT !.flushed = n]
  <2>1. disk \in [Paths -> D] /\ n \in Nat /\ P \in Paths  BY <1>1, Disk DEF Types
  <2>2. disk' = [disk EXCEPT ![P] = d]  BY <1>2
  <2>3. disk[P] \in D  BY <2>1
  <2> HIDE DEF X, n, P
  <2>4. d \in D /\ d.flushed = n /\ d.lines = disk[P].lines  BY <2>1, <2>3
  <2> HIDE DEF D, d
  <2>5. disk' \in [Paths -> D] /\ disk'[P] = d /\ \A p \in Paths : p # P => disk'[p] = disk[p]
        BY <2>1, <2>2, <2>4
  <2>6. Paths' = Paths  BY DEF Paths
  <2>7. \A p \in Paths : disk'[p].lines = disk[p].lines  BY <2>4, <2>5
  <2>8. disk'[P].flushed = n  BY <2>4, <2>5
  <2> QED BY <2>5, <2>6, <2>7, <2>8 DEF X, D, n
<1>4. /\ wr'[w].rec = rec /\ wr'[w].at = After(i, rec.what)
      /\ \A v \in Threads : v # w => wr'[v] = wr[v] /\ wr[v].at = 0 /\ wr[v].todo = << >>
      BY <1>0, <1>2, Idling DEF GoesOn
<1>5. \A v \in Threads : wr'[v].todo = << >>  BY <1>2, <1>4
<1>6. Writers'
  <2>1. wr'[w].at # 0 => wr'[w].at \in DOMAIN sinks /\ rec.what \in Handles(sinks[wr'[w].at].name)
        BY <1>1, <1>4, Following
  <2> QED BY <1>2, <1>4, <1>5, <2>1 DEF Writers, Quiet
<1>7. \A s \in DOMAIN sinks : File(s)' = File(s)
      BY <1>2, <1>3, Sinks DEF File
<1>8. Headers'  BY <1>0, <1>2, <1>7 DEF Headers
<1>9. Once'  BY <1>0, <1>2, <1>7 DEF Once
<1>10. Origins'
  <2>1. \A s \in DOMAIN sinks : \A y : y \in Given(s) \cup InHand(s) => y \in Given(s)' \cup InHand(s)'
        BY <1>0, Onward
  <2>2. ASSUME NEW p \in Paths, NEW a \in DOMAIN disk'[p].lines, NEW y, y = disk'[p].lines[a]
        PROVE  /\ y.sink = 0 \/ (y.sink \in DOMAIN sinks' /\ sinks'[y.sink].path = p)
               /\ y.part >= 0 /\ (y.part = 0 => y.rec.what = "none")
               /\ y.sink > 0 /\ y.part > 0 =>
                     /\ y.part <= Size(sinks'[y.sink].name, y.rec)
                     /\ y.rec \in Given(y.sink)' \cup InHand(y.sink)'
    <3>1. a \in DOMAIN disk[p].lines /\ y = disk[p].lines[a]  BY <1>3, <2>2
    <3>2. /\ y.sink = 0 \/ (y.sink \in DOMAIN sinks /\ sinks[y.sink].path = p)
          /\ y.part >= 0 /\ (y.part = 0 => y.rec.what = "none")
          /\ y.sink > 0 /\ y.part > 0 =>
                /\ y.part <= Size(sinks[y.sink].name, y.rec)
                /\ y.rec \in Given(y.sink) \cup InHand(y.sink)
          BY <1>0, <3>1 DEF Origins
    <3> QED BY <1>2, <2>1, <3>2
  <2> QED BY <1>3, <2>2 DEF Origins
<1>11. Safely'
  <2>1. \A p \in Paths : disk'[p].flushed <= Len(disk'[p].lines)
    <3>1. \A p \in Paths : disk[p].flushed <= Len(disk[p].lines) /\ Len(disk[p].lines) \in Nat
          BY <1>0, Disk DEF Safely
    <3> QED BY <1>3, <3>1
  <2>2. ASSUME NEW s \in DOMAIN sinks, Tabular(sinks[s].name), NEW y \in Given(s)',
               y.what \in Handles(sinks[s].name)
        PROVE  Kept(s, y)'
    <3>1. sinks[s].path \in Paths  BY Sinks
    <3>2. y \in Given(s) \/ (s = i /\ y = rec)  BY <1>0, <2>2, Onward
    <3>3. CASE y \in Given(s)
      <4>1. Kept(s, y)  BY <1>0, <2>2, <3>3 DEF Safely
      <4>2. Flushed(s) \in Nat /\ Flushed(s)' \in Nat /\ Flushed(s) <= Flushed(s)'
        <5>1. /\ disk[sinks[s].path].flushed \in Nat /\ Len(disk[sinks[s].path].lines) \in Nat
              /\ disk[sinks[s].path].flushed <= Len(disk[sinks[s].path].lines)
              BY <1>0, <3>1, Disk DEF Safely
        <5>2. Flushed(s)' = disk'[sinks[s].path].flushed /\ Flushed(s) = disk[sinks[s].path].flushed
              BY <1>2 DEF Flushed
        <5> QED BY <1>3, <3>1, <5>1, <5>2
      <4> QED BY <1>7, <4>1, <4>2, KeptOn
    <3>4. CASE s = i /\ y = rec
      <4>1. \A p \in 1 .. q - 1 : Holds(s, y, p, Len(File(s)))  BY <1>2, <3>4 DEF Written
      <4>2. q - 1 = y.size  BY <1>1, <1>2, <3>4
      <4>3. Flushed(s)' = Len(File(s))  BY <1>2, <1>3, <3>4 DEF Flushed, File
      <4>4. \A p \in 1 .. y.size : \E a \in 1 .. Len(File(s)) : File(s)[a] = [sink |-> s, rec |-> y, part |-> p]
            BY <4>1, <4>2 DEF Holds
      <4>5. \A p \in 1 .. y.size : \E a \in 1 .. Flushed(s)' : File(s)'[a] = [sink |-> s, rec |-> y, part |-> p]
            BY <1>7, <4>3, <4>4
      <4> QED BY <4>5 DEF Kept, Holds
    <3> QED BY <3>2, <3>3, <3>4
  <2> QED BY <1>2, <1>3, <2>1, <2>2 DEF Safely
<1>12. Together'
  <2>1. Head(wr[w].todo) = FlushLine(i)
    <3>1. wr[w].todo = Rest(i, rec, q)  BY DEF Written
    <3>2. wr[w].todo = <<FlushLine(i)>>  BY <1>1, <1>2, <3>1, Remainder DEF Length
    <3> QED BY <3>2
  <2>2. Head(wr[w].todo).part = -1  BY <2>1 DEF FlushLine, FlushPart
  <2>3. ASSUME NEW p \in Paths, NEW a \in DOMAIN disk[p].lines, disk[p].lines[a].part > 0
        PROVE  ~\E v \in Threads : wr[v].todo # << >> /\ Head(wr[v].todo) = Shift(disk[p].lines[a], 1)
    <3>1. disk[p].lines[a].part \in Int  BY Disk
    <3>2. Shift(disk[p].lines[a], 1).part = disk[p].lines[a].part + 1  BY DEF Shift
    <3>3. \A v \in Threads : wr[v].todo # << >> => v = w  BY <1>4
    <3>4. Shift(disk[p].lines[a], 1).part # -1  BY <2>3, <3>1, <3>2
    <3> QED BY <2>2, <3>3, <3>4
  <2>4. \A y : Total(y)' = Total(y)  BY <1>2 DEF Total
  <2>5. ASSUME NEW p \in Paths, NEW n \in DOMAIN disk'[p].lines, NEW L, L = disk'[p].lines
        PROVE  /\ L[n].part > 1 => n > 1 /\ L[n - 1] = Shift(L[n], -1)
               /\ L[n].part \in 1 .. Total(L[n])' - 1 => n < Len(L) /\ L[n + 1] = Shift(L[n], 1)
    <3>1. L = disk[p].lines /\ n \in DOMAIN L  BY <1>3, <2>5
    <3>2. /\ L[n].part > 1 => n > 1 /\ L[n - 1] = Shift(L[n], -1)
          /\ L[n].part \in 1 .. Total(L[n]) - 1 =>
                IF n < Len(L) THEN L[n + 1] = Shift(L[n], 1)
                ELSE \E v \in Threads : wr[v].todo # << >> /\ Head(wr[v].todo) = Shift(L[n], 1)
          BY <1>0, <3>1 DEF Together
    <3>3. L[n].part \in 1 .. Total(L[n]) - 1 => L[n].part > 0  OBVIOUS
    <3> QED BY <2>3, <2>4, <3>1, <3>2, <3>3
  <2> QED BY <1>3, <2>5 DEF Together
<1> QED BY <1>3, <1>6, <1>8, <1>9, <1>10, <1>11, <1>12 DEF Pages

OutTypes ==
    /\ sinks \in Seq([name : Names, path : Paths, hdr : BOOLEAN])
    /\ disk \in [Paths -> [lines : Seq(Lines), flushed : Nat, open : BOOLEAN]]
    /\ wr \in [Threads -> [rec : Recs, at : Nat, todo : Seq(Lines)]]
    /\ told \in Seq(Recs)

LEMMA Assembled ==
    ASSUME NEW w \in Threads, Types, NEW x \in Recs, NEW a \in Nat, NEW u \in Seq(Lines),
           DOMAIN wr' = Threads, wr' = [v \in Threads |-> wr'[v]],
           wr'[w] = [rec |-> x, at |-> a, todo |-> u],
           \A v \in Threads : v # w => wr'[v] = wr[v]
    PROVE  wr' \in [Threads -> [rec : Recs, at : Nat, todo : Seq(Lines)]]
<1> DEFINE X == Recs
           Y == Seq(Lines)
           Z == [rec : X, at : Nat, todo : Y]
<1>1. wr \in [Threads -> Z] /\ x \in X /\ u \in Y  BY DEF Types
<1> HIDE DEF X, Y
<1>2. wr'[w] \in Z  BY <1>1
<1> HIDE DEF Z
<1>3. wr' \in [Threads -> Z]  BY <1>1, <1>2
<1> QED BY <1>3 DEF X, Y, Z

LEMMA PutPages ==
    ASSUME Types, Pages, Alone, NEW w \in Threads, Put(w)
    PROVE  Pages' /\ OutTypes' /\ SameSinks
<1>1. Writers /\ job' = job  BY DEF Pages, Put
<1>2. ~Quiet(w) /\ GoesOn(w) /\ wr[w].todo # << >> /\ wr'[w].todo = Tail(wr[w].todo)
      BY <1>1, PutStep
<1>3. PICK q \in 0 .. Length(w) + 1 : Written(w, q) /\ (WritesLine(w, q) \/ Flushes(w, q))
      BY <1>1, PutStep
<1>4. q \in Nat  BY <1>3
<1>5. wr[w].at \in Nat /\ wr[w].rec \in Recs /\ wr[w].todo \in Seq(Lines)  BY Writing
<1>6. told' \in Seq(Recs)
  <2>1. told' = Append(told, wr[w].rec) \/ told' = told  BY <1>2 DEF GoesOn
  <2> QED BY <1>5, <2>1, ToldMore DEF Types
<1>7. wr' \in [Threads -> [rec : Recs, at : Nat, todo : Seq(Lines)]]
  <2>1. /\ wr'[w] = [rec |-> wr[w].rec, at |-> wr'[w].at, todo |-> wr'[w].todo]
        /\ wr'[w].at \in {wr[w].at, After(wr[w].at, wr[w].rec.what)}
        /\ DOMAIN wr' = Threads /\ \A v \in Threads : v # w => wr'[v] = wr[v]
        BY <1>2 DEF GoesOn
  <2>2. wr'[w].at \in Nat  BY <1>5, <2>1, Following
  <2>3. wr'[w].todo \in Seq(Lines)
    <3> DEFINE X == Lines
               T == wr[w].todo
    <3>1. T \in Seq(X) /\ T # << >>  BY <1>2, <1>5
    <3> HIDE DEF X, T
    <3>2. Tail(T) \in Seq(X)  BY <3>1
    <3> QED BY <1>2, <3>2 DEF X, T
  <2>4. wr' = [v \in Threads |-> wr'[v]]
    <3>1. wr' = [wr EXCEPT ![w].todo = Tail(wr[w].todo),
                           ![w].at = IF Tail(wr[w].todo) = << >> THEN After(wr[w].at, wr[w].rec.what) ELSE wr[w].at]
          BY DEF Put
    <3>2. DOMAIN wr = Threads  BY DEF Types
    <3> DEFINE A == Tail(wr[w].todo)
               B == IF Tail(wr[w].todo) = << >> THEN After(wr[w].at, wr[w].rec.what) ELSE wr[w].at
    <3>3. wr' = [wr EXCEPT ![w].todo = A, ![w].at = B]  BY <3>1
    <3> HIDE DEF A, B
    <3> QED BY <3>2, <3>3
  <2> QED BY <1>5, <2>1, <2>2, <2>3, <2>4, Assembled
<1>8. CASE WritesLine(w, q)
  <2>1. Longer(w, q)  BY <1>1, <1>2, <1>4, <1>8, LineWritten
  <2>2. Line1(w, q)  BY <1>1, <1>2, <1>3, <1>8, <2>1 DEF Line1
  <2>3. Pages'  BY <1>4, <2>2, LinePages
  <2>4. /\ disk' \in [Paths -> [lines : Seq(Lines), flushed : Nat, open : BOOLEAN]]
        /\ sinks' \in Seq([name : Names, path : Paths, hdr : BOOLEAN])
        /\ Paths' = Paths /\ SameSinks
        BY <2>1 DEF Longer
  <2> QED BY <1>6, <1>7, <2>3, <2>4 DEF OutTypes
<1>9. CASE Flushes(w, q)
  <2>1. Pages' /\ disk' \in [Paths -> [lines : Seq(Lines), flushed : Nat, open : BOOLEAN]]
        BY <1>1, <1>2, <1>3, <1>4, <1>9, FlushPages
  <2>2. sinks' = sinks  BY <1>9 DEF Flushes
  <2>3. Paths' = Paths  BY <1>1 DEF Paths
  <2>4. sinks' \in Seq([name : Names, path : Paths', hdr : BOOLEAN])  BY <2>2, <2>3 DEF Types, Names
  <2> QED BY <1>6, <1>7, <2>1, <2>2, <2>3, <2>4 DEF OutTypes, SameSinks
<1> QED BY <1>3, <1>8, <1>9

-----------------------------------------------------------------------------
(* The other steps, as the files see them                                    *)

\* A report that goes into a table is a new one.
Fresh ==
    \A w \in Threads : ~Quiet(w) /\ wr[w].rec.what \in {"point"} \cup Samples =>
        \A n \in DOMAIN told : told[n] # wr[w].rec

LEMMA InTables ==
    ASSUME NEW name, name \in Names, Tabular(name), NEW what \in Handles(name)
    PROVE  what \in {"point"} \cup Samples
BY Taking DEF Names, Samples

\* No report is half-way in a file while nobody is writing.
LEMMA NoneHalf ==
    ASSUME Types, Together, \A v \in Threads : wr[v].todo = << >>,
           NEW p \in Paths, NEW n \in DOMAIN disk[p].lines
    PROVE  LET L == disk[p].lines IN
           /\ L[n].part > 1 => n > 1 /\ L[n - 1] = Shift(L[n], -1)
           /\ L[n].part \in 1 .. Total(L[n]) - 1 => n < Len(L) /\ L[n + 1] = Shift(L[n], 1)
BY DEF Together

LEMMA Whole1 ==
    ASSUME NEW i \in Nat, NEW rec \in Recs, NEW name, Size(name, rec) \in Nat, NEW q \in {0, 1}
    PROVE  RestOf(name, i, rec, q) \in Seq(Lines)
<1> DEFINE S == Size(name, rec)
           t == IF Tabular(name) THEN 1 ELSE 0
           n == (S - q + 1) + t
           X == Lines
           F == [m \in 1 .. n |-> IF m <= S - q + 1 THEN Piece(i, rec, q + m - 1) ELSE FlushLine(i)]
<1>1. RestOf(name, i, rec, q) = F  BY DEF RestOf
<1>2. S \in Nat /\ t \in {0, 1}  OBVIOUS
<1>3. FlushLine(i) \in X
  <2>1. NoRec \in Recs  BY DEF NoRec, Rec, Recs, Kinds, Sweep!NoCell
  <2> QED BY <2>1 DEF FlushLine, FlushPart, Lines
<1>4. \A m \in Nat : Piece(i, rec, m) \in X  BY Pieces
<1> HIDE DEF S, t, X
<1>5. n \in Nat  BY <1>2
<1>6. \A m \in 1 .. n : q + m - 1 \in Nat  BY <1>2
<1>7. \A m \in 1 .. n : F[m] \in X  BY <1>3, <1>4, <1>6
<1>8. F = [m \in 1 .. n |-> F[m]]  OBVIOUS
<1> HIDE DEF F, n
<1>9. F \in Seq(X)  BY <1>5, <1>7, <1>8
<1> QED BY <1>1, <1>9 DEF X

\* A sink's function is called with a report.
LEMMA TurnPages ==
    ASSUME Types, Pages, Alone, Fresh, NEW w \in Threads, Turn(w)
    PROVE  Pages' /\ OutTypes'
<1> DEFINE i == wr[w].at
           rec == wr[w].rec
           S == Length(w)
           tab == Tabular(sinks[i].name)
           q == IF tab /\ ~sinks[i].hdr THEN 0 ELSE 1
<1>0. Writers /\ Origins /\ Headers /\ Once /\ Safely /\ Together  BY DEF Pages
<1>1. ~Quiet(w) /\ wr[w].todo = << >>  BY DEF Turn
<1>2. UNCHANGED <<job, sinks, disk, told>>  BY DEF Turn
<1>3. /\ i \in DOMAIN sinks /\ i \in Nat \ {0} /\ rec \in Recs /\ S \in Nat
      /\ rec.what \in Handles(sinks[i].name) /\ sinks[i].name \in Names
      /\ ~tab => S > 0
      BY <1>0, <1>1, InASink
<1>4. Output(i, rec) = Rest(i, rec, q)  BY <1>3, Beginning DEF Length
<1>5. wr' = [wr EXCEPT ![w].todo = Rest(i, rec, q)]  BY <1>4 DEF Turn
<1>6. q \in {0, 1} /\ (tab => (q = 0 <=> ~sinks[i].hdr)) /\ (~tab => q = 1)  OBVIOUS
<1>7. /\ wr'[w] = [rec |-> rec, at |-> i, todo |-> Rest(i, rec, q)]
      /\ \A v \in Threads : v # w => wr'[v] = wr[v]
      /\ DOMAIN wr' = Threads /\ wr' = [v \in Threads |-> wr'[v]]
  <2> DEFINE A == Rest(i, rec, q)
  <2>1. wr[w] = [rec |-> rec, at |-> i, todo |-> wr[w].todo]  BY Writing
  <2>2. DOMAIN wr = Threads /\ wr = [v \in Threads |-> wr[v]]  BY DEF Types
  <2> HIDE DEF A, i, rec, q
  <2>3. wr' = [wr EXCEPT ![w].todo = A]  BY <1>5 DEF A, i, rec
  <2>4. wr' = [v \in Threads |-> IF v = w THEN [wr[w] EXCEPT !.todo = A] ELSE wr[v]]
        BY <2>2, <2>3
  <2>5. [wr[w] EXCEPT !.todo = A] = [rec |-> rec, at |-> i, todo |-> A]  BY <2>1
  <2> QED BY <2>4, <2>5 DEF A
<1>8. wr'[w].rec = rec /\ wr'[w].at = i /\ wr'[w].todo = Rest(i, rec, q)  BY <1>7
<1>9. Rest(i, rec, q) \in Seq(Lines)  BY <1>3, <1>6, Whole1 DEF Rest, Length
<1>10. \A v \in Threads : v # w => wr[v].at = 0 /\ wr[v].todo = << >>  BY <1>0, <1>1, Idling
<1>11. Paths' = Paths  BY <1>2 DEF Paths
<1>12. OutTypes'
  <2>1. wr' \in [Threads -> [rec : Recs, at : Nat, todo : Seq(Lines)]]
    <3> HIDE DEF i, rec, q
    <3> QED BY <1>3, <1>7, <1>9, Assembled
  <2>2. sinks' \in Seq([name : Names, path : Paths', hdr : BOOLEAN])  BY <1>2, <1>11 DEF Types, Names
  <2> QED BY <1>2, <1>11, <2>1, <2>2 DEF OutTypes, Types
<1>13. \A s, y : (y \in Given(s))' <=> y \in Given(s)
  <2>1. \A v \in Threads : wr'[v].at = wr[v].at /\ wr'[v].rec = wr[v].rec  BY <1>7, <1>8
  <2>2. \A s, y : (y \in Given(s))' <=> \/ \E n \in DOMAIN told' : told'[n] = y
                                       \/ \E v \in Threads : s < wr'[v].at /\ wr'[v].rec = y
        BY DEF Given
  <2> QED BY <1>2, <2>1, <2>2, InGiven
<1>14. \A s, y : y \notin InHand(s)
  <2>1. \A v \in Threads : wr[v].todo = << >>  BY <1>1, <1>10
  <2> QED BY <2>1, InGiven
<1>15. tab => \A a \in DOMAIN File(i) : File(i)[a].sink = i /\ File(i)[a].rec = rec => File(i)[a].part < q
  <2> SUFFICES ASSUME tab, NEW a \in DOMAIN File(i), File(i)[a].sink = i, File(i)[a].rec = rec, File(i)[a].part >= q
               PROVE  FALSE
    <3>1. \A a \in DOMAIN File(i) : File(i)[a].part \in Int  BY <1>3, FileOf
    <3> QED BY <1>6, <3>1
  <2>1. CASE q = 0
    <3>1. ~sinks[i].hdr /\ HeaderFirst(i, sinks[i].hdr, File(i))  BY <1>0, <1>3, <1>6, <2>1 DEF Headers
    <3> QED BY <3>1 DEF HeaderFirst
  <2>2. CASE q = 1
    <3>1. sinks[i].path \in Paths  BY <1>3, Sinks
    <3>2. rec \in Given(i) \cup InHand(i)
      <4>1. \A p \in Paths : \A b \in DOMAIN disk[p].lines :
               disk[p].lines[b].sink > 0 /\ disk[p].lines[b].part > 0 =>
                  disk[p].lines[b].rec \in Given(disk[p].lines[b].sink) \cup InHand(disk[p].lines[b].sink)
            BY <1>0 DEF Origins
      <4>2. File(i)[a].part > 0 /\ File(i)[a].sink > 0
        <5>1. File(i)[a].part \in Int /\ File(i)[a].part >= 1  BY <1>3, <2>2, FileOf
        <5> QED BY <1>3, <5>1
      <4> QED BY <3>1, <4>1, <4>2 DEF File
    <3>3. rec \in Given(i)  BY <1>14, <3>2
    <3>4. (\E n \in DOMAIN told : told[n] = rec) \/ \E v \in Threads : i < wr[v].at /\ wr[v].rec = rec
          BY <3>3, InGiven
    <3>5. \A v \in Threads : ~(i < wr[v].at)  BY <1>3, <1>10
    <3>6. rec.what \in {"point"} \cup Samples  BY <1>3, InTables
    <3> QED BY <1>1, <3>4, <3>5, <3>6 DEF Fresh
  <2> QED BY <1>6, <2>1, <2>2
<1>16. Writers'
  <2>0. PICK z \in {0, 1} : z = q  BY <1>6
  <2>1. Written(w, z)'
    <3> DEFINE A == wr'[w].at
               R == wr'[w].rec
    <3>1. A = i /\ R = rec /\ sinks' = sinks /\ disk' = disk  BY <1>2, <1>8
    <3>2. ~tab => z \in 1 .. Size(sinks[i].name, rec)  BY <1>3, <1>6, <2>0 DEF Length
    <3>3. 1 .. z - 1 = {} /\ ~(z > 1)  BY <2>0
    <3>4. wr'[w].todo = RestOf(sinks[i].name, i, rec, z)  BY <1>8, <2>0 DEF Rest
    <3>5. tab => \A a \in DOMAIN disk[sinks[i].path].lines :
             disk[sinks[i].path].lines[a].sink = i /\ disk[sinks[i].path].lines[a].rec = rec
                => disk[sinks[i].path].lines[a].part < z
          BY <1>15, <2>0 DEF File
    <3>6. tab => (z = 0 <=> ~sinks[i].hdr)  BY <1>6, <2>0
    <3> HIDE DEF i, rec, q, A, R
    <3>7. wr'[w].todo = RestOf(sinks'[A].name, A, R, z)  BY <3>1, <3>4
    <3>8. /\ ~Tabular(sinks'[A].name) => z \in 1 .. Size(sinks'[A].name, R)
          /\ Tabular(sinks'[A].name) => (z = 0 <=> ~sinks'[A].hdr)
          BY <3>1, <3>2, <3>6
    <3>9. Tabular(sinks'[A].name) =>
             \A a \in DOMAIN disk'[sinks'[A].path].lines :
                disk'[sinks'[A].path].lines[a].sink = A /\ disk'[sinks'[A].path].lines[a].rec = R
                   => disk'[sinks'[A].path].lines[a].part < z
          BY <3>1, <3>5
    <3> QED BY <3>3, <3>7, <3>8, <3>9 DEF Written, Rest, File, A, R
  <2>2. z \in 0 .. Size(sinks'[wr'[w].at].name, wr'[w].rec) + 1
    <3>1. Size(sinks'[wr'[w].at].name, wr'[w].rec) = S  BY <1>2, <1>8 DEF Length
    <3> QED BY <1>3, <2>0, <3>1
  <2>3. wr'[w].at # 0 /\ wr'[w].at \in DOMAIN sinks' /\ wr'[w].rec.what \in Handles(sinks'[wr'[w].at].name)
        BY <1>2, <1>3, <1>8
  <2>4. \A v \in Threads : v # w => wr'[v].at = 0 /\ wr'[v].todo = << >>  BY <1>7, <1>10
  <2> QED BY <2>1, <2>2, <2>3, <2>4 DEF Writers, Quiet
<1>17. \A s \in DOMAIN sinks : File(s)' = File(s)  BY <1>2 DEF File
<1>18. Headers'  BY <1>0, <1>2, <1>17 DEF Headers
<1>19. Once'  BY <1>0, <1>2, <1>17 DEF Once
<1>20. Origins'
  <2>1. ASSUME NEW p \in Paths, NEW a \in DOMAIN disk'[p].lines, NEW y, y = disk'[p].lines[a]
        PROVE  /\ y.sink = 0 \/ (y.sink \in DOMAIN sinks' /\ sinks'[y.sink].path = p)
               /\ y.part >= 0 /\ (y.part = 0 => y.rec.what = "none")
               /\ y.sink > 0 /\ y.part > 0 =>
                     /\ y.part <= Size(sinks'[y.sink].name, y.rec)
                     /\ y.rec \in Given(y.sink)' \cup InHand(y.sink)'
    <3>1. /\ y.sink = 0 \/ (y.sink \in DOMAIN sinks /\ sinks[y.sink].path = p)
          /\ y.part >= 0 /\ (y.part = 0 => y.rec.what = "none")
          /\ y.sink > 0 /\ y.part > 0 =>
                /\ y.part <= Size(sinks[y.sink].name, y.rec)
                /\ y.rec \in Given(y.sink) \cup InHand(y.sink)
          BY <1>0, <1>2, <2>1 DEF Origins
    <3>2. y.rec \in Given(y.sink) \cup InHand(y.sink) => y.rec \in Given(y.sink)'
          BY <1>13, <1>14
    <3> QED BY <1>2, <3>1, <3>2
  <2> QED BY <1>11, <2>1 DEF Origins
<1>21. Safely'
  <2>1. \A p \in Paths' : disk'[p].flushed <= Len(disk'[p].lines)  BY <1>0, <1>2, <1>11 DEF Safely
  <2>2. ASSUME NEW s \in DOMAIN sinks, Tabular(sinks[s].name), NEW y \in Given(s)',
               y.what \in Handles(sinks[s].name)
        PROVE  Kept(s, y)'
    <3>1. Kept(s, y)  BY <1>0, <1>13, <2>2 DEF Safely
    <3>2. Flushed(s)' = Flushed(s) /\ File(s)' = File(s)  BY <1>2 DEF Flushed, File
    <3> QED BY <3>1, <3>2 DEF Kept, Holds
  <2> QED BY <1>2, <2>1, <2>2 DEF Safely
<1>22. Together'
  <2>1. \A y : Total(y)' = Total(y)  BY <1>2 DEF Total
  <2>2. \A v \in Threads : wr[v].todo = << >>  BY <1>1, <1>10
  <2>3. \A p \in Paths : \A n \in DOMAIN disk[p].lines :
           LET L == disk[p].lines IN
           /\ L[n].part > 1 => n > 1 /\ L[n - 1] = Shift(L[n], -1)
           /\ L[n].part \in 1 .. Total(L[n]) - 1 => n < Len(L) /\ L[n + 1] = Shift(L[n], 1)
        BY <1>0, <2>2, NoneHalf
  <2> QED BY <1>2, <1>11, <2>1, <2>3 DEF Together
<1> QED BY <1>12, <1>16, <1>18, <1>19, <1>20, <1>21, <1>22 DEF Pages

\* What the files may go through while nobody is writing: the table, or a flush;
\* and a report may begin.
Tabled(p) ==
    LET L == disk[p].lines  M == disk'[p].lines IN
    /\ DOMAIN M = 1 .. Len(L) + 1 /\ Len(M) = Len(L) + 1
    /\ \A a \in 1 .. Len(L) : M[a] = L[a]
    /\ M[Len(L) + 1].sink = 0 /\ M[Len(L) + 1].part = 1

Rested ==
    /\ Paths' = Paths /\ sinks' = sinks /\ told' = told
    /\ \A p \in Paths : /\ disk'[p].lines = disk[p].lines \/ Tabled(p)
                        /\ disk'[p].flushed \in Nat
                        /\ disk[p].flushed <= disk'[p].flushed
                        /\ disk'[p].flushed <= Len(disk'[p].lines)
    /\ \A v \in Threads : wr'[v].todo = << >> /\ wr'[v].at \in {0, After(0, wr'[v].rec.what)}

LEMMA QuietPages ==
    ASSUME Types, Pages, \A v \in Threads : Quiet(v), Rested
    PROVE  Pages'
<1>0. Writers /\ Origins /\ Headers /\ Once /\ Safely /\ Together  BY DEF Pages
<1>1. Paths' = Paths /\ sinks' = sinks /\ told' = told  BY DEF Rested
<1>2. \A v \in Threads : wr[v].at = 0 /\ wr[v].todo = << >>  BY <1>0 DEF Writers, Quiet
<1>3. \A v \in Threads : wr'[v].todo = << >> /\ wr'[v].at \in {0, After(0, wr'[v].rec.what)}  BY DEF Rested
<1>4. Writers'
  <2>1. \A v \in Threads : wr'[v].at # 0 =>
           wr'[v].at \in DOMAIN sinks /\ wr'[v].rec.what \in Handles(sinks[wr'[v].at].name)
        BY <1>3, Following
  <2> QED BY <1>1, <1>3, <2>1 DEF Writers, Quiet
<1>5. \A s \in DOMAIN sinks : \A y : /\ y \notin InHand(s)
                                     /\ y \in Given(s) => \E n \in DOMAIN told : told[n] = y
  <2>1. \A s \in DOMAIN sinks : \A v \in Threads : ~(s < wr[v].at)  BY <1>2, Sinks
  <2> QED BY <1>2, <2>1, InGiven
<1>6. \A s \in DOMAIN sinks : \A y : (\E n \in DOMAIN told : told[n] = y) => y \in Given(s)'
  <2>1. \A s, y : (\E n \in DOMAIN told' : told'[n] = y) => (y \in Given(s))'  BY DEF Given
  <2> QED BY <1>1, <2>1
<1>7. \A s \in DOMAIN sinks : \A y : y \in Given(s)' /\ y.what \in Handles(sinks[s].name) => y \in Given(s)
  <2> SUFFICES ASSUME NEW s \in DOMAIN sinks, NEW y, y \in Given(s)', y.what \in Handles(sinks[s].name)
               PROVE  y \in Given(s)
      OBVIOUS
  <2>1. (\E n \in DOMAIN told' : told'[n] = y) \/ \E v \in Threads : s < wr'[v].at /\ wr'[v].rec = y
        BY DEF Given
  <2>2. ASSUME NEW v \in Threads, s < wr'[v].at, wr'[v].rec = y PROVE FALSE
    <3>1. s \in Nat \ {0} /\ s > 0  BY Sinks
    <3>2. After(0, y.what) \in Nat /\ After(0, y.what) <= s  BY <2>2, <3>1, Following
    <3>3. wr'[v].at \in {0, After(0, y.what)}  BY <1>3, <2>2
    <3> QED BY <2>2, <3>1, <3>2, <3>3
  <2> QED BY <1>1, <2>1, <2>2, InGiven
<1>8. ASSUME NEW p \in Paths
      PROVE  /\ Len(disk[p].lines) \in Nat /\ DOMAIN disk[p].lines = 1 .. Len(disk[p].lines)
             /\ disk'[p].lines = disk[p].lines \/ Tabled(p)
             /\ disk'[p].flushed \in Nat /\ disk[p].flushed \in Nat
             /\ disk[p].flushed <= disk'[p].flushed
             /\ disk'[p].flushed <= Len(disk'[p].lines)
             /\ disk[p].flushed <= Len(disk[p].lines)
      BY <1>0, Disk DEF Rested, Safely
<1>9. Origins'
  <2>1. ASSUME NEW p \in Paths, NEW a \in DOMAIN disk'[p].lines, NEW y, y = disk'[p].lines[a]
        PROVE  /\ y.sink = 0 \/ (y.sink \in DOMAIN sinks' /\ sinks'[y.sink].path = p)
               /\ y.part >= 0 /\ (y.part = 0 => y.rec.what = "none")
               /\ y.sink > 0 /\ y.part > 0 =>
                     /\ y.part <= Size(sinks'[y.sink].name, y.rec)
                     /\ y.rec \in Given(y.sink)' \cup InHand(y.sink)'
    <3>1. (y.sink = 0 /\ y.part = 1) \/ (a \in DOMAIN disk[p].lines /\ y = disk[p].lines[a])
      <4> DEFINE L == disk[p].lines
                 M == disk'[p].lines
                 N == Len(L)
      <4>1. N \in Nat /\ DOMAIN L = 1 .. N  BY <1>8
      <4>2. \/ M = L
            \/ /\ DOMAIN M = 1 .. N + 1 /\ \A b \in 1 .. N : M[b] = L[b]
               /\ M[N + 1].sink = 0 /\ M[N + 1].part = 1
            BY <1>8 DEF Tabled
      <4>3. a \in DOMAIN M /\ y = M[a]  BY <2>1
      <4> HIDE DEF L, M, N
      <4>4. (y.sink = 0 /\ y.part = 1) \/ (a \in DOMAIN L /\ y = L[a])
        <5>1. CASE M = L  BY <4>3, <5>1
        <5>2. CASE M # L
          <6>1. a \in 1 .. N \/ a = N + 1  BY <4>1, <4>2, <4>3, <5>2
          <6> QED BY <4>1, <4>2, <4>3, <5>2, <6>1
        <5> QED BY <5>1, <5>2
      <4> QED BY <4>4 DEF L
    <3>2. CASE y.sink = 0 /\ y.part = 1  BY <3>2
    <3>3. CASE a \in DOMAIN disk[p].lines /\ y = disk[p].lines[a]
      <4>1. /\ y.sink = 0 \/ (y.sink \in DOMAIN sinks /\ sinks[y.sink].path = p)
            /\ y.part >= 0 /\ (y.part = 0 => y.rec.what = "none")
            /\ y.sink > 0 /\ y.part > 0 =>
                  /\ y.part <= Size(sinks[y.sink].name, y.rec)
                  /\ y.rec \in Given(y.sink) \cup InHand(y.sink)
            BY <1>0, <3>3 DEF Origins
      <4>2. ASSUME y.sink \in DOMAIN sinks, y.rec \in Given(y.sink) \cup InHand(y.sink)
            PROVE  y.rec \in Given(y.sink)'
        <5>1. y.rec \in Given(y.sink)  BY <1>5, <4>2
        <5>2. \E n \in DOMAIN told : told[n] = y.rec  BY <1>5, <4>2, <5>1
        <5> QED BY <1>6, <4>2, <5>2
      <4> QED BY <1>1, <4>1, <4>2
    <3> QED BY <3>1, <3>2, <3>3
  <2> QED BY <1>1, <2>1 DEF Origins
<1>10. ASSUME NEW s \in DOMAIN sinks
       PROVE  /\ Len(File(s)) \in Nat /\ DOMAIN File(s) = 1 .. Len(File(s))
              /\ \/ File(s)' = File(s)
                 \/ /\ DOMAIN File(s)' = 1 .. Len(File(s)) + 1
                    /\ \A a \in 1 .. Len(File(s)) : File(s)'[a] = File(s)[a]
                    /\ File(s)'[Len(File(s)) + 1].sink = 0
              /\ Flushed(s) \in Nat /\ Flushed(s)' \in Nat /\ Flushed(s) <= Flushed(s)'
              /\ Flushed(s) <= Len(File(s))
              /\ s # 0
  <2>1. sinks[s].path \in Paths /\ s # 0  BY Sinks
  <2>2. /\ File(s) = disk[sinks[s].path].lines /\ File(s)' = disk'[sinks[s].path].lines
        /\ Flushed(s) = disk[sinks[s].path].flushed /\ Flushed(s)' = disk'[sinks[s].path].flushed
        BY <1>1 DEF File, Flushed
  <2> QED BY <1>8, <2>1, <2>2 DEF Tabled
<1>11. Headers'
  <2>1. ASSUME NEW s \in DOMAIN sinks, Tabular(sinks[s].name)
        PROVE  HeaderFirst(s, sinks[s].hdr, File(s)')
    <3>1. HeaderFirst(s, sinks[s].hdr, File(s)) /\ sinks[s].hdr \in BOOLEAN  BY <1>0, <2>1, Sinks DEF Headers
    <3> DEFINE h == sinks[s].hdr
               L == File(s)
               M == File(s)'
               N == Len(L)
    <3>2. /\ N \in Nat /\ DOMAIN L = 1 .. N /\ s # 0
          /\ \/ M = L
             \/ DOMAIN M = 1 .. N + 1 /\ (\A a \in 1 .. N : M[a] = L[a]) /\ M[N + 1].sink = 0
          BY <1>10
    <3>3. HeaderFirst(s, h, L) /\ h \in BOOLEAN  BY <3>1
    <3> HIDE DEF h, L, M, N
    <3>4. HeaderFirst(s, h, M)  BY <3>2, <3>3, HeaderStays
    <3> QED BY <3>4 DEF h, M
  <2> QED BY <1>1, <2>1 DEF Headers
<1>12. Once'
  <2>1. ASSUME NEW s \in DOMAIN sinks, Tabular(sinks[s].name),
               NEW a \in DOMAIN File(s)', NEW b \in DOMAIN File(s)',
               File(s)'[a] = File(s)'[b], File(s)'[a].sink = s, File(s)'[a].part > 0
        PROVE  a = b
    <3> DEFINE L == File(s)
               M == File(s)'
               N == Len(L)
    <3>1. /\ N \in Nat /\ DOMAIN L = 1 .. N /\ s # 0
          /\ \/ M = L
             \/ DOMAIN M = 1 .. N + 1 /\ (\A c \in 1 .. N : M[c] = L[c]) /\ M[N + 1].sink = 0
          BY <1>10
    <3>2. \A c, d \in DOMAIN L : L[c] = L[d] /\ L[c].sink = s /\ L[c].part > 0 => c = d
          BY <1>0, <2>1 DEF Once
    <3>3. a \in DOMAIN M /\ b \in DOMAIN M /\ M[a] = M[b] /\ M[a].sink = s /\ M[a].part > 0  BY <2>1
    <3> HIDE DEF L, M, N
    <3>4. CASE M = L  BY <3>2, <3>3, <3>4
    <3>5. CASE M # L
      <4>1. a \in 1 .. N /\ b \in 1 .. N  BY <3>1, <3>3, <3>5
      <4> QED BY <3>1, <3>2, <3>3, <3>5, <4>1
    <3> QED BY <3>4, <3>5
  <2> QED BY <1>1, <2>1 DEF Once
<1>13. Safely'
  <2>1. ASSUME NEW s \in DOMAIN sinks, Tabular(sinks[s].name), NEW y \in Given(s)',
               y.what \in Handles(sinks[s].name)
        PROVE  Kept(s, y)'
    <3>1. Kept(s, y)  BY <1>0, <1>7, <2>1 DEF Safely
    <3>2. \A a \in 1 .. Flushed(s) : a \in 1 .. Len(File(s))  BY <1>10
    <3>3. \A a \in 1 .. Flushed(s) : File(s)'[a] = File(s)[a]  BY <1>10, <3>2
    <3> QED BY <1>10, <3>1, <3>3, KeptOn
  <2> QED BY <1>1, <1>8, <2>1 DEF Safely
<1>14. Together'
  <2>1. \A y : Total(y)' = Total(y)  BY <1>1 DEF Total
  <2>2. ASSUME NEW p \in Paths, NEW n \in DOMAIN disk'[p].lines, NEW M, M = disk'[p].lines
        PROVE  /\ M[n].part > 1 => n > 1 /\ M[n - 1] = Shift(M[n], -1)
               /\ M[n].part \in 1 .. Total(M[n])' - 1 => n < Len(M) /\ M[n + 1] = Shift(M[n], 1)
    <3> DEFINE L == disk[p].lines
               N == Len(L)
    <3>1. \A a \in DOMAIN L : /\ L[a].part > 1 => a > 1 /\ L[a - 1] = Shift(L[a], -1)
                              /\ L[a].part \in 1 .. Total(L[a]) - 1 => a < Len(L) /\ L[a + 1] = Shift(L[a], 1)
          BY <1>0, <1>2, NoneHalf
    <3>2. N \in Nat /\ DOMAIN L = 1 .. N /\ N = Len(L)  BY <1>8
    <3>3. \/ M = L
          \/ /\ DOMAIN M = 1 .. N + 1 /\ Len(M) = N + 1 /\ \A b \in 1 .. N : M[b] = L[b]
             /\ M[N + 1].sink = 0 /\ M[N + 1].part = 1
          BY <1>8, <2>2 DEF Tabled
    <3>4. \A y : y.sink = 0 => Total(y) = 1  BY DEF Total
    <3>5. n \in DOMAIN M  BY <2>2
    <3> HIDE DEF L, N
    <3>6. CASE M = L  BY <2>1, <3>1, <3>5, <3>6
    <3>7. CASE M # L
      <4>1. n \in 1 .. N \/ n = N + 1  BY <3>2, <3>3, <3>5, <3>7
      <4>2. CASE n = N + 1  BY <2>1, <3>3, <3>4, <3>7, <4>2
      <4>3. CASE n \in 1 .. N
        <5>1. M[n] = L[n]  BY <3>3, <3>7, <4>3
        <5>2. L[n].part > 1 => n > 1 /\ M[n - 1] = Shift(L[n], -1)
          <6>1. n > 1 => n - 1 \in 1 .. N  BY <3>2, <4>3
          <6> QED BY <3>1, <3>2, <3>3, <3>7, <4>3, <6>1
        <5>3. L[n].part \in 1 .. Total(L[n]) - 1 => n < Len(M) /\ M[n + 1] = Shift(L[n], 1)
          <6>1. n < N => n + 1 \in 1 .. N /\ n < N + 1  BY <3>2, <4>3
          <6> QED BY <3>1, <3>2, <3>3, <3>7, <4>3, <6>1
        <5> QED BY <2>1, <5>1, <5>2, <5>3
      <4> QED BY <4>1, <4>2, <4>3
    <3> QED BY <3>6, <3>7
  <2> QED BY <1>1, <2>2 DEF Together
<1> QED BY <1>4, <1>9, <1>11, <1>12, <1>13, <1>14 DEF Pages

-----------------------------------------------------------------------------
(* The reports and who makes them                                            *)

LEMMA NewReport ==
    ASSUME Types, NEW w \in Threads, NEW x \in Recs, Begin(w, x)
    PROVE  /\ wr' \in [Threads -> [rec : Recs, at : Nat, todo : Seq(Lines)]]
           /\ wr'[w].rec = x /\ wr'[w].at = After(0, x.what) /\ wr'[w].todo = << >>
           /\ \A v \in Threads : v # w => wr'[v] = wr[v]
<1> DEFINE A == After(0, x.what)
           u == << >>
           y == [rec |-> x, at |-> A, todo |-> u]
<1>1. wr' = [wr EXCEPT ![w] = y]  BY DEF Begin
<1>2. DOMAIN wr = Threads /\ wr = [v \in Threads |-> wr[v]]  BY DEF Types
<1>3. A \in Nat /\ u \in Seq(Lines)  BY Following
<1>4. y.rec = x /\ y.at = A /\ y.todo = << >>  OBVIOUS
<1> HIDE DEF A, u
<1>5. /\ DOMAIN wr' = Threads /\ wr' = [v \in Threads |-> wr'[v]]
      /\ wr'[w] = y /\ \A v \in Threads : v # w => wr'[v] = wr[v]
  <2> HIDE DEF y
  <2> QED BY <1>1, <1>2
<1>6. wr' \in [Threads -> [rec : Recs, at : Nat, todo : Seq(Lines)]]
      BY <1>3, <1>5, Assembled
<1> QED BY <1>4, <1>5, <1>6 DEF A

LEMMA Places ==
    ASSUME SP!Types
    PROVE  /\ SP!Cell \in Int \X Int \X Int /\ Sweep!Cell = SP!Cell
           /\ SP!NoCell \in Int \X Int \X Int /\ Sweep!NoCell = SP!NoCell
           /\ Tag \in Int \X Int \X Int
           /\ r \in Int
<1>1. /\ NEng \in Nat \ {0} /\ NThr \in Nat \ {0} /\ SP!NSteps \in Nat \ {0} /\ cfg.repeat \in Nat \ {0}
      BY SweepSizes, SP!Sizes
<1>2. ei \in Int /\ ti \in Int /\ si \in Int /\ r \in Int  BY <1>1 DEF SP!Types
<1> QED BY <1>1, <1>2, SameNames DEF SP!Cell, SP!NoCell, Tag

\* A sample has room for its metrics.
LEMMA Room ==
    ASSUME Types
    PROVE  Metrics \in Nat /\ Metrics <= SAMPLE_METRIC_MAX
<1> DEFINE c == job.stats
           n == Collected(2, c)
<1>1. c \in Nat /\ SAMPLE_METRIC_MAX \in Nat /\ 2 <= SAMPLE_METRIC_MAX
  <2>1. SAMPLE_METRIC_MAX \in Nat \ {0, 1} /\ \A j \in Jobs : j.stats \in Nat  BY BoundsAssumption
  <2>2. job \in Jobs  BY DEF Types
  <2> QED BY <2>1, <2>2
<1> HIDE DEF c
<1>2. n \in Nat /\ n <= SAMPLE_METRIC_MAX
  <2>1. 2 + c \in Nat  BY <1>1
  <2>2. \A a, b \in Nat : Min({a, b}) = IF a <= b THEN a ELSE b
    <3> SUFFICES ASSUME NEW a \in Nat, NEW b \in Nat PROVE Min({a, b}) = IF a <= b THEN a ELSE b
        OBVIOUS
    <3>1. Min({a, b}) \in {a, b} /\ \A y \in {a, b} : Min({a, b}) <= y  
      <4>1. \E z \in {a, b} : \A y \in {a, b} : z <= y  OBVIOUS
      <4> QED BY <4>1 DEF Min
    <3> QED BY <3>1
  <2> QED BY <1>1, <2>1, <2>2 DEF Collected
<1> HIDE DEF n
<1>3. Metrics = IF watch = "seed" THEN 2 ELSE IF job.datadir /\ n < SAMPLE_METRIC_MAX THEN n + 1 ELSE n
      BY DEF Metrics, n, c
<1>4. CASE watch = "seed"  BY <1>1, <1>3, <1>4
<1>5. CASE watch # "seed" /\ job.datadir /\ n < SAMPLE_METRIC_MAX  BY <1>1, <1>2, <1>3, <1>5
<1>6. CASE watch # "seed" /\ ~(job.datadir /\ n < SAMPLE_METRIC_MAX)  BY <1>2, <1>3, <1>6
<1> QED BY <1>4, <1>5, <1>6

LEMMA OneWriter ==
    ASSUME Types, Turns
    PROVE  /\ Alone
           /\ pc = "row" \/ stage # "sweep" => Quiet("watch") /\ watch = "off"
           /\ watch \in Samples => Quiet("main")
           /\ stage \notin {"start", "sweep"} \/ (pc = "done" /\ stage = "sweep") => \A v \in Threads : Quiet(v)
<1>1. watch \in Samples => Quiet("main")  BY DEF Turns, Samples
<1>2. ~Quiet("watch") => watch \in Samples  BY DEF Turns
<1>3. Alone  BY <1>1, <1>2 DEF Alone, Threads
<1>4. watch \in {"off", "joined"} \cup Samples  BY DEF Types
<1>5. pc = "row" \/ stage # "sweep" => watch = "off"  BY <1>4 DEF Turns, Samples
<1>6. "off" \notin Samples  BY DEF Samples
<1>7. stage \notin {"start", "sweep"} \/ (pc = "done" /\ stage = "sweep") => Quiet("main")  BY DEF Turns
<1>8. pc = "done" /\ stage = "sweep" => watch \notin Samples  BY DEF Turns, Samples
<1> QED BY <1>1, <1>2, <1>3, <1>5, <1>6, <1>7, <1>8 DEF Threads

LEMMA BeginPages ==
    ASSUME Types, Pages, \A v \in Threads : Quiet(v), NEW w \in Threads, NEW x \in Recs, Begin(w, x),
           UNCHANGED <<job, sinks, disk, told>>
    PROVE  Pages' /\ OutTypes'
<1>1. /\ wr' \in [Threads -> [rec : Recs, at : Nat, todo : Seq(Lines)]]
      /\ wr'[w].rec = x /\ wr'[w].at = After(0, x.what) /\ wr'[w].todo = << >>
      /\ \A v \in Threads : v # w => wr'[v] = wr[v]
      BY NewReport
<1>2. Paths' = Paths  BY DEF Paths
<1>3. OutTypes'
  <2>1. sinks' \in Seq([name : Names, path : Paths', hdr : BOOLEAN])  BY <1>2 DEF Types, Names
  <2> QED BY <1>1, <1>2, <2>1 DEF OutTypes, Types
<1>4. Rested
  <2>1. \A v \in Threads : wr[v].at = 0 /\ wr[v].todo = << >>  BY DEF Pages, Writers, Quiet
  <2>2. \A v \in Threads : wr'[v].todo = << >> /\ wr'[v].at \in {0, After(0, wr'[v].rec.what)}
        BY <1>1, <2>1
  <2>3. \A p \in Paths : disk[p].flushed \in Nat /\ disk[p].flushed <= Len(disk[p].lines)
        BY Disk DEF Pages, Safely
  <2> QED BY <1>2, <2>2, <2>3 DEF Rested
<1> QED BY <1>3, <1>4, QuietPages

\* Closing a file, or leaving, flushes it.
Closing(d) ==
    /\ d = [p \in Paths |-> d[p]]
    /\ \A p \in Paths :
          \/ d[p] = disk[p]
          \/ d[p] = [disk[p] EXCEPT !.flushed = Len(disk[p].lines), !.open = FALSE]
          \/ d[p] = [disk[p] EXCEPT !.flushed = Len(disk[p].lines)]

LEMMA ClosedPages ==
    ASSUME Types, Pages, \A v \in Threads : Quiet(v), UNCHANGED <<job, sinks, wr, told>>,
           NEW d, disk' = d, Closing(d)
    PROVE  Pages' /\ OutTypes'
<1>1. Paths' = Paths  BY DEF Paths
<1>2. ASSUME NEW p \in Paths
      PROVE  /\ d[p] \in [lines : Seq(Lines), flushed : Nat, open : BOOLEAN]
             /\ d[p].lines = disk[p].lines /\ d[p].flushed \in {disk[p].flushed, Len(disk[p].lines)}
  <2> DEFINE X == Seq(Lines)
             D == [lines : X, flushed : Nat, open : BOOLEAN]
             n == Len(disk[p].lines)
  <2>1. disk[p] \in D /\ n \in Nat  BY Disk DEF Types
  <2>2. \/ d[p] = disk[p]
        \/ d[p] = [disk[p] EXCEPT !.flushed = n, !.open = FALSE]
        \/ d[p] = [disk[p] EXCEPT !.flushed = n]
        BY DEF Closing
  <2> HIDE DEF X, n
  <2>3. d[p] \in D /\ d[p].lines = disk[p].lines /\ d[p].flushed \in {disk[p].flushed, n}
    <3>1. CASE d[p] = disk[p]  BY <2>1, <3>1
    <3>2. CASE d[p] = [disk[p] EXCEPT !.flushed = n, !.open = FALSE]  BY <2>1, <3>2
    <3>3. CASE d[p] = [disk[p] EXCEPT !.flushed = n]  BY <2>1, <3>3
    <3> QED BY <2>2, <3>1, <3>2, <3>3
  <2> QED BY <2>3 DEF X, n
<1>3. disk' \in [Paths -> [lines : Seq(Lines), flushed : Nat, open : BOOLEAN]]
  <2> DEFINE D == [lines : Seq(Lines), flushed : Nat, open : BOOLEAN]
  <2>1. \A p \in Paths : d[p] \in D  BY <1>2
  <2> HIDE DEF D
  <2>2. d \in [Paths -> D]  BY <2>1 DEF Closing
  <2> QED BY <2>2 DEF D
<1>4. OutTypes'
  <2>1. sinks' \in Seq([name : Names, path : Paths', hdr : BOOLEAN])  BY <1>1 DEF Types, Names
  <2> QED BY <1>1, <1>3, <2>1 DEF OutTypes, Types
<1>5. Rested
  <2>1. \A v \in Threads : wr[v].at = 0 /\ wr[v].todo = << >>  BY DEF Pages, Writers, Quiet
  <2>2. \A p \in Paths : /\ disk[p].flushed \in Nat /\ Len(disk[p].lines) \in Nat
                         /\ disk[p].flushed <= Len(disk[p].lines)
        BY Disk DEF Pages, Safely
  <2>3. \A p \in Paths : disk'[p].lines = disk[p].lines /\ disk'[p].flushed \in {disk[p].flushed, Len(disk[p].lines)}
        BY <1>2
  <2>4. \A p \in Paths : /\ disk'[p].flushed \in Nat
                         /\ disk[p].flushed <= disk'[p].flushed
                         /\ disk'[p].flushed <= Len(disk'[p].lines)
    <3> SUFFICES ASSUME NEW p \in Paths
                 PROVE  /\ disk'[p].flushed \in Nat /\ disk[p].flushed <= disk'[p].flushed
                        /\ disk'[p].flushed <= Len(disk'[p].lines)
        OBVIOUS
    <3> DEFINE n == Len(disk[p].lines)
               f == disk[p].flushed
               g == disk'[p].flushed
    <3>1. n \in Nat /\ f \in Nat /\ f <= n  BY <2>2
    <3>2. g \in {f, n} /\ Len(disk'[p].lines) = n  BY <2>3
    <3> HIDE DEF f, g, n
    <3>3. g \in Nat /\ f <= g /\ g <= n  BY <3>1, <3>2
    <3> QED BY <3>2, <3>3 DEF f, g
  <2> QED BY <1>1, <2>1, <2>3, <2>4 DEF Rested
<1> QED BY <1>4, <1>5, QuietPages

\* The table.
LEMMA EndPages ==
    ASSUME Types, Pages, \A v \in Threads : Quiet(v), EndSweep
    PROVE  Pages' /\ OutTypes'
<1> DEFINE x == [sink |-> 0, rec |-> Rec("table", Sweep!NoCell, 0, 0, 1), part |-> 1]
<1>1. UNCHANGED <<job, sinks, wr, told>>  BY DEF EndSweep
<1>2. disk' = [disk EXCEPT ![Stdout].lines = Append(@, x)] \/ disk' = disk  BY DEF EndSweep
<1>3. x \in Lines /\ x.sink = 0 /\ x.part = 1 /\ Stdout \in Paths
  <2>1. Rec("table", Sweep!NoCell, 0, 0, 1) \in Recs  BY DEF Rec, Recs, Kinds, Sweep!NoCell
  <2> QED BY <2>1 DEF Lines, Paths
<1>4. Paths' = Paths  BY <1>1 DEF Paths
<1>5. \A v \in Threads : wr[v].at = 0 /\ wr[v].todo = << >>  BY DEF Pages, Writers, Quiet
<1>6. \A p \in Paths : /\ disk[p].flushed \in Nat /\ Len(disk[p].lines) \in Nat
                       /\ disk[p].flushed <= Len(disk[p].lines)
                       /\ DOMAIN disk[p].lines = 1 .. Len(disk[p].lines)
      BY Disk DEF Pages, Safely
<1>7. sinks' \in Seq([name : Names, path : Paths', hdr : BOOLEAN])  BY <1>1, <1>4 DEF Types, Names
<1>8. CASE disk' = disk
  <2>1. OutTypes'  BY <1>1, <1>4, <1>7, <1>8 DEF OutTypes, Types
  <2>2. Rested  BY <1>1, <1>4, <1>5, <1>6, <1>8 DEF Rested
  <2> QED BY <2>1, <2>2, QuietPages
<1>9. CASE disk' = [disk EXCEPT ![Stdout].lines = Append(@, x)]
  <2> HIDE DEF x
  <2>1. /\ disk' \in [Paths -> [lines : Seq(Lines), flushed : Nat, open : BOOLEAN]]
        /\ \A s \in Paths : /\ disk'[s].flushed = disk[s].flushed
                            /\ s # Stdout => disk'[s].lines = disk[s].lines
        /\ Len(disk'[Stdout].lines) = Len(disk[Stdout].lines) + 1
        /\ DOMAIN disk'[Stdout].lines = 1 .. Len(disk[Stdout].lines) + 1
        /\ \A a \in DOMAIN disk[Stdout].lines : disk'[Stdout].lines[a] = disk[Stdout].lines[a]
        /\ disk'[Stdout].lines[Len(disk[Stdout].lines) + 1] = x
        BY <1>3, <1>9, Appended
  <2>2. OutTypes'  BY <1>1, <1>4, <1>7, <2>1 DEF OutTypes, Types
  <2>3. Tabled(Stdout)  BY <1>3, <1>6, <2>1 DEF Tabled
  <2>4. \A p \in Paths : disk'[p].flushed <= Len(disk'[p].lines)
    <3> SUFFICES ASSUME NEW p \in Paths PROVE disk'[p].flushed <= Len(disk'[p].lines)  OBVIOUS
    <3>1. CASE p = Stdout
      <4>1. Len(disk'[p].lines) = Len(disk[p].lines) + 1 /\ disk'[p].flushed = disk[p].flushed  BY <2>1, <3>1
      <4> QED BY <1>6, <4>1
    <3>2. CASE p # Stdout  BY <1>6, <2>1, <3>2
    <3> QED BY <3>1, <3>2
  <2>5. \A p \in Paths : disk'[p].lines = disk[p].lines \/ Tabled(p)  BY <2>1, <2>3
  <2>6. \A p \in Paths : disk'[p].flushed = disk[p].flushed /\ disk[p].flushed <= disk'[p].flushed  BY <1>6, <2>1
  <2>7. Rested  BY <1>1, <1>4, <1>5, <1>6, <2>4, <2>5, <2>6 DEF Rested
  <2> QED BY <2>2, <2>7, QuietPages
<1> QED BY <1>2, <1>8, <1>9

\* Before the first report there is nothing to be wrong.
Blank ==
    /\ told = << >> /\ \A w \in Threads : wr[w] = Idle
    /\ \A p \in Paths : disk[p].lines = << >> /\ disk[p].flushed = 0
    /\ \A s \in DOMAIN sinks :
          s \in Nat /\ sinks[s].path \in Paths /\ (Tabular(sinks[s].name) => ~sinks[s].hdr)

LEMMA BlankPages == Blank => Pages
<1> SUFFICES ASSUME Blank PROVE Pages  OBVIOUS
<1> USE DEF Blank
<1>1. \A w \in Threads : wr[w].at = 0 /\ wr[w].todo = << >>  BY DEF Idle
<1>2. Writers  BY <1>1 DEF Writers, Quiet
<1>3. \A p \in Paths : DOMAIN disk[p].lines = {} /\ Len(disk[p].lines) = 0  OBVIOUS
<1>4. \A s \in DOMAIN sinks : DOMAIN File(s) = {}  BY <1>3 DEF File
<1>5. Origins  BY <1>3 DEF Origins
<1>6. Headers  BY <1>4 DEF Headers, HeaderFirst
<1>7. Once  BY <1>4 DEF Once
<1>8. Safely
  <2>1. \A s \in DOMAIN sinks : \A y : y \notin Given(s)
    <3>1. DOMAIN told = {}  OBVIOUS
    <3>2. \A s \in DOMAIN sinks : \A w \in Threads : ~(s < wr[w].at)  BY <1>1
    <3> QED BY <3>1, <3>2, InGiven
  <2> QED BY <1>3, <2>1 DEF Safely
<1>9. Together  BY <1>3 DEF Together
<1> QED BY <1>2, <1>5, <1>6, <1>7, <1>8, <1>9 DEF Pages

LEMMA BlankPagesNext == Blank' => Pages'
<1>1. Blank => Pages  BY BlankPages
<1>2. (Blank => Pages)'  BY <1>1, PTL
<1> QED BY <1>2

LEMMA ParsePages ==
    ASSUME Types, Pages, Opened, stage = "parse", ParseToken \/ ParseDone
    PROVE  Pages' /\ OutTypes'
<1> DEFINE X == [name : Names, path : Paths, hdr : BOOLEAN]
           D == [lines : Seq(Lines), flushed : Nat, open : BOOLEAN]
           Started(d) == /\ d \in [Paths -> D]
                         /\ \A p \in Paths : d[p].lines = disk[p].lines /\ d[p].flushed = disk[p].flushed
<1>1. UNCHANGED <<job, wr, told>>  BY DEF ParseToken, ParseDone
<1>2. Paths' = Paths  BY <1>1 DEF Paths
<1>3. /\ told = << >> /\ \A w \in Threads : wr[w] = Idle
      /\ \A p \in Paths : disk[p].lines = << >>
      BY DEF Opened
<1>4. \A p \in Paths : disk[p].flushed = 0
  <2>1. \A p \in Paths : disk[p].flushed <= Len(disk[p].lines) /\ disk[p].flushed \in Nat
        BY Disk DEF Pages, Safely
  <2>2. \A p \in Paths : Len(disk[p].lines) = 0  BY <1>3
  <2> QED BY <2>1, <2>2
<1>5. \A s \in DOMAIN sinks : Tabular(sinks[s].name) => ~sinks[s].hdr
  <2> SUFFICES ASSUME NEW s \in DOMAIN sinks, Tabular(sinks[s].name) PROVE ~sinks[s].hdr  OBVIOUS
  <2>1. HeaderFirst(s, sinks[s].hdr, File(s))  BY DEF Pages, Headers
  <2>2. File(s) = << >>  BY <1>3, Sinks DEF File
  <2>3. DOMAIN File(s) = {}  BY <2>2
  <2> QED BY <2>1, <2>3 DEF HeaderFirst
<1>6. sinks \in Seq(X) /\ disk \in [Paths -> D]  BY DEF Types, Names
<1>7. sinks' = sinks \/ \E x \in X : ~x.hdr /\ sinks' = Append(sinks, x)
  <2>1. CASE ParseToken
    <3> DEFINE tok == job.spec[k]
               x == [name |-> tok.name, path |-> tok.path, hdr |-> FALSE]
    <3>1. sinks' = sinks \/ (Known(tok.name) /\ sinks' = Append(sinks, x))  BY <2>1 DEF ParseToken
    <3>2. tok.path \in Paths
      <4>1. k \in DOMAIN job.spec
        <5>1. k \in Nat /\ k <= Len(job.spec) /\ k >= 1
          <6>1. k \in Nat /\ k = Len(sinks) + 1  BY DEF Opened, Types
          <6>2. k <= Len(job.spec)  BY <2>1 DEF ParseToken
          <6>3. Len(sinks) \in Nat
            <7> HIDE DEF X
            <7> QED BY <1>6
          <6> QED BY <6>1, <6>2, <6>3
        <5>2. job.spec \in Seq([name : STRING, path : STRING])
          <6>1. \A j \in Jobs : j.spec \in Seq([name : STRING, path : STRING])  BY BoundsAssumption
          <6> QED BY <6>1 DEF Types
        <5>3. Len(job.spec) \in Nat /\ DOMAIN job.spec = 1 .. Len(job.spec)  BY <5>2
        <5> QED BY <5>1, <5>3
      <4> QED BY <4>1 DEF Paths
    <3>3. Known(tok.name) => x \in X /\ ~x.hdr  BY <3>2 DEF Known, Names
    <3> HIDE DEF x, X
    <3> QED BY <3>1, <3>3
  <2>2. CASE ParseDone
    <3> DEFINE x == [name |-> "console", path |-> Stdout, hdr |-> FALSE]
    <3>1. x \in X /\ ~x.hdr  BY DEF Names, Paths
    <3>2. sinks' = sinks \/ (sinks = << >> /\ sinks' = <<x>>)  BY <2>2 DEF ParseDone
    <3> HIDE DEF x, X
    <3>3. sinks = << >> => Append(sinks, x) = <<x>>  OBVIOUS
    <3> QED BY <3>1, <3>2, <3>3
  <2> QED BY <2>1, <2>2
<1>8. Started(disk')
  <2>1. CASE disk' = disk  BY <1>6, <2>1
  <2>2. CASE ParseToken /\ disk' # disk
    <3> DEFINE q == job.spec[k].path
               d == [disk[q] EXCEPT !.open = TRUE]
    <3>1. disk' = [disk EXCEPT ![q].open = TRUE]  BY <2>2 DEF ParseToken
    <3> DEFINE L == Seq(Lines)
    <3> HIDE DEF q, L
    <3>2. disk' = [disk EXCEPT ![q] = d]  BY <3>1
    <3>3. q \in Paths => disk[q] \in [lines : L, flushed : Nat, open : BOOLEAN]  BY <1>6 DEF L
    <3>4. q \in Paths => d \in [lines : L, flushed : Nat, open : BOOLEAN] /\ d.lines = disk[q].lines /\ d.flushed = disk[q].flushed
          BY <3>3
    <3>5. q \in Paths => d \in D  BY <3>4 DEF L
    <3> HIDE DEF d, D
    <3>6. disk' \in [Paths -> D] /\ \A p \in Paths : disk'[p] = disk[p] \/ (q = p /\ disk'[p] = d)
          BY <1>6, <3>2, <3>5
    <3> QED BY <3>4, <3>6
  <2>3. ParseDone => disk' = disk  BY DEF ParseDone
  <2> QED BY <2>1, <2>2, <2>3
<1>9. /\ sinks' \in Seq(X)
      /\ \A s \in DOMAIN sinks' : s \in Nat /\ (Tabular(sinks'[s].name) => ~sinks'[s].hdr)
  <2>1. CASE sinks' = sinks
    <3>1. \A s \in DOMAIN sinks : s \in Nat  BY Sinks
    <3> QED BY <1>5, <1>6, <2>1, <3>1
  <2>2. CASE \E x \in X : ~x.hdr /\ sinks' = Append(sinks, x)
    <3>1. PICK x \in X : ~x.hdr /\ sinks' = Append(sinks, x)  BY <2>2
    <3> HIDE DEF X
    <3>2. /\ sinks' \in Seq(X) /\ Len(sinks) \in Nat /\ DOMAIN sinks = 1 .. Len(sinks)
          /\ DOMAIN sinks' = 1 .. Len(sinks) + 1 /\ sinks'[Len(sinks) + 1] = x
          /\ \A s \in DOMAIN sinks : sinks'[s] = sinks[s]
          BY <1>6, <3>1
    <3>3. \A s \in DOMAIN sinks' : s \in Nat /\ (s \in DOMAIN sinks \/ s = Len(sinks) + 1)  BY <3>2
    <3> QED BY <1>5, <3>1, <3>2, <3>3
  <2> QED BY <1>7, <2>1, <2>2
<1>10. \A s \in DOMAIN sinks' : sinks'[s].path \in Paths
  <2>1. \A x \in X : x.path \in Paths  OBVIOUS
  <2> HIDE DEF X
  <2>2. \A s \in DOMAIN sinks' : sinks'[s] \in X  BY <1>9
  <2> QED BY <2>1, <2>2
<1>11. OutTypes'
  <2>1. sinks' \in Seq([name : Names, path : Paths', hdr : BOOLEAN])  BY <1>2, <1>9
  <2> QED BY <1>1, <1>2, <1>8, <2>1 DEF OutTypes, Types
<1>12. Pages'
  <2>1. /\ told' = << >> /\ \A w \in Threads : wr'[w] = Idle
        /\ \A p \in Paths' : disk'[p].lines = << >> /\ disk'[p].flushed = 0
        BY <1>1, <1>2, <1>3, <1>4, <1>8
  <2>2. \A s \in DOMAIN sinks' : sinks'[s].path \in Paths' /\ (Tabular(sinks'[s].name) => ~sinks'[s].hdr)
        BY <1>2, <1>9, <1>10
  <2>3. \A s \in DOMAIN sinks' : s \in Nat  BY <1>9
  <2> QED BY <2>1, <2>2, <2>3, BlankPagesNext DEF Blank, Idle
<1> QED BY <1>11, <1>12

LEMMA SamePages ==
    ASSUME Types, Pages, UNCHANGED <<job, sinks, disk, wr, told>>
    PROVE  Pages' /\ OutTypes'
<1>1. Paths' = Paths  BY DEF Paths
<1>2. Writers'
  <2>1. \A i, rec, q : Rest(i, rec, q)' = Rest(i, rec, q)  BY DEF Rest
  <2>2. \A i : File(i)' = File(i)  BY DEF File
  <2>3. \A i, rec, q, m : Holds(i, rec, q, m)' <=> Holds(i, rec, q, m)  BY DEF Holds, File
  <2>4. \A w, q : Written(w, q) => Written(w, q)'
    <3> SUFFICES ASSUME NEW w, NEW q, Written(w, q) PROVE Written(w, q)'  OBVIOUS
    <3> DEFINE i == wr[w].at
               rec == wr[w].rec
               N == Len(File(i))
    <3>1. PICK s, x, n : s = i /\ x = rec /\ n = N  OBVIOUS
    <3>2. Rest(s, x, q)' = Rest(s, x, q) /\ File(s)' = File(s)  BY <2>1, <2>2
    <3>3. \A p : Holds(s, x, p, n)' <=> Holds(s, x, p, n)  BY <2>3
    <3> QED BY <3>1, <3>2, <3>3 DEF Written
  <2> QED BY <2>4 DEF Pages, Writers, Quiet
<1>3. Origins'  BY <1>1 DEF Pages, Origins, Given, InHand
<1>4. Headers'  BY DEF Pages, Headers, File
<1>5. Once'  BY DEF Pages, Once, File
<1>6. Safely'  BY <1>1 DEF Pages, Safely, Given, Kept, Holds, File, Flushed
<1>7. Together'  BY <1>1 DEF Pages, Together, Total
<1>8. sinks' \in Seq([name : Names, path : Paths', hdr : BOOLEAN])  BY <1>1 DEF Types, Names
<1>9. OutTypes'  BY <1>1, <1>8 DEF OutTypes, Types
<1> QED BY <1>2, <1>3, <1>4, <1>5, <1>6, <1>7, <1>9 DEF Pages

LEMMA Records ==
    ASSUME NEW what, NEW cell, NEW rep, NEW n, NEW size
    PROVE  LET x == Rec(what, cell, rep, n, size) IN
           x.what = what /\ x.cell = cell /\ x.rep = rep /\ x.n = n /\ x.size = size
BY DEF Rec

\* A tag names a cell the sweep has not passed.
LEMMA TagAhead ==
    ASSUME SP!IInv, watch \in Samples, Turns
    PROVE  /\ watch = "seed" => ~Gone(Tag) /\ Tag \in SP!Share /\ pc = "setup"
           /\ watch = "run" => Tag = SP!Cell /\ pc = "timed" /\ ~SP!Passed(SP!Cell)
           /\ Tag \in SP!Cells
<1>1. /\ NEng \in Nat \ {0} /\ NThr \in Nat \ {0} /\ SP!NSteps \in Nat \ {0} /\ cfg.repeat \in Nat \ {0}
      /\ SP!Mode \in {"engine", "value", "repeat"} /\ SP!Cell \in SP!Cells
      BY SweepSizes, SP!Sizes DEF SP!IInv
<1>2. /\ ei \in 0 .. NEng - 1 /\ ti \in 0 .. NThr - 1 /\ si \in 0 .. SP!NSteps - 1
      BY DEF SP!IInv, SP!Types
<1>3. /\ Tag = IF watch = "seed" /\ SP!Mode # "repeat" THEN <<ei, NThr - 1, si>> ELSE SP!Cell
      BY SameNames DEF Tag
<1>4. watch = "seed" => pc = "setup"  BY DEF Turns
<1>5. watch = "run" => pc = "timed"  BY DEF Turns
<1>6. pc \in {"setup", "timed"} => ~SP!Passed(SP!Cell)
      BY SweepSizes, SP!NotYet DEF SP!IInv
<1>7. <<ei, NThr - 1, si>> \in SP!Cells /\ SP!Cell = <<ei, ti, si>>
  <2>1. NThr - 1 \in 0 .. NThr - 1  BY <1>1
  <2> QED BY <1>2, <2>1 DEF SP!Cells, SP!Cell
<1>8. Tag \in SP!Cells /\ Tag[1] = ei /\ Tag[3] = si  BY <1>1, <1>3, <1>7
<1>9. ASSUME watch = "seed" PROVE ~Gone(Tag) /\ Tag \in SP!Share
  <2>1. CASE SP!Mode = "repeat"
    <3>1. Tag = SP!Cell  BY <1>3, <2>1
    <3>2. ~Gone(Tag)  BY <1>4, <1>6, <1>9, <2>1, <3>1 DEF Gone
    <3>3. Tag[2] = ti  BY <1>7, <3>1
    <3> QED BY <1>8, <3>2, <3>3 DEF SP!Share
  <2>2. CASE SP!Mode # "repeat"
    <3>1. ~Gone(Tag)  BY <1>2, <1>4, <1>8, <1>9, <2>2 DEF Gone
    <3> QED BY <1>8, <2>2, <3>1 DEF SP!Share
  <2> QED BY <2>1, <2>2
<1>10. "run" # "seed"  OBVIOUS
<1> QED BY <1>3, <1>4, <1>5, <1>6, <1>8, <1>9, <1>10

\* The report being made is not one of those made before.
LEMMA FreshReports ==
    ASSUME Types, Turns, Behind, SP!IInv
    PROVE  Fresh
<1>1. r \in Int /\ nsamp \in Nat
      BY Places DEF SP!IInv, Types
<1>2. ASSUME ~Quiet("watch"), NEW n \in DOMAIN told, told[n] = wr["watch"].rec
      PROVE  FALSE
  <2> DEFINE x == told[n]
  <2>1. watch \in Samples /\ x = Rec(watch, Tag, r, nsamp, Metrics)  BY <1>2 DEF Turns
  <2>2. x.what = watch /\ x.cell = Tag /\ x.rep = r /\ x.n = nsamp  BY <2>1, Records
  <2>3. (x.what = "seed" => SeedBehind(x)) /\ (x.what = "run" => RunBehind(x))  BY DEF Behind, OneBehind
  <2>4. ~Recent(x)  BY <1>1, <1>2, <2>1, <2>2 DEF Recent, Samples
  <2>5. ~(x.rep < r)  BY <1>1, <2>2
  <2>6. CASE watch = "seed"
    <3>1. ~Gone(x.cell) /\ pc = "setup"  BY <2>1, <2>2, <2>6, TagAhead
    <3> QED BY <2>2, <2>3, <2>4, <2>5, <2>6, <3>1 DEF SeedBehind
  <2>7. CASE watch = "run"
    <3>1. ~SP!Passed(x.cell) /\ pc = "timed"  BY <2>1, <2>2, <2>7, TagAhead
    <3> QED BY <2>2, <2>3, <2>4, <2>5, <2>7, <3>1 DEF RunBehind
  <2> QED BY <2>1, <2>6, <2>7 DEF Samples
<1>3. ASSUME ~Quiet("main"), wr["main"].rec.what \in {"point"} \cup Samples,
             NEW n \in DOMAIN told, told[n] = wr["main"].rec
      PROVE  FALSE
  <2>1. /\ pt # NoPoint /\ pc = "row"
        /\ wr["main"].rec = Rec("point", SP!Cell, 0, 0, Cardinality(DOMAIN pt.ops))
        BY <1>3 DEF Turns, Samples
  <2>2. told[n].what = "point" /\ told[n].cell = SP!Cell  BY <1>3, <2>1, Records
  <2>3. PointBehind(told[n])  BY <2>2 DEF Behind, OneBehind
  <2>4. ~SP!Passed(SP!Cell)  BY <2>1, SweepSizes, SP!NotYet DEF SP!IInv
  <2> QED BY <1>3, <2>2, <2>3, <2>4 DEF PointBehind, Pending
<1> QED BY <1>2, <1>3 DEF Fresh, Threads

LEMMA PointSize ==
    ASSUME NEW f
    PROVE  Cardinality(DOMAIN summarize_point(f).ops) \in Nat
<1>1. DOMAIN summarize_point(f).ops \subseteq Verbs  BY DEF summarize_point
<1>2. IsFiniteSet(Verbs)
  <2>1. IsFiniteSet({}) /\ \A S, x : IsFiniteSet(S) => IsFiniteSet(S \cup {x})
        BY FS_EmptySet, FS_AddElement
  <2>2. IsFiniteSet({"get"})  
    <3>1. {"get"} = {} \cup {"get"}  OBVIOUS
    <3> QED BY <2>1, <3>1
  <2>3. Verbs = {"get"} \cup {"put"}  BY DEF Verbs
  <2> QED BY <2>1, <2>2, <2>3
<1> QED BY <1>1, <1>2, FS_Subset, FS_CardinalityType

\* Whatever step is taken, the files stay as they should be.
LEMMA OutStep ==
    ASSUME IInv, SP!IInv, [Next]_vars
    PROVE  Pages' /\ OutTypes'
<1>0. Types /\ Turns /\ Pages /\ Behind /\ Opened /\ SP!Types  BY DEF IInv, SP!IInv
<1>1. CASE ParseToken \/ ParseDone
  <2>1. stage = "parse"  BY <1>1 DEF ParseToken, ParseDone
  <2> QED BY <1>0, <1>1, <2>1, ParsePages
<1>2. CASE Probe
  <2> DEFINE x == IF k = 0 THEN Rec("start", Sweep!NoCell, 0, 0, 0) ELSE Rec("probe", Sweep!NoCell, 0, k, 1)
  <2>1. Quiet("main") /\ stage = "start" /\ UNCHANGED <<job, sinks, disk, told>> /\ Begin("main", x)
        BY <1>2 DEF Probe
  <2>2. x \in Recs
    <3>1. Sweep!NoCell \in Int \X Int \X Int /\ k \in Nat  BY <1>0, Places DEF Types
    <3> QED BY <3>1 DEF Rec, Recs, Kinds
  <2>3. \A v \in Threads : Quiet(v)  BY <1>0, <2>1, OneWriter DEF Threads
  <2>4. "main" \in Threads  BY DEF Threads
  <2> HIDE DEF x
  <2> QED BY <1>0, <2>1, <2>2, <2>3, <2>4, BeginPages
<1>3. CASE Sample
  <2> DEFINE x == Rec(watch, Tag, r, nsamp + 1, Metrics)
  <2>1. Quiet("watch") /\ watch \in Samples /\ UNCHANGED <<job, sinks, disk, told>> /\ Begin("watch", x)
        BY <1>3 DEF Sample, Samples
  <2>2. x \in Recs
    <3>1. Tag \in Int \X Int \X Int /\ r \in Int /\ nsamp \in Nat  BY <1>0, Places DEF Types
    <3>2. Metrics \in Nat  BY <1>0, Room
    <3> QED BY <2>1, <3>1, <3>2 DEF Rec, Recs, Kinds
  <2>3. \A v \in Threads : Quiet(v)  BY <1>0, <2>1, OneWriter DEF Threads
  <2>4. "watch" \in Threads  BY DEF Threads
  <2> HIDE DEF x
  <2> QED BY <1>0, <2>1, <2>2, <2>3, <2>4, BeginPages
<1>4. CASE Point
  <2> DEFINE c == Cardinality(DOMAIN pt'.ops)
             x == Rec("point", Sweep!Cell, 0, 0, c)
  <2>1. /\ stage = "sweep" /\ pc = "row" /\ pt = NoPoint
        /\ UNCHANGED <<job, sinks, disk, told>> /\ Begin("main", x)
        BY <1>4 DEF Point
  <2>2. c \in Nat  BY <1>4, PointSize DEF Point
  <2> HIDE DEF c
  <2>3. x \in Recs
    <3>1. Sweep!Cell \in Int \X Int \X Int  BY <1>0, Places
    <3> QED BY <2>2, <3>1 DEF Rec, Recs, Kinds
  <2>4. \A v \in Threads : Quiet(v)
    <3>1. Quiet("watch")  BY <1>0, <2>1, OneWriter
    <3>2. Quiet("main")  BY <1>0, <2>1 DEF Turns
    <3> QED BY <3>1, <3>2 DEF Threads
  <2>5. "main" \in Threads  BY DEF Threads
  <2> HIDE DEF x
  <2> QED BY <1>0, <2>1, <2>3, <2>4, <2>5, BeginPages
<1>5. CASE \E w \in {"main", "watch"} : Turn(w) \/ Put(w)
  <2>1. PICK w \in Threads : Turn(w) \/ Put(w)  BY <1>5 DEF Threads
  <2>2. Alone  BY <1>0, OneWriter
  <2>3. Fresh  BY <1>0, FreshReports
  <2> QED BY <1>0, <2>1, <2>2, <2>3, TurnPages, PutPages
<1>6. CASE EndSweep
  <2>1. \A v \in Threads : Quiet(v)  BY <1>0, <1>6, OneWriter DEF EndSweep
  <2> QED BY <1>0, <1>6, <2>1, EndPages
<1>7. CASE CloseSink \/ Exit
  <2>1. stage \notin {"start", "sweep"} /\ UNCHANGED <<job, sinks, wr, told>>  BY <1>7 DEF CloseSink, Exit
  <2>2. \A v \in Threads : Quiet(v)
    <3>1. stage \notin {"start", "sweep"}  BY <2>1
    <3> QED BY <1>0, <3>1, OneWriter
  <2>3. \E d : disk' = d /\ Closing(d)
    <3>1. CASE CloseSink
      <4> DEFINE y(p) == IF p = sinks[k].path /\ p # Stdout
                         THEN [disk[p] EXCEPT !.flushed = Len(disk[p].lines), !.open = FALSE]
                         ELSE disk[p]
                 d == [p \in Paths |-> y(p)]
      <4>1. disk' = d  BY <3>1 DEF CloseSink
      <4>2. Closing(d)  BY DEF Closing
      <4> QED BY <4>1, <4>2
    <3>2. CASE Exit
      <4> DEFINE d == [p \in Paths |-> [disk[p] EXCEPT !.flushed = Len(disk[p].lines)]]
      <4>1. disk' = d  BY <3>2 DEF Exit
      <4>2. Closing(d)  BY DEF Closing
      <4> QED BY <4>1, <4>2
    <3> QED BY <1>7, <3>1, <3>2
  <2> QED BY <1>0, <2>1, <2>2, <2>3, ClosedPages
<1>8. CASE StartSweep \/ StartWatch \/ StopWatch \/ JoinWatch \/ SetupReturns \/ TimedReturns
           \/ PointDone \/ CloseStore \/ Plot \/ UNCHANGED vars
  <2>1. UNCHANGED <<job, sinks, disk, wr, told>>
        BY <1>8 DEF StartSweep, StartWatch, StopWatch, JoinWatch, SetupReturns, TimedReturns,
                    PointDone, CloseStore, Plot, outVars, vars
  <2> QED BY <1>0, <2>1, SamePages
<1> QED BY <1>1, <1>2, <1>3, <1>4, <1>5, <1>6, <1>7, <1>8 DEF Next, Ended

LEMMA TypesStep ==
    ASSUME IInv, SP!IInv, [Next]_vars
    PROVE  Types'
<1>1. OutTypes'  BY OutStep
<1>2. /\ job \in Jobs /\ k \in Nat /\ nsamp \in Nat
      /\ stage \in {"parse", "start", "sweep", "close", "plot", "exit 0", "exit 2"}
      /\ watch \in {"off", "joined"} \cup Samples
      BY DEF IInv, Types
<1>n. k \in Nat /\ nsamp \in Nat  BY <1>2
<1>3. /\ job' \in Jobs /\ k' \in Nat /\ nsamp' \in Nat
      /\ stage' \in {"parse", "start", "sweep", "close", "plot", "exit 0", "exit 2"}
      /\ watch' \in {"off", "joined"} \cup Samples
  <2>1. CASE ParseToken
    <3>1. UNCHANGED <<job, watch, nsamp>> /\ k' \in {k, k + 1} /\ stage' \in {stage, "exit 2"}
          BY <2>1 DEF ParseToken, watchVars
    <3>2. k + 1 \in Nat  BY <1>n
    <3> QED BY <1>2, <3>1, <3>2
  <2>2. CASE ParseDone  BY <1>2, <2>2 DEF ParseDone, watchVars
  <2>3. CASE Probe  BY <1>2, <2>3 DEF Probe, watchVars
  <2>4. CASE StartSweep  BY <1>2, <2>4 DEF StartSweep, watchVars
  <2>5. CASE StartWatch  BY <1>2, <2>5 DEF StartWatch, Samples
  <2>6. CASE Sample
    <3>1. UNCHANGED <<job, watch, k, stage>> /\ nsamp' = nsamp + 1  BY <2>6 DEF Sample
    <3>2. nsamp + 1 \in Nat  BY <1>n
    <3> QED BY <1>2, <3>1, <3>2
  <2>7. CASE StopWatch  BY <1>2, <2>7 DEF StopWatch, watchVars
  <2>8. CASE JoinWatch  BY <1>2, <2>8 DEF JoinWatch, watchVars
  <2>9. CASE SetupReturns  BY <1>2, <2>9 DEF SetupReturns, watchVars
  <2>10. CASE TimedReturns  BY <1>2, <2>10 DEF TimedReturns, watchVars
  <2>11. CASE Point  BY <1>2, <2>11 DEF Point, watchVars
  <2>12. CASE PointDone  BY <1>2, <2>12 DEF PointDone, watchVars
  <2>13. CASE CloseStore  BY <1>2, <2>13 DEF CloseStore, watchVars
  <2>14. CASE EndSweep  BY <1>2, <2>14 DEF EndSweep, watchVars
  <2>15. CASE CloseSink
    <3>1. UNCHANGED <<job, watch, nsamp, stage>> /\ k' = k + 1  BY <2>15 DEF CloseSink, watchVars
    <3>2. k + 1 \in Nat  BY <1>n
    <3> QED BY <1>2, <3>1, <3>2
  <2>16. CASE Plot  BY <1>2, <2>16 DEF Plot, watchVars
  <2>17. CASE Exit  BY <1>2, <2>17 DEF Exit, watchVars
  <2>18. CASE UNCHANGED vars  BY <1>2, <2>18 DEF vars, watchVars
  <2>19. CASE \E w \in {"main", "watch"} : Turn(w) \/ Put(w)
    <3>1. UNCHANGED <<job, stage, k, watchVars>>  BY <2>19 DEF Turn, Put
    <3> QED BY <1>2, <3>1 DEF watchVars
  <2> QED BY <2>1, <2>2, <2>3, <2>4, <2>5, <2>6, <2>7, <2>8, <2>9, <2>10, <2>11, <2>12, <2>13, <2>14, <2>15, <2>16, <2>17, <2>18, <2>19
      DEF Next, Ended
<1> QED BY <1>1, <1>3 DEF OutTypes, Types, Names

\* What a step of a writer leaves alone.
Steady == UNCHANGED <<sweepVars, job, stage, k, watchVars, res, pt>>

LEMMA WriterSteps ==
    ASSUME Types, Turns, Pages, NEW w \in Threads, Turn(w) \/ Put(w)
    PROVE  /\ Steady /\ SameSinks /\ ~Quiet(w)
           /\ wr'[w].rec = wr[w].rec
           /\ \A v \in Threads : v # w => wr'[v] = wr[v] /\ Quiet(v)
           /\ (told' = told /\ ~Quiet(w)') \/ (told' = Append(told, wr[w].rec) /\ Quiet(w)')
<1>0. Alone /\ Writers  BY OneWriter DEF Pages
<1>1. Steady  BY DEF Turn, Put, Steady
<1>2. CASE Turn(w)
  <2> DEFINE T == Output(wr[w].at, wr[w].rec)
  <2>1. ~Quiet(w) /\ wr' = [wr EXCEPT ![w].todo = T] /\ sinks' = sinks /\ told' = told  BY <1>2 DEF Turn
  <2>2. DOMAIN wr = Threads  BY DEF Types
  <2>3. wr[w] = [rec |-> wr[w].rec, at |-> wr[w].at, todo |-> wr[w].todo]  BY Writing
  <2> HIDE DEF T
  <2>4. /\ wr'[w].rec = wr[w].rec /\ wr'[w].at = wr[w].at
        /\ \A v \in Threads : v # w => wr'[v] = wr[v]
        BY <2>1, <2>2, <2>3
  <2>5. SameSinks  BY <2>1 DEF SameSinks
  <2>6. \A v \in Threads : v # w => Quiet(v)  BY <1>0, <2>1 DEF Alone
  <2> QED BY <1>1, <2>1, <2>4, <2>5, <2>6 DEF Quiet
<1>3. CASE Put(w)
  <2>1. ~Quiet(w) /\ GoesOn(w)  BY <1>0, <1>3, PutStep
  <2>2. SameSinks  BY <1>0, <1>3, PutPages
  <2>3. \A v \in Threads : v # w => Quiet(v)  BY <1>0, <2>1 DEF Alone
  <2> QED BY <1>1, <2>1, <2>2, <2>3 DEF GoesOn, Quiet
<1> QED BY <1>2, <1>3

LEMMA NewPoint ==
    ASSUME NEW f
    PROVE  summarize_point(f) # NoPoint
<1>1. "wu2" \in DOMAIN summarize_point(f)  BY DEF summarize_point
<1>2. "wu2" \notin DOMAIN NoPoint  BY DEF NoPoint
<1> QED BY <1>1, <1>2

LEMMA TurnsStep ==
    ASSUME IInv, SP!IInv, [Next]_vars
    PROVE  Turns'
<1>0. Types /\ Turns /\ Pages /\ Opened /\ SP!Types  BY DEF IInv, SP!IInv
<1>w. watch \in {"off", "joined"} \cup Samples  BY <1>0 DEF Types
<1>n. "off" \notin Samples /\ "joined" \notin Samples /\ Samples = {"seed", "run"}  BY DEF Samples
<1>s. SameSinks /\ job' = job => (Sampling => Sampling')  BY DEF SameSinks, Sampling
<1>t. UNCHANGED <<sweepVars, job, watch>> => Tag' = Tag /\ Metrics' = Metrics /\ SP!Cell' = SP!Cell
  <2> SUFFICES ASSUME UNCHANGED <<sweepVars, job, watch>>
               PROVE  Tag' = Tag /\ Metrics' = Metrics /\ SP!Cell' = SP!Cell
      OBVIOUS
  <2>1. UNCHANGED <<cfg, ei, ti, si>>  BY DEF sweepVars
  <2>2. SP!Mode' = SP!Mode /\ SP!Cell' = SP!Cell  BY <2>1 DEF SP!Mode, SP!Cell
  <2>3. Sweep!Mode' = Sweep!Mode /\ Sweep!Cell' = Sweep!Cell  BY <2>1 DEF Sweep!Mode, Sweep!Cell
  <2> QED BY <2>1, <2>2, <2>3 DEF Tag, Metrics
<1>1. CASE ParseToken \/ ParseDone
  <2>1. stage = "parse" /\ stage' \in {"parse", "start", "exit 2"} /\ UNCHANGED <<watch, pt, wr>>
        BY <1>1 DEF ParseToken, ParseDone, watchVars
  <2>2. watch = "off" /\ pt = NoPoint  BY <1>0, <2>1, OneWriter DEF Turns
  <2>3. Quiet("main") /\ Quiet("watch")  BY <1>0, <2>1, OneWriter DEF Threads
  <2> QED BY <1>n, <2>1, <2>2, <2>3 DEF Turns, Quiet
<1>2. CASE Probe
  <2> DEFINE x == IF k = 0 THEN Rec("start", Sweep!NoCell, 0, 0, 0) ELSE Rec("probe", Sweep!NoCell, 0, k, 1)
  <2>1. /\ stage = "start" /\ stage' = "start" /\ Begin("main", x)
        /\ UNCHANGED <<watch, pt, sinks, job>>
        BY <1>2 DEF Probe, watchVars
  <2>2. watch = "off" /\ pt = NoPoint  BY <1>0, <2>1, OneWriter DEF Turns
  <2>3. Quiet("watch")  BY <1>0, <2>1, OneWriter
  <2>4. x.what \in {"start", "probe"} /\ x.cell = SP!NoCell  BY SameNames, Records
  <2>5. x \in Recs
    <3>1. Sweep!NoCell \in Int \X Int \X Int /\ k \in Nat  BY <1>0, Places DEF Types
    <3> QED BY <3>1 DEF Rec, Recs, Kinds
  <2> HIDE DEF x
  <2>6. wr'["main"].rec = x /\ wr'["watch"] = wr["watch"]  BY <1>0, <2>1, <2>5, NewReport DEF Threads
  <2>7. Quiet("watch")'  BY <2>3, <2>6 DEF Quiet
  <2>8. SP!NoCell' = SP!NoCell  BY DEF SP!NoCell
  <2> QED BY <1>n, <2>1, <2>2, <2>4, <2>6, <2>7, <2>8 DEF Turns
<1>3. CASE StartSweep
  <2>1. stage = "start" /\ stage' = "sweep" /\ Quiet("main") /\ UNCHANGED <<watch, pt, wr>>
        BY <1>3 DEF StartSweep, watchVars, outVars
  <2>2. watch = "off" /\ pt = NoPoint  BY <1>0, <2>1, OneWriter DEF Turns
  <2>3. Quiet("watch")  BY <1>0, <2>1, OneWriter
  <2> QED BY <1>n, <2>1, <2>2, <2>3 DEF Turns, Quiet
<1>4. CASE \E w \in {"main", "watch"} : Turn(w) \/ Put(w)
  <2>1. PICK w \in Threads : Turn(w) \/ Put(w)  BY <1>4 DEF Threads
  <2>2. /\ Steady /\ SameSinks
        /\ \A v \in Threads : wr'[v].rec = wr[v].rec /\ (~Quiet(v)' => ~Quiet(v))
        BY <1>0, <2>1, WriterSteps DEF Quiet
  <2>3. UNCHANGED <<sweepVars, job, watch>> /\ UNCHANGED <<pc, r, stage, watch, nsamp, pt>>
        BY <2>2 DEF Steady, watchVars, sweepVars
  <2>4. Tag' = Tag /\ Metrics' = Metrics /\ SP!Cell' = SP!Cell  BY <1>t, <2>3
  <2>5. Sampling => Sampling'  BY <1>s, <2>2, <2>3
  <2>6. /\ wr'["main"].rec = wr["main"].rec /\ (~Quiet("main")' => ~Quiet("main"))
        /\ wr'["watch"].rec = wr["watch"].rec /\ (~Quiet("watch")' => ~Quiet("watch"))
        BY <2>2 DEF Threads
  <2>7. SP!NoCell' = SP!NoCell  BY DEF SP!NoCell
  <2>8. Rec(watch, Tag, r, nsamp, Metrics)' = Rec(watch, Tag, r, nsamp, Metrics)
        BY <2>3, <2>4 DEF Rec
  <2>9. Rec("point", SP!Cell, 0, 0, Cardinality(DOMAIN pt.ops))' = Rec("point", SP!Cell, 0, 0, Cardinality(DOMAIN pt.ops))
        BY <2>3, <2>4 DEF Rec
  <2> QED BY <1>0, <2>3, <2>5, <2>6, <2>7, <2>8, <2>9 DEF Turns
<1>5. CASE StartWatch
  <2>1. /\ stage = "sweep" /\ watch = "off" /\ UNCHANGED <<pc, pt, wr, stage, sinks, job>> /\ Sampling
        /\ (pc = "setup" /\ watch' = "seed") \/ (pc = "timed" /\ watch' = "run")
        BY <1>5 DEF StartWatch, sweepVars, outVars
  <2>2. pt = NoPoint /\ Quiet("watch") /\ Quiet("main")  BY <1>0, <1>n, <2>1 DEF Turns
  <2>3. Sampling'  BY <2>1 DEF Sampling
  <2> QED BY <1>n, <2>1, <2>2, <2>3 DEF Turns, Quiet
<1>6. CASE Sample
  <2> DEFINE x == Rec(watch, Tag, r, nsamp + 1, Metrics)
  <2>1. /\ watch \in Samples /\ Begin("watch", x) /\ nsamp' = nsamp + 1
        /\ UNCHANGED <<sweepVars, job, watch>> /\ UNCHANGED <<pc, r, stage, pt, sinks>>
        BY <1>6 DEF Sample, Samples, sweepVars
  <2>2. Tag' = Tag /\ Metrics' = Metrics /\ SP!Cell' = SP!Cell  BY <1>t, <2>1
  <2>3. x \in Recs
    <3>1. Tag \in Int \X Int \X Int /\ r \in Int /\ nsamp \in Nat  BY <1>0, Places DEF Types
    <3>2. Metrics \in Nat  BY <1>0, Room
    <3> QED BY <2>1, <3>1, <3>2 DEF Rec, Recs, Kinds
  <2>4. x = Rec(watch, Tag, r, nsamp, Metrics)'  BY <2>1, <2>2 DEF Rec
  <2> HIDE DEF x
  <2>5. wr'["watch"].rec = x /\ wr'["main"] = wr["main"]  BY <1>0, <2>1, <2>3, NewReport DEF Threads
  <2>6. Quiet("main")'  BY <1>0, <2>1, <2>5, OneWriter DEF Quiet
  <2>7. Sampling => Sampling'  BY <2>1 DEF Sampling
  <2> QED BY <1>0, <2>1, <2>4, <2>5, <2>6, <2>7 DEF Turns
<1>7. CASE StopWatch \/ CloseSink \/ UNCHANGED vars
  <2>1. UNCHANGED <<sweepVars, job, watch>> /\ UNCHANGED <<pc, r, stage, watch, nsamp, pt, wr, sinks>>
        BY <1>7 DEF StopWatch, CloseSink, vars, sweepVars, watchVars, outVars
  <2>2. Tag' = Tag /\ Metrics' = Metrics /\ SP!Cell' = SP!Cell  BY <1>t, <2>1
  <2>3. Sampling => Sampling'  BY <2>1 DEF Sampling
  <2>4. SP!NoCell' = SP!NoCell  BY DEF SP!NoCell
  <2>5. Rec(watch, Tag, r, nsamp, Metrics)' = Rec(watch, Tag, r, nsamp, Metrics)
        BY <2>1, <2>2 DEF Rec
  <2>6. Rec("point", SP!Cell, 0, 0, Cardinality(DOMAIN pt.ops))' = Rec("point", SP!Cell, 0, 0, Cardinality(DOMAIN pt.ops))
        BY <2>1, <2>2 DEF Rec
  <2> QED BY <1>0, <2>1, <2>3, <2>4, <2>5, <2>6 DEF Turns, Quiet
<1>8. CASE JoinWatch
  <2>1. /\ watch \in Samples /\ Quiet("watch") /\ watch' = "joined"
        /\ UNCHANGED <<pc, stage, pt, wr, sinks, job>>
        BY <1>8 DEF JoinWatch, Joined, Samples, sweepVars, outVars
  <2>2. pt = NoPoint /\ Quiet("main")  BY <1>0, <1>n, <2>1, OneWriter DEF Turns
  <2>3. Sampling'  BY <1>0, <1>n, <2>1 DEF Turns, Sampling
  <2>4. stage = "sweep" /\ pc \in {"setup", "timed"}  BY <1>0, <1>n, <2>1 DEF Turns
  <2> QED BY <1>n, <2>1, <2>2, <2>3, <2>4 DEF Turns, Quiet
<1>9. CASE SetupReturns \/ TimedReturns \/ CloseStore
  <2>1. /\ stage = "sweep" /\ UNCHANGED <<stage, pt, wr>> /\ pc \in {"setup", "timed", "close"}
        /\ watch' = "off" \/ (pc = "close" /\ watch' = watch)
        BY <1>9, SameSteps DEF SetupReturns, TimedReturns, CloseStore, outVars, watchVars,
              SP!SetupOk, SP!SetupNull, SP!TimedOk, SP!TimedFailed, SP!Close
  <2>2. pt = NoPoint  BY <1>0, <2>1 DEF Turns
  <2>3. watch \notin Samples
    <3>1. CASE pc = "close"  BY <1>0, <1>n, <3>1 DEF Turns
    <3>2. CASE pc # "close"
      <4>1. watch \in {"off", "joined"} \/ ~Sampling  BY <1>9, <2>1, <3>2, SameSteps DEF SetupReturns, TimedReturns, CloseStore, SP!Close
      <4> QED BY <1>0, <1>n, <4>1 DEF Turns
    <3> QED BY <3>1, <3>2
  <2>4. Quiet("watch") /\ Quiet("main")  BY <1>0, <2>1, <2>2, <2>3 DEF Turns
  <2>5. watch' = "off"
    <3>1. pc = "close" => watch = "off"  BY <1>0, <1>w, <2>3 DEF Turns
    <3> QED BY <2>1, <3>1
  <2> QED BY <1>n, <2>1, <2>2, <2>4, <2>5 DEF Turns, Quiet
<1>10. CASE Point
  <2> DEFINE c == Cardinality(DOMAIN pt'.ops)
             x == Rec("point", Sweep!Cell, 0, 0, c)
  <2>1. /\ stage = "sweep" /\ pc = "row" /\ pt' # NoPoint
        /\ UNCHANGED <<pc, ei, ti, si, stage, watch>> /\ Begin("main", x)
        BY <1>10, NewPoint DEF Point, watchVars, sweepVars
  <2>2. c \in Nat  BY <1>10, PointSize DEF Point
  <2>3. x = Rec("point", SP!Cell', 0, 0, c)  BY <2>1, SameNames DEF SP!Cell
  <2> HIDE DEF c
  <2>4. x \in Recs
    <3>1. Sweep!Cell \in Int \X Int \X Int  BY <1>0, Places
    <3> QED BY <2>2, <3>1 DEF Rec, Recs, Kinds
  <2> HIDE DEF x
  <2>5. wr'["main"].rec = x /\ wr'["watch"] = wr["watch"]  BY <1>0, <2>1, <2>4, NewReport DEF Threads
  <2>6. Quiet("watch")' /\ watch = "off"  BY <1>0, <2>1, <2>5, OneWriter DEF Quiet
  <2>7. wr'["main"].rec = Rec("point", SP!Cell', 0, 0, Cardinality(DOMAIN pt'.ops))  BY <2>3, <2>5 DEF c
  <2> QED BY <1>n, <2>1, <2>6, <2>7 DEF Turns
<1>11. CASE PointDone
  <2>1. stage = "sweep" /\ pc = "row" /\ Quiet("main") /\ pt' = NoPoint /\ UNCHANGED <<stage, watch, wr>>
        BY <1>11, SameSteps DEF PointDone, SP!Row, watchVars, outVars
  <2>2. Quiet("watch") /\ watch = "off"  BY <1>0, <2>1, OneWriter
  <2> QED BY <1>n, <2>1, <2>2 DEF Turns, Quiet
<1>12. CASE EndSweep \/ Plot \/ Exit
  <2>1. /\ pc = "done" /\ stage' \in {"close", "plot", "exit 0"} /\ UNCHANGED <<pc, watch, wr, pt>>
        BY <1>0, <1>12 DEF EndSweep, Plot, Exit, Turns, watchVars, outVars, sweepVars
  <2>2. pt = NoPoint /\ watch = "off"  BY <1>0, <1>w, <1>n, <2>1 DEF Turns
  <2>3. Quiet("watch") /\ Quiet("main")
    <3>1. stage # "start"  BY <1>12 DEF EndSweep, Plot, Exit
    <3> QED BY <1>0, <1>n, <2>2, <3>1 DEF Turns
  <2> QED BY <1>n, <2>1, <2>2, <2>3 DEF Turns, Quiet
<1> QED BY <1>1, <1>2, <1>3, <1>4, <1>5, <1>6, <1>7, <1>8, <1>9, <1>10, <1>11, <1>12 DEF Next, Ended

-----------------------------------------------------------------------------
(* The sweep and what has been reported of it                                *)

LEMMA Kept1 ==
    ASSUME SP!Types, cfg' = cfg, SP!NextCell, SP!Mode # "repeat"
    PROVE  ei' = ei /\ (SP!Mode = "value" => si' = si)
<1>1. /\ ti \in 0 .. NThr - 1 /\ si \in 0 .. SP!NSteps - 1 /\ NThr \in Nat /\ SP!NSteps \in Nat
      BY SweepSizes, SP!Sizes DEF SP!Types
<1>2. ti + 1 < NThr \/ ti + 1 = NThr  BY <1>1
<1>3. CASE SP!Mode # "repeat" /\ ti + 1 < NThr
  <2>1. ~(ti + 1 = NThr)  BY <1>1, <1>3
  <2> QED BY <1>3, <2>1, Zenon DEF SP!NextCell
<1>4. CASE ti + 1 = NThr /\ SP!Mode = "engine" /\ si + 1 < SP!NSteps
  <2>1. ~(ti + 1 < NThr)  BY <1>1, <1>4
  <2>2. "engine" # "value"  OBVIOUS
  <2> QED BY <1>4, <2>1, <2>2, Zenon DEF SP!NextCell
<1>5. CASE ti + 1 = NThr /\ ~(SP!Mode = "engine" /\ si + 1 < SP!NSteps)
  <2>1. ~(ti + 1 < NThr)  BY <1>1, <1>5
  <2> QED BY <1>5, <2>1, Zenon DEF SP!NextCell
<1> QED BY <1>2, <1>3, <1>4, <1>5

LEMMA Ahead ==
    ASSUME SP!IInv
    PROVE  /\ ei \in Nat /\ ti \in Nat /\ si \in Nat /\ r \in Nat
           /\ SP!Cell \in SP!Cells
           /\ SP!Mode = "repeat" => \A c \in SP!Share : c = SP!Cell
           /\ \A c \in SP!Cells : c[1] \in Nat /\ c[2] \in Nat /\ c[3] \in Nat
           /\ SP!Share \subseteq SP!Cells
           /\ pc = "setup" => SP!Cell \in SP!Share
<1>1. /\ NEng \in Nat \ {0} /\ NThr \in Nat \ {0} /\ SP!NSteps \in Nat \ {0} /\ cfg.repeat \in Nat \ {0}
      /\ SP!Cell \in SP!Cells
      BY SweepSizes, SP!Sizes DEF SP!IInv
<1>2. ei \in Nat /\ ti \in Nat /\ si \in Nat /\ r \in Nat  BY <1>1 DEF SP!IInv, SP!Types
<1>3. \A c \in SP!Cells : /\ c[1] \in Nat /\ c[2] \in Nat /\ c[3] \in Nat
                          /\ c = SP!Cell <=> c[1] = ei /\ c[2] = ti /\ c[3] = si
      BY <1>1, SweepSizes, SP!CellIndices
<1>4. SP!Share \subseteq SP!Cells  BY DEF SP!Share
<1>5. SP!Mode = "repeat" => \A c \in SP!Share : c = SP!Cell
      BY <1>3 DEF SP!Share
<1>6. SP!Cell \in SP!Share  BY <1>1, <1>3 DEF SP!Share
<1> QED BY <1>1, <1>2, <1>3, <1>4, <1>5, <1>6

\* Leaving a cell leaves behind what was reported of it.
LEMMA CellLeft ==
    ASSUME SP!IInv, cfg' = cfg, SP!NextCell,
           pc \in {"timed", "row"} \/ (pc = "setup" /\ SP!Mode = "repeat"),
           NEW x, x.cell \in SP!Cells, x.rep \in Nat
    PROVE  /\ SeedBehind(x) => SeedBehind(x)'
           /\ RunBehind(x) => RunBehind(x)'
           /\ PointBehind(x) => PointBehind(x)'
<1>0. SP!Types /\ SP!Position  BY DEF SP!IInv
<1> DEFINE c == x.cell
<1>1. /\ SP!LoopTypes
      /\ SP!Mode # "repeat" => pc' \in {"timed", "close"}
      /\ \A d \in SP!Cells : SP!Passed(d)' <=> (SP!Passed(d) \/ d = SP!Cell)
      BY <1>0, SweepSizes, SP!LeavingACell
<1>2. SP!Mode' = SP!Mode /\ SP!Cells' = SP!Cells  BY SweepSizes, SP!Fixed
<1>3. SP!Passed(c)' <=> (SP!Passed(c) \/ c = SP!Cell)  BY <1>1
<1>4. RunBehind(x) => RunBehind(x)'  BY <1>3 DEF RunBehind
<1>5. PointBehind(x) => PointBehind(x)'  BY <1>3 DEF PointBehind
<1>6. ASSUME SeedBehind(x) PROVE SeedBehind(x)'
  <2>1. CASE SP!Mode = "repeat"
    <3>1. SP!Passed(c) \/ c = SP!Cell  BY <1>6, <2>1, Ahead DEF SeedBehind, Gone
    <3> QED BY <1>2, <1>3, <2>1, <3>1 DEF SeedBehind, Gone
  <2>2. CASE SP!Mode # "repeat"
    <3>1. ei' = ei /\ (SP!Mode = "value" => si' = si)  BY <1>0, <2>2, Kept1
    <3>2. pc # "done" /\ pc' # "done" /\ pc' # "setup"  BY <1>1, <2>2
    <3>3. CASE Gone(c)
      <4>1. Gone(c)'  BY <1>2, <2>2, <3>1, <3>2, <3>3 DEF Gone
      <4> QED BY <4>1 DEF SeedBehind
    <3>4. CASE ~Gone(c)
      <4>1. c \in SP!Share /\ x.rep = 0  BY <1>6, <2>2, <3>4 DEF SeedBehind
      <4>2. SP!Mode \in {"engine", "value", "repeat"}  BY <1>0, SweepSizes, SP!Sizes
      <4>3. c \in SP!Share'  BY <1>2, <2>2, <3>1, <4>1, <4>2 DEF SP!Share
      <4>4. r' \in Nat  
        <5>1. cfg.repeat \in Nat \ {0}  BY <1>0, SweepSizes, SP!Sizes
        <5> QED BY <1>1, <5>1 DEF SP!LoopTypes
      <4>5. x.rep < r' \/ x.rep = r'  BY <4>1, <4>4
      <4> QED BY <1>2, <3>2, <4>1, <4>3, <4>5 DEF SeedBehind
    <3> QED BY <3>3, <3>4
  <2> QED BY <2>1, <2>2
<1> QED BY <1>4, <1>5, <1>6

\* So does leaving the cells that share a store.
LEMMA GroupLeft ==
    ASSUME SP!IInv, cfg' = cfg, SP!NextGroup, SP!Mode # "repeat", pc \in {"setup", "close"}, ~Pending,
           NEW x, x.cell \in SP!Cells, x.rep \in Nat
    PROVE  /\ SeedBehind(x) => SeedBehind(x)'
           /\ RunBehind(x) => RunBehind(x)'
           /\ PointBehind(x) => PointBehind(x)'
<1>0. SP!Types /\ SP!Position  BY DEF SP!IInv
<1> DEFINE c == x.cell
<1>1. \A d \in SP!Cells : SP!Passed(d)' <=> (SP!Passed(d) \/ (pc = "setup" /\ d \in SP!Share))
      BY <1>0, SweepSizes, SP!LeavingAGroup
<1>2. SP!Mode' = SP!Mode /\ SP!Cells' = SP!Cells  BY SweepSizes, SP!Fixed
<1>3. SP!Passed(c)' <=> (SP!Passed(c) \/ (pc = "setup" /\ c \in SP!Share))  BY <1>1
<1>4. RunBehind(x) => RunBehind(x)'
  <2>1. pc = "setup" => SP!Cell \in SP!Share  BY Ahead
  <2>2. pc = "close" => SP!Passed(SP!Cell)  BY DEF SP!Passed
  <2> QED BY <1>3, <2>1, <2>2 DEF RunBehind
<1>5. PointBehind(x) => PointBehind(x)'  BY <1>3 DEF PointBehind
<1>6. ASSUME SeedBehind(x) PROVE SeedBehind(x)'
  <2>1. pc # "done"  OBVIOUS
  <2>2. c[1] \in Nat /\ c[3] \in Nat /\ ei \in Nat /\ si \in Nat  BY Ahead
  <2>3. SP!Mode \in {"engine", "value"}  BY <1>0, SweepSizes, SP!Sizes
  <2>4. c[1] < ei \/ (c[1] = ei /\ (SP!Mode = "value" => c[3] <= si))
    <3>1. CASE Gone(c)  BY <2>1, <2>2, <2>3, <3>1 DEF Gone
    <3>2. CASE c \in SP!Share  BY <2>2, <2>3, <3>2 DEF SP!Share
    <3> QED BY <1>6, <3>1, <3>2 DEF SeedBehind
  <2>5. \/ ei' = ei /\ si' = si + 1 /\ SP!Mode = "value"
        \/ ei' = ei + 1
        \/ pc' = "done"
        BY DEF SP!NextGroup, SP!NextEngine
  <2>6. Gone(c)'  BY <1>2, <2>2, <2>3, <2>4, <2>5 DEF Gone
  <2> QED BY <2>6 DEF SeedBehind
<1> QED BY <1>4, <1>5, <1>6

\* A setup or a repeat that is over.
LEMMA RepeatLeft ==
    ASSUME SP!IInv, SP!SetupOk \/ SP!TimedOk, ~Pending, NEW x, x.cell \in SP!Cells, x.rep \in Nat
    PROVE  /\ SeedBehind(x) => SeedBehind(x)'
           /\ RunBehind(x) => RunBehind(x)'
           /\ PointBehind(x) => PointBehind(x)'
<1>0. r \in Nat  BY Ahead
<1> DEFINE c == x.cell
<1>1. UNCHANGED <<cfg, ei, ti, si>>  BY DEF SP!SetupOk, SP!TimedOk
<1>2. SP!Mode' = SP!Mode /\ SP!Cells' = SP!Cells /\ SP!Cell' = SP!Cell /\ SP!NSteps' = SP!NSteps
      BY <1>1, SweepSizes, SP!Fixed DEF SP!Cell
<1>3. /\ pc \in {"setup", "timed"} /\ pc' \in {"setup", "timed", "row"}
      /\ \/ pc = "setup" /\ pc' = "timed" /\ r' = r
         \/ pc = "timed" /\ r' = r + 1
         \/ pc = "timed" /\ pc' = "row" /\ r' = r
      BY DEF SP!SetupOk, SP!TimedOk
<1>4. SP!Earlier(c)' <=> SP!Earlier(c)  BY <1>1, <1>2 DEF SP!Earlier
<1>5. SP!Passed(c)' <=> SP!Passed(c)  BY <1>3, <1>4 DEF SP!Passed
<1>6. Gone(c)' <=> Gone(c)  BY <1>1, <1>2, <1>3, <1>5 DEF Gone
<1>7. SP!Share' = SP!Share  BY <1>1, <1>2 DEF SP!Share
<1>8. RunBehind(x) => RunBehind(x)'  BY <1>0, <1>2, <1>3, <1>5 DEF RunBehind
<1>9. PointBehind(x) => PointBehind(x)'  BY <1>5 DEF PointBehind
<1>10. SeedBehind(x) => SeedBehind(x)'
  <2>1. x.rep < r => x.rep < r'  BY <1>0, <1>3
  <2>2. x.rep = r => x.rep < r' \/ (x.rep = r' /\ pc' # "setup")  BY <1>0, <1>3
  <2> QED BY <1>2, <1>6, <1>7, <2>1, <2>2 DEF SeedBehind
<1> QED BY <1>8, <1>9, <1>10

\* A step that is not the sweep's.
LEMMA StillBehind ==
    ASSUME UNCHANGED sweepVars, NEW x, OneBehind(x),
           x.what \in Samples /\ Recent(x) => Recent(x)', Pending => Pending'
    PROVE  OneBehind(x)'
<1>1. UNCHANGED <<cfg, pc, ei, ti, si, r>>  BY DEF sweepVars
<1>2. SP!Mode' = SP!Mode /\ SP!Cells' = SP!Cells /\ SP!Cell' = SP!Cell /\ SP!NSteps' = SP!NSteps
      BY <1>1, SweepSizes, SP!Fixed DEF SP!Cell
<1>3. \A c : SP!Passed(c)' <=> SP!Passed(c)  BY <1>1, <1>2 DEF SP!Passed, SP!Earlier
<1>4. \A c : Gone(c)' <=> Gone(c)  BY <1>1, <1>2, <1>3 DEF Gone
<1>5. SP!Share' = SP!Share  BY <1>1, <1>2 DEF SP!Share
<1>6. x.what = "run" => RunBehind(x)'
      BY <1>1, <1>2, <1>3 DEF OneBehind, RunBehind, Samples
<1>7. x.what = "point" => PointBehind(x)'  BY <1>2, <1>3 DEF OneBehind, PointBehind
<1>8. x.what = "seed" => SeedBehind(x)'
      BY <1>1, <1>2, <1>4, <1>5 DEF OneBehind, SeedBehind, Samples
<1>9. SP!NoCell' = SP!NoCell  BY DEF SP!NoCell
<1>10. x.what \in {"point"} \cup Samples => x.cell \in SP!Cells' /\ x.rep \in Nat  BY <1>2 DEF OneBehind
<1> QED BY <1>6, <1>7, <1>8, <1>9, <1>10 DEF OneBehind

LEMMA BehindOn ==
    ASSUME IInv, SP!IInv, [Next]_vars, NEW x \in Recs, OneBehind(x)
    PROVE  OneBehind(x)'
<1>0. Types /\ Turns /\ Pages /\ Opened /\ SP!Types /\ SP!Position  BY DEF IInv, SP!IInv
<1>n. nsamp \in Nat /\ x.n \in Int /\ "off" \notin Samples /\ "joined" \notin Samples
      BY <1>0 DEF Types, Recs, Samples
<1>1. CASE ParseToken \/ ParseDone \/ StartSweep \/ StopWatch \/ EndSweep \/ CloseSink \/ Plot \/ Exit \/ UNCHANGED vars
  <2>1. UNCHANGED sweepVars /\ UNCHANGED <<watch, nsamp, wr, pt>>
        BY <1>1 DEF ParseToken, ParseDone, StartSweep, StopWatch, EndSweep, CloseSink, Plot, Exit,
              vars, outVars, watchVars
  <2>2. Recent(x) => Recent(x)'  BY <2>1 DEF Recent, Quiet
  <2>3. Pending => Pending'  BY <2>1 DEF Pending, Quiet
  <2>4. UNCHANGED sweepVars  BY <2>1
  <2> QED BY <2>2, <2>3, <2>4, StillBehind
<1>2. CASE Probe
  <2>1. UNCHANGED sweepVars /\ UNCHANGED <<watch, nsamp, pt>> /\ stage = "start"  BY <1>2 DEF Probe, watchVars
  <2>2. ~Pending  BY <1>0, <2>1 DEF Turns, Pending
  <2>3. ~Recent(x) \/ x.what \notin Samples
    <3>1. watch = "off"  BY <1>0, <2>1, OneWriter
    <3> QED BY <1>n, <3>1 DEF Recent
  <2>4. UNCHANGED sweepVars  BY <2>1
  <2> QED BY <2>2, <2>3, <2>4, StillBehind
<1>3. CASE StartWatch
  <2>1. UNCHANGED sweepVars /\ UNCHANGED <<wr, pt>> /\ watch = "off"  BY <1>3 DEF StartWatch, outVars
  <2>2. Pending => Pending'  BY <2>1 DEF Pending, Quiet
  <2>3. ~Recent(x) \/ x.what \notin Samples  BY <1>n, <2>1 DEF Recent
  <2>4. UNCHANGED sweepVars  BY <2>1
  <2> QED BY <2>2, <2>3, <2>4, StillBehind
<1>4. CASE Sample
  <2>1. UNCHANGED sweepVars /\ UNCHANGED <<watch, pt>> /\ nsamp' = nsamp + 1 /\ watch \in Samples
        BY <1>4 DEF Sample, Samples
  <2>2. Recent(x) => Recent(x)'
    <3>1. x.n <= nsamp => x.n < nsamp' /\ x.n <= nsamp'  BY <1>n, <2>1
    <3> QED BY <2>1, <3>1 DEF Recent
  <2>3. ~Pending  BY <1>0, <2>1 DEF Turns, Pending, Samples
  <2>4. UNCHANGED sweepVars  BY <2>1
  <2> QED BY <2>2, <2>3, <2>4, StillBehind
<1>5. CASE JoinWatch
  <2>1. UNCHANGED sweepVars /\ UNCHANGED <<wr, pt>> /\ watch' = "joined"  BY <1>5 DEF JoinWatch, outVars
  <2>2. Recent(x)'  BY <2>1 DEF Recent
  <2>3. Pending => Pending'  BY <2>1 DEF Pending, Quiet
  <2>4. UNCHANGED sweepVars  BY <2>1
  <2> QED BY <2>2, <2>3, <2>4, StillBehind
<1>6. CASE Point
  <2>1. UNCHANGED sweepVars /\ UNCHANGED <<watch, nsamp>> /\ pt = NoPoint /\ pc = "row"
        BY <1>6 DEF Point, watchVars
  <2>2. ~Pending  BY <2>1 DEF Pending
  <2>3. ~Recent(x) \/ x.what \notin Samples
    <3>1. watch = "off"  BY <1>0, <2>1, OneWriter
    <3> QED BY <1>n, <3>1 DEF Recent
  <2>4. UNCHANGED sweepVars  BY <2>1
  <2> QED BY <2>2, <2>3, <2>4, StillBehind
<1>7. CASE \E w \in {"main", "watch"} : Turn(w) \/ Put(w)
  <2>1. PICK w \in Threads : Turn(w) \/ Put(w)  BY <1>7 DEF Threads
  <2>2. /\ Steady /\ ~Quiet(w)
        /\ \A v \in Threads : v # w => wr'[v] = wr[v] /\ Quiet(v)
        BY <1>0, <2>1, WriterSteps
  <2>3. UNCHANGED sweepVars /\ UNCHANGED <<watch, nsamp, pt>>  BY <2>2 DEF Steady, watchVars
  <2>4. \A v \in Threads : Quiet(v) => Quiet(v)'  BY <2>2 DEF Quiet
  <2>5. Recent(x) => Recent(x)'  BY <2>3, <2>4 DEF Recent, Threads
  <2>6. Pending => Pending'  BY <2>3, <2>4 DEF Pending, Threads
  <2>7. UNCHANGED sweepVars  BY <2>3
  <2> QED BY <2>5, <2>6, <2>7, StillBehind
<1>8. CASE SetupReturns \/ TimedReturns \/ PointDone \/ CloseStore
  <2>1. cfg' = cfg /\ (pc # "row" => ~Pending)
    <3>1. pc # "row" => ~Pending  BY <1>0 DEF Turns, Pending
    <3>2. cfg' = cfg
          BY <1>8, SameSteps DEF SetupReturns, TimedReturns, PointDone, CloseStore,
             SP!SetupOk, SP!SetupNull, SP!TimedOk, SP!TimedFailed, SP!Row, SP!Close
    <3> QED BY <3>1, <3>2
  <2>2. ASSUME x.cell \in SP!Cells, x.rep \in Nat
        PROVE  /\ SeedBehind(x) => SeedBehind(x)'
               /\ RunBehind(x) => RunBehind(x)'
               /\ PointBehind(x) => PointBehind(x)'
    <3>1. CASE SP!SetupOk \/ SP!TimedOk
      <4>1. pc # "row"  BY <3>1 DEF SP!SetupOk, SP!TimedOk
      <4> QED BY <2>1, <2>2, <3>1, <4>1, RepeatLeft
    <3>2. CASE SP!SetupNull
      <4>1. /\ pc = "setup"
            /\ (SP!Mode = "repeat" /\ SP!NextCell) \/ (SP!Mode # "repeat" /\ SP!NextGroup)
            BY <3>2 DEF SP!SetupNull
      <4> QED BY <2>1, <2>2, <4>1, CellLeft, GroupLeft
    <3>3. CASE SP!TimedFailed \/ SP!Row
      <4>1. SP!NextCell /\ pc \in {"timed", "row"}  BY <3>3 DEF SP!TimedFailed, SP!Row, SP!AfterFailure
      <4> QED BY <2>1, <2>2, <4>1, CellLeft
    <3>4. CASE SP!Close
      <4>1. SP!NextGroup /\ pc = "close"  BY <3>4 DEF SP!Close
      <4>2. SP!Mode # "repeat"  BY <1>0, <4>1 DEF SP!Position
      <4> QED BY <2>1, <2>2, <4>1, <4>2, GroupLeft
    <3> QED BY <1>8, <3>1, <3>2, <3>3, <3>4, SameSteps DEF SetupReturns, TimedReturns, PointDone, CloseStore
  <2>3. SP!Cells' = SP!Cells /\ SP!NoCell' = SP!NoCell  BY <2>1, SweepSizes, SP!Fixed DEF SP!NoCell
  <2>4. x.what \in {"point"} \cup Samples => x.cell \in SP!Cells /\ x.rep \in Nat  BY DEF OneBehind
  <2>5. x.what = "point" => PointBehind(x)'  BY <2>2, <2>4 DEF OneBehind
  <2>6. x.what = "seed" => SeedBehind(x)'  BY <2>2, <2>4 DEF OneBehind, Samples
  <2>7. x.what = "run" => RunBehind(x)'  BY <2>2, <2>4 DEF OneBehind, Samples
  <2> QED BY <2>3, <2>4, <2>5, <2>6, <2>7 DEF OneBehind
<1> QED BY <1>1, <1>2, <1>3, <1>4, <1>5, <1>6, <1>7, <1>8 DEF Next, Ended

\* A report is over when its writer leaves the last sink.
Tells(w) == Steady /\ ~Quiet(w) /\ Quiet(w)' /\ told' = Append(told, wr[w].rec)

LEMMA Telling ==
    ASSUME IInv, SP!IInv, [Next]_vars
    PROVE  told' = told \/ \E w \in Threads : Tells(w)
<1>0. Types /\ Turns /\ Pages  BY DEF IInv
<1>1. CASE \E w \in {"main", "watch"} : Turn(w) \/ Put(w)
  <2>1. PICK w \in Threads : Turn(w) \/ Put(w)  BY <1>1 DEF Threads
  <2>2. /\ Steady /\ ~Quiet(w)
        /\ told' = told \/ (told' = Append(told, wr[w].rec) /\ Quiet(w)')
        BY <1>0, <2>1, WriterSteps
  <2> QED BY <2>2 DEF Tells
<1>2. CASE ParseToken \/ ParseDone \/ Probe \/ StartSweep \/ StartWatch \/ Sample \/ StopWatch \/ JoinWatch
      BY <1>2 DEF ParseToken, ParseDone, Probe, StartSweep, StartWatch, Sample, StopWatch, JoinWatch, outVars
<1>3. CASE SetupReturns \/ TimedReturns \/ Point \/ PointDone \/ CloseStore
      BY <1>3 DEF SetupReturns, TimedReturns, Point, PointDone, CloseStore, outVars
<1>4. CASE EndSweep \/ CloseSink \/ Plot \/ Exit \/ UNCHANGED vars
      BY <1>4 DEF EndSweep, CloseSink, Plot, Exit, outVars, vars
<1> QED BY <1>1, <1>2, <1>3, <1>4 DEF Next, Ended

\* The report of a watcher, and that of main.
LEMMA Reporter ==
    ASSUME IInv, SP!IInv, NEW w \in Threads, ~Quiet(w), NEW x, x = wr[w].rec
    PROVE  /\ x \in Recs
           /\ w = "watch" => /\ watch \in Samples /\ x.what = watch /\ x.cell = Tag /\ x.rep = r
                             /\ x.n = nsamp
           /\ w = "main" => \/ x.what \in {"start", "probe"} /\ x.cell = SP!NoCell /\ stage = "start"
                            \/ /\ x.what = "point" /\ x.cell = SP!Cell /\ x.rep = 0
                               /\ pt # NoPoint /\ pc = "row" /\ stage = "sweep"
           /\ w = "main" <=> x.what \notin Samples
<1>0. Types /\ Turns  BY DEF IInv
<1>1. x \in Recs  BY <1>0, Writing
<1>2. w = "watch" => watch \in Samples /\ x = Rec(watch, Tag, r, nsamp, Metrics)  BY <1>0 DEF Turns
<1>3. w = "main" => \/ x.what \in {"start", "probe"} /\ x.cell = SP!NoCell /\ stage = "start"
                    \/ /\ pt # NoPoint /\ pc = "row" /\ stage = "sweep"
                       /\ x = Rec("point", SP!Cell, 0, 0, Cardinality(DOMAIN pt.ops))
      BY <1>0 DEF Turns
<1>4. w = "watch" => x.what = watch /\ x.cell = Tag /\ x.rep = r /\ x.n = nsamp  BY <1>2, Records
<1>5. w = "main" => \/ x.what \in {"start", "probe"} /\ x.cell = SP!NoCell /\ stage = "start"
                    \/ /\ x.what = "point" /\ x.cell = SP!Cell /\ x.rep = 0
                       /\ pt # NoPoint /\ pc = "row" /\ stage = "sweep"
      BY <1>3, Records
<1>6. w = "main" <=> x.what \notin Samples  BY <1>2, <1>4, <1>5 DEF Samples, Threads
<1> QED BY <1>1, <1>2, <1>4, <1>5, <1>6

LEMMA NewBehind ==
    ASSUME IInv, SP!IInv, NEW w \in Threads, Tells(w), NEW x, x = wr[w].rec
    PROVE  OneBehind(x)'
<1>0. Types /\ Turns /\ SP!Types /\ SP!Position  BY DEF IInv, SP!IInv
<1>1. UNCHANGED sweepVars /\ UNCHANGED <<cfg, pc, ei, ti, si, r, watch, nsamp, pt>> /\ ~Quiet(w) /\ Quiet(w)'
      BY DEF Tells, Steady, sweepVars, watchVars
<1>2. SP!Mode' = SP!Mode /\ SP!Cells' = SP!Cells /\ SP!Cell' = SP!Cell /\ SP!NoCell' = SP!NoCell
      BY <1>1, SweepSizes, SP!Fixed DEF SP!Cell, SP!NoCell
<1>3. SP!Share' = SP!Share  BY <1>1, <1>2 DEF SP!Share
<1>4. r \in Nat /\ SP!Cell \in SP!Cells  BY Ahead
<1>5. CASE w = "watch"
  <2>1. /\ watch \in Samples /\ x.what = watch /\ x.cell = Tag /\ x.rep = r /\ x.n = nsamp
        BY <1>1, <1>5, Reporter
  <2>2. /\ watch = "seed" => Tag \in SP!Share /\ pc = "setup"
        /\ watch = "run" => Tag = SP!Cell /\ pc = "timed"
        /\ Tag \in SP!Cells
        BY <1>0, <2>1, TagAhead
  <2>3. Recent(x)'
    <3>1. nsamp \in Nat  BY <1>0 DEF Types
    <3> QED BY <1>1, <1>5, <2>1, <3>1 DEF Recent
  <2>4. x.what = "seed" => SeedBehind(x)'
    <3>1. pc = "setup" /\ SP!Mode # "repeat" => r = 0  BY <1>0 DEF SP!Position
    <3> QED BY <1>1, <1>2, <1>3, <2>1, <2>2, <2>3, <3>1 DEF SeedBehind
  <2>5. x.what = "run" => RunBehind(x)'  BY <1>1, <1>2, <2>1, <2>2, <2>3 DEF RunBehind
  <2>6. x.what \notin {"start", "probe", "point"}  BY <2>1 DEF Samples
  <2> QED BY <1>2, <1>4, <2>1, <2>2, <2>4, <2>5, <2>6 DEF OneBehind
<1>6. CASE w = "main"
  <2>1. \/ x.what \in {"start", "probe"} /\ x.cell = SP!NoCell
        \/ x.what = "point" /\ x.cell = SP!Cell /\ x.rep = 0 /\ pt # NoPoint
        BY <1>1, <1>6, Reporter
  <2>2. x.what = "point" => PointBehind(x)'  BY <1>1, <1>2, <1>6, <2>1 DEF PointBehind, Pending
  <2> QED BY <1>2, <1>4, <2>1, <2>2 DEF OneBehind, Samples
<1> QED BY <1>5, <1>6 DEF Threads

LEMMA BehindStep ==
    ASSUME IInv, SP!IInv, [Next]_vars
    PROVE  Behind'
<1>0. Types /\ Behind  BY DEF IInv
<1>1. ASSUME NEW a \in DOMAIN told, NEW x, x = told[a] PROVE OneBehind(x)'
  <2>1. x \in Recs /\ OneBehind(x)  BY <1>0, <1>1, Told DEF Behind
  <2> QED BY <2>1, BehindOn
<1>2. CASE told' = told  BY <1>1, <1>2 DEF Behind
<1>3. CASE \E w \in Threads : Tells(w)
  <2>1. PICK w \in Threads : Tells(w)  BY <1>3
  <2>2. PICK x : x = wr[w].rec  OBVIOUS
  <2>3. OneBehind(x)'  BY <2>1, <2>2, NewBehind
  <2>4. x \in Recs  BY <1>0, <2>2, Writing
  <2>5. told' = Append(told, x)  BY <2>1, <2>2 DEF Tells
  <2>6. /\ DOMAIN told' = 1 .. Len(told) + 1 /\ DOMAIN told = 1 .. Len(told) /\ Len(told) \in Nat
        /\ \A n \in DOMAIN told : told'[n] = told[n]
        /\ told'[Len(told) + 1] = x
        BY <1>0, <2>4, <2>5, Told, ToldMore
  <2>7. ASSUME NEW a \in DOMAIN told' PROVE OneBehind(told[a])'
    <3>1. CASE a \in DOMAIN told
      <4>1. PICK y : y = told[a]  OBVIOUS
      <4>2. OneBehind(y)' /\ told'[a] = y  BY <1>1, <2>6, <3>1, <4>1
      <4> QED BY <4>2
    <3>2. CASE a = Len(told) + 1  BY <2>3, <2>6, <3>2
    <3> QED BY <2>6, <3>1, <3>2
  <2> QED BY <2>7 DEF Behind
<1> QED BY <1>2, <1>3, Telling

\* A sample comes after those of its cell and repeat that were reported before
\* it, and before the point.
LEMMA SampleLast ==
    ASSUME IInv, SP!IInv, NEW w \in Threads, ~Quiet(w), NEW x, x = wr[w].rec, x.what \in Samples,
           NEW y, OneBehind(y), y.cell = x.cell
    PROVE  /\ y.what # "point"
           /\ y.rep = x.rep => \/ y.what = "seed" /\ x.what = "run"
                               \/ y.what = x.what /\ y.n < x.n
<1>0. Types /\ Turns /\ SP!Types /\ SP!Position  BY DEF IInv, SP!IInv
<1>1. /\ watch \in Samples /\ x.what = watch /\ x.cell = Tag /\ x.rep = r /\ x.n = nsamp /\ w = "watch"
      BY Reporter DEF Threads
<1>2. /\ watch = "seed" => ~Gone(Tag) /\ Tag \in SP!Share /\ pc = "setup"
      /\ watch = "run" => Tag = SP!Cell /\ pc = "timed" /\ ~SP!Passed(SP!Cell)
      /\ Tag \in SP!Cells
      BY <1>0, <1>1, TagAhead
<1>3. ~SP!Passed(Tag)
  <2>1. pc = "setup" => \A c \in SP!Share : ~SP!Passed(c)  BY <1>0, SweepSizes, SP!NotYet
  <2> QED BY <1>1, <1>2, <2>1 DEF Samples
<1>4. ~Pending  BY <1>0, <1>1, <1>2 DEF Turns, Pending, Samples
<1>5. y.what # "point"  BY <1>1, <1>3, <1>4 DEF OneBehind, PointBehind
<1>6. y.what \notin {"start", "probe"}
  <2>1. SP!NoCell \notin SP!Cells
    <3>1. \A c \in SP!Cells : c[1] \in Nat  BY Ahead
    <3>2. SP!NoCell[1] = -1  BY DEF SP!NoCell
    <3> QED BY <3>1, <3>2
  <2> QED BY <1>1, <1>2, <2>1 DEF OneBehind
<1>7. ASSUME y.rep = r, y.what = "seed", watch = "seed" PROVE y.n < nsamp
  <2>1. SeedBehind(y) /\ ~(y.rep < r)
    <3>1. r \in Nat  BY Ahead
    <3> QED BY <1>7, <3>1 DEF OneBehind
  <2>2. Recent(y)  BY <1>1, <1>2, <1>7, <2>1 DEF SeedBehind
  <2> QED BY <1>1, <1>7, <2>2 DEF Recent
<1>8. ASSUME y.rep = r, y.what = "run" PROVE watch = "run" /\ y.n < nsamp
  <2>1. RunBehind(y) /\ ~(y.rep < r)
    <3>1. r \in Nat  BY Ahead
    <3> QED BY <1>8, <3>1 DEF OneBehind
  <2>2. pc = "timed" /\ Recent(y)  BY <1>1, <1>2, <1>3, <1>8, <2>1 DEF RunBehind, Samples
  <2>3. watch = "run"  BY <1>1, <1>2, <2>2 DEF Samples
  <2> QED BY <1>1, <1>8, <2>2, <2>3 DEF Recent
<1>9. y.what \in Samples  BY <1>5, <1>6 DEF OneBehind
<1> QED BY <1>1, <1>5, <1>7, <1>8, <1>9 DEF Samples

LEMMA OrderedStep ==
    ASSUME IInv, SP!IInv, [Next]_vars
    PROVE  Ordered'
<1>0. Types /\ Behind /\ Ordered  BY DEF IInv
<1>1. CASE told' = told  BY <1>0, <1>1 DEF Ordered
<1>2. CASE \E w \in Threads : Tells(w)
  <2>1. PICK w \in Threads : Tells(w)  BY <1>2
  <2>2. PICK x : x = wr[w].rec  OBVIOUS
  <2>3. x \in Recs  BY <1>0, <2>2, Writing
  <2>4. told' = Append(told, x) /\ ~Quiet(w)  BY <2>1, <2>2 DEF Tells
  <2>5. /\ DOMAIN told' = 1 .. Len(told) + 1 /\ DOMAIN told = 1 .. Len(told) /\ Len(told) \in Nat
        /\ \A n \in DOMAIN told : told'[n] = told[n]
        /\ told'[Len(told) + 1] = x
        BY <1>0, <2>3, <2>4, Told, ToldMore
  <2>6. ASSUME NEW b \in DOMAIN told', NEW a \in 1 .. b - 1,
               told'[b].what \in Samples, told'[a].cell = told'[b].cell
        PROVE  /\ told'[a].what # "point"
               /\ told'[a].rep = told'[b].rep =>
                     \/ told'[a].what = "seed" /\ told'[b].what = "run"
                     \/ told'[a].what = told'[b].what /\ told'[a].n < told'[b].n
    <3>1. a \in DOMAIN told /\ told'[a] = told[a]  BY <2>5
    <3>2. CASE b \in DOMAIN told
      <4>1. told'[b] = told[b]  BY <2>5, <3>2
      <4> QED BY <1>0, <2>6, <3>1, <3>2, <4>1 DEF Ordered
    <3>3. CASE b = Len(told) + 1
      <4>1. told'[b] = x  BY <2>5, <3>3
      <4>2. PICK y : y = told[a]  OBVIOUS
      <4>3. OneBehind(y)  BY <1>0, <3>1, <4>2 DEF Behind
      <4>4. x.what \in Samples /\ y.cell = x.cell  BY <2>6, <3>1, <4>1, <4>2
      <4>5. /\ y.what # "point"
            /\ y.rep = x.rep => (y.what = "seed" /\ x.what = "run") \/ (y.what = x.what /\ y.n < x.n)
            BY <2>2, <2>4, <4>3, <4>4, SampleLast
      <4> QED BY <3>1, <4>1, <4>2, <4>5
    <3> QED BY <2>5, <3>2, <3>3
  <2> QED BY <2>6 DEF Ordered
<1> QED BY <1>1, <1>2, Telling

-----------------------------------------------------------------------------
(* The points and the rows                                                   *)

LEMMA SameAfter ==
    ASSUME SameSinks
    PROVE  \A i, what : After(i, what)' = After(i, what)
<1> SUFFICES ASSUME NEW i, NEW what PROVE After(i, what)' = After(i, what)  OBVIOUS
<1>1. {s \in DOMAIN sinks : s > i /\ what \in Handles(sinks[s].name)}'
        = {s \in DOMAIN sinks : s > i /\ what \in Handles(sinks[s].name)}
      BY DEF SameSinks
<1> QED BY <1>1 DEF After

LEMMA RowsSame ==
    ASSUME RowsTold, told' = told, rows' = rows, After(0, "point")' = After(0, "point"),
           Pending' <=> Pending, Pending => SP!Cell' = SP!Cell
    PROVE  RowsTold'
<1>1. Points' = Points  BY DEF Points
<1>2. \A c : HasRow(c)' <=> HasRow(c)  BY DEF HasRow
<1>3. \A n : HasRow(told[n].cell)' <=> HasRow(told[n].cell)  BY DEF HasRow
<1> QED BY <1>1, <1>3 DEF RowsTold

\* The report of a point is over.
LEMMA PointTold ==
    ASSUME IInv, SP!IInv, NEW w \in Threads, Tells(w), After(0, "point")' = After(0, "point"),
           w = "watch" => (Pending' <=> Pending)
    PROVE  RowsTold'
<1>0. Types /\ Turns /\ RowsTold  BY DEF IInv
<1> SUFFICES ASSUME After(0, "point")' # 0
             PROVE  RowsTold'
    BY DEF RowsTold
<1>1. PICK x : x = wr[w].rec  OBVIOUS
<1>2. x \in Recs  BY <1>0, <1>1, Writing
<1>3. told' = Append(told, x) /\ ~Quiet(w) /\ Quiet(w)' /\ UNCHANGED <<rows, pt, ei, ti, si>>
      BY <1>1 DEF Tells, Steady, sweepVars
<1>4. /\ DOMAIN told' = 1 .. Len(told) + 1 /\ DOMAIN told = 1 .. Len(told) /\ Len(told) \in Nat
      /\ \A n \in DOMAIN told : told'[n] = told[n]
      /\ told'[Len(told) + 1] = x
      BY <1>0, <1>2, <1>3, Told, ToldMore
<1>5. SP!Cell' = SP!Cell  BY <1>3 DEF SP!Cell
<1>6. /\ w = "main" => \/ x.what \in {"start", "probe"} /\ stage = "start"
                       \/ x.what = "point" /\ x.cell = SP!Cell /\ pt # NoPoint
      /\ w = "main" <=> x.what \notin Samples
      BY <1>1, <1>3, Reporter
<1>7. \A c : HasRow(c)' <=> HasRow(c)  BY <1>3 DEF HasRow
<1> DEFINE N == Len(told) + 1
<1>8. DOMAIN rows' = DOMAIN rows /\ rows' = rows  BY <1>3
<1>9. /\ \A n \in Points : HasRow(told[n].cell) \/ (Pending /\ told[n].cell = SP!Cell)
      /\ \A a \in DOMAIN rows : \E n \in Points : told[n].cell = rows[a].cell
      /\ Pending => \E n \in Points : told[n].cell = SP!Cell
      /\ \A a, b \in Points : a < b =>
            \/ \E c, d \in DOMAIN rows :
                  c < d /\ rows[c].cell = told[a].cell /\ rows[d].cell = told[b].cell
            \/ Pending /\ HasRow(told[a].cell) /\ told[b].cell = SP!Cell
      BY <1>0 DEF RowsTold
<1>10. CASE x.what # "point"
  <2>1. Points' = Points /\ Points \subseteq DOMAIN told  BY <1>4, <1>10 DEF Points
  <2>2. Pending' <=> Pending
    <3>1. CASE w = "watch"  BY <3>1
    <3>2. CASE w = "main"
      <4>1. pt = NoPoint  BY <1>0, <1>6, <1>10, <3>2 DEF Turns
      <4> QED BY <1>3, <4>1 DEF Pending
    <3> QED BY <3>1, <3>2 DEF Threads
  <2>3. \A n \in Points : told'[n] = told[n] /\ (HasRow(told[n].cell)' <=> HasRow(told[n].cell))
        BY <1>4, <2>1, <1>3 DEF HasRow
  <2> QED BY <1>5, <1>8, <1>9, <2>1, <2>2, <2>3 DEF RowsTold
<1>11. CASE x.what = "point"
  <2>1. w = "main" /\ pt # NoPoint /\ x.cell = SP!Cell  BY <1>6, <1>11 DEF Samples
  <2>2. Pending' /\ ~Pending  BY <1>3, <2>1 DEF Pending
  <2>3. Points' = Points \cup {N} /\ Points \subseteq DOMAIN told /\ \A n \in Points : n < N /\ n \in Nat
        BY <1>4, <1>11 DEF Points
  <2>4. \A n \in Points : told'[n] = told[n] /\ (HasRow(told[n].cell)' <=> HasRow(told[n].cell))
        BY <1>4, <2>3, <1>3 DEF HasRow
  <2>5. N \in Nat /\ told'[N] = x /\ N \in Points'  BY <1>4, <2>3
  <2> HIDE DEF N
  <2>6. \A n \in Points' : HasRow(told[n].cell)' \/ (Pending' /\ told'[n].cell = SP!Cell')
        BY <1>5, <1>9, <2>1, <2>2, <2>3, <2>4, <2>5
  <2>7. \A a \in DOMAIN rows' : \E n \in Points' : told'[n].cell = rows'[a].cell
        BY <1>8, <1>9, <2>3, <2>4
  <2>8. Pending' => \E n \in Points' : told'[n].cell = SP!Cell'
        BY <1>5, <2>1, <2>5
  <2>9. ASSUME NEW a \in Points', NEW b \in Points', a < b
        PROVE  \/ \E c, d \in DOMAIN rows' :
                     c < d /\ rows'[c].cell = told'[a].cell /\ rows'[d].cell = told'[b].cell
               \/ Pending' /\ HasRow(told[a].cell)' /\ told'[b].cell = SP!Cell'
    <3>1. a \in Points  BY <2>3, <2>5, <2>9
    <3>2. CASE b \in Points
      <4>1. told'[a] = told[a] /\ told'[b] = told[b]  BY <2>4, <3>1, <3>2
      <4>2. \E c, d \in DOMAIN rows :
               c < d /\ rows[c].cell = told[a].cell /\ rows[d].cell = told[b].cell
            BY <1>9, <2>2, <2>9, <3>1, <3>2
      <4> QED BY <1>8, <4>1, <4>2
    <3>3. CASE b = N
      <4>1. HasRow(told[a].cell)  BY <1>9, <2>2, <3>1
      <4> QED BY <1>5, <2>1, <2>2, <2>4, <2>5, <3>1, <3>3, <4>1
    <3> QED BY <2>3, <3>2, <3>3
  <2> QED BY <2>6, <2>7, <2>8, <2>9 DEF RowsTold
<1> QED BY <1>10, <1>11

\* The point gets its row.
LEMMA RowWritten ==
    ASSUME IInv, SP!IInv, PointDone
    PROVE  RowsTold'
<1>0. Types /\ Turns /\ RowsTold /\ SP!Types  BY DEF IInv, SP!IInv
<1> DEFINE y == [cell |-> SP!Cell, from |-> Rs]
<1>1. /\ rows' = Append(rows, y) /\ pt # NoPoint /\ Quiet("main") /\ pt' = NoPoint
      /\ told' = told /\ sinks' = sinks
      BY SameSteps DEF PointDone, SP!Row, outVars
<1>2. Pending /\ ~Pending'  BY <1>1 DEF Pending
<1>3. SameSinks  BY <1>1 DEF SameSinks
<1>4. After(0, "point")' = After(0, "point")  BY <1>3, SameAfter
<1>5. y.cell = SP!Cell  OBVIOUS
<1> HIDE DEF y
<1>6. /\ Len(rows) \in Nat /\ DOMAIN rows = 1 .. Len(rows) /\ DOMAIN rows' = 1 .. Len(rows) + 1
      /\ \A a \in DOMAIN rows : rows'[a] = rows[a]
      /\ rows'[Len(rows) + 1] = y
  <2> DEFINE R == [cell : SP!Cells, from : SP!Results]
  <2>1. rows \in Seq(R)  BY <1>0 DEF SP!Types
  <2> HIDE DEF R
  <2> QED BY <1>1, <2>1
<1> DEFINE N == Len(rows) + 1
<1>7. N \in DOMAIN rows' /\ \A a \in DOMAIN rows : a \in DOMAIN rows' /\ a < N  BY <1>6
<1>8. \A c : HasRow(c) \/ c = SP!Cell => HasRow(c)'  BY <1>5, <1>6, <1>7 DEF HasRow
<1>9. Points' = Points  BY <1>1 DEF Points
<1>10. After(0, "point") # 0 =>
      /\ \A n \in Points : HasRow(told[n].cell) \/ (Pending /\ told[n].cell = SP!Cell)
      /\ \A a \in DOMAIN rows : \E n \in Points : told[n].cell = rows[a].cell
      /\ Pending => \E n \in Points : told[n].cell = SP!Cell
      /\ \A a, b \in Points : a < b =>
            \/ \E c, d \in DOMAIN rows :
                  c < d /\ rows[c].cell = told[a].cell /\ rows[d].cell = told[b].cell
            \/ Pending /\ HasRow(told[a].cell) /\ told[b].cell = SP!Cell
      BY <1>0 DEF RowsTold
<1> SUFFICES ASSUME After(0, "point") # 0
             PROVE  RowsTold'
    BY <1>4 DEF RowsTold
<1>11. \A n \in Points : HasRow(told[n].cell)'
  <2> SUFFICES ASSUME NEW n \in Points PROVE HasRow(told[n].cell)'  OBVIOUS
  <2>1. PICK c : c = told[n].cell  OBVIOUS
  <2>2. HasRow(c)'  BY <1>8, <1>10, <2>1
  <2> QED BY <1>1, <2>1, <2>2 DEF HasRow
<1>12. \A a \in DOMAIN rows' : \E n \in Points : told[n].cell = rows'[a].cell
  <2> SUFFICES ASSUME NEW a \in DOMAIN rows' PROVE \E n \in Points : told[n].cell = rows'[a].cell  OBVIOUS
  <2>1. CASE a \in DOMAIN rows  BY <1>6, <1>10, <2>1
  <2>2. CASE a = Len(rows) + 1  BY <1>2, <1>5, <1>6, <1>10, <2>2
  <2> QED BY <1>6, <2>1, <2>2
<1>13. ASSUME NEW a \in Points, NEW b \in Points, a < b
       PROVE  \E c, d \in DOMAIN rows' : c < d /\ rows'[c].cell = told[a].cell /\ rows'[d].cell = told[b].cell
  <2>1. CASE \E c, d \in DOMAIN rows :
                c < d /\ rows[c].cell = told[a].cell /\ rows[d].cell = told[b].cell
        BY <1>6, <1>7, <2>1
  <2>2. CASE HasRow(told[a].cell) /\ told[b].cell = SP!Cell
    <3>1. PICK c \in DOMAIN rows : rows[c].cell = told[a].cell  BY <2>2 DEF HasRow
    <3>2. c \in DOMAIN rows' /\ c < N /\ rows'[c].cell = told[a].cell  BY <1>6, <1>7, <3>1
    <3>3. N \in DOMAIN rows' /\ rows'[N].cell = told[b].cell  BY <1>5, <1>6, <1>7, <2>2
    <3> HIDE DEF N
    <3> QED BY <3>2, <3>3
  <2> QED BY <1>10, <1>13, <2>1, <2>2
<1> QED BY <1>1, <1>2, <1>9, <1>11, <1>12, <1>13 DEF RowsTold

\* Nobody is in a sink before the reports start, nor once the sweep is over.
LEMMA StageOfWriters ==
    ASSUME Types, Turns, Pages, NEW w \in Threads, Turn(w) \/ Put(w)
    PROVE  stage \in {"start", "sweep"}
<1>1. ~Quiet(w)  BY WriterSteps
<1> QED BY <1>1, OneWriter

LEMMA RowsToldStep ==
    ASSUME IInv, SP!IInv, [Next]_vars
    PROVE  RowsTold'
<1>0. Types /\ Turns /\ Pages /\ RowsTold /\ Opened /\ SP!Types  BY DEF IInv, SP!IInv
<1>1. CASE ParseToken \/ ParseDone
  <2>1. stage = "parse" /\ UNCHANGED <<rows, told, pt>>
        BY <1>1 DEF ParseToken, ParseDone, sweepVars
  <2>2. told' = << >> /\ rows' = << >> /\ pt' = NoPoint  BY <1>0, <2>1 DEF Opened, Turns
  <2>3. Points' = {} /\ ~Pending' /\ DOMAIN rows' = {}  BY <2>2 DEF Points, Pending
  <2> QED BY <2>3 DEF RowsTold
<1>2. CASE Probe \/ Point
  <2>1. /\ UNCHANGED <<told, rows, sinks, ei, ti, si>> /\ pt = NoPoint
    <3>1. CASE Probe
      <4>1. UNCHANGED <<told, rows, sinks, ei, ti, si>> /\ stage = "start"  BY <3>1 DEF Probe, sweepVars
      <4> QED BY <1>0, <4>1 DEF Turns
    <3>2. CASE Point  BY <3>2 DEF Point, sweepVars
    <3> QED BY <1>2, <3>1, <3>2
  <2>2. SameSinks  BY <2>1 DEF SameSinks
  <2>3. After(0, "point")' = After(0, "point")  BY <2>2, SameAfter
  <2>4. CASE After(0, "point") = 0  BY <2>3, <2>4 DEF RowsTold
  <2>5. CASE After(0, "point") # 0
    <3>1. ~Pending  BY <2>1 DEF Pending
    <3>2. ~Pending'
      <4>1. CASE Probe
        <5>1. pt' = pt  BY <4>1 DEF Probe
        <5> QED BY <2>1, <5>1 DEF Pending
      <4>2. CASE Point
        <5> DEFINE c == Cardinality(DOMAIN pt'.ops)
                   x == Rec("point", Sweep!Cell, 0, 0, c)
        <5>1. Begin("main", x)  BY <4>2 DEF Point
        <5>2. c \in Nat  BY <4>2, PointSize DEF Point
        <5> HIDE DEF c
        <5>3. x \in Recs
          <6>1. Sweep!Cell \in Int \X Int \X Int  BY <1>0, Places
          <6> QED BY <5>2, <6>1 DEF Rec, Recs, Kinds
        <5>4. x.what = "point"  BY Records
        <5> HIDE DEF x
        <5>5. wr'["main"].at = After(0, "point")  BY <1>0, <5>1, <5>3, <5>4, NewReport DEF Threads
        <5> QED BY <2>5, <5>5 DEF Pending, Quiet
      <4> QED BY <1>2, <4>1, <4>2
    <3> QED BY <1>0, <2>1, <2>3, <3>1, <3>2, RowsSame
  <2> QED BY <2>4, <2>5
<1>3. CASE StartSweep \/ StartWatch \/ StopWatch \/ JoinWatch \/ EndSweep \/ CloseSink \/ Plot \/ Exit \/ UNCHANGED vars
  <2>1. UNCHANGED <<told, rows, sinks, ei, ti, si, pt, wr>>
        BY <1>3 DEF StartSweep, StartWatch, StopWatch, JoinWatch, EndSweep, CloseSink, Plot, Exit,
              vars, outVars, sweepVars
  <2>2. SameSinks /\ SP!Cell' = SP!Cell /\ (Pending' <=> Pending)
        BY <2>1 DEF SameSinks, SP!Cell, Pending, Quiet
  <2>3. After(0, "point")' = After(0, "point")  BY <2>2, SameAfter
  <2> QED BY <1>0, <2>1, <2>2, <2>3, RowsSame
<1>4. CASE Sample
  <2> DEFINE x == Rec(watch, Tag, r, nsamp + 1, Metrics)
  <2>1. /\ UNCHANGED <<told, rows, sinks, pt>> /\ watch \in Samples
        BY <1>4 DEF Sample, Samples, sweepVars
  <2>2. SameSinks  BY <2>1 DEF SameSinks
  <2>3. After(0, "point")' = After(0, "point")  BY <2>2, SameAfter
  <2>4. ~Pending /\ ~Pending'  BY <1>0, <2>1 DEF Turns, Pending, Samples
  <2> QED BY <1>0, <2>1, <2>3, <2>4, RowsSame
<1>5. CASE \E w \in {"main", "watch"} : Turn(w) \/ Put(w)
  <2>1. PICK w \in Threads : Turn(w) \/ Put(w)  BY <1>5 DEF Threads
  <2>2. /\ Steady /\ SameSinks /\ ~Quiet(w)
        /\ \A v \in Threads : v # w => wr'[v] = wr[v]
        /\ (told' = told /\ ~Quiet(w)') \/ (told' = Append(told, wr[w].rec) /\ Quiet(w)')
        BY <1>0, <2>1, WriterSteps
  <2>3. After(0, "point")' = After(0, "point")  BY <2>2, SameAfter
  <2>4. UNCHANGED <<rows, ei, ti, si, pt>>  BY <2>2 DEF Steady, sweepVars
  <2>5. w = "watch" => (Pending' <=> Pending)  BY <2>2, <2>4 DEF Pending, Quiet, Threads
  <2>6. CASE told' = told /\ ~Quiet(w)'
    <3>1. Pending' <=> Pending
      <4>1. CASE w = "watch"  BY <2>5, <4>1
      <4>2. CASE w = "main"  BY <2>2, <2>6, <4>2 DEF Pending
      <4> QED BY <4>1, <4>2 DEF Threads
    <3>2. SP!Cell' = SP!Cell  BY <2>4 DEF SP!Cell
    <3> QED BY <1>0, <2>3, <2>4, <2>6, <3>1, <3>2, RowsSame
  <2>7. CASE told' = Append(told, wr[w].rec) /\ Quiet(w)'
    <3>1. Tells(w)  BY <2>2, <2>7 DEF Tells
    <3> QED BY <2>3, <2>5, <3>1, PointTold
  <2> QED BY <2>2, <2>6, <2>7
<1>6. CASE SetupReturns \/ TimedReturns \/ CloseStore
  <2>1. UNCHANGED <<told, sinks, pt>>  BY <1>6 DEF SetupReturns, TimedReturns, CloseStore, outVars
  <2>2. rows' = rows /\ pc # "row"
        BY <1>6, SameSteps DEF SetupReturns, TimedReturns, CloseStore,
              SP!SetupOk, SP!SetupNull, SP!TimedOk, SP!TimedFailed, SP!Close
  <2>3. SameSinks  BY <2>1 DEF SameSinks
  <2>4. After(0, "point")' = After(0, "point")  BY <2>3, SameAfter
  <2>5. ~Pending /\ ~Pending'  BY <1>0, <2>1, <2>2 DEF Turns, Pending
  <2> QED BY <1>0, <2>1, <2>2, <2>4, <2>5, RowsSame
<1>7. CASE PointDone  BY <1>7, RowWritten
<1> QED BY <1>1, <1>2, <1>3, <1>4, <1>5, <1>6, <1>7 DEF Next, Ended

-----------------------------------------------------------------------------
(* The files                                                                 *)

\* Where a step may take main, and what the steps there leave alone.
LEMMA Stages ==
    ASSUME IInv, SP!IInv, [Next]_vars
    PROVE  /\ ParseToken \/ ParseDone \/ (stage' = "parse" <=> stage = "parse")
           /\ ~(ParseToken \/ ParseDone) =>
                 /\ job' = job /\ SameSinks /\ (stage' = "exit 2" <=> stage = "exit 2")
                 /\ stage = "exit 2" => UNCHANGED <<told, rows, wr, disk>>
                 /\ stage = "parse" => UNCHANGED <<told, rows, wr, disk, sinks, k>>
           /\ ~(EndSweep \/ CloseSink \/ Exit \/ Plot) /\ stage' \in {"close", "plot", "exit 0"} =>
                 stage' = stage /\ UNCHANGED <<job, k, sinks, disk>>
<1>0. Types /\ Turns /\ Pages  BY DEF IInv
<1>1. CASE ParseToken \/ ParseDone
  <2>1. stage' \in {"parse", "start", "exit 2"}  BY <1>1 DEF ParseToken, ParseDone
  <2> QED BY <1>1, <2>1
<1>2. CASE \E w \in {"main", "watch"} : Turn(w) \/ Put(w)
  <2>1. PICK w \in Threads : Turn(w) \/ Put(w)  BY <1>2 DEF Threads
  <2>2. stage \in {"start", "sweep"} /\ Steady /\ SameSinks  BY <1>0, <2>1, StageOfWriters, WriterSteps
  <2>3. stage' = stage /\ job' = job  BY <2>2 DEF Steady
  <2> QED BY <2>2, <2>3
<1>3. CASE Probe \/ StartSweep \/ StartWatch \/ Sample \/ StopWatch \/ JoinWatch
  <2>1. /\ stage' \in {"start", "sweep"} /\ job' = job /\ sinks' = sinks /\ stage \in {"start", "sweep"}
    <3>1. CASE Probe \/ StartSweep \/ StartWatch  BY <3>1 DEF Probe, StartSweep, StartWatch, outVars
    <3>2. CASE Sample \/ StopWatch \/ JoinWatch
      <4>1. watch \in Samples /\ UNCHANGED <<stage, job, sinks>>
            BY <3>2 DEF Sample, StopWatch, JoinWatch, Samples, outVars
      <4> QED BY <1>0, <4>1 DEF Turns, Samples
    <3> QED BY <1>3, <3>1, <3>2
  <2>2. SameSinks  BY <2>1 DEF SameSinks
  <2> QED BY <2>1, <2>2
<1>4. CASE SetupReturns \/ TimedReturns \/ Point \/ PointDone \/ CloseStore
  <2>1. stage' = "sweep" /\ job' = job /\ sinks' = sinks /\ stage = "sweep"
        BY <1>4 DEF SetupReturns, TimedReturns, Point, PointDone, CloseStore, outVars
  <2>2. SameSinks  BY <2>1 DEF SameSinks
  <2> QED BY <2>1, <2>2
<1>5. CASE EndSweep \/ CloseSink \/ Plot \/ Exit
  <2>1. /\ stage' \in {"close", "plot", "exit 0"} /\ job' = job /\ sinks' = sinks
        /\ stage \notin {"parse", "exit 2"}
        BY <1>5 DEF EndSweep, CloseSink, Plot, Exit, outVars
  <2>2. SameSinks  BY <2>1 DEF SameSinks
  <2> QED BY <1>5, <2>1, <2>2
<1>6. CASE UNCHANGED vars
  <2>1. UNCHANGED <<stage, job, told, rows, wr, disk, sinks, k>>  BY <1>6 DEF vars, outVars, sweepVars
  <2>2. SameSinks  BY <2>1 DEF SameSinks
  <2> QED BY <2>1, <2>2
<1> QED BY <1>1, <1>2, <1>3, <1>4, <1>5, <1>6 DEF Next, Ended

LEMMA OpenedStep ==
    ASSUME IInv, SP!IInv, [Next]_vars
    PROVE  Opened'
<1>0. Types /\ Turns /\ Pages /\ Opened  BY DEF IInv
<1>1. CASE ~(ParseToken \/ ParseDone)
  <2>1. /\ job' = job /\ SameSinks /\ (stage' = "exit 2" <=> stage = "exit 2")
        /\ (stage' = "parse" <=> stage = "parse")
        /\ stage = "exit 2" => UNCHANGED <<told, rows, wr, disk>>
        /\ stage = "parse" => UNCHANGED <<told, rows, wr, disk, sinks, k>>
        BY <1>1, Stages
  <2>2. Paths' = Paths  BY <2>1 DEF Paths
  <2>3. stage' \notin {"parse", "exit 2"} =>
           \A p \in Paths' \ {Stdout} : \E s \in DOMAIN sinks' : sinks'[s].path = p
        BY <1>0, <2>1, <2>2 DEF Opened, SameSinks
  <2>4. stage' \in {"parse", "exit 2"} => /\ told' = << >> /\ rows' = << >>
                                          /\ \A w \in Threads : wr'[w] = Idle
                                          /\ \A p \in Paths' : disk'[p].lines = << >>
        BY <1>0, <2>1, <2>2 DEF Opened
  <2>5. stage' = "parse" => /\ k' = Len(sinks') + 1 /\ Len(sinks') <= Len(job'.spec)
                            /\ \A s \in DOMAIN sinks' : sinks'[s].path = job'.spec[s].path
        BY <1>0, <2>1 DEF Opened
  <2>6. Idle' = Idle  BY DEF Idle, NoRec, Rec, Sweep!NoCell
  <2> QED BY <2>3, <2>4, <2>5, <2>6 DEF Opened
<1>2. CASE ParseToken \/ ParseDone
  <2>0. /\ stage = "parse" /\ UNCHANGED <<job, told, rows, wr>>
        BY <1>2 DEF ParseToken, ParseDone, sweepVars
  <2>1. /\ k = Len(sinks) + 1 /\ Len(sinks) <= Len(job.spec)
        /\ \A s \in DOMAIN sinks : sinks[s].path = job.spec[s].path
        /\ told = << >> /\ rows = << >> /\ \A w \in Threads : wr[w] = Idle
        /\ \A p \in Paths : disk[p].lines = << >>
        BY <1>0, <2>0 DEF Opened
  <2>2. Paths' = Paths  BY <2>0 DEF Paths
  <2>s. /\ Len(sinks) \in Nat /\ DOMAIN sinks = 1 .. Len(sinks)
        /\ Len(job.spec) \in Nat /\ DOMAIN job.spec = 1 .. Len(job.spec)
    <3> DEFINE X == [name : Names, path : Paths, hdr : BOOLEAN]
               Y == [name : STRING, path : STRING]
    <3>1. sinks \in Seq(X)  BY <1>0 DEF Types, Names
    <3>2. job.spec \in Seq(Y)  BY <1>0, BoundsAssumption DEF Types
    <3> HIDE DEF X, Y
    <3> QED BY <3>1, <3>2
  <2>3. \A p \in Paths' : disk'[p].lines = << >>
    <3>1. CASE disk' = disk  BY <2>1, <2>2, <3>1
    <3>2. CASE disk' # disk
      <4>1. disk' = [disk EXCEPT ![job.spec[k].path].open = TRUE]
            BY <1>2, <3>2 DEF ParseToken, ParseDone
      <4>2. DOMAIN disk = Paths  BY <1>0 DEF Types
      <4>3. \A p \in Paths : disk'[p].lines = disk[p].lines  BY <4>1, <4>2
      <4> QED BY <2>1, <2>2, <4>3
    <3> QED BY <3>1, <3>2
  <2>4. ASSUME stage' = "parse"
        PROVE  /\ k' = Len(sinks') + 1 /\ Len(sinks') <= Len(job'.spec)
               /\ \A s \in DOMAIN sinks' : sinks'[s].path = job'.spec[s].path
    <3> DEFINE x == [name |-> job.spec[k].name, path |-> job.spec[k].path, hdr |-> FALSE]
    <3>1. k <= Len(job.spec) /\ sinks' = Append(sinks, x) /\ k' = k + 1
          BY <1>2, <2>4 DEF ParseToken, ParseDone
    <3>2. x.path = job.spec[k].path  OBVIOUS
    <3> DEFINE X == [name : Names, path : Paths, hdr : BOOLEAN]
    <3>3. sinks \in Seq(X)  BY <1>0 DEF Types, Names
    <3> HIDE DEF x, X
    <3>4. /\ Len(sinks') = Len(sinks) + 1 /\ DOMAIN sinks' = 1 .. Len(sinks) + 1
          /\ sinks'[Len(sinks) + 1] = x /\ \A s \in DOMAIN sinks : sinks'[s] = sinks[s]
          BY <3>1, <3>3
    <3>5. ASSUME NEW s \in DOMAIN sinks' PROVE sinks'[s].path = job.spec[s].path
      <4>1. CASE s \in DOMAIN sinks  BY <2>1, <3>4, <4>1
      <4>2. CASE s = Len(sinks) + 1  BY <2>1, <3>2, <3>4, <4>2
      <4> QED BY <2>s, <3>4, <4>1, <4>2
    <3> QED BY <2>0, <2>1, <2>s, <3>1, <3>4, <3>5
  <2>5. ASSUME stage' \notin {"parse", "exit 2"}, NEW p \in Paths' \ {Stdout}
        PROVE  \E s \in DOMAIN sinks' : sinks'[s].path = p
    <3>1. k > Len(job.spec) /\ (sinks # << >> => sinks' = sinks)
          BY <1>2, <2>0, <2>5 DEF ParseToken, ParseDone
    <3>2. Len(sinks) = Len(job.spec)  BY <2>1, <2>s, <3>1
    <3>3. PICK s \in DOMAIN job.spec : job.spec[s].path = p  BY <2>2, <2>5 DEF Paths
    <3>4. s \in DOMAIN sinks /\ sinks[s].path = p  BY <2>1, <2>s, <3>2, <3>3
    <3>5. sinks # << >>  BY <3>4
    <3> QED BY <3>1, <3>4, <3>5
  <2>6. Idle' = Idle  BY DEF Idle, NoRec, Rec, Sweep!NoCell
  <2> QED BY <2>0, <2>1, <2>3, <2>4, <2>5, <2>6 DEF Opened
<1> QED BY <1>1, <1>2

\* A file that is closed and flushed.
Shut(d) == ~d.open /\ d.flushed = Len(d.lines)

LEMMA ClosedStep ==
    ASSUME IInv, SP!IInv, [Next]_vars
    PROVE  Closed'
<1>0. Types /\ Opened /\ Closed  BY DEF IInv
<1>s. Len(sinks) \in Nat /\ DOMAIN sinks = 1 .. Len(sinks) /\ \A s \in DOMAIN sinks : sinks[s].path \in Paths
  <2> DEFINE X == [name : Names, path : Paths, hdr : BOOLEAN]
  <2>1. sinks \in Seq(X)  BY <1>0 DEF Types, Names
  <2>2. \A s \in DOMAIN sinks : sinks[s].path \in Paths  BY <1>0, Sinks
  <2> HIDE DEF X
  <2> QED BY <2>1, <2>2
<1>d. k \in Nat /\ DOMAIN disk = Paths /\ \A p \in Paths : disk[p] = [lines |-> disk[p].lines, flushed |-> disk[p].flushed, open |-> disk[p].open]
  <2> DEFINE X == Seq(Lines)
  <2>1. disk \in [Paths -> [lines : X, flushed : Nat, open : BOOLEAN]] /\ k \in Nat  BY <1>0 DEF Types
  <2> HIDE DEF X
  <2> QED BY <2>1
<1>c. /\ stage = "close" => \A s \in DOMAIN sinks : s < k /\ sinks[s].path # Stdout => Shut(disk[sinks[s].path])
      /\ stage \in {"plot", "exit 0"} => \A p \in Paths \ {Stdout} : Shut(disk[p])
      BY <1>0 DEF Closed, Shut
<1>p. stage = "close" /\ k > Len(sinks) => \A p \in Paths \ {Stdout} : Shut(disk[p])
  <2> SUFFICES ASSUME stage = "close", k > Len(sinks), NEW p \in Paths \ {Stdout} PROVE Shut(disk[p])  OBVIOUS
  <2>1. PICK s \in DOMAIN sinks : sinks[s].path = p  BY <1>0 DEF Opened
  <2>2. s < k  BY <1>d, <1>s, <2>1
  <2> QED BY <1>c, <2>1, <2>2
<1>1. CASE stage' \notin {"close", "plot", "exit 0"}  BY <1>1 DEF Closed
<1>2. CASE EndSweep
  <2>1. stage' = "close" /\ k' = 1 /\ sinks' = sinks  BY <1>2 DEF EndSweep
  <2>2. \A s \in DOMAIN sinks' : ~(s < k')  BY <1>s, <2>1
  <2> QED BY <2>1, <2>2 DEF Closed
<1>3. CASE CloseSink
  <2> DEFINE y(p) == [disk[p] EXCEPT !.flushed = Len(disk[p].lines), !.open = FALSE]
  <2>1. /\ stage = "close" /\ stage' = "close" /\ k' = k + 1 /\ sinks' = sinks /\ k <= Len(sinks) /\ job' = job
        /\ disk' = [p \in Paths |-> IF p = sinks[k].path /\ p # Stdout THEN y(p) ELSE disk[p]]
        BY <1>3 DEF CloseSink
  <2>2. \A p \in Paths : Shut(y(p))  BY <1>d DEF Shut
  <2> HIDE DEF y
  <2>3. \A p \in Paths : /\ p = sinks[k].path /\ p # Stdout => Shut(disk'[p])
                         /\ Shut(disk[p]) => Shut(disk'[p])
        BY <2>1, <2>2
  <2>4. ASSUME NEW s \in DOMAIN sinks, s < k + 1, sinks[s].path # Stdout PROVE Shut(disk'[sinks[s].path])
    <3>1. sinks[s].path \in Paths  BY <1>s
    <3>2. CASE s < k  BY <1>c, <2>1, <2>3, <2>4, <3>1, <3>2
    <3>3. CASE s = k  BY <2>3, <2>4, <3>1, <3>3
    <3> QED BY <1>d, <1>s, <2>4, <3>2, <3>3
  <2> QED BY <2>1, <2>4 DEF Closed, Shut
<1>4. CASE Plot
  <2>1. stage = "close" /\ k > Len(sinks) /\ stage' = "plot" /\ UNCHANGED <<job, disk>>  BY <1>4 DEF Plot, outVars
  <2>2. Paths' = Paths  BY <2>1 DEF Paths
  <2> QED BY <1>p, <2>1, <2>2 DEF Closed, Shut
<1>5. CASE Exit
  <2> DEFINE y(p) == [disk[p] EXCEPT !.flushed = Len(disk[p].lines)]
  <2>1. /\ stage = "plot" \/ (stage = "close" /\ k > Len(sinks))
        /\ stage' = "exit 0" /\ job' = job /\ disk' = [p \in Paths |-> y(p)]
        BY <1>5 DEF Exit
  <2>2. \A p \in Paths : Shut(disk[p]) => Shut(y(p))  BY <1>d DEF Shut
  <2> HIDE DEF y
  <2>3. \A p \in Paths \ {Stdout} : Shut(disk'[p])  BY <1>c, <1>p, <2>1, <2>2
  <2>4. Paths' = Paths  BY <2>1 DEF Paths
  <2> QED BY <2>1, <2>3, <2>4 DEF Closed, Shut
<1>6. CASE ~(EndSweep \/ CloseSink \/ Exit \/ Plot) /\ stage' \in {"close", "plot", "exit 0"}
  <2>1. stage' = stage /\ UNCHANGED <<job, k, sinks, disk>>  BY <1>6, Stages
  <2>2. Paths' = Paths  BY <2>1 DEF Paths
  <2> QED BY <1>0, <2>1, <2>2 DEF Closed
<1> QED BY <1>1, <1>2, <1>3, <1>4, <1>5, <1>6

-----------------------------------------------------------------------------
(* The results                                                               *)

LEMMA TakenStep ==
    ASSUME IInv, SP!IInv, [Next]_vars
    PROVE  Taken'
<1>0. Types /\ Turns /\ Pages /\ Taken /\ SP!Types /\ SP!Position  BY DEF IInv, SP!IInv
<1>r. cfg.repeat \in Nat \ {0} /\ r \in 0 .. cfg.repeat - 1  BY <1>0, SweepSizes, SP!Sizes DEF SP!Types
<1> DEFINE D == 0 .. cfg.repeat - 1
           Y == PointResults \cup {NoResult}
           G == job.results
<1>d. G \subseteq PointResults  BY <1>0, BoundsAssumption DEF Types
<1>t. /\ res \in [D -> Y]
      /\ \A n \in D : (pc \in {"setup", "timed"} /\ n < r) \/ pc = "row" => res[n] \in G
      /\ pt # NoPoint => pt = summarize_point([n \in 1 .. cfg.repeat |-> res[n - 1]])
      BY <1>0 DEF Taken
<1>1. CASE UNCHANGED <<cfg, pc, r, job, res, pt>>  BY <1>0, <1>1 DEF Taken
<1>2. CASE Point
  <2>1. UNCHANGED <<cfg, pc, r, job, res>> /\ pt' = summarize_point([n \in 1 .. cfg.repeat |-> res[n - 1]])
        BY <1>2 DEF Point, sweepVars
  <2> QED BY <1>t, <2>1 DEF Taken
<1>3. CASE SetupReturns \/ TimedReturns \/ PointDone \/ CloseStore
  <2>1. job' = job /\ pt' = NoPoint
    <3>1. CASE PointDone  BY <3>1 DEF PointDone
    <3>2. CASE SetupReturns \/ TimedReturns \/ CloseStore
      <4>1. job' = job /\ pt' = pt  BY <3>2 DEF SetupReturns, TimedReturns, CloseStore
      <4>2. pc # "row"
            BY <3>2, SameSteps DEF SetupReturns, TimedReturns, CloseStore,
                SP!SetupOk, SP!SetupNull, SP!TimedOk, SP!TimedFailed, SP!Close
      <4> QED BY <1>0, <4>1, <4>2 DEF Turns
    <3> QED BY <1>3, <3>1, <3>2
  <2>2. CASE SP!TimedOk /\ \E x \in G : res' = [res EXCEPT ![r] = x]
    <3>1. PICK x \in G : res' = [res EXCEPT ![r] = x]  BY <2>2
    <3>2. x \in Y  BY <1>d, <3>1
    <3>3. /\ cfg' = cfg /\ pc = "timed"
          /\ (r' = r + 1 /\ pc' \in {"setup", "timed"}) \/ (~(r + 1 < cfg.repeat) /\ pc' = "row")
          BY <2>2 DEF SP!TimedOk
    <3> HIDE DEF Y, G
    <3>4. res' \in [D -> Y] /\ \A n \in D : res'[n] = IF n = r THEN x ELSE res[n]
          BY <1>r, <1>t, <3>1, <3>2
    <3>5. \A n \in D : (pc' \in {"setup", "timed"} /\ n < r') \/ pc' = "row" => n = r \/ n < r
          BY <1>r, <3>3
    <3>6. \A n \in D : (pc' \in {"setup", "timed"} /\ n < r') \/ pc' = "row" => res'[n] \in G
          BY <1>t, <3>1, <3>3, <3>4, <3>5
    <3> QED BY <2>1, <3>3, <3>4, <3>6 DEF Taken, Y, G
  <2>3. CASE res' = res /\ ~(SP!TimedOk /\ \E x \in G : res' = [res EXCEPT ![r] = x])
    <3>1. SP!SetupOk \/ SP!SetupNull \/ SP!TimedFailed \/ SP!Row \/ SP!Close
          BY <1>3, <2>3, SameSteps DEF SetupReturns, TimedReturns, PointDone, CloseStore
    <3>2. cfg' = cfg /\ pc' # "row" /\ (SP!SetupOk \/ (pc' \in {"setup", "timed"} => r' = 0))
      <4>1. CASE SP!SetupOk  BY <4>1 DEF SP!SetupOk
      <4>2. CASE SP!SetupNull
        <5>1. /\ pc = "setup" /\ cfg' = cfg
              /\ (SP!Mode = "repeat" /\ SP!NextCell) \/ (SP!Mode # "repeat" /\ SP!NextGroup)
              BY <4>2 DEF SP!SetupNull
        <5>2. SP!LoopTypes  BY <1>0, <5>1, SweepSizes, SP!LeavingACell, SP!LeavingAGroup
        <5> QED BY <5>1, <5>2 DEF SP!LoopTypes
      <4>3. CASE SP!TimedFailed \/ SP!Row
        <5>1. SP!NextCell /\ pc \in {"timed", "row"} /\ cfg' = cfg
              BY <4>3 DEF SP!TimedFailed, SP!Row, SP!AfterFailure
        <5>2. SP!LoopTypes  BY <1>0, <5>1, SweepSizes, SP!LeavingACell
        <5> QED BY <5>1, <5>2 DEF SP!LoopTypes
      <4>4. CASE SP!Close
        <5>1. SP!NextGroup /\ pc = "close" /\ cfg' = cfg  BY <4>4 DEF SP!Close
        <5>2. SP!Mode # "repeat"  BY <1>0, <5>1 DEF SP!Position
        <5>3. SP!LoopTypes  BY <1>0, <5>1, <5>2, SweepSizes, SP!LeavingAGroup
        <5> QED BY <5>1, <5>3 DEF SP!LoopTypes
      <4> QED BY <3>1, <4>1, <4>2, <4>3, <4>4
    <3>3. SP!SetupOk => pc = "setup" /\ r' = r  BY DEF SP!SetupOk
    <3> HIDE DEF Y, G
    <3>4. \A n \in D : (pc' \in {"setup", "timed"} /\ n < r') \/ pc' = "row" => res[n] \in G
      <4>1. CASE SP!SetupOk  BY <1>t, <3>2, <3>3, <4>1
      <4>2. CASE pc' \in {"setup", "timed"} => r' = 0  BY <1>r, <3>2, <4>2
      <4> QED BY <3>2, <4>1, <4>2
    <3> QED BY <1>t, <2>1, <2>3, <3>2, <3>4 DEF Taken, Y, G
  <2> QED BY <1>3, <2>2, <2>3, SameSteps DEF SetupReturns, TimedReturns, PointDone, CloseStore
<1>4. CASE ParseToken \/ ParseDone \/ Probe \/ StartSweep \/ StartWatch \/ Sample \/ StopWatch \/ JoinWatch
  <2>1. UNCHANGED <<cfg, pc, r, job, res, pt>>
        BY <1>4 DEF ParseToken, ParseDone, Probe, StartSweep, StartWatch, Sample, StopWatch, JoinWatch, sweepVars
  <2> QED BY <1>1, <2>1
<1>5. CASE EndSweep \/ CloseSink \/ Plot \/ Exit \/ UNCHANGED vars
  <2>1. UNCHANGED <<cfg, pc, r, job, res, pt>>
        BY <1>5 DEF EndSweep, CloseSink, Plot, Exit, vars, sweepVars
  <2> QED BY <1>1, <2>1
<1>6. CASE \E w \in {"main", "watch"} : Turn(w) \/ Put(w)
  <2>1. UNCHANGED <<cfg, pc, r, job, res, pt>>  BY <1>6 DEF Turn, Put, sweepVars
  <2> QED BY <1>1, <2>1
<1> QED BY <1>2, <1>3, <1>4, <1>5, <1>6 DEF Next, Ended

-----------------------------------------------------------------------------
(* The theorems                                                              *)

LEMMA FitsStep ==
    ASSUME IInv, SP!IInv, [Next]_vars
    PROVE  Fits'
<1>0. Types /\ Turns /\ Pages /\ Fits /\ SP!Types  BY DEF IInv, SP!IInv
<1>1. CASE \A w \in Threads : wr'[w].rec = wr[w].rec  BY <1>0, <1>1 DEF Fits
<1>2. ASSUME NEW w \in Threads, NEW x \in Recs, Begin(w, x), x.what \in Samples => x.size <= SAMPLE_METRIC_MAX
      PROVE  Fits'
  <2>1. wr'[w].rec = x /\ \A v \in Threads : v # w => wr'[v] = wr[v]  BY <1>0, <1>2, NewReport
  <2> QED BY <1>0, <1>2, <2>1 DEF Fits
<1>3. CASE Probe
  <2> DEFINE x == IF k = 0 THEN Rec("start", Sweep!NoCell, 0, 0, 0) ELSE Rec("probe", Sweep!NoCell, 0, k, 1)
  <2>1. Begin("main", x)  BY <1>3 DEF Probe
  <2>2. x.what \in {"start", "probe"}  BY Records
  <2>3. x \in Recs
    <3>1. Sweep!NoCell \in Int \X Int \X Int /\ k \in Nat  BY <1>0, Places DEF Types
    <3> QED BY <3>1 DEF Rec, Recs, Kinds
  <2> HIDE DEF x
  <2> QED BY <1>2, <2>1, <2>2, <2>3 DEF Threads, Samples
<1>4. CASE Sample
  <2> DEFINE x == Rec(watch, Tag, r, nsamp + 1, Metrics)
  <2>1. watch \in Samples /\ Begin("watch", x)  BY <1>4 DEF Sample, Samples
  <2>2. Metrics \in Nat /\ Metrics <= SAMPLE_METRIC_MAX  BY <1>0, Room
  <2>3. x \in Recs
    <3>1. Tag \in Int \X Int \X Int /\ r \in Int /\ nsamp \in Nat  BY <1>0, Places DEF Types
    <3> QED BY <2>1, <2>2, <3>1 DEF Rec, Recs, Kinds
  <2>4. x.size = Metrics  BY Records
  <2> HIDE DEF x
  <2> QED BY <1>2, <2>1, <2>2, <2>3, <2>4 DEF Threads
<1>5. CASE Point
  <2> DEFINE c == Cardinality(DOMAIN pt'.ops)
             x == Rec("point", Sweep!Cell, 0, 0, c)
  <2>1. Begin("main", x)  BY <1>5 DEF Point
  <2>2. c \in Nat  BY <1>5, PointSize DEF Point
  <2> HIDE DEF c
  <2>3. x \in Recs
    <3>1. Sweep!Cell \in Int \X Int \X Int  BY <1>0, Places
    <3> QED BY <2>2, <3>1 DEF Rec, Recs, Kinds
  <2>4. x.what = "point"  BY Records
  <2> HIDE DEF x
  <2> QED BY <1>2, <2>1, <2>3, <2>4 DEF Threads, Samples
<1>6. CASE \E w \in {"main", "watch"} : Turn(w) \/ Put(w)
  <2>1. PICK w \in Threads : Turn(w) \/ Put(w)  BY <1>6 DEF Threads
  <2>2. wr'[w].rec = wr[w].rec /\ \A v \in Threads : v # w => wr'[v] = wr[v]  BY <1>0, <2>1, WriterSteps
  <2> QED BY <1>1, <2>2
<1>7. CASE ParseToken \/ ParseDone \/ StartSweep \/ StartWatch \/ StopWatch \/ JoinWatch
  <2>1. wr' = wr  BY <1>7 DEF ParseToken, ParseDone, StartSweep, StartWatch, StopWatch, JoinWatch, outVars
  <2> QED BY <1>1, <2>1
<1>8. CASE SetupReturns \/ TimedReturns \/ PointDone \/ CloseStore
  <2>1. wr' = wr  BY <1>8 DEF SetupReturns, TimedReturns, PointDone, CloseStore, outVars
  <2> QED BY <1>1, <2>1
<1>9. CASE EndSweep \/ CloseSink \/ Plot \/ Exit \/ UNCHANGED vars
  <2>1. wr' = wr  BY <1>9 DEF EndSweep, CloseSink, Plot, Exit, vars, outVars
  <2> QED BY <1>1, <2>1
<1> QED BY <1>3, <1>4, <1>5, <1>6, <1>7, <1>8, <1>9 DEF Next, Ended

LEMMA Beginnings ==
    ASSUME Init
    PROVE  IInv
<1>1. /\ job \in Jobs /\ stage = "parse" /\ k = 1 /\ sinks = << >>
      /\ watch = "off" /\ nsamp = 0 /\ pt = NoPoint /\ told = << >>
      /\ wr = [w \in Threads |-> Idle]
      /\ disk = [p \in Paths |-> [lines |-> << >>, flushed |-> 0, open |-> p = Stdout]]
      /\ res = [n \in 0 .. cfg.repeat - 1 |-> NoResult]
      BY DEF Init, Threads
<1>2. /\ pc = "setup" /\ r = 0 /\ rows = << >> /\ cfg.repeat \in Nat \ {0}
      BY SweepAssumption, SameSteps DEF Init, SP!Init
<1>3. Idle.rec \in Recs /\ Idle.at = 0 /\ Idle.todo = << >> /\ Idle = [rec |-> Idle.rec, at |-> 0, todo |-> << >>]
      BY DEF Idle, NoRec, Rec, Recs, Kinds, Sweep!NoCell
<1>4. DOMAIN sinks = {} /\ Len(sinks) = 0  BY <1>1
<1>5. Types
  <2>1. wr \in [Threads -> [rec : Recs, at : Nat, todo : Seq(Lines)]]
    <3> DEFINE X == Recs
               Y == Seq(Lines)
    <3>1. << >> \in Y  OBVIOUS
    <3>2. Idle.rec \in X  BY <1>3
    <3> HIDE DEF X, Y
    <3>3. Idle \in [rec : X, at : Nat, todo : Y]  BY <1>3, <3>1, <3>2
    <3> QED BY <1>1, <3>3 DEF X, Y
  <2>2. disk \in [Paths -> [lines : Seq(Lines), flushed : Nat, open : BOOLEAN]]
    <3> DEFINE Y == Seq(Lines)
    <3>1. << >> \in Y  OBVIOUS
    <3> HIDE DEF Y
    <3>2. disk \in [Paths -> [lines : Y, flushed : Nat, open : BOOLEAN]]  BY <1>1, <3>1
    <3> QED BY <3>2 DEF Y
  <2> QED BY <1>1, <2>1, <2>2 DEF Types
<1>6. \A w \in Threads : wr[w] = Idle  BY <1>1
<1>7. Quiet("main") /\ Quiet("watch")  BY <1>3, <1>6 DEF Quiet, Threads
<1>8. Turns  BY <1>1, <1>7 DEF Turns
<1>9. \A p \in Paths : disk[p].lines = << >> /\ disk[p].flushed = 0  BY <1>1
<1>10. Pages
  <2>1. Blank  BY <1>1, <1>4, <1>6, <1>9 DEF Blank
  <2> QED BY <2>1, BlankPages
<1>11. Behind /\ Ordered  BY <1>1 DEF Behind, Ordered
<1>12. RowsTold
  <2>1. Points = {} /\ ~Pending /\ DOMAIN rows = {}  BY <1>1, <1>2 DEF Points, Pending
  <2> QED BY <2>1 DEF RowsTold
<1>13. Opened
  <2>1. Len(job.spec) \in Nat
    <3> DEFINE Y == [name : STRING, path : STRING]
    <3>1. job.spec \in Seq(Y)  BY <1>1, BoundsAssumption
    <3> HIDE DEF Y
    <3> QED BY <3>1
  <2> QED BY <1>1, <1>2, <1>4, <1>6, <1>9, <2>1 DEF Opened
<1>14. Closed  BY <1>1 DEF Closed
<1>15. Taken
  <2>1. \A n \in 0 .. cfg.repeat - 1 : ~(n < 0)  BY <1>2
  <2> QED BY <1>1, <1>2, <2>1 DEF Taken
<1>16. Fits
  <2>1. Idle.rec.what = "none"  BY DEF Idle, NoRec, Rec
  <2> QED BY <1>6, <2>1 DEF Fits, Samples
<1> QED BY <1>5, <1>8, <1>10, <1>11, <1>12, <1>13, <1>14, <1>15, <1>16 DEF IInv

\* The inductive invariant: who writes when, what stands in every file, what of
\* the sweep has been reported, and which results are in hand.
THEOREM ReportInvariant == Spec => []IInv
<1>1. Init => IInv  BY Beginnings
<1>2. IInv /\ SP!IInv /\ [Next]_vars => IInv'
  <2> SUFFICES ASSUME IInv, SP!IInv, [Next]_vars PROVE IInv'  OBVIOUS
  <2>1. Types' /\ Pages'  BY TypesStep, OutStep
  <2>2. Turns'  BY TurnsStep
  <2>3. Behind' /\ Ordered' /\ RowsTold'  BY BehindStep, OrderedStep, RowsToldStep
  <2>4. Opened' /\ Closed' /\ Taken' /\ Fits'  BY OpenedStep, ClosedStep, TakenStep, FitsStep
  <2> QED BY <2>1, <2>2, <2>3, <2>4 DEF IInv
<1> QED BY <1>1, <1>2, SweepHolds, PTL DEF Spec

\* Two threads that write to the same sinks without a lock never mix their
\* reports, a table has one header, and a sample fits its array.
THEOREM ReportsAreWhole == Spec => []WholeRecords
<1>1. IInv => WholeRecords
  <2> SUFFICES ASSUME IInv PROVE WholeRecords  OBVIOUS
  <2>0. Types /\ Turns /\ Together /\ Headers /\ Fits  BY DEF IInv, Pages
  <2>1. ASSUME NEW x \in Lines
        PROVE  [x EXCEPT !.part = @ + 1] = Shift(x, 1) /\ [x EXCEPT !.part = @ - 1] = Shift(x, -1)
    <3>1. x = [sink |-> x.sink, rec |-> x.rec, part |-> x.part] /\ x.part \in Int  BY DEF Lines
    <3>2. x.part - 1 = x.part + (-1)  BY <3>1
    <3> QED BY <3>1, <3>2 DEF Shift
  <2>2. DOMAIN wr = Threads  BY <2>0 DEF Types
  <2>3. ASSUME NEW p \in Paths, NEW n \in DOMAIN disk[p].lines
        PROVE  LET L == disk[p].lines
                   next == [L[n] EXCEPT !.part = @ + 1] IN
               /\ L[n].part > 1 => n > 1 /\ L[n - 1] = [L[n] EXCEPT !.part = @ - 1]
               /\ L[n].part \in 1 .. Total(L[n]) - 1 =>
                     IF n < Len(L) THEN L[n + 1] = next
                     ELSE \E w \in DOMAIN wr : wr[w].todo # << >> /\ Head(wr[w].todo) = next
    <3> DEFINE L == disk[p].lines
    <3>1. L[n] \in Lines  BY <2>0, <2>3, Disk
    <3>2. /\ [L[n] EXCEPT !.part = @ + 1] = Shift(L[n], 1)
          /\ [L[n] EXCEPT !.part = @ - 1] = Shift(L[n], -1)
          BY <2>1, <3>1
    <3>3. /\ L[n].part > 1 => n > 1 /\ L[n - 1] = Shift(L[n], -1)
          /\ L[n].part \in 1 .. Total(L[n]) - 1 =>
                IF n < Len(L) THEN L[n + 1] = Shift(L[n], 1)
                ELSE \E w \in Threads : wr[w].todo # << >> /\ Head(wr[w].todo) = Shift(L[n], 1)
          BY <2>0 DEF Together
    <3> QED BY <2>2, <3>2, <3>3
  <2>4. ASSUME NEW i \in DOMAIN sinks, Tabular(sinks[i].name)
        PROVE  LET L == disk[sinks[i].path].lines IN
               \A n \in DOMAIN L : L[n].sink = i =>
                   (L[n].part = HeaderPart <=> \A m \in 1 .. n - 1 : L[m].sink # i)
    <3>1. HeaderFirst(i, sinks[i].hdr, File(i))  BY <2>0, <2>4 DEF Headers
    <3> QED BY <3>1 DEF HeaderFirst, File
  <2>5. ASSUME NEW w \in DOMAIN wr, wr[w].rec.what \in {"seed", "run"}
        PROVE  wr[w].rec.size <= SAMPLE_METRIC_MAX
    <3> QED BY <2>0, <2>2, <2>5 DEF Fits, Samples
  <2> QED BY <2>3, <2>4, <2>5 DEF WholeRecords
<1> QED BY <1>1, ReportInvariant, PTL

\* The watcher reports only in the phase it watches, so that the samples of a
\* repeat come in order and none after the point of its cell.
THEOREM SamplesStayInOrder == Spec => []TimelineInOrder
<1>1. IInv /\ SP!IInv => TimelineInOrder
  <2> SUFFICES ASSUME IInv, SP!IInv PROVE TimelineInOrder  OBVIOUS
  <2>1. ~Quiet("watch") => watch = wr["watch"].rec.what /\ wr["watch"].rec.cell = Tag
    <3> SUFFICES ASSUME ~Quiet("watch") PROVE watch = wr["watch"].rec.what /\ wr["watch"].rec.cell = Tag  OBVIOUS
    <3>1. "watch" \in Threads  BY DEF Threads
    <3> QED BY <3>1, Reporter
  <2>2. Ordered  BY DEF IInv
  <2> QED BY <2>1, <2>2 DEF TimelineInOrder, Ordered, Samples
<1> QED BY <1>1, ReportInvariant, SweepHolds, PTL

-----------------------------------------------------------------------------

\* A report that is over has all its lines among the flushed ones of a table,
\* each once.
LEMMA SafeLines ==
    ASSUME IInv, NEW i \in DOMAIN sinks, Tabular(sinks[i].name),
           NEW n \in DOMAIN told, told[n].what \in Handles(sinks[i].name)
    PROVE  Cardinality(Safe(i, told[n])) = told[n].size
<1>0. Types /\ Origins /\ Once /\ Safely  BY DEF IInv, Pages
<1>1. PICK z : z = told[n]  OBVIOUS
<1>2. z \in Recs /\ z.size \in Nat /\ z.what \in Handles(sinks[i].name)  BY <1>0, <1>1, Told DEF Recs
<1>3. sinks[i].name \in Names /\ sinks[i].path \in Paths /\ i \in Nat \ {0}  BY <1>0, Sinks
<1>4. Size(sinks[i].name, z) = z.size /\ z.what # "none"
  <2>1. Size(sinks[i].name, z) = z.size  BY <1>2, <1>3, Lengths
  <2>2. z.what # "none"  BY <1>2, <1>3, Taking DEF Names
  <2> QED BY <2>1, <2>2
<1>5. PICK F, m : F = disk[sinks[i].path].lines /\ m = disk[sinks[i].path].flushed  OBVIOUS
<1>6. /\ F \in Seq(Lines) /\ m \in Nat /\ Len(F) \in Nat /\ m <= Len(F) /\ DOMAIN F = 1 .. Len(F)
      /\ \A a \in DOMAIN F : F[a] \in Lines
      BY <1>0, <1>3, <1>5, Disk DEF Safely
<1>7. \A p \in 1 .. z.size : \E a \in 1 .. m : F[a] = [sink |-> i, rec |-> z, part |-> p]
  <2>1. z \in Given(i)  BY <1>1, InGiven
  <2>2. Kept(i, z)  BY <1>0, <1>2, <2>1 DEF Safely
  <2> QED BY <1>5, <2>2 DEF Kept, Holds, File, Flushed
<1>8. \A a \in DOMAIN F : F[a].sink = i /\ F[a].rec = z =>
        F[a].part \in 1 .. z.size /\ F[a] = [sink |-> i, rec |-> z, part |-> F[a].part]
  <2> SUFFICES ASSUME NEW a \in DOMAIN F, F[a].sink = i, F[a].rec = z
               PROVE  F[a].part \in 1 .. z.size /\ F[a] = [sink |-> i, rec |-> z, part |-> F[a].part]
      OBVIOUS
  <2>1. F[a].part \in Int /\ F[a] = [sink |-> i, rec |-> z, part |-> F[a].part]
    <3>1. F[a] = [sink |-> F[a].sink, rec |-> F[a].rec, part |-> F[a].part] /\ F[a].part \in Int
          BY <1>6 DEF Lines
    <3> QED BY <3>1
  <2>2. /\ F[a].part >= 0 /\ (F[a].part = 0 => F[a].rec.what = "none")
        /\ F[a].sink > 0 /\ F[a].part > 0 => F[a].part <= Size(sinks[F[a].sink].name, F[a].rec)
        BY <1>0, <1>3, <1>5 DEF Origins
  <2>3. F[a].part # 0 /\ i > 0  BY <1>3, <1>4, <2>2
  <2>4. F[a].part > 0  BY <2>1, <2>2, <2>3
  <2>5. F[a].part <= z.size  BY <1>4, <2>2, <2>3, <2>4
  <2> QED BY <1>2, <2>1, <2>4, <2>5
<1>9. \A a, b \in DOMAIN F : F[a] = F[b] /\ F[a].sink = i /\ F[a].part > 0 => a = b
      BY <1>0, <1>5 DEF Once, File
<1> DEFINE W == {a \in 1 .. m : F[a].sink = i /\ F[a].rec = z}
           f == [p \in 1 .. z.size |-> CHOOSE a \in 1 .. m : F[a] = [sink |-> i, rec |-> z, part |-> p]]
<1>10. Safe(i, z) = W
  <2>1. Durable(sinks[i].path) = SubSeq(F, 1, m)  BY <1>5 DEF Durable
  <2>2. DOMAIN SubSeq(F, 1, m) = 1 .. m /\ \A a \in 1 .. m : SubSeq(F, 1, m)[a] = F[a]
    <3> DEFINE X == Lines
    <3>1. F \in Seq(X)  BY <1>6
    <3> HIDE DEF X
    <3> QED BY <1>6, <3>1
  <2> HIDE DEF W
  <2>3. Safe(i, z) = {a \in 1 .. m : F[a].sink = i /\ F[a].rec = z}  BY <2>1, <2>2 DEF Safe
  <2> QED BY <2>3 DEF W
<1>11. \A p \in 1 .. z.size : f[p] \in 1 .. m /\ F[f[p]] = [sink |-> i, rec |-> z, part |-> p]
      BY <1>7
<1>12. f \in Bijection(1 .. z.size, W)
  <2>0. DOMAIN f = 1 .. z.size /\ f = [p \in 1 .. z.size |-> f[p]]  OBVIOUS
  <2> HIDE DEF f
  <2>a. ASSUME NEW p \in 1 .. z.size
        PROVE  f[p] \in 1 .. m /\ F[f[p]].sink = i /\ F[f[p]].rec = z /\ F[f[p]].part = p
    <3>1. PICK x : x = F[f[p]]  OBVIOUS
    <3>2. x = [sink |-> i, rec |-> z, part |-> p]  BY <1>11, <3>1
    <3>3. x.sink = i /\ x.rec = z /\ x.part = p  BY <3>2
    <3> QED BY <1>11, <3>1, <3>3
  <2>1. \A p \in 1 .. z.size : f[p] \in W /\ F[f[p]].part = p  BY <2>a
  <2>2. f \in [1 .. z.size -> W]  BY <2>0, <2>1
  <2>3. \A p, q \in 1 .. z.size : f[p] = f[q] => p = q  BY <2>1
  <2>4. \A a \in W : \E p \in 1 .. z.size : f[p] = a
    <3> SUFFICES ASSUME NEW a \in W PROVE \E p \in 1 .. z.size : f[p] = a  OBVIOUS
    <3>1. a \in DOMAIN F /\ F[a].sink = i /\ F[a].rec = z  BY <1>6
    <3>2. PICK p \in 1 .. z.size : F[a] = [sink |-> i, rec |-> z, part |-> p]  BY <1>8, <3>1
    <3>3. F[f[p]] = F[a] /\ f[p] \in DOMAIN F  BY <1>6, <1>11, <3>2
    <3>4. F[f[p]].sink = i /\ F[f[p]].part > 0  BY <2>a, <2>1
    <3> QED BY <1>9, <3>1, <3>3, <3>4
  <2>5. f \in Injection(1 .. z.size, W)  BY <2>0, <2>2, <2>3 DEF Injection, IsInjective
  <2>6. f \in Surjection(1 .. z.size, W)  BY <2>2, <2>4 DEF Surjection
  <2> QED BY <2>5, <2>6 DEF Bijection
<1> HIDE DEF f, W
<1>13. ExistsBijection(1 .. z.size, W)  BY <1>12 DEF ExistsBijection
<1>14. Cardinality(W) = z.size  BY <1>2, <1>13, FS_CountingElements
<1> QED BY <1>1, <1>10, <1>14

\* A crash costs a table at most the report being made; the points told are the
\* rows of the sweep; and the plotter finds every file closed and complete.
THEOREM NothingIsLost == Spec => []NothingLost
<1>1. IInv => NothingLost
  <2> SUFFICES ASSUME IInv PROVE NothingLost  OBVIOUS
  <2>1. \A i \in DOMAIN sinks, n \in DOMAIN told :
          Tabular(sinks[i].name) /\ told[n].what \in Handles(sinks[i].name) =>
              Cardinality(Safe(i, told[n])) = told[n].size
        BY SafeLines
  <2>2. ASSUME stage \in {"close", "plot", "exit 0"}, After(0, "point") # 0
        PROVE  LET points == {n \in DOMAIN told : told[n].what = "point"} IN
               /\ {told[n].cell : n \in points} = {rows[n].cell : n \in DOMAIN rows}
               /\ \A a, b \in points : a < b =>
                     \E c, d \in DOMAIN rows :
                         c < d /\ rows[c].cell = told[a].cell /\ rows[d].cell = told[b].cell
    <3>1. ~Pending  BY <2>2 DEF IInv, Turns, Pending
    <3>2. /\ \A n \in Points : HasRow(told[n].cell)
          /\ \A a \in DOMAIN rows : \E n \in Points : told[n].cell = rows[a].cell
          /\ \A a, b \in Points : a < b =>
                \E c, d \in DOMAIN rows :
                    c < d /\ rows[c].cell = told[a].cell /\ rows[d].cell = told[b].cell
          BY <2>2, <3>1 DEF IInv, RowsTold
    <3>3. {told[n].cell : n \in Points} = {rows[n].cell : n \in DOMAIN rows}  BY <3>2 DEF HasRow
    <3> QED BY <3>2, <3>3 DEF Points
  <2>3. Closed  BY DEF IInv
  <2> QED BY <2>1, <2>2, <2>3 DEF NothingLost, Closed
<1> QED BY <1>1, ReportInvariant, PTL

-----------------------------------------------------------------------------
(* The row of a point                                                        *)

\* p puts a in order.
Orders(a, n, p) ==
    /\ p \in [1 .. n -> 1 .. n]
    /\ \A i, j \in 1 .. n : p[i] = p[j] => i = j
    /\ \A i \in 1 .. n : \E j \in 1 .. n : p[j] = i
    /\ \A i, j \in 1 .. n : i < j => a[p[i]] <= a[p[j]]

\* There is one: an entry's place is the number of those that are less, or as
\* great and not behind it.
LEMMA Sortable ==
    ASSUME NEW n \in Nat, NEW a \in [1 .. n -> Nat]
    PROVE  \E p : Orders(a, n, p)
<1> DEFINE Upto(i, j) == a[i] < a[j] \/ (a[i] = a[j] /\ i <= j)
           B(j) == {i \in 1 .. n : Upto(i, j)}
           rank == [j \in 1 .. n |-> Cardinality(B(j))]
<1>1. /\ \A i \in 1 .. n : Upto(i, i)
      /\ \A i, j \in 1 .. n : Upto(i, j) \/ Upto(j, i)
      /\ \A i, j \in 1 .. n : Upto(i, j) /\ Upto(j, i) => i = j
      /\ \A i, j, m \in 1 .. n : Upto(i, j) /\ Upto(j, m) => Upto(i, m)
  <2>1. \A i \in 1 .. n : a[i] \in Nat /\ i \in Nat  OBVIOUS
  <2> QED BY <2>1
<1>1b. \A i, j \in 1 .. n : Upto(i, j) => a[i] <= a[j]
  <2>1. \A i \in 1 .. n : a[i] \in Nat /\ i \in Nat  OBVIOUS
  <2> QED BY <2>1
<1> HIDE DEF Upto
<1>2. IsFiniteSet(1 .. n) /\ Cardinality(1 .. n) = n  BY FS_Interval
<1>3. \A j \in 1 .. n : IsFiniteSet(B(j)) /\ Cardinality(B(j)) \in 1 .. n
  <2> SUFFICES ASSUME NEW j \in 1 .. n PROVE IsFiniteSet(B(j)) /\ Cardinality(B(j)) \in 1 .. n  OBVIOUS
  <2>1. B(j) \in SUBSET (1 .. n) /\ j \in B(j)  BY <1>1
  <2>2. IsFiniteSet(B(j)) /\ Cardinality(B(j)) <= n  BY <1>2, <2>1, FS_Subset
  <2>3. Cardinality(B(j)) \in Nat /\ Cardinality(B(j)) # 0
    <3>1. B(j) # {}  BY <2>1
    <3> HIDE DEF B
    <3> QED BY <2>2, <3>1, FS_EmptySet, FS_CardinalityType
  <2> QED BY <2>2, <2>3
<1>4. \A i, j \in 1 .. n : Upto(i, j) /\ i # j => Cardinality(B(i)) < Cardinality(B(j))
  <2> SUFFICES ASSUME NEW i \in 1 .. n, NEW j \in 1 .. n, Upto(i, j), i # j
               PROVE  Cardinality(B(i)) < Cardinality(B(j))
      OBVIOUS
  <2>1. B(i) \in SUBSET B(j)  BY <1>1
  <2>2. j \in B(j) /\ j \notin B(i)  BY <1>1
  <2>3. B(i) # B(j)  BY <2>2
  <2> HIDE DEF B
  <2>4. /\ IsFiniteSet(B(i)) /\ IsFiniteSet(B(j))
        /\ Cardinality(B(i)) \in Nat /\ Cardinality(B(j)) \in Nat
    <3>1. IsFiniteSet(B(i)) /\ Cardinality(B(i)) \in 1 .. n  BY <1>3
    <3>2. IsFiniteSet(B(j)) /\ Cardinality(B(j)) \in 1 .. n  BY <1>3
    <3> QED BY <3>1, <3>2
  <2>5. Cardinality(B(i)) <= Cardinality(B(j)) /\ Cardinality(B(j)) # Cardinality(B(i))
        BY <2>1, <2>3, <2>4, FS_Subset
  <2> QED BY <2>4, <2>5
<1> HIDE DEF B
<1>5. rank \in [1 .. n -> 1 .. n] /\ \A j \in 1 .. n : rank[j] = Cardinality(B(j))  BY <1>3
<1> HIDE DEF rank
<1>6. \A i, j \in 1 .. n : rank[i] = rank[j] => i = j
  <2> SUFFICES ASSUME NEW i \in 1 .. n, NEW j \in 1 .. n, rank[i] = rank[j], i # j PROVE FALSE  OBVIOUS
  <2>1. Cardinality(B(i)) < Cardinality(B(j)) \/ Cardinality(B(j)) < Cardinality(B(i))  BY <1>1, <1>4
  <2>2. Cardinality(B(i)) = Cardinality(B(j)) /\ Cardinality(B(i)) \in 1 .. n  BY <1>3, <1>5
  <2> QED BY <2>1, <2>2
<1>7. \A x \in 1 .. n : \E j \in 1 .. n : rank[j] = x
  <2>1. rank \in Injection(1 .. n, 1 .. n)  BY <1>5, <1>6 DEF Injection, IsInjective
  <2>2. rank \in Surjection(1 .. n, 1 .. n)  BY <1>2, <2>1, FS_Injection
  <2> QED BY <2>2 DEF Surjection
<1> DEFINE p == [x \in 1 .. n |-> CHOOSE j \in 1 .. n : rank[j] = x]
<1>8. \A x \in 1 .. n : p[x] \in 1 .. n /\ rank[p[x]] = x  BY <1>7
<1>9. p \in [1 .. n -> 1 .. n]  BY <1>8
<1> HIDE DEF p
<1>10. \A i, j \in 1 .. n : p[i] = p[j] => i = j  BY <1>8
<1>11. \A i \in 1 .. n : p[rank[i]] = i
  <2> SUFFICES ASSUME NEW i \in 1 .. n PROVE p[rank[i]] = i  OBVIOUS
  <2>1. rank[i] \in 1 .. n  BY <1>5
  <2>2. p[rank[i]] \in 1 .. n /\ rank[p[rank[i]]] = rank[i]  BY <1>8, <2>1
  <2> QED BY <1>6, <2>2
<1>12. \A i \in 1 .. n : \E j \in 1 .. n : p[j] = i  BY <1>5, <1>11
<1>13. ASSUME NEW i \in 1 .. n, NEW j \in 1 .. n, i < j
       PROVE  a[p[i]] <= a[p[j]]
  <2>1. p[i] \in 1 .. n /\ p[j] \in 1 .. n /\ rank[p[i]] = i /\ rank[p[j]] = j  BY <1>8
  <2>2. CASE Upto(p[i], p[j])  BY <1>1b, <2>1, <2>2
  <2>3. CASE Upto(p[j], p[i])
    <3>1. p[i] # p[j]  BY <1>10, <1>13
    <3>2. Cardinality(B(p[j])) < Cardinality(B(p[i]))  BY <1>4, <2>1, <2>3, <3>1
    <3>3. j < i  BY <1>5, <2>1, <3>2
    <3> QED BY <1>13, <3>3
  <2> QED BY <1>1, <2>1, <2>2, <2>3
<1> QED BY <1>9, <1>10, <1>12, <1>13 DEF Orders

\* ... and the sorted array is a in that order.
Sorts(a, n, p) == Orders(a, n, p) /\ Sorted(a) = [i \in 1 .. n |-> a[p[i]]]

LEMMA Sorting ==
    ASSUME NEW n \in Nat, NEW a \in [1 .. n -> Nat]
    PROVE  \E p : Sorts(a, n, p)
<1>1. DOMAIN a = 1 .. n  OBVIOUS
<1> DEFINE T(p) == \A i, j \in DOMAIN a : i < j => a[p[i]] <= a[p[j]]
<1>2. \A p : p \in Bijection(DOMAIN a, DOMAIN a) /\ T(p) <=> Orders(a, n, p)
      BY <1>1 DEF Orders, Bijection, Injection, IsInjective, Surjection
<1>3. \E p \in Bijection(DOMAIN a, DOMAIN a) : T(p)  BY <1>2, Sortable
<1>4. PICK p : p = CHOOSE q \in Bijection(DOMAIN a, DOMAIN a) : T(q)  OBVIOUS
<1>5. p \in Bijection(DOMAIN a, DOMAIN a) /\ T(p)  BY <1>3, <1>4
<1>6. Orders(a, n, p)  BY <1>2, <1>5
<1>7. Sorted(a) = [i \in DOMAIN a |-> a[p[i]]]  BY <1>4 DEF Sorted
<1> QED BY <1>1, <1>6, <1>7 DEF Sorts

\* The ends of the sorted array.
LEMMA Ends ==
    ASSUME NEW n \in Nat \ {0}, NEW a \in [1 .. n -> Nat]
    PROVE  /\ Sorted(a)[1] = Min({a[i] : i \in 1 .. n})
           /\ Sorted(a)[n] = Max({a[i] : i \in 1 .. n})
<1>1. PICK p : Sorts(a, n, p)  BY Sorting
<1>2. 1 \in 1 .. n /\ n \in 1 .. n  OBVIOUS
<1>3. Sorted(a)[1] = a[p[1]] /\ Sorted(a)[n] = a[p[n]]  BY <1>1, <1>2 DEF Sorts
<1> DEFINE V == {a[i] : i \in 1 .. n}
<1>4. p[1] \in 1 .. n /\ p[n] \in 1 .. n  BY <1>1, <1>2 DEF Sorts, Orders
<1>5. ASSUME NEW y \in V PROVE a[p[1]] <= y /\ y <= a[p[n]]
  <2>1. PICK i \in 1 .. n : y = a[i]  OBVIOUS
  <2>2. PICK j \in 1 .. n : p[j] = i  BY <1>1 DEF Sorts, Orders
  <2>3. y \in Nat /\ y = a[p[j]]  BY <2>1, <2>2
  <2>4. CASE j = 1 \/ 1 < j
    <3>1. 1 < j => a[p[1]] <= a[p[j]]  BY <1>1, <1>2 DEF Sorts, Orders
    <3>2. j < n => a[p[j]] <= a[p[n]]  BY <1>1, <1>2 DEF Sorts, Orders
    <3> QED BY <2>3, <2>4, <3>1, <3>2
  <2> QED BY <2>4
<1>6. a[p[1]] \in V /\ a[p[n]] \in V /\ V \subseteq Nat  BY <1>4
<1> HIDE DEF V
<1>7. Min(V) \in V /\ \A y \in V : Min(V) <= y
  <2>1. \E x \in V : \A y \in V : x <= y  BY <1>5, <1>6
  <2> QED BY <2>1 DEF Min
<1>8. Max(V) \in V /\ \A y \in V : Max(V) >= y
  <2>1. \E x \in V : \A y \in V : x >= y
    <3>1. \A y \in V : a[p[n]] >= y  BY <1>5, <1>6
    <3> QED BY <1>6, <3>1
  <2> QED BY <2>1 DEF Max
<1>9. a[p[1]] = Min(V)
  <2>1. Min(V) <= a[p[1]] /\ a[p[1]] <= Min(V) /\ Min(V) \in Nat /\ a[p[1]] \in Nat  BY <1>5, <1>6, <1>7
  <2> QED BY <2>1
<1>10. a[p[n]] = Max(V)
  <2>1. Max(V) >= a[p[n]] /\ Max(V) <= a[p[n]] /\ Max(V) \in Nat /\ a[p[n]] \in Nat  BY <1>5, <1>6, <1>8
  <2> QED BY <2>1
<1> QED BY <1>3, <1>9, <1>10 DEF V

\* The middle of the sorted array: one entry, or two.
Lower(n) == (n + 1) \div 2
Upper(n) == n \div 2 + 1

LEMMA Halves ==
    ASSUME NEW n \in Nat \ {0}
    PROVE  /\ Lower(n) \in 1 .. n /\ Upper(n) \in 1 .. n /\ Lower(n) <= Upper(n)
           /\ 2 * Lower(n) >= n /\ 2 * (n - Upper(n) + 1) >= n
           /\ n % 2 = 1 => Lower(n) = Upper(n)
           /\ n % 2 # 1 => Lower(n) = n \div 2
<1>1. PICK l, g : l = (n + 1) \div 2 /\ g = n \div 2  OBVIOUS
<1>2. 2 \in Nat \ {0} /\ 0 .. 2 - 1 = 0 .. 1 /\ n \in Nat /\ n + 1 \in Nat  OBVIOUS
<1>3. PICK x \in 0 .. 1 : n % 2 = x /\ n = 2 * g + x /\ g \in Nat  BY <1>1, <1>2, DivMod
<1>4. PICK y \in 0 .. 1 : n + 1 = 2 * l + y /\ l \in Nat  BY <1>1, <1>2, DivMod
<1>5. /\ l \in 1 .. n /\ g + 1 \in 1 .. n /\ l <= g + 1
      /\ 2 * l >= n /\ 2 * (n - (g + 1) + 1) >= n
      /\ x = 1 => l = g + 1
      /\ x # 1 => l = g
      BY <1>3, <1>4
<1> QED BY <1>1, <1>3, <1>5 DEF Lower, Upper

LEMMA Middle ==
    ASSUME NEW n \in Nat \ {0}, NEW a \in [1 .. n -> Nat], NEW p, Sorts(a, n, p)
    PROVE  median_d(a) = a[p[Lower(n)]] + a[p[Upper(n)]]
<1>1. Len(a) = n
  <2>1. a \in Seq(Nat)  OBVIOUS
  <2> QED BY <2>1
<1>2. PICK l, h, s : l = Lower(n) /\ h = Upper(n) /\ s = Sorted(a)  OBVIOUS
<1>3. l \in 1 .. n /\ h \in 1 .. n  BY <1>2, Halves
<1>4. s[l] = a[p[l]] /\ s[h] = a[p[h]] /\ a[p[h]] \in Nat  BY <1>2, <1>3 DEF Sorts, Orders
<1>5. median_d(a) = IF n % 2 = 1 THEN 2 * s[h] ELSE s[n \div 2] + s[h]
      BY <1>1, <1>2 DEF median_d, Upper
<1>6. CASE n % 2 = 1
  <2>1. l = h  BY <1>2, <1>6, Halves
  <2>2. median_d(a) = 2 * a[p[h]]  BY <1>4, <1>5, <1>6
  <2>3. 2 * a[p[h]] = a[p[h]] + a[p[h]]  BY <1>4
  <2> QED BY <1>2, <2>1, <2>2, <2>3
<1>7. CASE n % 2 # 1
  <2>1. n \div 2 = l  BY <1>2, <1>7, Halves
  <2> QED BY <1>2, <1>4, <1>5, <1>7, <2>1
<1> QED BY <1>6, <1>7

\* A set that holds an injective image of an interval has as many entries.
LEMMA AtLeast ==
    ASSUME NEW S, IsFiniteSet(S), NEW x \in Nat, NEW y \in Nat, x <= y + 1, NEW f,
           \A i \in x .. y : f[i] \in S,
           \A i, j \in x .. y : f[i] = f[j] => i = j
    PROVE  Cardinality(S) \in Nat /\ Cardinality(S) >= y - x + 1
<1> DEFINE g == [i \in x .. y |-> f[i]]
<1>1. g \in Injection(x .. y, S)  BY DEF Injection, IsInjective
<1>2. Cardinality(x .. y) <= Cardinality(S)  BY <1>1, FS_Injection
<1>3. Cardinality(x .. y) = y - x + 1
  <2>1. Cardinality(x .. y) = IF x > y THEN 0 ELSE y - x + 1  BY FS_Interval
  <2>2. x > y => y - x + 1 = 0  OBVIOUS
  <2> QED BY <2>1, <2>2
<1>4. Cardinality(S) \in Nat  BY FS_CardinalityType
<1> QED BY <1>2, <1>3, <1>4

\* Half of the entries are at most the median, and half of them at least it.
LEMMA Medians ==
    ASSUME NEW n \in Nat \ {0}, NEW a \in [1 .. n -> Nat]
    PROVE  /\ 2 * Cardinality({m \in 0 .. n - 1 : 2 * a[m + 1] <= median_d(a)}) >= n
           /\ 2 * Cardinality({m \in 0 .. n - 1 : 2 * a[m + 1] >= median_d(a)}) >= n
<1>1. PICK p : Sorts(a, n, p)  BY Sorting
<1>0. PICK l, h : l = Lower(n) /\ h = Upper(n)  OBVIOUS
<1>2. /\ l \in 1 .. n /\ h \in 1 .. n /\ l <= h
      /\ median_d(a) = a[p[l]] + a[p[h]]
      /\ 2 * l >= n /\ 2 * (n - h + 1) >= n
      BY <1>0, <1>1, Middle, Halves
<1>3. PICK M : M = median_d(a)  OBVIOUS
<1> DEFINE S == {m \in 0 .. n - 1 : 2 * a[m + 1] <= M}
           T == {m \in 0 .. n - 1 : 2 * a[m + 1] >= M}
           f == [i \in 1 .. n |-> p[i] - 1]
<1>4. IsFiniteSet(S) /\ IsFiniteSet(T)
  <2>1. S \in SUBSET (0 .. n - 1) /\ T \in SUBSET (0 .. n - 1)  OBVIOUS
  <2>2. IsFiniteSet(0 .. n - 1)  BY FS_Interval
  <2> HIDE DEF S, T
  <2> QED BY <2>1, <2>2, FS_Subset
<1>5. /\ \A i \in 1 .. n : p[i] \in 1 .. n /\ a[p[i]] \in Nat
      /\ \A i, j \in 1 .. n : i <= j => a[p[i]] <= a[p[j]]
  <2>1. \A i \in 1 .. n : p[i] \in 1 .. n /\ a[p[i]] \in Nat  BY <1>1 DEF Sorts, Orders
  <2>2. \A i, j \in 1 .. n : i < j => a[p[i]] <= a[p[j]]  BY <1>1 DEF Sorts, Orders
  <2> QED BY <2>1, <2>2
<1>6. \A i, j \in 1 .. n : f[i] = f[j] => i = j
  <2>1. \A i, j \in 1 .. n : p[i] = p[j] => i = j  BY <1>1 DEF Sorts, Orders
  <2> QED BY <1>5, <2>1
<1>7. \A i \in 1 .. n : f[i] \in 0 .. n - 1 /\ a[f[i] + 1] = a[p[i]]
  <2> SUFFICES ASSUME NEW i \in 1 .. n PROVE f[i] \in 0 .. n - 1 /\ a[f[i] + 1] = a[p[i]]  OBVIOUS
  <2>1. p[i] \in 1 .. n  BY <1>5
  <2>2. f[i] = p[i] - 1 /\ f[i] + 1 = p[i]  BY <2>1
  <2> QED BY <2>1, <2>2
<1>h. \A x, y, z \in Nat : /\ x <= y /\ x <= z => 2 * x <= y + z
                           /\ y <= x /\ z <= x => 2 * x >= y + z
      OBVIOUS
<1>8. \A i \in 1 .. l : f[i] \in S
  <2> SUFFICES ASSUME NEW i \in 1 .. l PROVE f[i] \in S  OBVIOUS
  <2>1. i \in 1 .. n /\ i <= l /\ i <= h  BY <1>2
  <2>2. a[p[i]] <= a[p[l]] /\ a[p[i]] <= a[p[h]]  BY <1>2, <1>5, <2>1
  <2>3. a[p[i]] \in Nat /\ a[p[l]] \in Nat /\ a[p[h]] \in Nat  BY <1>2, <1>5, <2>1
  <2>4. 2 * a[p[i]] <= a[p[l]] + a[p[h]]  BY <1>h, <2>2, <2>3
  <2>5. M = a[p[l]] + a[p[h]]  BY <1>2, <1>3
  <2> HIDE DEF f
  <2> QED BY <1>7, <2>1, <2>4, <2>5
<1>9. \A i \in h .. n : f[i] \in T
  <2> SUFFICES ASSUME NEW i \in h .. n PROVE f[i] \in T  OBVIOUS
  <2>1. i \in 1 .. n /\ l <= i /\ h <= i  BY <1>2
  <2>2. a[p[l]] <= a[p[i]] /\ a[p[h]] <= a[p[i]]  BY <1>2, <1>5, <2>1
  <2>3. a[p[i]] \in Nat /\ a[p[l]] \in Nat /\ a[p[h]] \in Nat  BY <1>2, <1>5, <2>1
  <2>4. 2 * a[p[i]] >= a[p[l]] + a[p[h]]  BY <1>h, <2>2, <2>3
  <2>5. M = a[p[l]] + a[p[h]]  BY <1>2, <1>3
  <2> HIDE DEF f
  <2> QED BY <1>7, <2>1, <2>4, <2>5
<1> HIDE DEF f, S, T
<1>10. Cardinality(S) \in Nat /\ Cardinality(S) >= l - 1 + 1
  <2>1. \A i, j \in 1 .. l : f[i] = f[j] => i = j  BY <1>2, <1>6
  <2>2. 1 \in Nat /\ l \in Nat /\ 1 <= l + 1  BY <1>2
  <2> QED BY <1>4, <1>8, <2>1, <2>2, AtLeast
<1>11. Cardinality(T) \in Nat /\ Cardinality(T) >= n - h + 1
  <2>1. \A i, j \in h .. n : f[i] = f[j] => i = j  BY <1>2, <1>6
  <2>2. h \in Nat /\ n \in Nat /\ h <= n + 1  BY <1>2
  <2> QED BY <1>4, <1>9, <2>1, <2>2, AtLeast
<1>12. 2 * Cardinality(S) >= n /\ 2 * Cardinality(T) >= n  BY <1>2, <1>10, <1>11
<1> QED BY <1>3, <1>12 DEF S, T

\* What is greater entry by entry is greater when it is sorted.
LEMMA SortedGrows ==
    ASSUME NEW n \in Nat, NEW a \in [1 .. n -> Nat], NEW b \in [1 .. n -> Nat],
           \A i \in 1 .. n : a[i] <= b[i],
           NEW p, Orders(a, n, p), NEW q, Orders(b, n, q), NEW m \in 1 .. n
    PROVE  a[p[m]] <= b[q[m]]
<1> DEFINE s == [i \in 1 .. n |-> a[p[i]]]
           t == [i \in 1 .. n |-> b[q[i]]]
<1>1. /\ \A i \in 1 .. n : p[i] \in 1 .. n /\ q[i] \in 1 .. n
      /\ \A i, j \in 1 .. n : q[i] = q[j] => i = j
      /\ \A i \in 1 .. n : \E j \in 1 .. n : p[j] = i
  BY DEF Orders
<1>1s. \A i \in 1 .. n : s[i] \in Nat /\ t[i] \in Nat /\ s[i] = a[p[i]] /\ t[i] = b[q[i]]  BY <1>1
<1>2a. \A i, j \in 1 .. n : i < j => s[i] <= s[j] /\ t[i] <= t[j]  BY DEF Orders
<1> HIDE DEF s, t
<1>2. \A i, j \in 1 .. n : i <= j => s[i] <= s[j] /\ t[i] <= t[j]
  <2> SUFFICES ASSUME NEW i \in 1 .. n, NEW j \in 1 .. n, i <= j PROVE s[i] <= s[j] /\ t[i] <= t[j]  OBVIOUS
  <2>1. i < j \/ i = j  OBVIOUS
  <2>2. s[i] \in Nat /\ t[i] \in Nat  BY <1>1s
  <2>3. i = j => s[i] <= s[j] /\ t[i] <= t[j]  BY <2>2
  <2> QED BY <1>2a, <2>1, <2>3
<1> SUFFICES ASSUME ~(s[m] <= t[m]) PROVE FALSE  BY <1>1s
<1>4. \A x \in 1 .. m : \E y \in 1 .. m - 1 : p[y] = q[x]
  <2> SUFFICES ASSUME NEW x \in 1 .. m PROVE \E y \in 1 .. m - 1 : p[y] = q[x]  OBVIOUS
  <2>1. x \in 1 .. n /\ x <= m  OBVIOUS
  <2>2. t[x] <= t[m]  BY <1>2, <2>1
  <2>3. q[x] \in 1 .. n  BY <1>1, <2>1
  <2>4. a[q[x]] <= t[x]  BY <1>1s, <2>1, <2>3
  <2>5. PICK y \in 1 .. n : p[y] = q[x]  BY <1>1, <2>3
  <2>6. s[y] <= t[x]  BY <1>1s, <2>4, <2>5
  <2>7. ~(m <= y)
    <3>1. m <= y => s[m] <= s[y]  BY <1>2
    <3>2. s[m] \in Nat /\ s[y] \in Nat /\ t[x] \in Nat /\ t[m] \in Nat  BY <1>1s, <2>1
    <3>3. ~(s[m] <= s[y])
      <4>0. \A u, v, w, z \in Nat : u <= v /\ v <= w /\ w <= z => u <= z  OBVIOUS
      <4>1. s[m] <= s[y] => s[m] <= t[m]  BY <2>2, <2>6, <3>2, <4>0
      <4> QED BY <4>1
    <3> QED BY <3>1, <3>3
  <2>8. y \in 1 .. m - 1  BY <2>7
  <2> QED BY <2>5, <2>8
<1> DEFINE g == [x \in 1 .. m |-> CHOOSE y \in 1 .. m - 1 : p[y] = q[x]]
<1>5. \A x \in 1 .. m : g[x] \in 1 .. m - 1 /\ p[g[x]] = q[x]  BY <1>4
<1>6. g \in [1 .. m -> 1 .. m - 1]  BY <1>5
<1> HIDE DEF g
<1>7. /\ IsFiniteSet(1 .. m) /\ IsFiniteSet(1 .. m - 1)
      /\ Cardinality(1 .. m - 1) < Cardinality(1 .. m)
  <2>0. 1 \in Int /\ m \in Int /\ m - 1 \in Int /\ m >= 1  OBVIOUS
  <2>1. IsFiniteSet(1 .. m) /\ Cardinality(1 .. m) = IF 1 > m THEN 0 ELSE m - 1 + 1  BY <2>0, FS_Interval
  <2>2. IsFiniteSet(1 .. m - 1) /\ Cardinality(1 .. m - 1) = IF 1 > m - 1 THEN 0 ELSE m - 1 - 1 + 1
        BY <2>0, FS_Interval
  <2>3. Cardinality(1 .. m) = m /\ Cardinality(1 .. m - 1) = m - 1  BY <2>0, <2>1, <2>2
  <2> QED BY <2>0, <2>1, <2>2, <2>3
<1>8. PICK x, y \in 1 .. m : x # y /\ g[x] = g[y]  BY <1>6, <1>7, FS_PigeonHole
<1>9. q[x] = q[y]
  <2>1. p[g[x]] = q[x] /\ p[g[y]] = q[y]  BY <1>5
  <2> QED BY <1>8, <2>1
<1>10. x \in 1 .. n /\ y \in 1 .. n  OBVIOUS
<1> QED BY <1>1, <1>8, <1>9, <1>10

LEMMA MedianGrows ==
    ASSUME NEW n \in Nat \ {0}, NEW a \in [1 .. n -> Nat], NEW b \in [1 .. n -> Nat],
           \A i \in 1 .. n : a[i] <= b[i]
    PROVE  Whole(a) \in Nat /\ Whole(b) \in Nat /\ Whole(a) <= Whole(b)
<1>1. PICK p : Sorts(a, n, p)  BY Sorting
<1>2. PICK q : Sorts(b, n, q)  BY Sorting
<1>3. PICK l, h : l = Lower(n) /\ h = Upper(n)  OBVIOUS
<1>4. l \in 1 .. n /\ h \in 1 .. n /\ median_d(a) = a[p[l]] + a[p[h]]  BY <1>1, <1>3, Middle, Halves
<1>5. median_d(b) = b[q[l]] + b[q[h]]  BY <1>2, <1>3, Middle
<1>6. /\ a[p[l]] \in Nat /\ a[p[h]] \in Nat /\ b[q[l]] \in Nat /\ b[q[h]] \in Nat
  <2>1. /\ p[l] \in 1 .. n /\ p[h] \in 1 .. n /\ q[l] \in 1 .. n /\ q[h] \in 1 .. n
        BY <1>1, <1>2, <1>4 DEF Sorts, Orders
  <2> QED BY <2>1
<1>7. a[p[l]] <= b[q[l]] /\ a[p[h]] <= b[q[h]]  BY <1>1, <1>2, <1>4, SortedGrows DEF Sorts
<1>8. median_d(a) \in Nat /\ median_d(b) \in Nat /\ median_d(a) <= median_d(b)
  <2>1. \A w, x, y, z \in Nat : w <= y /\ x <= z => w + x <= y + z /\ w + x \in Nat /\ y + z \in Nat  OBVIOUS
  <2>2. PICK w, x, y, z : w = a[p[l]] /\ x = a[p[h]] /\ y = b[q[l]] /\ z = b[q[h]]  OBVIOUS
  <2>3. w \in Nat /\ x \in Nat /\ y \in Nat /\ z \in Nat  BY <1>6, <2>2
  <2>4. w <= y /\ x <= z  BY <1>7, <2>2
  <2>5. median_d(a) = w + x /\ median_d(b) = y + z  BY <1>4, <1>5, <2>2
  <2>6. w + x <= y + z /\ w + x \in Nat /\ y + z \in Nat  BY <2>1, <2>3, <2>4
  <2> QED BY <2>5, <2>6
<1>9. \A x, y \in Nat : x <= y => x \div 2 \in Nat /\ y \div 2 \in Nat /\ x \div 2 <= y \div 2  BY SMT
<1> QED BY <1>8, <1>9 DEF Whole

\* The figures of a repeat.
LEMMA Figures ==
    ASSUME NEW x \in PointResults
    PROVE  /\ Rate(x) \in Nat /\ HitRate(x) \in Nat /\ ErrRate(x) \in Nat
           /\ \A v \in Verbs : /\ x.h[v].count \in Nat /\ x.h[v].p50 \in Nat
                               /\ x.h[v].p99 \in Nat /\ x.h[v].max \in Nat
           /\ x.errors \in Nat
<1>1. /\ x.units \in Nat /\ x.wall \in Nat /\ x.hits \in Nat /\ x.misses \in Nat /\ x.errors \in Nat
      /\ x.h \in [Verbs -> [count : Nat, p50 : Nat, p99 : Nat, max : Nat]]
      BY DEF PointResults
<1>2. \A y, z \in Nat : z > 0 => y \div z \in Nat
  <2>1. \A z \in Nat : z > 0 => z \in Nat \ {0}  OBVIOUS
  <2> QED BY <2>1, DivMod
<1>3. Rate(x) \in Nat  BY <1>1, <1>2 DEF Rate
<1>4. \A y, z \in Nat : Percent(y, z) \in Nat
  <2>1. \A y \in Nat : 100 * y \in Nat  OBVIOUS
  <2> QED BY <1>2, <2>1 DEF Percent
<1>5. x.hits + x.misses \in Nat /\ x.hits + x.misses + x.errors \in Nat  BY <1>1
<1>6. HitRate(x) \in Nat /\ ErrRate(x) \in Nat  BY <1>1, <1>4, <1>5 DEF HitRate, ErrRate
<1>7. \A v \in Verbs : /\ x.h[v].count \in Nat /\ x.h[v].p50 \in Nat
                       /\ x.h[v].p99 \in Nat /\ x.h[v].max \in Nat
      BY <1>1
<1> QED BY <1>1, <1>3, <1>6, <1>7

\* The results summarize_point is given.
Runs == [n \in 1 .. cfg.repeat |-> res[n - 1]]

LEMMA Summed ==
    ASSUME IInv, SP!IInv, pt # NoPoint
    PROVE  /\ cfg.repeat \in Nat \ {0} /\ DOMAIN res = 0 .. cfg.repeat - 1
           /\ DOMAIN Runs = 1 .. cfg.repeat /\ Len(Runs) = cfg.repeat
           /\ \A n \in 1 .. cfg.repeat : Runs[n] \in PointResults
           /\ \A n \in 0 .. cfg.repeat - 1 : res[n] = Runs[n + 1] /\ n + 1 \in 1 .. cfg.repeat
           /\ \A n \in 1 .. cfg.repeat : n - 1 \in 0 .. cfg.repeat - 1 /\ Runs[n] = res[n - 1]
           /\ \A n \in 1 .. cfg.repeat, v \in Verbs :
                 Runs[n].h[v].p50 <= Runs[n].h[v].p99 /\ Runs[n].h[v].p99 <= Runs[n].h[v].max
           /\ pt = summarize_point(Runs)
<1>0. Types /\ Turns /\ Taken /\ SP!Types  BY DEF IInv, SP!IInv
<1>1. pc = "row"  BY <1>0 DEF Turns
<1>2. cfg.repeat \in Nat \ {0}  BY <1>0, SweepSizes, SP!Sizes
<1>3. /\ DOMAIN res = 0 .. cfg.repeat - 1
      /\ \A n \in 0 .. cfg.repeat - 1 : res[n] \in job.results
      /\ pt = summarize_point(Runs)
      BY <1>0, <1>1 DEF Taken, Runs
<1>4. /\ job.results \subseteq PointResults
      /\ \A x \in job.results, v \in Verbs : x.h[v].p50 <= x.h[v].p99 /\ x.h[v].p99 <= x.h[v].max
      BY <1>0, BoundsAssumption DEF Types
<1>5. PICK N : N = cfg.repeat  OBVIOUS
<1>6. Runs = [n \in 1 .. N |-> res[n - 1]] /\ N \in Nat \ {0}  BY <1>2, <1>5 DEF Runs
<1>7. /\ DOMAIN Runs = 1 .. N
      /\ \A n \in 0 .. N - 1 : res[n] = Runs[n + 1] /\ n + 1 \in 1 .. N
      /\ \A n \in 1 .. N : n - 1 \in 0 .. N - 1 /\ Runs[n] = res[n - 1]
      BY <1>6
<1>8. \A n \in 1 .. N : Runs[n] \in job.results  BY <1>3, <1>5, <1>7
<1>9. Len(Runs) = N
  <2>1. Runs \in Seq(job.results)  BY <1>6, <1>7, <1>8
  <2> QED BY <1>6, <1>7, <2>1
<1> QED BY <1>2, <1>3, <1>4, <1>5, <1>7, <1>8, <1>9

\* The median of a figure, over the results as main keeps them.
LEMMA MedianOf ==
    ASSUME NEW n \in Nat \ {0}, NEW a \in [1 .. n -> Nat], NEW g,
           \A m \in 0 .. n - 1 : g[m] = a[m + 1], NEW M, M = median_d(a)
    PROVE  /\ 2 * Cardinality({m \in 0 .. n - 1 : 2 * g[m] <= M}) >= n
           /\ 2 * Cardinality({m \in 0 .. n - 1 : 2 * g[m] >= M}) >= n
<1> DEFINE S == {m \in 0 .. n - 1 : 2 * a[m + 1] <= median_d(a)}
           T == {m \in 0 .. n - 1 : 2 * a[m + 1] >= median_d(a)}
<1>1. {m \in 0 .. n - 1 : 2 * g[m] <= M} = S /\ {m \in 0 .. n - 1 : 2 * g[m] >= M} = T  OBVIOUS
<1>2. 2 * Cardinality(S) >= n /\ 2 * Cardinality(T) >= n  BY Medians
<1> QED BY <1>1, <1>2

\* The rate of a point and its spread, and its shares of hits and errors, are
\* what they say, in whatever order the repeats' figures came.
THEOREM SpreadsAreTrue == Spec => []SpreadIsTrue
<1>1. IInv /\ SP!IInv => SpreadIsTrue
  <2> SUFFICES ASSUME IInv, SP!IInv, pt # NoPoint
               PROVE  /\ pt.wu_lo = Min({Rate(res[n]) : n \in DOMAIN res})
                      /\ pt.wu_hi = Max({Rate(res[n]) : n \in DOMAIN res})
                      /\ 2 * Cardinality({n \in DOMAIN res : 2 * Rate(res[n]) <= pt.wu2}) >= cfg.repeat
                      /\ 2 * Cardinality({n \in DOMAIN res : 2 * Rate(res[n]) >= pt.wu2}) >= cfg.repeat
                      /\ 2 * Cardinality({n \in DOMAIN res : 2 * HitRate(res[n]) <= pt.hit2}) >= cfg.repeat
                      /\ 2 * Cardinality({n \in DOMAIN res : 2 * HitRate(res[n]) >= pt.hit2}) >= cfg.repeat
                      /\ 2 * Cardinality({n \in DOMAIN res : 2 * ErrRate(res[n]) <= pt.err2}) >= cfg.repeat
                      /\ 2 * Cardinality({n \in DOMAIN res : 2 * ErrRate(res[n]) >= pt.err2}) >= cfg.repeat
      BY DEF SpreadIsTrue, Many
  <2>1. /\ cfg.repeat \in Nat \ {0} /\ DOMAIN res = 0 .. cfg.repeat - 1
        /\ DOMAIN Runs = 1 .. cfg.repeat /\ Len(Runs) = cfg.repeat
        /\ \A n \in 1 .. cfg.repeat : Runs[n] \in PointResults
        /\ \A n \in 0 .. cfg.repeat - 1 : res[n] = Runs[n + 1] /\ n + 1 \in 1 .. cfg.repeat
        /\ \A n \in 1 .. cfg.repeat : n - 1 \in 0 .. cfg.repeat - 1 /\ Runs[n] = res[n - 1]
        /\ pt = summarize_point(Runs)
        BY Summed
  <2>2. PICK N : N = cfg.repeat  OBVIOUS
  <2> DEFINE a == [n \in DOMAIN Runs |-> Rate(Runs[n])]
             b == [n \in DOMAIN Runs |-> HitRate(Runs[n])]
             c == [n \in DOMAIN Runs |-> ErrRate(Runs[n])]
  <2>3. /\ pt.wu_lo = Sorted(a)[1] /\ pt.wu_hi = Sorted(a)[N]
        /\ pt.wu2 = median_d(a) /\ pt.hit2 = median_d(b) /\ pt.err2 = median_d(c)
        BY <2>1, <2>2 DEF summarize_point
  <2>4. N \in Nat \ {0} /\ DOMAIN Runs = 1 .. N /\ DOMAIN res = 0 .. N - 1  BY <2>1, <2>2
  <2>5. a \in [1 .. N -> Nat] /\ b \in [1 .. N -> Nat] /\ c \in [1 .. N -> Nat]
        BY <2>1, <2>2, <2>4, Figures
  <2>6. \A n \in 0 .. N - 1 : /\ Rate(res[n]) = a[n + 1] /\ HitRate(res[n]) = b[n + 1]
                              /\ ErrRate(res[n]) = c[n + 1]
        BY <2>1, <2>2, <2>4
  <2>7. {Rate(res[n]) : n \in DOMAIN res} = {a[n] : n \in 1 .. N}
    <3>1. \A n \in 1 .. N : n - 1 \in DOMAIN res /\ a[n] = Rate(res[n - 1])  BY <2>1, <2>2, <2>4
    <3> HIDE DEF a
    <3>2. \A n \in DOMAIN res : n + 1 \in 1 .. N /\ Rate(res[n]) = a[n + 1]
      <4>1. \A n \in 0 .. N - 1 : n + 1 \in 1 .. N  BY <2>4
      <4> QED BY <2>4, <2>6, <4>1, Zenon
    <3> QED BY <3>1, <3>2
  <2> HIDE DEF a, b, c
  <2>8. pt.wu_lo = Min({Rate(res[n]) : n \in DOMAIN res}) /\ pt.wu_hi = Max({Rate(res[n]) : n \in DOMAIN res})
        BY <2>3, <2>4, <2>5, <2>7, Ends
  <2>9. ASSUME NEW d \in [1 .. N -> Nat], NEW g, DOMAIN g = DOMAIN res, \A m \in 0 .. N - 1 : g[m] = d[m + 1]
        PROVE  /\ 2 * Cardinality({n \in DOMAIN res : 2 * g[n] <= median_d(d)}) >= cfg.repeat
               /\ 2 * Cardinality({n \in DOMAIN res : 2 * g[n] >= median_d(d)}) >= cfg.repeat
    <3>1. /\ 2 * Cardinality({n \in 0 .. N - 1 : 2 * g[n] <= median_d(d)}) >= N
          /\ 2 * Cardinality({n \in 0 .. N - 1 : 2 * g[n] >= median_d(d)}) >= N
          BY <2>4, <2>9, MedianOf
    <3> QED BY <2>2, <2>4, <3>1
  <2>10. /\ 2 * Cardinality({n \in DOMAIN res : 2 * Rate(res[n]) <= pt.wu2}) >= cfg.repeat
         /\ 2 * Cardinality({n \in DOMAIN res : 2 * Rate(res[n]) >= pt.wu2}) >= cfg.repeat
    <3> DEFINE g == [n \in DOMAIN res |-> Rate(res[n])]
    <3>1. \A n \in DOMAIN res : g[n] = Rate(res[n])  OBVIOUS
    <3>2. DOMAIN g = DOMAIN res /\ \A m \in 0 .. N - 1 : g[m] = a[m + 1]  BY <2>4, <2>6
    <3> HIDE DEF g
    <3>3. /\ {n \in DOMAIN res : 2 * Rate(res[n]) <= pt.wu2} = {n \in DOMAIN res : 2 * g[n] <= median_d(a)}
          /\ {n \in DOMAIN res : 2 * Rate(res[n]) >= pt.wu2} = {n \in DOMAIN res : 2 * g[n] >= median_d(a)}
          BY <2>3, <3>1
    <3> QED BY <2>5, <2>9, <3>2, <3>3
  <2>11. /\ 2 * Cardinality({n \in DOMAIN res : 2 * HitRate(res[n]) <= pt.hit2}) >= cfg.repeat
         /\ 2 * Cardinality({n \in DOMAIN res : 2 * HitRate(res[n]) >= pt.hit2}) >= cfg.repeat
    <3> DEFINE g == [n \in DOMAIN res |-> HitRate(res[n])]
    <3>1. \A n \in DOMAIN res : g[n] = HitRate(res[n])  OBVIOUS
    <3>2. DOMAIN g = DOMAIN res /\ \A m \in 0 .. N - 1 : g[m] = b[m + 1]  BY <2>4, <2>6
    <3> HIDE DEF g
    <3>3. /\ {n \in DOMAIN res : 2 * HitRate(res[n]) <= pt.hit2} = {n \in DOMAIN res : 2 * g[n] <= median_d(b)}
          /\ {n \in DOMAIN res : 2 * HitRate(res[n]) >= pt.hit2} = {n \in DOMAIN res : 2 * g[n] >= median_d(b)}
          BY <2>3, <3>1
    <3> QED BY <2>5, <2>9, <3>2, <3>3
  <2>12. /\ 2 * Cardinality({n \in DOMAIN res : 2 * ErrRate(res[n]) <= pt.err2}) >= cfg.repeat
         /\ 2 * Cardinality({n \in DOMAIN res : 2 * ErrRate(res[n]) >= pt.err2}) >= cfg.repeat
    <3> DEFINE g == [n \in DOMAIN res |-> ErrRate(res[n])]
    <3>1. \A n \in DOMAIN res : g[n] = ErrRate(res[n])  OBVIOUS
    <3>2. DOMAIN g = DOMAIN res /\ \A m \in 0 .. N - 1 : g[m] = c[m + 1]  BY <2>4, <2>6
    <3> HIDE DEF g
    <3>3. /\ {n \in DOMAIN res : 2 * ErrRate(res[n]) <= pt.err2} = {n \in DOMAIN res : 2 * g[n] <= median_d(c)}
          /\ {n \in DOMAIN res : 2 * ErrRate(res[n]) >= pt.err2} = {n \in DOMAIN res : 2 * g[n] >= median_d(c)}
          BY <2>3, <3>1
    <3> QED BY <2>5, <2>9, <3>2, <3>3
  <2> QED BY <2>8, <2>10, <2>11, <2>12
<1> QED BY <1>1, ReportInvariant, SweepHolds, PTL

\* Some entry of an interval has it, or its count is 0.
LEMMA SomeOf ==
    ASSUME NEW n \in Nat, NEW S \in SUBSET (0 .. n - 1)
    PROVE  Cardinality(S) > 0 <=> S # {}
<1>1. IsFiniteSet(0 .. n - 1)  BY FS_Interval
<1>2. IsFiniteSet(S)  BY <1>1, FS_Subset
<1>3. Cardinality(S) \in Nat /\ (Cardinality(S) = 0 <=> S = {})  BY <1>2, FS_CardinalityType, FS_EmptySet
<1>4. \A c \in Nat : c > 0 <=> c # 0  OBVIOUS
<1>5. Cardinality(S) > 0 <=> Cardinality(S) # 0  BY <1>3, <1>4, Zenon
<1> QED BY <1>3, <1>5, Zenon

\* The lines of a point are the verbs some repeat made, each with its figures
\* in order though each is a median of its own, and an error is never
\* left unsaid.
THEOREM LinesAreInOrder == Spec => []LinesInOrder
<1>1. IInv /\ SP!IInv => LinesInOrder
  <2> SUFFICES ASSUME IInv, SP!IInv, pt # NoPoint
               PROVE  /\ DOMAIN pt.ops = {v \in Verbs : Cardinality({n \in DOMAIN res : res[n].h[v].count > 0}) > 0}
                      /\ \A v \in DOMAIN pt.ops :
                            pt.ops[v].p50 <= pt.ops[v].p99 /\ pt.ops[v].p99 <= pt.ops[v].max
                      /\ pt.has_err <=> Cardinality({n \in DOMAIN res : res[n].errors > 0}) > 0
      BY DEF LinesInOrder, Many
  <2>1. /\ cfg.repeat \in Nat \ {0} /\ DOMAIN res = 0 .. cfg.repeat - 1
        /\ DOMAIN Runs = 1 .. cfg.repeat
        /\ \A n \in 1 .. cfg.repeat : Runs[n] \in PointResults
        /\ \A n \in 0 .. cfg.repeat - 1 : res[n] = Runs[n + 1] /\ n + 1 \in 1 .. cfg.repeat
        /\ \A n \in 1 .. cfg.repeat : n - 1 \in 0 .. cfg.repeat - 1 /\ Runs[n] = res[n - 1]
        /\ \A n \in 1 .. cfg.repeat, v \in Verbs :
              Runs[n].h[v].p50 <= Runs[n].h[v].p99 /\ Runs[n].h[v].p99 <= Runs[n].h[v].max
        /\ pt = summarize_point(Runs)
        BY Summed
  <2>2. PICK N : N = cfg.repeat  OBVIOUS
  <2>3. /\ N \in Nat \ {0} /\ N \in Nat /\ DOMAIN res = 0 .. N - 1 /\ DOMAIN Runs = 1 .. N
        /\ \A n \in 0 .. N - 1 : res[n] = Runs[n + 1] /\ n + 1 \in 1 .. N
        /\ \A n \in 1 .. N : n - 1 \in 0 .. N - 1 /\ Runs[n] = res[n - 1]
        BY <2>1, <2>2
  <2>4. /\ pt.ops = [v \in {v \in Verbs : Made(Runs, v)} |-> Line(Runs, v)]
        /\ pt.has_err = \E n \in DOMAIN Runs : Runs[n].errors > 0
        BY <2>1 DEF summarize_point
  <2>5. DOMAIN pt.ops = {v \in Verbs : Made(Runs, v)}  BY <2>4
  <2>6. \A v : Made(Runs, v) <=> Cardinality({n \in DOMAIN res : res[n].h[v].count > 0}) > 0
    <3> SUFFICES ASSUME NEW v
                 PROVE  Made(Runs, v) <=> Cardinality({n \in DOMAIN res : res[n].h[v].count > 0}) > 0
        OBVIOUS
    <3> DEFINE S == {n \in DOMAIN res : res[n].h[v].count > 0}
    <3>1. S \in SUBSET (0 .. N - 1)  BY <2>3
    <3>2. S # {} <=> \E n \in 1 .. N : Runs[n].h[v].count > 0  BY <2>3
    <3> HIDE DEF S
    <3>3. Cardinality(S) > 0 <=> S # {}  BY <2>3, <3>1, SomeOf
    <3>4. Made(Runs, v) <=> \E n \in 1 .. N : Runs[n].h[v].count > 0  BY <2>3 DEF Made
    <3>5. Made(Runs, v) <=> Cardinality(S) > 0  BY <3>2, <3>3, <3>4
    <3> QED BY <3>5 DEF S
  <2>7. pt.has_err <=> Cardinality({n \in DOMAIN res : res[n].errors > 0}) > 0
    <3> DEFINE S == {n \in DOMAIN res : res[n].errors > 0}
    <3>1. S \in SUBSET (0 .. N - 1)  BY <2>3
    <3>2. S # {} <=> \E n \in 1 .. N : Runs[n].errors > 0  BY <2>3
    <3> HIDE DEF S
    <3>3. Cardinality(S) > 0 <=> S # {}  BY <2>3, <3>1, SomeOf
    <3>4. pt.has_err <=> \E n \in 1 .. N : Runs[n].errors > 0  BY <2>3, <2>4
    <3>5. pt.has_err <=> Cardinality(S) > 0  BY <3>2, <3>3, <3>4
    <3> QED BY <3>5 DEF S
  <2>8. ASSUME NEW v \in DOMAIN pt.ops
        PROVE  pt.ops[v].p50 <= pt.ops[v].p99 /\ pt.ops[v].p99 <= pt.ops[v].max
    <3> DEFINE a == [n \in 1 .. N |-> Runs[n].h[v].p50]
               b == [n \in 1 .. N |-> Runs[n].h[v].p99]
               c == [n \in 1 .. N |-> Runs[n].h[v].max]
    <3>1. v \in Verbs /\ pt.ops[v] = Line(Runs, v)  BY <2>4, <2>5
    <3>2. Line(Runs, v).p50 = Whole(a) /\ Line(Runs, v).p99 = Whole(b) /\ Line(Runs, v).max = Whole(c)
      <4> DEFINE h == [n \in DOMAIN Runs |-> Runs[n].h[v]]
      <4>1. /\ [n \in DOMAIN h |-> h[n].p50] = a /\ [n \in DOMAIN h |-> h[n].p99] = b
            /\ [n \in DOMAIN h |-> h[n].max] = c
            BY <2>3
      <4>2. /\ Line(Runs, v).p50 = Whole([n \in DOMAIN h |-> h[n].p50])
            /\ Line(Runs, v).p99 = Whole([n \in DOMAIN h |-> h[n].p99])
            /\ Line(Runs, v).max = Whole([n \in DOMAIN h |-> h[n].max])
            BY DEF Line
      <4> HIDE DEF h, a, b, c
      <4> QED BY <4>1, <4>2
    <3>3. a \in [1 .. N -> Nat] /\ b \in [1 .. N -> Nat] /\ c \in [1 .. N -> Nat]
          BY <2>1, <2>2, <3>1, Figures
    <3>4. \A n \in 1 .. N : a[n] <= b[n] /\ b[n] <= c[n]  BY <2>1, <2>2, <3>1
    <3> HIDE DEF a, b, c
    <3>5. Whole(a) <= Whole(b) /\ Whole(b) <= Whole(c)  BY <2>3, <3>3, <3>4, MedianGrows
    <3> QED BY <3>1, <3>2, <3>5
  <2>9. DOMAIN pt.ops = {v \in Verbs : Cardinality({n \in DOMAIN res : res[n].h[v].count > 0}) > 0}
        BY <2>5, <2>6
  <2> QED BY <2>7, <2>8, <2>9
<1> QED BY <1>1, ReportInvariant, SweepHolds, PTL
================================================================================
