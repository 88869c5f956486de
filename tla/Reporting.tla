------------------------------- MODULE Reporting -------------------------------
(***************************************************************************)
(* What a run tells its user: src/src/reporter.c with its callers in       *)
(* src/src/main.c (main, emit_probes, samp_stat_cb, sampler_main and       *)
(* seed_progress_main where they report, summarize_point). The sweep is    *)
(* RunFile's, taken step by step: while it is in a setup or a timed phase  *)
(* the watcher thread of that phase may report samples, and a row is       *)
(* reported by the main thread before the sweep goes on.                   *)
(*                                                                         *)
(* Both threads call the same sinks without a lock. A report is written    *)
(* line by line into the stdio buffer of each sink's file; what fflush has *)
(* not covered is lost if the process dies (an engine that does not open,  *)
(* memory that runs out and a signal all end it on the spot), so what a    *)
(* crash leaves at the least is Durable.                                   *)
(*                                                                         *)
(* Left out: the words and numbers of a line; a second workload, which     *)
(* goes through the same sinks again; two sinks that name one file.        *)
(***************************************************************************)
EXTENDS Integers, Sequences, FiniteSets, Summary

CONSTANTS NEng, NThr, SweepLens, Repeats,   \* of RunFile
          Jobs,               \* the command lines considered, see job
          MaxSamples,         \* bound on the samples of one phase
          SAMPLE_METRIC_MAX, REPORT_MAX_SINKS

ASSUME SweepAssumption ==
    NEng \in Nat \ {0} /\ NThr \in Nat \ {0} /\ Repeats \subseteq Nat \ {0} /\ SweepLens \subseteq Nat

\* The percentiles of a result are in order, as Hist establishes for latencies that
\* its buckets resolve (PercentileFaithful).
ASSUME BoundsAssumption ==
    /\ MaxSamples \in Nat /\ SAMPLE_METRIC_MAX \in Nat \ {0, 1} /\ REPORT_MAX_SINKS \in Nat \ {0}
    /\ \A j \in Jobs : /\ j.spec \in Seq([name : STRING, path : STRING])
                      /\ j.probes \in Nat /\ j.stats \in Nat
                      /\ j.results \subseteq PointResults /\ j.results # {}
                      /\ \A x \in j.results, v \in Verbs :
                            x.h[v].p50 <= x.h[v].p99 /\ x.h[v].p99 <= x.h[v].max

VARIABLES
    cfg, pc, ei, ti, si, r, store, Rs, rows, blamed,    \* of RunFile
    job,    \* [spec: the list after --report, timeline: its interval is set, plot: --auto-plot
            \*  with --report-dir, probes: the probes with facts to print, stats: the
            \*  figures engine and probes give a sample, datadir: the engine has one, cfgs and
            \*  results: the sweeps and the results of repeats considered]
    stage,  \* where main is
    k,      \* its index over the spec, the probes or the sinks
    sinks,  \* reporter_set: per sink [name, path, hdr: header_done]
    disk,   \* per path: [lines: all written, flushed: how many of them are safe, open]
    wr,     \* per thread: the report it is making: [rec, at: the sink it is in or 0, todo]
    watch,  \* the watcher thread: "off", of phase "seed" or "run", or "joined"
    stop,   \* its stop flag
    nsamp,  \* the samples it has reported
    res,    \* Rs: the results of the repeats, as RunFile's Rs
    pt,     \* the report_point being reported, or NoPoint
    told    \* the reports completed, in order (a history variable)

sweepVars == <<cfg, pc, ei, ti, si, r, store, Rs, rows, blamed>>
watchVars == <<watch, stop, nsamp>>
outVars   == <<sinks, disk, wr, told>>
vars == <<sweepVars, job, stage, k, outVars, watchVars, res, pt>>

Sweep == INSTANCE RunFile

Stdout == "-"
NoPoint == [ops |-> << >>]
NoResult == [ops |-> 0]
Paths == {Stdout} \cup {job.spec[i].path : i \in DOMAIN job.spec}

-----------------------------------------------------------------------------
(* reporter.c                                                                *)

\* The on_ functions of a reporter, by the kind of report they take; "seed" and
\* "run" are samples.
Handles(name) ==
    CASE name = "console"  -> {"start", "probe", "point"}
      [] name = "tsv"      -> {"point"}
      [] name = "timeline" -> {"seed", "run"}
      [] OTHER             -> {}

Known(name) == name \in {"console", "tsv", "timeline"}
Tabular(name) == name \in {"tsv", "timeline"}

\* A report: its kind, the cell and the repeat it is about, its number within
\* the phase and its size: the facts, verbs or metrics in it.
Rec(what, cell, rep, n, size) ==
    [what |-> what, cell |-> cell, rep |-> rep, n |-> n, size |-> size]
NoRec == Rec("none", Sweep!NoCell, 0, 0, 0)

\* The lines it takes in a sink: console_run, console_probe and console_point
\* put headings around them.
Size(name, rec) ==
    CASE rec.what = "start"                       -> 2
      [] rec.what = "probe"                       -> rec.size + 1
      [] rec.what = "point" /\ name = "console"   -> rec.size + 3
      [] OTHER                                    -> rec.size

HeaderPart == 0
FlushPart  == -1

\* tsv_point and timeline_sample: the header once, the rows, fflush. The
\* console does not flush.
\* Mutant: nor do the others.
Flush_Never(i) == << >>
Flush(i) == IF Tabular(sinks[i].name)
            THEN <<[sink |-> i, rec |-> NoRec, part |-> FlushPart]>> ELSE << >>

\* Mutant: header_done is not looked at.
Header_Always(i) == IF Tabular(sinks[i].name)
                    THEN <<[sink |-> i, rec |-> NoRec, part |-> HeaderPart]>> ELSE << >>
Header(i) == IF Tabular(sinks[i].name) /\ ~sinks[i].hdr
             THEN <<[sink |-> i, rec |-> NoRec, part |-> HeaderPart]>> ELSE << >>

Output(i, rec) ==
    Header(i)
    \o [n \in 1 .. Size(sinks[i].name, rec) |-> [sink |-> i, rec |-> rec, part |-> n]]
    \o Flush(i)

Idle == [rec |-> NoRec, at |-> 0, todo |-> << >>]
Quiet(w) == wr[w].at = 0

\* The first sink after sink i that takes a kind of report, or 0.
After(i, what) ==
    LET takers == {s \in DOMAIN sinks : s > i /\ what \in Handles(sinks[s].name)}
    IN  IF takers = {} THEN 0 ELSE Min(takers)

\* reporters_run, reporters_probe, reporters_point and reporters_sample: the
\* sinks that take it, one after the other ...
Begin(w, rec) == wr' = [wr EXCEPT ![w] = [rec |-> rec, at |-> After(0, rec.what), todo |-> << >>]]

\* ... a call of the sink's function ...
Turn(w) ==
    /\ ~Quiet(w) /\ wr[w].todo = << >>
    /\ wr' = [wr EXCEPT ![w].todo = Output(wr[w].at, wr[w].rec)]
    /\ UNCHANGED <<sweepVars, job, stage, k, sinks, disk, told, watchVars, res, pt>>

\* ... and one fprintf or fflush in it.
Put(w) ==
    LET line == Head(wr[w].todo)
        p    == sinks[line.sink].path
        rest == Tail(wr[w].todo)
        at   == IF rest = << >> THEN After(wr[w].at, wr[w].rec.what) ELSE wr[w].at
    IN  /\ wr[w].todo # << >>
        /\ disk' = IF line.part = FlushPart
                   THEN [disk EXCEPT ![p].flushed = Len(disk[p].lines)]
                   ELSE [disk EXCEPT ![p].lines = Append(@, line)]
        /\ sinks' = IF line.part = HeaderPart THEN [sinks EXCEPT ![line.sink].hdr = TRUE] ELSE sinks
        /\ wr' = [wr EXCEPT ![w].todo = rest, ![w].at = at]
        /\ told' = IF at = 0 THEN Append(told, wr[w].rec) ELSE told
        /\ UNCHANGED <<sweepVars, job, stage, k, watchVars, res, pt>>

-----------------------------------------------------------------------------
(* main, up to the sweep                                                     *)

Init ==
    /\ Sweep!Init
    /\ job \in Jobs /\ cfg \in job.cfgs
    /\ stage = "parse" /\ k = 1 /\ sinks = << >>
    /\ disk = [p \in Paths |-> [lines |-> << >>, flushed |-> 0, open |-> p = Stdout]]
    /\ wr = [w \in {"main", "watch"} |-> Idle]
    /\ watch = "off" /\ stop = FALSE /\ nsamp = 0
    /\ res = [n \in 0 .. cfg.repeat - 1 |-> NoResult]
    /\ pt = NoPoint /\ told = << >>

\* reporters_parse takes a token: the file is opened, if it can be, and the
\* name looked up. Whatever fails ends the run with 2.
ParseToken ==
    /\ stage = "parse" /\ k <= Len(job.spec)
    /\ LET tok == job.spec[k]
           add == /\ Known(tok.name)
                  /\ sinks' = Append(sinks, [name |-> tok.name, path |-> tok.path, hdr |-> FALSE])
                  /\ disk' = [disk EXCEPT ![tok.path].open = TRUE]
                  /\ k' = k + 1 /\ UNCHANGED stage
           refuse == /\ \/ Len(sinks) >= REPORT_MAX_SINKS
                        \/ tok.path # Stdout
                        \/ ~Known(tok.name)
                     /\ stage' = "exit 2" /\ UNCHANGED <<k, sinks, disk>>
       IN  (Len(sinks) < REPORT_MAX_SINKS /\ add) \/ refuse
    /\ UNCHANGED <<sweepVars, job, wr, told, watchVars, res, pt>>

\* An empty list is the console.
ParseDone ==
    /\ stage = "parse" /\ k > Len(job.spec)
    /\ sinks' = IF sinks = << >>
                THEN <<[name |-> "console", path |-> Stdout, hdr |-> FALSE]>> ELSE sinks
    /\ stage' = "start" /\ k' = 0
    /\ UNCHANGED <<sweepVars, job, disk, wr, told, watchVars, res, pt>>

\* reporters_run, then emit_probes: a probe goes to the sinks that take one, and
\* to stderr, which is not modelled, if there is none.
Probe ==
    /\ stage = "start" /\ Quiet("main") /\ k <= job.probes
    /\ Begin("main", IF k = 0 THEN Rec("start", Sweep!NoCell, 0, 0, 0)
                              ELSE Rec("probe", Sweep!NoCell, 0, k, 1))
    /\ k' = k + 1
    /\ UNCHANGED <<sweepVars, job, stage, sinks, disk, told, watchVars, res, pt>>

StartSweep ==
    /\ stage = "start" /\ Quiet("main") /\ k > job.probes
    /\ stage' = "sweep"
    /\ UNCHANGED <<sweepVars, job, k, outVars, watchVars, res, pt>>

-----------------------------------------------------------------------------
(* The watcher of a phase                                                    *)

Sampling == job.timeline /\ \E i \in DOMAIN sinks : sinks[i].name = "timeline"

\* The cell a sample names. With --seed-once a store is seeded as for the most
\* threads, here the last in the list.
Tag == IF watch = "seed" /\ Sweep!Mode # "repeat" THEN <<ei, NThr - 1, si>> ELSE Sweep!Cell

\* samp_stat_cb puts a figure behind the n there are while there is room.
Collected(n, figures) == Min({n + figures, SAMPLE_METRIC_MAX})

\* The metrics of a sample: two of the seed; of the run the two rates, then what
\* engine and probes give, and the disk usage if there is room.
Metrics ==
    IF watch = "seed" THEN 2
    ELSE LET n == Collected(2, job.stats)
         IN  IF job.datadir /\ n < SAMPLE_METRIC_MAX THEN n + 1 ELSE n

\* measure_setup and measure_timed start it ...
StartWatch ==
    /\ stage = "sweep" /\ Sampling /\ watch = "off"
    /\ \/ pc = "setup" /\ watch' = "seed"
       \/ pc = "timed" /\ watch' = "run"
    /\ stop' = FALSE /\ nsamp' = 0
    /\ UNCHANGED <<sweepVars, job, stage, k, outVars, res, pt>>

\* ... a tick of it, until stop is seen ...
Sample ==
    /\ watch \in {"seed", "run"} /\ ~stop /\ Quiet("watch")
    /\ nsamp < MaxSamples
    /\ Begin("watch", Rec(watch, Tag, r, nsamp + 1, Metrics))
    /\ nsamp' = nsamp + 1
    /\ UNCHANGED <<sweepVars, job, stage, k, sinks, disk, told, watch, stop, res, pt>>

\* ... the workers are joined and it is told to stop ...
StopWatch ==
    /\ watch \in {"seed", "run"} /\ ~stop
    /\ stop' = TRUE
    /\ UNCHANGED <<sweepVars, job, stage, k, outVars, watch, nsamp, res, pt>>

\* ... and main waits for it.
\* Mutant: main does not.
Joined_NotWaited == stop
Joined == stop /\ Quiet("watch")

JoinWatch ==
    /\ watch \in {"seed", "run"} /\ Joined
    /\ watch' = "joined"
    /\ UNCHANGED <<sweepVars, job, stage, k, outVars, stop, nsamp, res, pt>>

-----------------------------------------------------------------------------
(* The sweep                                                                 *)

\* measure_setup returns: without a watcher if the workload does not load or
\* has no load() or nothing is sampled, else once it is joined.
SetupReturns ==
    /\ stage = "sweep" /\ watch \in {"off", "joined"}
    /\ Sweep!SetupOk \/ Sweep!SetupNull
    /\ watch' = "off"
    /\ UNCHANGED <<job, stage, k, outVars, stop, nsamp, res, pt>>

\* measure_timed returns, with a result or with R->ok = 0.
TimedReturns ==
    /\ stage = "sweep" /\ (watch = "joined" \/ ~Sampling)
    /\ \/ Sweep!TimedOk /\ \E x \in job.results : res' = [res EXCEPT ![r] = x]
       \/ Sweep!TimedFailed /\ UNCHANGED res
    /\ watch' = "off"
    /\ UNCHANGED <<job, stage, k, outVars, stop, nsamp, pt>>

\* summarize_point makes the point and reports it ...
Point ==
    /\ stage = "sweep" /\ pc = "row" /\ pt = NoPoint
    /\ pt' = summarize_point([n \in 1 .. cfg.repeat |-> res[n - 1]])
    /\ Begin("main", Rec("point", Sweep!Cell, 0, 0, Cardinality(DOMAIN pt'.ops)))
    /\ UNCHANGED <<sweepVars, job, stage, k, sinks, disk, told, watchVars, res>>

\* ... before its row joins the others.
PointDone ==
    /\ stage = "sweep" /\ pt # NoPoint /\ Quiet("main")
    /\ Sweep!Row
    /\ pt' = NoPoint
    /\ UNCHANGED <<job, stage, k, outVars, watchVars, res>>

CloseStore ==
    /\ stage = "sweep" /\ Sweep!Close
    /\ UNCHANGED <<job, stage, k, outVars, watchVars, res, pt>>

\* The sweep ends; the table of a sweep of several cells goes to stdout,
\* whichever sinks there are.
EndSweep ==
    /\ stage = "sweep" /\ pc = "done"
    /\ disk' = IF Cardinality(Sweep!Cells) > 1 /\ rows # << >>
               THEN [disk EXCEPT ![Stdout].lines =
                        Append(@, [sink |-> 0, rec |-> Rec("table", Sweep!NoCell, 0, 0, 1), part |-> 1])]
               ELSE disk
    /\ stage' = "close" /\ k' = 1
    /\ UNCHANGED <<sweepVars, job, sinks, wr, told, watchVars, res, pt>>

\* reporters_close, a sink at a time.
CloseSink ==
    /\ stage = "close" /\ k <= Len(sinks)
    /\ disk' = [p \in Paths |->
                  IF p = sinks[k].path /\ p # Stdout
                  THEN [disk[p] EXCEPT !.flushed = Len(disk[p].lines), !.open = FALSE]
                  ELSE disk[p]]
    /\ k' = k + 1
    /\ UNCHANGED <<sweepVars, job, stage, sinks, wr, told, watchVars, res, pt>>

\* run_plotter reads the files of the report directory, from another process.
Plot ==
    /\ stage = "close" /\ k > Len(sinks) /\ job.plot
    /\ stage' = "plot"
    /\ UNCHANGED <<sweepVars, job, k, outVars, watchVars, res, pt>>

\* Leaving main flushes what is still open.
Exit ==
    /\ stage = "plot" \/ (stage = "close" /\ k > Len(sinks) /\ ~job.plot)
    /\ disk' = [p \in Paths |-> [disk[p] EXCEPT !.flushed = Len(disk[p].lines)]]
    /\ stage' = "exit 0"
    /\ UNCHANGED <<sweepVars, job, k, sinks, wr, told, watchVars, res, pt>>

Ended == stage \in {"exit 0", "exit 2"} /\ UNCHANGED vars

Next ==
    \/ ParseToken \/ ParseDone \/ Probe \/ StartSweep
    \/ \E w \in {"main", "watch"} : Turn(w) \/ Put(w)
    \/ StartWatch \/ Sample \/ StopWatch \/ JoinWatch
    \/ SetupReturns \/ TimedReturns \/ Point \/ PointDone \/ CloseStore
    \/ EndSweep \/ CloseSink \/ Plot \/ Exit \/ Ended

Spec == Init /\ [][Next]_vars

-----------------------------------------------------------------------------
(* Properties                                                                *)

\* What a crash at this moment leaves of a file at the least.
Durable(p) == SubSeq(disk[p].lines, 1, disk[p].flushed)

Total(line) == IF line.sink = 0 THEN 1 ELSE Size(sinks[line.sink].name, line.rec)

\* Though two threads write to the sinks and nothing locks them: the lines of a
\* report stand together in its file, all of them and in order, only the one
\* being written may still want some; a tsv or timeline sink has one
\* header, before everything else; and a sample holds no more metrics than
\* its array of SAMPLE_METRIC_MAX.
WholeRecords ==
    /\ \A p \in Paths : LET L == disk[p].lines IN \A n \in DOMAIN L :
          LET next == [L[n] EXCEPT !.part = @ + 1] IN
          /\ L[n].part > 1 => n > 1 /\ L[n - 1] = [L[n] EXCEPT !.part = @ - 1]
          /\ L[n].part \in 1 .. Total(L[n]) - 1 =>
                IF n < Len(L) THEN L[n + 1] = next
                ELSE \E w \in DOMAIN wr : wr[w].todo # << >> /\ Head(wr[w].todo) = next
    /\ \A i \in DOMAIN sinks : Tabular(sinks[i].name) =>
          LET L == disk[sinks[i].path].lines IN
          \A n \in DOMAIN L : L[n].sink = i =>
              (L[n].part = HeaderPart <=> \A m \in 1 .. n - 1 : L[m].sink # i)
    /\ \A w \in DOMAIN wr : wr[w].rec.what \in {"seed", "run"} => wr[w].rec.size <= SAMPLE_METRIC_MAX

\* The lines of a report in a sink that a crash would leave.
Safe(i, rec) ==
    {n \in DOMAIN Durable(sinks[i].path) :
        LET line == Durable(sinks[i].path)[n] IN line.sink = i /\ line.rec = rec}

\* A crash at any moment costs a tsv or timeline file at most the report being
\* made: every one completed is whole in it, once. When the sweep is over the
\* points reported are the rows of the sweep, in its order; and when the
\* plotter reads the files they are closed and complete.
NothingLost ==
    /\ \A i \in DOMAIN sinks, n \in DOMAIN told :
          Tabular(sinks[i].name) /\ told[n].what \in Handles(sinks[i].name) =>
              Cardinality(Safe(i, told[n])) = told[n].size
    /\ stage \in {"close", "plot", "exit 0"} /\ After(0, "point") # 0 =>
          LET points == {n \in DOMAIN told : told[n].what = "point"} IN
          /\ {told[n].cell : n \in points} = {rows[n].cell : n \in DOMAIN rows}
          /\ \A a, b \in points : a < b =>
                \E c, d \in DOMAIN rows :
                    c < d /\ rows[c].cell = told[a].cell /\ rows[d].cell = told[b].cell
    /\ stage \in {"plot", "exit 0"} =>
          \A p \in Paths \ {Stdout} : ~disk[p].open /\ disk[p].flushed = Len(disk[p].lines)

\* The watcher reports only while main waits in the phase it watches, so that
\* the samples of a repeat come seed before run and in the order they were
\* taken, and none follows the point of its cell.
TimelineInOrder ==
    /\ ~Quiet("watch") => watch = wr["watch"].rec.what /\ wr["watch"].rec.cell = Tag
    /\ \A b \in DOMAIN told : \A a \in 1 .. b - 1 :
          told[b].what \in {"seed", "run"} /\ told[a].cell = told[b].cell =>
              /\ told[a].what # "point"
              /\ told[a].rep = told[b].rep =>
                    \/ told[a].what = "seed" /\ told[b].what = "run"
                    \/ told[a].what = told[b].what /\ told[a].n < told[b].n

\* How many repeats of the point have P.
Many(P(_)) == Cardinality({n \in DOMAIN res : P(res[n])})

\* The rate of a point is a median of the repeats' rates, half of them at most
\* and half of them at least it, and its spread the least and the greatest,
\* in whatever order they came; the same for the shares of hits and errors.
SpreadIsTrue ==
    pt # NoPoint =>
        /\ pt.wu_lo = Min({Rate(res[n]) : n \in DOMAIN res})
        /\ pt.wu_hi = Max({Rate(res[n]) : n \in DOMAIN res})
        /\ 2 * Many(LAMBDA x : 2 * Rate(x) <= pt.wu2) >= cfg.repeat
        /\ 2 * Many(LAMBDA x : 2 * Rate(x) >= pt.wu2) >= cfg.repeat
        /\ 2 * Many(LAMBDA x : 2 * HitRate(x) <= pt.hit2) >= cfg.repeat
        /\ 2 * Many(LAMBDA x : 2 * HitRate(x) >= pt.hit2) >= cfg.repeat
        /\ 2 * Many(LAMBDA x : 2 * ErrRate(x) <= pt.err2) >= cfg.repeat
        /\ 2 * Many(LAMBDA x : 2 * ErrRate(x) >= pt.err2) >= cfg.repeat

\* Every verb any repeat made has its line, and no other; though each figure of
\* a line is a median of its own, perhaps of another repeat than its
\* neighbour's, p50, p99 and max are in order; and errors in a single
\* repeat are enough for the point to say that there were some.
LinesInOrder ==
    pt # NoPoint =>
        /\ DOMAIN pt.ops = {v \in Verbs : Many(LAMBDA x : x.h[v].count > 0) > 0}
        /\ \A v \in DOMAIN pt.ops :
              pt.ops[v].p50 <= pt.ops[v].p99 /\ pt.ops[v].p99 <= pt.ops[v].max
        /\ pt.has_err <=> Many(LAMBDA x : x.errors > 0) > 0
================================================================================
