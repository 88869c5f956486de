------------------------------ MODULE TimedPhase ------------------------------
(***************************************************************************)
(* The timed part of a measurement, src/src/main.c: measure_timed and the  *)
(* threads it starts, worker_main, sampler_main and progress_main, called  *)
(* Repeat times against one store the way the seed-once branch of run_file *)
(* does, then the report of the point and the close of the store.          *)
(*                                                                         *)
(* The threads share the array ws of per-worker counters, the observers'   *)
(* stop flags (locals of measure_timed), the store and the reporters.      *)
(***************************************************************************)
EXTENDS Integers, FiniteSets, PrefixSums

CONSTANTS N,         \* nthreads
          Repeat,    \* --repeat
          OpsGiven,  \* the values of --ops considered
          Watched,   \* the sets of observers considered
          MaxUnits,  \* bound on the units a worker runs before its deadline
          MaxVerbs   \* bound on the primitive operations of one run()

ASSUME NAssumption == N \in Nat \ {0}
ASSUME RepeatAssumption == Repeat \in Nat \ {0}
ASSUME BoundsAssumption == OpsGiven \subseteq Nat /\ MaxUnits \in Nat /\ MaxVerbs \in Nat

Workers   == 0 .. N - 1
Observers == {"sampler", "progress"}

ASSUME WatchedAssumption == Watched \subseteq SUBSET Observers

VARIABLES
    cfg,     \* [timed: --secs given, ops: cfg->ops, watch: the observers wanted]
    mpc,     \* main: where it is in measure_timed and around it
    round,   \* main: the repeat it is on
    j,       \* main: the index of its loops over the workers
    R,       \* main: the point_result being filled, [units, prim, ok]
    store,   \* "open" or "closed"
    ws,      \* "none", "live" or "freed": the worker array
    wpc,     \* per worker: where it is in worker_main
    n,       \* per worker: the local i, the units done
    verbs,   \* per worker: the verbs the current run() has made
    late,    \* the workers whose time is up (--secs)
    units,   \* ws[t].units
    prim,    \* ws[t].kc.stats.prim_ops
    err,     \* ws[t].err
    opc,     \* per observer: where it is in its loop
    stop,    \* per observer: its stop flag
    ot,      \* per observer: the index of its loop over the workers
    cur,     \* per observer: [units, prim] summed so far in this tick
    prev     \* per observer: [units, prim] of the tick before

mainVars   == <<mpc, round, j, R, store, ws>>
workerVars == <<wpc, n, verbs, late, units, prim, err>>
obsVars    == <<opc, stop, ot, cur, prev>>
vars       == <<cfg, mainVars, workerVars, obsVars>>

Zero == [units |-> 0, prim |-> 0]

\* main: --secs makes ops 0; the observers run when stderr is a terminal and
\* when a timeline reporter wants samples.
Config ==
    [timed : {FALSE}, ops : OpsGiven, watch : Watched]
        \cup [timed : {TRUE}, ops : {0}, watch : Watched]

Init ==
    /\ cfg \in Config
    /\ mpc = "begin" /\ round = 1 /\ j = 0
    /\ R = [units |-> 0, prim |-> 0, ok |-> FALSE]
    /\ store = "open" /\ ws = "none"
    /\ wpc = [t \in Workers |-> "off"]
    /\ n = [t \in Workers |-> 0]
    /\ verbs = [t \in Workers |-> 0]
    /\ late = {}
    /\ units = [t \in Workers |-> 0]
    /\ prim = [t \in Workers |-> 0]
    /\ err = [t \in Workers |-> FALSE]
    /\ opc = [o \in Observers |-> "off"]
    /\ stop = [o \in Observers |-> FALSE]
    /\ ot = [o \in Observers |-> 0]
    /\ cur = [o \in Observers |-> Zero]
    /\ prev = [o \in Observers |-> Zero]

-----------------------------------------------------------------------------
(* worker_main                                                               *)

\* ws[t].ops: the budget is split evenly, the first rem workers take one more.
\* Mutant: the remainder is dropped.
Quota_NoRemainder(t) == cfg.ops \div N
Quota(t) == cfg.ops \div N + (IF t < cfg.ops % N THEN 1 ELSE 0)

\* The counters are reset, then the workload is loaded: it may fail, or have
\* no run().
WStart(t) ==
    /\ wpc[t] = "start"
    /\ prim' = [prim EXCEPT ![t] = 0]
    /\ \/ wpc' = [wpc EXCEPT ![t] = "loop"] /\ UNCHANGED err
       \/ wpc' = [wpc EXCEPT ![t] = "exited"] /\ err' = [err EXCEPT ![t] = TRUE]
    /\ UNCHANGED <<cfg, mainVars, obsVars, n, verbs, late, units>>

\* The two breaks at the head of the loop.
\* Mutant: the break on the clock is missing.
OutOfBudget_NoClock(t) == ~cfg.timed /\ n[t] >= Quota(t)
OutOfBudget(t) == IF cfg.timed THEN t \in late ELSE n[t] >= Quota(t)

WBreak(t) ==
    /\ wpc[t] = "loop" /\ OutOfBudget(t)
    /\ wpc' = [wpc EXCEPT ![t] = "last"]
    /\ UNCHANGED <<cfg, mainVars, obsVars, n, verbs, late, units, prim, err>>

WCall(t) ==
    /\ wpc[t] = "loop" /\ ~OutOfBudget(t)
    /\ cfg.timed => n[t] < MaxUnits
    /\ wpc' = [wpc EXCEPT ![t] = "run"]
    /\ verbs' = [verbs EXCEPT ![t] = 0]
    /\ UNCHANGED <<cfg, mainVars, obsVars, n, late, units, prim, err>>

\* One kv verb inside run(): prim_ops grows.
WVerb(t) ==
    /\ wpc[t] = "run" /\ verbs[t] < MaxVerbs
    /\ verbs' = [verbs EXCEPT ![t] = @ + 1]
    /\ prim' = [prim EXCEPT ![t] = @ + 1]
    /\ UNCHANGED <<cfg, mainVars, obsVars, wpc, n, late, units, err>>

\* run() returned: i++, and units published.
WUnit(t) ==
    /\ wpc[t] = "run"
    /\ n' = [n EXCEPT ![t] = @ + 1]
    /\ units' = [units EXCEPT ![t] = n[t] + 1]
    /\ wpc' = [wpc EXCEPT ![t] = "loop"]
    /\ UNCHANGED <<cfg, mainVars, obsVars, verbs, late, prim, err>>

\* run() raised an error.
WError(t) ==
    /\ wpc[t] = "run"
    /\ err' = [err EXCEPT ![t] = TRUE]
    /\ wpc' = [wpc EXCEPT ![t] = "last"]
    /\ UNCHANGED <<cfg, mainVars, obsVars, n, verbs, late, units, prim>>

\* The store of units after the loop.
WLast(t) ==
    /\ wpc[t] = "last"
    /\ units' = [units EXCEPT ![t] = n[t]]
    /\ wpc' = [wpc EXCEPT ![t] = "exited"]
    /\ UNCHANGED <<cfg, mainVars, obsVars, n, verbs, late, prim, err>>

\* The clock passes the worker's deadline.
Deadline(t) ==
    /\ cfg.timed /\ wpc[t] \in {"loop", "run"} /\ t \notin late
    /\ late' = late \cup {t}
    /\ UNCHANGED <<cfg, mainVars, obsVars, wpc, n, verbs, units, prim, err>>

Worker(t) == WStart(t) \/ WBreak(t) \/ WCall(t) \/ WVerb(t) \/ WUnit(t) \/ WError(t) \/ WLast(t)

-----------------------------------------------------------------------------
(* sampler_main and progress_main: one loop, but for what a tick does with   *)
(* the sums. The sampler also reads the store's statistics and calls the     *)
(* reporters; the progress thread only prints.                               *)

\* The wait is over: either the interval is up or the flag is set, and the
\* flag is looked at again.
OTick(o) ==
    /\ opc[o] = "wait" /\ ~stop[o]
    /\ opc' = [opc EXCEPT ![o] = "sum"]
    /\ ot' = [ot EXCEPT ![o] = 0]
    /\ cur' = [cur EXCEPT ![o] = Zero]
    /\ UNCHANGED <<cfg, mainVars, workerVars, stop, prev>>

\* The thread ends, and its locals with it.
OExit(o) ==
    /\ opc[o] = "wait" /\ stop[o]
    /\ opc' = [opc EXCEPT ![o] = "off"]
    /\ ot' = [ot EXCEPT ![o] = 0]
    /\ cur' = [cur EXCEPT ![o] = Zero]
    /\ prev' = [prev EXCEPT ![o] = Zero]
    /\ UNCHANGED <<cfg, mainVars, workerVars, stop>>

\* The counters of one worker, read while it runs; progress has no use for
\* prim_ops.
ORead(o) ==
    /\ opc[o] = "sum" /\ ot[o] < N
    /\ cur' = [cur EXCEPT ![o] = [units |-> @.units + units[ot[o]],
                                  prim  |-> IF o = "sampler" THEN @.prim + prim[ot[o]] ELSE 0]]
    /\ ot' = [ot EXCEPT ![o] = @ + 1]
    /\ UNCHANGED <<cfg, mainVars, workerVars, opc, stop, prev>>

\* The rates of the tick, cur - prev, go out.
OEmit(o) ==
    /\ opc[o] = "sum" /\ ot[o] = N
    /\ prev' = [prev EXCEPT ![o] = cur[o]]
    /\ opc' = [opc EXCEPT ![o] = "wait"]
    /\ UNCHANGED <<cfg, mainVars, workerVars, stop, ot, cur>>

Observer(o) == OTick(o) \/ OExit(o) \/ ORead(o) \/ OEmit(o)

-----------------------------------------------------------------------------
(* measure_timed, on the main thread                                         *)

\* calloc: the counters of the new array.
\* Mutant: the array of the last repeat, as it was left.
Zeroed_Reused(f) == f
Zeroed(f) == [t \in Workers |-> 0]

\* R is reset and ws allocated.
MBegin ==
    /\ mpc = "begin"
    /\ mpc' = "spawn" /\ j' = 0 /\ ws' = "live"
    /\ R' = [units |-> 0, prim |-> 0, ok |-> FALSE]
    /\ units' = Zeroed(units)
    /\ prim' = Zeroed(prim)
    /\ err' = [t \in Workers |-> FALSE]
    /\ wpc' = [t \in Workers |-> "off"]
    /\ n' = [t \in Workers |-> 0]
    /\ verbs' = [t \in Workers |-> 0]
    /\ late' = {}
    /\ UNCHANGED <<cfg, round, store, obsVars>>

MSpawn ==
    /\ mpc = "spawn"
    /\ IF j < N
       THEN wpc' = [wpc EXCEPT ![j] = "start"] /\ j' = j + 1 /\ UNCHANGED mpc
       ELSE mpc' = "watch" /\ j' = 0 /\ UNCHANGED wpc
    /\ UNCHANGED <<cfg, round, R, store, ws, n, verbs, late, units, prim, err, obsVars>>

\* The progress thread is created, then the sampler, each with fresh locals.
MWatch ==
    /\ mpc = "watch"
    /\ opc' = [o \in Observers |-> IF o \in cfg.watch THEN "wait" ELSE "off"]
    /\ stop' = [o \in Observers |-> FALSE]
    /\ ot' = [o \in Observers |-> 0]
    /\ cur' = [o \in Observers |-> Zero]
    /\ prev' = [o \in Observers |-> Zero]
    /\ mpc' = "join"
    /\ UNCHANGED <<cfg, round, j, R, store, ws, workerVars>>

MJoin ==
    /\ mpc = "join"
    /\ IF j < N
       THEN wpc[j] = "exited" /\ j' = j + 1 /\ UNCHANGED mpc
       ELSE mpc' = "stop sampler" /\ j' = 0
    /\ UNCHANGED <<cfg, round, R, store, ws, workerVars, obsVars>>

\* sp.stop = 1, then pr.stop = 1, and the join of each.
MStop(o, here, there) ==
    /\ mpc = here
    /\ stop' = [stop EXCEPT ![o] = TRUE]
    /\ mpc' = there
    /\ UNCHANGED <<cfg, round, j, R, store, ws, workerVars, opc, ot, cur, prev>>

\* pthread_join of an observer; one that was never created is not joined.
\* Mutant: the flag is set and the thread left to itself.
Joined_NotWaited(o) == TRUE
Joined(o) == opc[o] = "off"

MJoinObserver(o, here, there) ==
    /\ mpc = here /\ Joined(o)
    /\ mpc' = there
    /\ UNCHANGED <<cfg, round, j, R, store, ws, workerVars, obsVars>>

\* any_err, kept the other way round.
\* Mutant: the last worker decides.
OkSoFar_LastWins(t) == ~err[t]
OkSoFar(t) == (t = 0 \/ R.ok) /\ ~err[t]

\* One worker's counters into R, and after the last the array is freed.
MMerge ==
    /\ mpc = "merge"
    /\ IF j < N
       THEN /\ R' = [units |-> R.units + units[j], prim |-> R.prim + prim[j],
                     ok |-> OkSoFar(j)]
            /\ j' = j + 1
            /\ UNCHANGED <<mpc, ws>>
       ELSE mpc' = "after" /\ ws' = "freed" /\ UNCHANGED <<R, j>>
    /\ UNCHANGED <<cfg, round, store, workerVars, obsVars>>

-----------------------------------------------------------------------------
(* run_file around it: the repeats, the report of the point, store_close     *)

\* Mutant: one repeat too many, past the end of Rs.
MoreRepeats_OneOver == round <= Repeat
MoreRepeats == round < Repeat

MRepeat ==
    /\ mpc = "after" /\ R.ok /\ MoreRepeats
    /\ round' = round + 1 /\ mpc' = "begin"
    /\ UNCHANGED <<cfg, j, R, store, ws, workerVars, obsVars>>

\* summarize_point: the reporters get the point.
MReport ==
    /\ mpc = "after" /\ R.ok /\ ~MoreRepeats
    /\ mpc' = "reported"
    /\ UNCHANGED <<cfg, round, j, R, store, ws, workerVars, obsVars>>

MClose ==
    /\ mpc = "reported" \/ (mpc = "after" /\ ~R.ok)
    /\ store' = "closed"
    /\ mpc' = "end"
    /\ UNCHANGED <<cfg, round, j, R, ws, workerVars, obsVars>>

Main ==
    \/ MBegin \/ MSpawn \/ MWatch \/ MJoin
    \/ MStop("sampler", "stop sampler", "join sampler")
    \/ MJoinObserver("sampler", "join sampler", "stop progress")
    \/ MStop("progress", "stop progress", "join progress")
    \/ MJoinObserver("progress", "join progress", "merge")
    \/ MMerge \/ MRepeat \/ MReport \/ MClose

\* The cell is done.
Ended == mpc = "end" /\ UNCHANGED vars

Next ==
    \/ Main
    \/ \E t \in Workers : Worker(t) \/ Deadline(t)
    \/ \E o \in Observers : Observer(o)
    \/ Ended

Spec == Init /\ [][Next]_vars

\* Each thread is scheduled and the clock runs; a run() makes boundedly many
\* verbs and returns.
Fairness ==
    /\ WF_vars(Main)
    /\ \A t \in Workers : WF_vars(Worker(t)) /\ WF_vars(Deadline(t))
    /\ \A o \in Observers : WF_vars(Observer(o))

FairSpec == Spec /\ Fairness

-----------------------------------------------------------------------------
(* Properties                                                                *)

MainPcs == {"begin", "spawn", "watch", "join", "stop sampler", "join sampler",
            "stop progress", "join progress", "merge", "after", "reported", "end"}

\* The types of the locals of measure_timed and of the shared counters.
TypeOK ==
    /\ cfg \in Config
    /\ mpc \in MainPcs /\ round \in 1 .. Repeat /\ j \in 0 .. N
    /\ R \in [units : Nat, prim : Nat, ok : BOOLEAN]
    /\ store \in {"open", "closed"} /\ ws \in {"none", "live", "freed"}
    /\ wpc \in [Workers -> {"off", "start", "loop", "run", "last", "exited"}]
    /\ n \in [Workers -> Nat] /\ verbs \in [Workers -> 0 .. MaxVerbs]
    /\ late \subseteq Workers
    /\ units \in [Workers -> Nat] /\ prim \in [Workers -> Nat]
    /\ err \in [Workers -> BOOLEAN]
    /\ opc \in [Observers -> {"off", "wait", "sum"}]
    /\ stop \in [Observers -> BOOLEAN]
    /\ ot \in [Observers -> 0 .. N]
    /\ cur \in [Observers -> [units : Nat, prim : Nat]]
    /\ prev \in [Observers -> [units : Nat, prim : Nat]]

Running(t)  == wpc[t] \in {"start", "loop", "run", "last"}
Watching(o) == opc[o] \in {"wait", "sum"}

\* No worker, sampler or progress thread outlives what it uses: while one runs
\* the array ws is allocated, measure_timed (whose locals hold the stop flags)
\* has not returned, the store is open, and the main thread is not itself in
\* the reporters.
NoThreadOutlives ==
    (\E t \in Workers : Running(t)) \/ (\E o \in Observers : Watching(o))
        => /\ ws = "live"
           /\ store = "open"
           /\ mpc \notin {"begin", "merge", "after", "reported", "end"}

\* The sum of a per-worker counter.
Total(f) == PrefixSum(f, N)[N]

\* A tick's sums are taken one worker at a time while the workers run, yet
\* they never fall below the last tick's (the unsigned difference in
\* sampler_main would wrap) and never run ahead of the work done.
SamplesInOrder ==
    \A o \in Observers : opc[o] = "sum" /\ ot[o] = N =>
        /\ prev[o].units <= cur[o].units /\ cur[o].units <= Total(units)
        /\ prev[o].prim <= cur[o].prim /\ cur[o].prim <= Total(prim)

\* When measure_timed returns, R is what happened: ok exactly when no worker
\* failed, the units those whose run() returned, and the primitive operations
\* the sum over the workers, of this repeat alone.
ResultIsTrue ==
    mpc = "after" =>
        /\ R.ok <=> \A t \in Workers : ~err[t]
        /\ R.units = Total(n)
        /\ R.prim = Total(prim)

\* A repeat of a fixed budget that is ok has done exactly cfg->ops units,
\* however the budget divides among the workers.
BudgetSpent == mpc \in {"after", "reported"} /\ R.ok /\ ~cfg.timed => R.units = cfg.ops

\* Every cell comes to an end: the workers meet their budget or their
\* deadline, the observers see the flag, and the joins return.
CellEnds == <>(mpc = "end")

=============================================================================
