------------------------------ MODULE SeedPhase ------------------------------
(***************************************************************************)
(* The seeding part of a measurement, src/src/main.c: measure_setup, the   *)
(* load workers it starts (load_worker_main, running the load() of the     *)
(* mixed, batch, scan and valsize workloads; cart walks its users the same *)
(* way) and seed_progress_main, which watches them. Items are              *)
(* 0 .. Items - 1; worker t writes t, t + N, t + 2N, ... in batches of     *)
(* Batch through kv.mput.                                                  *)
(***************************************************************************)
EXTENDS Integers, FiniteSets, Affinity

CONSTANTS N,      \* seed_nthreads
          Items,  \* ctx.items
          Batch,  \* SEED_BATCH
          Places  \* [pin: --pin, mask: the CPUs inherited, gone: those of them since withdrawn]

ASSUME NAssumption == N \in Nat \ {0}
ASSUME ItemsAssumption == Items \in Nat
ASSUME BatchAssumption == Batch \in Nat \ {0}
ASSUME PlacesAssumption ==
    \A p \in Places : p.pin \in BOOLEAN /\ p.gone \subseteq p.mask
                       /\ p.mask \subseteq Nat /\ IsFiniteSet(p.mask)

Workers == 0 .. N - 1

VARIABLES
    cfg,     \* [load: the workload has a load(), watch: progress is wanted, place]
    aff,     \* the CPUs enumerated and whether to pin, fixed since startup
    mpc,     \* main: where it is in measure_setup
    j,       \* main: the index of its loops
    lerr,    \* main: some worker failed
    seeded,  \* main: the keys it adds up as it joins
    result,  \* what measure_setup returns: "none" yet, "store" or "null"
    store,   \* "none", "open" or "closed"
    lw,      \* "none", "live" or "freed": the worker array
    wpc,     \* per worker: where it is
    nextItem,\* per worker: the loop variable i of load()
    buf,     \* per worker: the items in buf[1..n]
    prim,    \* lw[t].kc.stats.prim_ops
    err,     \* lw[t].err
    cpu,     \* per worker: the CPU it is bound to, or Unpinned
    written, \* per item: the times the store was given it
    opc,     \* the progress thread: "off", "wait" or "sum"
    stop,    \* its stop flag
    ot,      \* its index over the workers
    cur,     \* its sum in this tick
    prev     \* its sum in the last one

mainVars   == <<mpc, j, lerr, seeded, result, store, lw>>
workerVars == <<wpc, nextItem, buf, prim, err, cpu, written>>
obsVars    == <<opc, stop, ot, cur, prev>>
vars       == <<cfg, aff, mainVars, workerVars, obsVars>>

Init ==
    /\ cfg \in [load : BOOLEAN, watch : BOOLEAN, place : Places]
    /\ aff = kb_affinity_init(cfg.place.mask, cfg.place.pin)
    /\ mpc = "open" /\ j = 0 /\ lerr = FALSE /\ seeded = 0 /\ result = "none"
    /\ store = "none" /\ lw = "none"
    /\ wpc = [t \in Workers |-> "off"]
    /\ nextItem = [t \in Workers |-> t]
    /\ buf = [t \in Workers |-> {}]
    /\ prim = [t \in Workers |-> 0]
    /\ err = [t \in Workers |-> FALSE]
    /\ cpu = [t \in Workers |-> Unpinned]
    /\ written = [i \in 0 .. Items - 1 |-> 0]
    /\ opc = "off" /\ stop = FALSE /\ ot = 0 /\ cur = 0 /\ prev = 0

-----------------------------------------------------------------------------
(* load_worker_main and the load() it calls                                  *)

WGoto(t, label) == wpc' = [wpc EXCEPT ![t] = label]

\* With --pin the worker binds itself first, which the kernel refuses for a CPU
\* that is gone, and nobody looks; the counters are reset and the workload loaded, which may fail.
LStart(t) ==
    /\ wpc[t] = "start"
    /\ cpu' = [cpu EXCEPT ![t] = IF cfg.place.pin THEN kb_pin_self(aff, t, cfg.place.gone) ELSE @]
    /\ prim' = [prim EXCEPT ![t] = 0]
    /\ \/ WGoto(t, "load") /\ UNCHANGED err
       \/ WGoto(t, "exited") /\ err' = [err EXCEPT ![t] = TRUE]
    /\ UNCHANGED <<cfg, aff, mainVars, obsVars, nextItem, buf, written>>

\* The stride of the loop.
Stride == N

\* Mutant: the loop's bound included.
MoreItems_Closed(t) == nextItem[t] <= Items
MoreItems(t) == nextItem[t] < Items

\* One turn of the loop: the item is buffered, and a full buffer goes out.
LItem(t) ==
    /\ wpc[t] = "load" /\ MoreItems(t)
    /\ buf' = [buf EXCEPT ![t] = @ \cup {nextItem[t]}]
    /\ nextItem' = [nextItem EXCEPT ![t] = @ + Stride]
    /\ IF Cardinality(buf[t]) + 1 = Batch THEN WGoto(t, "mput") ELSE UNCHANGED wpc
    /\ UNCHANGED <<cfg, aff, mainVars, obsVars, prim, err, cpu, written>>

\* After the loop, what is left in the buffer goes out, if anything is.
LTail(t) ==
    /\ wpc[t] = "load" /\ ~MoreItems(t)
    /\ IF buf[t] # {} THEN WGoto(t, "mput") ELSE WGoto(t, "exited")
    /\ UNCHANGED <<cfg, aff, mainVars, obsVars, nextItem, buf, prim, err, cpu, written>>

\* kv.mput: the store is given the batch ...
LPut(t) ==
    /\ wpc[t] = "mput"
    /\ written' = [i \in 0 .. Items - 1 |-> written[i] + (IF i \in buf[t] THEN 1 ELSE 0)]
    /\ WGoto(t, "count")
    /\ UNCHANGED <<cfg, aff, mainVars, obsVars, nextItem, buf, prim, err, cpu>>

\* ... and its keys are counted.
LCount(t) ==
    /\ wpc[t] = "count"
    /\ prim' = [prim EXCEPT ![t] = @ + Cardinality(buf[t])]
    /\ buf' = [buf EXCEPT ![t] = {}]
    /\ WGoto(t, "load")
    /\ UNCHANGED <<cfg, aff, mainVars, obsVars, nextItem, err, cpu, written>>

\* load() raises an error.
LError(t) ==
    /\ wpc[t] = "load"
    /\ err' = [err EXCEPT ![t] = TRUE]
    /\ WGoto(t, "exited")
    /\ UNCHANGED <<cfg, aff, mainVars, obsVars, nextItem, buf, prim, cpu, written>>

Worker(t) == LStart(t) \/ LItem(t) \/ LTail(t) \/ LPut(t) \/ LCount(t) \/ LError(t)

-----------------------------------------------------------------------------
(* seed_progress_main                                                        *)

\* A tick starts its sum over.
\* Mutant: it goes on from the last.
FreshSum_Kept == cur
FreshSum == 0

PTick ==
    /\ opc = "wait" /\ ~stop
    /\ opc' = "sum" /\ ot' = 0 /\ cur' = FreshSum
    /\ UNCHANGED <<cfg, aff, mainVars, workerVars, stop, prev>>

PRead ==
    /\ opc = "sum" /\ ot < N
    /\ cur' = cur + prim[ot] /\ ot' = ot + 1
    /\ UNCHANGED <<cfg, aff, mainVars, workerVars, opc, stop, prev>>

\* The rate since the last tick and the keys so far go out.
PEmit ==
    /\ opc = "sum" /\ ot = N
    /\ prev' = cur /\ opc' = "wait"
    /\ UNCHANGED <<cfg, aff, mainVars, workerVars, stop, ot, cur>>

PExit ==
    /\ opc = "wait" /\ stop
    /\ opc' = "off" /\ ot' = 0 /\ cur' = 0 /\ prev' = 0
    /\ UNCHANGED <<cfg, aff, mainVars, workerVars, stop>>

Progress == PTick \/ PRead \/ PEmit \/ PExit

-----------------------------------------------------------------------------
(* measure_setup, on the main thread                                         *)

MOpen ==
    /\ mpc = "open"
    /\ store' = "open" /\ mpc' = "probe"
    /\ UNCHANGED <<cfg, aff, j, lerr, seeded, result, lw, workerVars, obsVars>>

\* The workload is loaded once on the main thread, for its name and to see
\* whether it has a load(); a file that does not load ends it here.
MProbe ==
    /\ mpc = "probe"
    /\ \/ /\ mpc' = "return" /\ store' = "closed" /\ result' = "null"
          /\ UNCHANGED lw
       \/ /\ ~cfg.load
          /\ mpc' = "return" /\ result' = "store" /\ UNCHANGED <<store, lw>>
       \/ /\ cfg.load
          /\ mpc' = "spawn" /\ lw' = "live" /\ UNCHANGED <<store, result>>
    /\ UNCHANGED <<cfg, aff, j, lerr, seeded, workerVars, obsVars>>

MSpawn ==
    /\ mpc = "spawn"
    /\ IF j < N
       THEN WGoto(j, "start") /\ j' = j + 1 /\ UNCHANGED <<mpc, opc>>
       ELSE /\ mpc' = "join" /\ j' = 0 /\ UNCHANGED wpc
            /\ opc' = IF cfg.watch THEN "wait" ELSE "off"
    /\ UNCHANGED <<cfg, aff, lerr, seeded, result, store, lw, nextItem, buf, prim, err, cpu, written,
                   stop, ot, cur, prev>>

\* spg.stop.
\* Mutant: the flag is never set.
StopSignal_Forgotten == FALSE
StopSignal == TRUE

\* The workers are joined in turn, their keys and errors added up; then the
\* progress thread is told to stop.
MJoin ==
    /\ mpc = "join"
    /\ IF j < N
       THEN /\ wpc[j] = "exited"
            /\ seeded' = seeded + prim[j] /\ lerr' = (lerr \/ err[j])
            /\ j' = j + 1 /\ UNCHANGED <<mpc, stop>>
       ELSE mpc' = "joinProgress" /\ stop' = StopSignal /\ UNCHANGED <<seeded, lerr, j>>
    /\ UNCHANGED <<cfg, aff, result, store, lw, workerVars, opc, ot, cur, prev>>

\* Mutant: the array is freed under the progress thread.
ProgressJoined_Not == TRUE
ProgressJoined == opc = "off"

\* The progress thread is joined, the array freed, and a store that did not
\* load is closed rather than returned.
MReturn ==
    /\ mpc = "joinProgress" /\ ProgressJoined
    /\ mpc' = "return" /\ lw' = "freed"
    /\ store' = IF lerr THEN "closed" ELSE "open"
    /\ result' = IF lerr THEN "null" ELSE "store"
    /\ UNCHANGED <<cfg, aff, j, lerr, seeded, workerVars, obsVars>>

Main == MOpen \/ MProbe \/ MSpawn \/ MJoin \/ MReturn

Returned == mpc = "return" /\ UNCHANGED vars

Next == Main \/ (\E t \in Workers : Worker(t)) \/ Progress \/ Returned

Spec == Init /\ [][Next]_vars

FairSpec ==
    /\ Spec
    /\ WF_vars(Main) /\ WF_vars(Progress)
    /\ \A t \in Workers : WF_vars(Worker(t))

-----------------------------------------------------------------------------
(* Properties                                                                *)

\* The types of the locals of measure_setup and of what the threads share.
TypeOK ==
    /\ cfg \in [load : BOOLEAN, watch : BOOLEAN, place : Places]
    /\ aff \in [cpus : Seq(Nat), enabled : BOOLEAN] /\ cpu \in [Workers -> Int]
    /\ mpc \in {"open", "probe", "spawn", "join", "joinProgress", "return"}
    /\ j \in 0 .. N /\ lerr \in BOOLEAN /\ seeded \in Nat
    /\ result \in {"none", "store", "null"}
    /\ store \in {"none", "open", "closed"} /\ lw \in {"none", "live", "freed"}
    /\ wpc \in [Workers -> {"off", "start", "load", "mput", "count", "exited"}]
    /\ nextItem \in [Workers -> Nat] /\ buf \in [Workers -> SUBSET (0 .. Items - 1)]
    /\ prim \in [Workers -> Nat] /\ err \in [Workers -> BOOLEAN]
    /\ written \in [0 .. Items - 1 -> Nat]
    /\ opc \in {"off", "wait", "sum"} /\ stop \in BOOLEAN
    /\ ot \in 0 .. N /\ cur \in Nat /\ prev \in Nat

\* A store handed back after a load() was given every item, each exactly once
\* whatever the threads and the batch size, and the count the seed line
\* shows is the number of items.
SeededOnce ==
    result = "store" /\ cfg.load =>
        (\A i \in 0 .. Items - 1 : written[i] = 1) /\ seeded = Items

\* measure_setup hands back an open store or closes it: NULL comes with the
\* store closed, a store only when no worker failed; and by then no thread is
\* left that would use the freed array or the store.
SetupSettles ==
    mpc = "return" =>
        /\ result = "null" <=> store = "closed"
        /\ result = "store" => \A t \in Workers : ~err[t]
        /\ lw # "live" /\ opc = "off"
        /\ \A t \in Workers : wpc[t] \in {"off", "exited"}

\* The keys the progress thread reports never fall and never run ahead of
\* what the store was given.
SeedSamplesInOrder ==
    opc = "sum" /\ ot = N =>
        /\ prev <= cur
        /\ cur <= Cardinality({i \in 0 .. Items - 1 : written[i] > 0})

\* The workers bound to a CPU.
On(c) == {t \in Workers : cpu[t] = c}

\* --pin keeps to the CPUs the process was given, which need not start at 0
\* or be contiguous, and where none is refused it spreads the workers over
\* them as evenly as they go, also when there are more workers than CPUs.
EvenPlacement ==
    /\ \A t \in Workers : cpu[t] # Unpinned => cfg.place.pin /\ cpu[t] \in cfg.place.mask
    /\ On(Unpinned) = {} =>
          \A c, d \in cfg.place.mask : Cardinality(On(c)) <= Cardinality(On(d)) + 1

\* Seeding ends.
SetupEnds == <>(mpc = "return")
=============================================================================
