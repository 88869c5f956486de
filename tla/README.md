# keybench in TLA+

keybench runs Lua workloads against embedded key-value engines (an in-memory
skip list, RocksDB, TidesDB), sweeps thread counts and workload parameters, and
reports throughput and latency. These modules model its core, the part that
decides whether a reported number is true: the engines as workers share them,
the verbs and their retries, the measurement threads, the sweep, the histogram,
the settings of a run, and the way from the measurements to the report files.

Paths below are relative to the repository.

## 1. Inventory

| Part | Source | State | Operations | Hard behaviour |
|---|---|---|---|---|
| vtable | `src/bench.h` | none, the contract of an engine | put, get, del, range, batches, close | return codes: found, absent, `KV_ERR`, `KV_RETRY` |
| skip list | `backends/skiplist/skiplist.c` | nodes, level, count, rwlock | `sl_put` `sl_get` `sl_del` `sl_range` `sl_stats` `sl_close` | readers against writers, unlocked statistics, level growth and shrinkage |
| RocksDB, TidesDB | `backends/rocksdb`, `backends/tidesdb` | the library's, a directory of its own | the same, with native batches; open with the options of its section, close | stalls, failures inside a transaction, rows and iterators to give back; one option of several refused |
| store | `src/store.c` | the open backend | `store_*` | retry loops, batch fallback with one key failing |
| verbs | `src/kvlua.c` | per-worker `op_stats` | `l_put` ... `l_mdel`, `l_scan` | failed lookups against misses, errors raised in callbacks |
| histogram | `src/hist.c` | buckets, count, sum, min, max | record, merge, percentile | bucket rounding, clipping, merge of empty histograms |
| seed phase | `main.c: measure_setup` | load workers, progress thread | open, load, join, return or close | sharding, one worker failing, lifetime of shared arrays |
| timed phase | `main.c: measure_timed` | workers, sampler, progress thread | spawn, join, stop, merge | counters read while written, stop flags on main's stack |
| sweep | `main.c: run_file` | loop indices, `Rs`, rows, the store | setup, repeats, row, close | stale results, store reuse, failures skipping cells |
| settings | `main.c: main`, `config.c` | knobs, config file, replay file | load, flags, checks, save, start | precedence, what a replay loses |
| summary of a point | `main.c: summarize_point`, `median_d` | `Rs`, the array `tmp` | one row from the repeats | one array sorted in place and reused, verbs missing from some repeats |
| reporters | `reporter.c`, their callers in `main.c` | sinks with their files and `header_done` | parse, run, probe, sample, point, close; plot | two threads on one sink without a lock, what a crash leaves |
| CPU affinity | `affinity.c` | the inherited CPU list | enumerate, pin | gaps in the list, more workers than CPUs |
| disk usage | `main.c: du_bytes` | a bounded stack of directories | one walk per sample | files deleted and created under the walk |
| probes, registry | `probe*.c`, `registry.c` | | | see section 7 |
| workloads | `workloads/*.lua` | | `load`, `run` | stride and batch tail of `load` |

Interaction: `main` settles the settings and calls `run_file` for each workload.
`run_file` gets a seeded store from `measure_setup` and runs `measure_timed` on
it. Both start threads that load the workload into a Lua state of their own; its
calls go verb, store, vtable, engine. The workers' counters are shared with one
or two observer threads (relaxed atomics, no lock); the engines are shared by all
workers; the sampler and the seed progress thread also call the reporters, which
the main thread calls too; everything else is passed by joining threads. Of the
engines nothing survives the process: every open makes a directory of its own and
the close removes it, so there is no recovery to model. What does survive is the
report files, and what they hold after a crash is part of `Reporting`.

What makes each part correct is the list of properties in section 3; the hazards
they answer to are in `PROJECT.json`, each at its line.

## 2. Modules

| Module | Models | Notes |
|---|---|---|
| `KvInterface` | requests and replies of the vtable | keys are naturals in the order of `kv_keycmp` |
| `OrderedMap` | the promise: an atomic ordered map | abstract specification, implemented by `Skiplist` |
| `Skiplist` | `skiplist.c` | one action per pointer followed, pointer written or field set; a node is named by its key; `rand_level` is any level |
| `Store` | `kvlua.c` verbs, `store.c`, the write and get paths of the backends | engines are external: a call succeeds, stalls or fails, and one commit or one write takes effect as a whole or not at all; TidesDB stages every write key by key in a transaction and can stall or fail at the begin, at any key and at the commit, RocksDB at the write of its batch; which transactions are not freed yet is counted; "minimal" is a backend with only the required entries |
| `Scan` | range and scan through the three engines | what is taken from the library (lock, iterator, transaction, row) is a set `held` |
| `Hist` | `hist.c`, `stats_merge` | buckets scaled down, words of `Width` bits |
| `SeedPhase` | `measure_setup`, `load_worker_main` with its pinning, `seed_progress_main`, `load()` | kv.mput gives the items to the store and then counts them |
| `TimedPhase` | `measure_timed`, `worker_main`, `sampler_main`, `progress_main`, the repeats of `run_file` | one action per counter read by an observer; a worker's two counters are read in one action, since no property relates them |
| `RunFile` | `run_file`, `run_measurement`, `read_workload_sweep` | the two phases by their outcome |
| `Affinity` | `affinity.c` | operators, used by `SeedPhase`; the list of CPUs is the set in its order |
| `Engine` | open and close of `rocksdb.c` and `tidesdb.c`, the option lookup of `config.c`, `du_bytes` | one size with its two names and the compression stand for all options; the libraries create and delete entries at will; one action per directory entry read |
| `Summary` | `summarize_point`, `median_d` | operators, used by `Reporting`; rates are whole numbers and a median is kept doubled; the `prim_ops` rate and the overall percentiles, which go the same way, are left out |
| `RunConfig` | `main`, `apply_config`, `save_config`, `config.c` | a knob is a small number; `items` stands for users, items and seed |
| `Launch` | `main` and its call of `measure_setup` | composes `RunConfig` with `Engine`: the engine is opened once the settings are settled, with their directory and the section of the config file |
| `Reporting` | `reporter.c`, `main` from `reporters_parse` on, `emit_probes`, `samp_stat_cb`, `sampler_main` and `seed_progress_main` where they report | composes `RunFile` (by `INSTANCE`, every step of the sweep is one of its actions) with the watcher thread of a phase and with `Summary`; one action per line written, and one per flush |
| `PrefixSums` | the summing loops over the workers' counters and over the buckets of a histogram | operators, used by `TimedPhase` and `Hist` |
| `TimedPhaseProofs`, `SeedPhaseProofs`, `RunFileProofs`, `SkiplistProofs`, `StoreProofs`, `EngineProofs`, `ReportingProofs` | theorems about the module of that name; `TimedPhaseProofs` also about `Hist`, `StoreProofs` about `Scan`, `EngineProofs` about `RunConfig` | section 5 |
| `CountingProofs` | lemmas about numbers, sums, ranks and finite sets that they share | section 5 |
| `MC*` | values of constants for TLC | |

`TimedPhase` and `SeedPhase` carry the composition of the threads; `RunFile` sits
above them and uses only what they establish: a phase ends (`CellEnds`,
`SetupEnds`), it leaves no thread behind (`NoThreadOutlives`, `SetupSettles`), and
its result is ok exactly when no worker failed (`ResultIsTrue`). `Skiplist`
assumes that close comes after the workers, which is `NoThreadOutlives`; so does
`Engine` of its walk and the sampler. `Reporting` assumes of the results it
summarizes that p50 <= p99 <= max; for latencies from `Sub` nanoseconds on this is
`PercentileFaithful`, and see section 3 for the others.

A step of `Launch` is a step of one of its two parts, so what is proved of `Engine`
and `RunConfig` holds of it.

`Hist`, `Scan` and `RunConfig` are extended by a proof module beside the component
that module is named for; their specifications are therefore called `HistSpec`,
`ScanSpec` and `RunSpec`, and their variables have names of their own.

Definitions named `X_Something` directly above `X` are plausible mistakes in the
code behind `X`. For each property there is at least one that violates it, listed under
`mutants`.

## 3. Runs

| Run | Bounds | Properties |
|---|---|---|
| `skiplist` | 2 threads (3 calls and 1), 3 keys, 2 values, 2 levels, 5 kinds of call | the list is a skip list whenever nobody writes (`WellFormed`); no cursor or predecessor points at a freed node (`NoUseAfterFree`); unlocked statistics are off by at most the key in flight (`StatsPlausible`); no key's node leaks (`NoLeak`; the head, freed in the line after the walk, has no state); nothing moves under a reader (`StableUnderReaders`); refinement of `OrderedMap` (`ImplementsOrderedMap`); every call is answered (`AllAnswered`) |
| `timed` | 2 workers, 2 repeats, 1 or 3 units, or a clock; the sampler or the progress thread | `NoThreadOutlives`, `SamplesInOrder`, `ResultIsTrue`, `BudgetSpent`, `CellEnds` |
| `seed` | 3 workers, 7 items, batches of 2; unpinned, or pinned to 2 CPUs with a gap, one of them withdrawn or not, or to an unknown set | every item is written once (`SeededOnce`), `SetupSettles`, `SeedSamplesInOrder`; pinning keeps to the CPUs given and spreads evenly (`EvenPlacement`); `SetupEnds` |
| `run_file` | 2 engines, 2 thread counts, no sweep or 2 values, 1 or 2 repeats, all modes | `RowsAreOwn`, `SeededForCell`, `OneStore`, `EveryCellAccounted` |
| `store` | 2 workers (2 verbs and 1), 2 keys, 4 engines, 1 stall | `WrittenOnce`; wherever the staging of a batch is broken off and begun again, only a whole one is committed, and every transaction and write batch is freed once (`BatchIsOneWrite`); `StatsAddUp`, `VerbsReturn` |
| `hist` | 2 workers, 3 samples each of 7 latencies, 5 octaves of 4 buckets, 8-bit words | `MergeIsUnion`, `PercentileFaithful` |
| `scan` | 3 keys, every database, bound, limit, stop and error | `NothingHeld`, `SameRows` |
| `reporting` | 1 engine, 2 thread counts, no sweep or 2 values, 8 command lines, 2 samples a phase (`MaxSamples`), 4 metrics a sample, 4 sinks; 6 results in 1 to 4 repeats in any order | records are whole, with one header, and fit their array (`WholeRecords`); a crash costs at most the report being made, the points are the rows of the sweep, the plotter finds complete files (`NothingLost`); samples come in order, before their point (`TimelineInOrder`); `SpreadIsTrue`, `LinesInOrder` |
| `launch` | any 2 settings split between file and flags, then the replay, with one engine; and for a command line that asks for a persistent engine: every section of up to 3 lines (11 lines to choose from, usable or not), both engines; 3 directory trees, 2 entries created and any deleted under 1 or 2 walks, `DU_MAX_PENDING` 1, `DU_MAX_ENTRIES` 9 | every knob of a run is the last flag for it, else the file's, else the default, but for those another setting replaces, which are listed (`SettingsInForce`); the replay does the same work (`ReplaySameWork`); an option has the line that counts (`OptionsEffective`): the last usable one with RocksDB, the first of its name with TidesDB, where a bad size gives way to the older name or the default and hides later lines, and an unknown compression is none; the walk counts once whatever was there all along (`DuFaithful`); option handles are neither leaked nor used after they are given back (`HandlesReturned`) |
| `store_del` | as `store`, RocksDB and TidesDB | violates `DelTellsExistence` |
| `replay` | any 2 settings, as in `launch` | violates `ReplayIsExact` |
| `flags` | as `replay` | violates `FlagsOverrideFile` |

Why the bounds are enough for the cases of interest:

* `skiplist`: three keys and two levels give a node before, between and after,
  splices on both levels, growth and shrinkage of the level; three calls build a
  list with another thread's call at any point of them.
* `timed`: one unit on two workers leaves one with nothing to do, three leave a
  remainder; the second repeat starts where the first left its memory. The two
  observers share nothing but the counters they read, so one at a time is enough
  for `SamplesInOrder`; the proof covers both together for the rest.
* `seed`: seven items on three workers in twos give full batches, a tail and a
  worker with no tail.
* `hist`: latencies below the resolution, at octave borders and above the last
  octave (31 and 60 with five octaves), and a sum that wraps.
* `seed`, the CPUs: fewer than the workers, with a gap and not starting at 0, so
  that the index wraps and is not the CPU.
* `reporting`: a report directory over the ways of sharing a store, with engine
  figures that fit, just fit and do not fit; two sinks on stdout, so that both
  threads write to one file; report lists that are empty, too long or name an
  unknown reporter. Two samples a phase give a first with the header and one
  after it, and one on either side of a repeat. For the figures: an odd and an even number of
  repeats above one, results with and without each verb, errors and a wall time
  of zero, flat and long tails.
* `launch`: an engine is opened for the settings that ask for a persistent one and
  name its directory, which takes the two; what else is set makes no difference to it,
  so the sections and directories are varied with those settings only. Three lines
  give a bad line before, between and after good ones, and both names of the size with
  a bad value for one. A stack of 1 and a limit of 9 are both met and not met by the
  three trees.
* `store`: the second worker's verb falls anywhere in the first one's two; one
  stall is enough to repeat a call, and more would repeat the same state. Two keys
  in a batch let it be broken off before, between and after them.

The three violations are places where the program does other than its README says:

* `store_del`: `kv.del` on RocksDB and TidesDB is true for an absent key too
  (README:632 "return true if the key existed").
* `replay`: a replay file carries neither `timeline`, `probe` nor `auto_plot`
  (README:361 "replayed exactly"). `ReplaySameWork` shows that everything else does
  come back: what the replay does to the engines is what the run did.
* `flags`: `main` clears `ops` when there is a `secs`, also one from the config file
  only, so `--ops` on the command line is dropped (README:430 and 494 "any flag still
  wins over the file"; README:247 says of the two flags that `--secs` clears the op
  count). This is the only knob for which it happens: with `Asked("secs")` in place
  of `Flag("secs")` the property holds, and `SettingsInForce` says the same of every
  knob, with the file's `secs` taken into account.

A crash needs no action in `Reporting`: it can come at any state, and what it
leaves at least of a file is what was flushed in that state (`Durable`), so the
first part of `NothingLost`, an invariant over `Durable`, says it for every moment
of a crash. A reader may find a torn last line beyond that. The console sink does
not flush, and `NothingLost` says nothing of it.

Met while modelling and not stated as a violation: an empty `data_dir` in the section
of a persistent engine puts it in /tmp, past the check of `main`, which looks at
`--data-dir` only, although README:664 says "there is no default. A default could land
in /tmp" (`OptionsEffective` states it as the code has it); the table of a sweep goes
to stdout, also when a tsv sink writes there (so `WholeRecords` asks for one header
and whole records, not for nothing else in the file); `setup_report_dir` takes a
directory that exists, so two runs started in one second share it.

`PercentileFaithful` claims the resolution of one part in `Sub` only for
latencies from `Sub` nanoseconds on (64 in the code) and below the last octave;
for the others it claims that the percentile lies between min and max, and nothing
of their order: the buckets of 3 and 4 nanoseconds have their middles at 34 and 4, and
those of 63 and 64 at 94 and 64, so a p50 may be above a p99 when latencies are that
short (`BoundsAssumption` of
`Reporting` leaves such results out).

## 4. Fairness

Weak fairness per thread (`skiplist`, `store`, `timed`, `seed`): an operating
system schedules every runnable thread. In `timed` also of the clock
(`Deadline`). A `run()` returns after boundedly many verbs (`MaxVerbs`), a load
has finitely many items, and an engine stalls finitely often (`MaxStalls`): with
an engine that never recovers the retry loop does wait for ever, by design. The
rwlock is granted to any thread that waits and may have it; the budgets being
finite, no assumption about reader or writer preference is needed. The other
runs check safety only. The `replay` run states weak fairness of the program
only so that its specification is that of a run that goes on.

Deadlock is checked in every run; the end of a run is a step that changes nothing
(`Ended`, `Returned`, `Done`, `Closed`, `Reported`, `Over`).

## 5. Proofs

Every theorem holds for all values of the constants that satisfy the named
assumptions of the module it is about. Each rests on an inductive invariant,
`IInv` unless said otherwise, that TLC checked on the instance of the module's run
before it was proved. Every invariant that a passing run checks, and every action
property and refinement, is stated by a theorem; what remains with TLC alone is
liveness.

**`SkiplistProofs`** (any finite set of keys, any `MaxLevel`, any threads and
budgets; `KeysAssumption`, `ValuesAssumption`, `PutsAssumption`, `RangesAssumption`,
`MaxLevelAssumption`, `BudgetAssumption`, `ThreadsAssumption`: the name for "no
thread" names none).

* `ListInvariant`: `Spec => []IInv`. `WellFormed` speaks of the moments without a
  writer; the invariant has to say what the list is in the middle of a splice.
  `Mem[l]` is the set of keys linked at level `l`: those whose node reaches it, but
  for the ones the writer's own node has not reached yet or has left already
  (`Hidden`). `Links` says that the successor of every linked node is the next of
  `Mem[l]`, `Heights` and `Filled` that `level`, `count` and the values fit but for
  what the writer still owes. `Cursor` says of each thread inside the lock that its
  pointer is linked at its level and before its key, and of a writer that its
  `update` entries are the true predecessors; `Locks` and `Calls` who may be where;
  `Closing` what `sl_close` has freed.
* From it: `ListIsWellFormed` (`WellFormed`), `NoCursorDangles` (`NoUseAfterFree`),
  `CloseFreesAll` (`NoLeak`), `StatsArePlausible` (`StatsPlausible`), and the action
  property `ListIsStable` (`StableUnderReaders`).
* `ListIsOrderedMap`: `Spec => ImplementsOrderedMap`. Initial states map to the
  empty map, and each step to a step of the map or a stutter: a put when it links
  the bottom level or overwrites, a del when it unlinks the bottom level, a range
  row by row. `Replies` is a second invariant: a thread's reply, once it has one, is
  the map's, and the rows of a range under way are those of the keys it has passed.

**`StoreProofs`** (any workers, keys, verbs, engines and number of stalls;
`CallsAssumption`, `EnginesAssumption`, `BoundsAssumption`). The properties speak of
the verb that returns or of the time between verbs; the invariant follows the loop:
`Placed` where it is (a batch the engine takes in one call is before it or behind it),
`InBatch` that the keys staged are of the batch under way, with one transaction out in
the staging loop and none elsewhere, `Once` that the keys ahead have not been applied
and those behind at most once, with the return code telling which, `Answered` how many
lookups have their answer, `Tallied` that the statistics lack exactly what the verb
under way will add. From it `WritesHappenOnce` (`WrittenOnce`), `BatchesAreOneWrite`
(`BatchIsOneWrite`) and `StatisticsAddUp`
(`StatsAddUp`, by partition of the answers in hits, misses and errors). What
`BatchesAreOneWrite` adds to the engine's promise is the way to the commit: a staging
loop left at any key, by a stall or a failure, commits nothing, and the retry stages
the batch from its first key. That the commit is all or nothing, and that an engine
which reports a stall has written nothing, is assumed.

The same module holds `Scan` (any keys, database, bounds and limit; `ScanAssumption`).
`ScansGiveBack` (`NothingHeld`) needs only what may be lent at each place (`Lent`).
`EnginesGiveSameRows` (`SameRows`) needs `Walk`: the rows given so far are the least
keys due, each at its rank and with no key left out between two of them, and the
cursor stands at or before the next one (`Walking`, `Standing`); a scan that ended
did so at the limit, at the key the callback stopped at, or past the last key
(`Ended`). The three engines decide this in a different order of tests, and the
rank of a key is what makes their rows one and the same sequence.

**`EngineProofs`** (any section, tree and limits; `TreeAssumption`,
`LimitsAssumption`, `CasesAssumption`: a line's text is not the mark for an option's
default, and what an engine creates on opening is a tree). `Handles` and `Chosen`
follow the section line by line: one handle is held, and an option has the value of
the last usable line before the current one; for TidesDB they say what the lookups
of the size (`Buffer`) and the compression (`Codec`) come to. `Walked` is the walk of `du_bytes`: an
entry is counted once, after its directory and while that is being read; a directory
waits once, with none of its entries counted; and an entry that has been there
throughout is counted, to come in the directory being read, or in one that waits.
`Tree`, that the directory of every file is there, is what makes it right to pass
over a directory that is gone. From these `HandlesAreReturned`, `OptionsAreEffective`
and `DiskUsageIsFaithful` (`DuFaithful`).

The same module holds `RunConfig` (any settings given in the file and on the command
line; `GivenAssumption`). `SettingsAreInForce` (`SettingsInForce`) follows the loop over
the arguments: each knob is what the last flag passed so far asks for, or else what
the file does (`Sofar`), and after the loop the checks, the report directory and the
late lookup of the probes each settle the knobs they are about and leave the others
(`FlagsTaken`). `ReplaysDoTheSame` (`ReplaySameWork`)
follows the values through two programs: in the first, the file saved is a copy of
the settings in force (`Replayed`, `Copy`), which leaves out a knob only where the
checks of `main` or the default restore it (`Told`); in the second, which has no
flags, the plain knobs agree with the first program's once the file is loaded, and
`ops`, `report` and `report_dir` as `main` comes to settle them.

**`TimedPhaseProofs`** (any number of workers, repeats and units, any observers;
`NAssumption`, `RepeatAssumption`, `BoundsAssumption`, `WatchedAssumption`).

* `TypeCorrect`: `Spec => []TypeOK`, one lemma per thread kind.
* `ThreadsAreJoined` (`NoThreadOutlives`). That no observer runs in "merge" depends
  on the joins before it: `Lifetimes` says which threads can be alive at each place
  of the main thread and is inductive together with `TypeOK`.
* `BudgetIsSpent` (`BudgetSpent`). `Ledger` states what the first `i` workers are
  given, `Share(i) = i * (ops \div N) + min(i, ops % N)`; the merge loop keeps
  `R.units = Share(j)` (`SharesAddUp`), and `Share(N) = ops` (`Division`).
* `ResultsAreTrue` (`ResultIsTrue`): the merge loop holds the sums over the workers
  merged so far, and nothing changes them after the join.
* `TicksAreInOrder` (`SamplesInOrder`): the sum an observer has collected, and what
  it will still read, stay between the last tick and the work done (`Underway`),
  since counters only grow.

The same module holds `Hist` (any power of two of buckets an octave, any octaves,
word width, workers and latencies; `HistAssumption`: the shifts of `hist_index` and
`hist_percentile` stay within the word, as 39 + 6 of 64 bits do in the code).

* `MergeLosesNothing` (`MergeIsUnion`). `Gathered` says that every histogram is the
  `Tally` of the events recorded into it, and the merged one that of the events of
  the workers merged; `TallyMerges` and `TallyRecords` that the code's merge and
  record take the tally of two disjoint sets, or of one and a single event, to that
  of the union, the sum up to the wrap of the word.
* `PercentilesAreNear` (`PercentileFaithful`). A value falls in the bucket that
  contains it (`ResolvedIn`, from the place of its highest bit), buckets are in the
  order of their values (`BucketsInOrder`), and the middle of a bucket is within one
  part in `Sub` of all of them (`MiddleIsNear`). The running count over the buckets
  is the number of events in them (`SumCounts`), so the bucket where it reaches the
  target is that of the exact percentile (`RankIsHeld`).

**`SeedPhaseProofs`** (any number of load workers and items, any batch; the
assumptions of `SeedPhase`): `SetupIsSettled` (`SetupSettles`), by the lifetimes of
the threads; `EveryItemIsSeededOnce` (`SeededOnce`): a worker has written the items
of its residue class below its index, and the counters are the sizes of those
sets, which add up to `Items` since the classes are disjoint and cover it;
`SeedProgressIsTrue` (`SeedSamplesInOrder`), as for the ticks. `PlacementIsEven`
(`EvenPlacement`): the list of CPUs runs through the mask, each CPU at its rank
(`Enumerated`), so the workers pinned to one CPU are a residue class of their
numbers; shifting a class by the difference of two residues maps all but at most
one of its members into the other (`EvenClasses`).

**`RunFileProofs`** (any numbers of engines, thread counts, sweep values and
repeats; `SizesAssumption`). `SweepInvariant` says where the sweep is, what the open
store was seeded for and which cells it has yet to serve, whose results are in `Rs`,
and that the cells behind are the rows and the blamed, apart. From it
`RowsAreTheirOwn` (`RowsAreOwn`), `StoresAreClosed` (`OneStore`), `StoreFitsCell`
(`SeededForCell`) and `CellsAreAccounted` (`EveryCellAccounted`).

**`ReportingProofs`** (any command line, sinks, numbers of engines, thread counts and
swept values, any repeats, samples and results; `SweepAssumption`,
`BoundsAssumption`).

* `SweepIsRunFile`: every step of `Reporting` is a step of the sweep or a stutter,
  so the invariant of `RunFileProofs` holds of it and says which cell a report can
  be of.
* `ReportInvariant`: `Spec => []IInv`, with the sweep's invariant. `Turns` says who
  may report: the watcher only while main waits in its phase, main only before the
  sweep or with a point in hand. `Pages` is what the files look like with any number
  of reports half written: the lines still to come continue those written
  (`Writers`), every line is of a report that was made or is being made
  (`Origins`), the header is a sink's first line (`Headers`), no line is there twice
  (`Once`), a report made is flushed (`Safely`), and the lines of a report follow
  each other (`Together`). `Behind` and `Ordered` say that what has been reported is
  of cells the sweep has left, in order, `RowsTold` that the points are the rows but
  for one, `Taken` and `Fits` what a point is made from.
* From it `ReportsAreWhole` (`WholeRecords`), `SamplesStayInOrder`
  (`TimelineInOrder`) and `NothingIsLost` (`NothingLost`).
* `SpreadsAreTrue` (`SpreadIsTrue`) and `LinesAreInOrder` (`LinesInOrder`) are about
  the figures. `summarize_point` sorts one array again and again: that the array is
  sortable (`Sortable`), and what the first, last and middle elements of a sorted one
  are (`Ends`, `Middle`), gives the least, the greatest and the median by counting
  (`Medians`: half of the repeats are on either side). That the medians keep the
  order p50, p99, max of each repeat is a pigeonhole argument: some repeat is in the
  upper half for the one and the lower half for the other (`MedianGrows`).

**Induction over data.** The library's induction theorems take an operator, which no
installed prover can instantiate. `CountingProofs` states induction for the
membership of a set (`LeastNumber`, `Induction`, from the well-foundedness of the
naturals), and with it that the recursive function behind the sums is what its
equation says (`SumUnfolds`), grows with its terms (`SumGrows`) and counts a disjoint
union (`SumOfSizes`). The same device lists a finite set in its order: `Rank` counts
the members below one, each rank is taken once (`RankInSet`), and ranks are in the
order of the members (`RankOrder`); scans, CPU lists and percentiles are proved with
it.

**Only model-checked.** The liveness properties (`AllAnswered`, `VerbsReturn`,
`CellEnds`, `SetupEnds`): fairness and `ENABLED` are out of the prover's reach.

## 6. Plan

Done: the modules and proofs above. What could follow:

1. A composition of `SeedPhase` and `TimedPhase` under `RunFile`, shown to
   implement it, in place of the argument of section 2.
2. `pthread_create` failing, should the code come to handle it.

## 7. Not modelled

* Probes: what they read of the machine, and their selection by name; their
  reports are in `Reporting`. The registry: a list fixed before `main`.
* Statistics of RocksDB and TidesDB: lists of figures copied from the library; a
  sample takes any number of them.
* Options beyond the size and the compression, which are looked up in the same
  way; an option's meaning inside the library.
* An error of the RocksDB iterator, which `rdb_range` does not look at: a short
  range is then passed for a whole one (in `Scan` only TidesDB can break off).
* Characters: parsing of numbers, sizes and lines, formatting of rows, paths too
  long for their buffers. In `RunConfig` the settings are ones that survive
  printing (a `secs` of at most six significant digits; a path without comment
  marks).
* In `Reporting`: a second workload, which goes through the same sinks again; two
  sinks that name one file; the progress lines on stderr.
* A second `--config`, `--help`, and the 64-entry limits of the command line.
* A failing `pthread_create`: its result is not looked at.
* Wall-clock values, rates in floating point, Lua itself, allocation failure
  (the program aborts), plotting and install scripts.
