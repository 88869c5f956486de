--------------------------------- MODULE Hist ---------------------------------
(***************************************************************************)
(* The latency histogram, src/src/hist.c: logarithmic buckets, Sub of them *)
(* to an octave. Every worker records into one of its own; at the end of a *)
(* timed phase the main thread merges them and reads percentiles off the   *)
(* merged one. A percentile is a number of thousandths here, 999 for p99.9 *)
(* (the double of the code rounds the same for these).                     *)
(***************************************************************************)
EXTENDS Integers, FiniteSets, FiniteSetsExt, PrefixSums

CONSTANTS Sub,         \* HIST_SUB, 64 in the code
          Oct,         \* HIST_OCT, 40 in the code
          Width,       \* the bits of a uint64_t
          NWorkers,    \* the workers
          Latencies,   \* the values recorded
          MaxRecords   \* bound on what one worker records

\* 1 << o.
Pow2[o \in 0 .. Width] == IF o = 0 THEN 1 ELSE 2 * Pow2[o - 1]

Greatest == Pow2[Width] - 1
Wrap(x)  == x % Pow2[Width]

\* Sub is a power of two, and the slot of a value below 2^Oct is found without
\* overflow: (39 + 6 bits of 64 in the code).
ASSUME HistAssumption ==
    /\ Oct \in Nat \ {0} /\ NWorkers \in Nat \ {0} /\ MaxRecords \in Nat
    /\ Width \in Nat /\ Oct < Width
    /\ \E s \in 0 .. Width : Sub = Pow2[s] /\ Oct - 1 + s <= Width
    /\ Latencies \subseteq 0 .. Greatest

Recorders == 0 .. NWorkers - 1
Indices   == 0 .. Sub * Oct - 1

-----------------------------------------------------------------------------
(* hist.c                                                                    *)

Empty == [buckets |-> [i \in Indices |-> 0], count |-> 0, sum |-> 0,
          min |-> Greatest, max |-> 0]

\* The octave of v > 0: the place of its highest bit.
HighBit(v) == CHOOSE o \in 0 .. Width - 1 : Pow2[o] <= v /\ v < Pow2[o + 1]

\* An octave or a slot past the last is held to it.
Clip(x, n) == IF x >= n THEN n - 1 ELSE x

hist_index(v) ==
    IF v = 0 THEN 0
    ELSE LET oct  == Clip(HighBit(v), Oct)
             slot == Clip(Wrap((v - Pow2[oct]) * Sub) \div Pow2[oct], Sub)
         IN  oct * Sub + slot

\* The middle of a bucket.
\* Mutant: the width of the bucket is left at 1.
hist_value_at_Narrow(i) == Pow2[i \div Sub] + (i % Sub)
hist_value_at(i) ==
    LET base  == Pow2[i \div Sub]
        width == IF base < Sub THEN 1 ELSE base \div Sub
    IN  base + (i % Sub) * width + width \div 2

hist_record(h, v) ==
    [buckets |-> [h.buckets EXCEPT ![hist_index(v)] = @ + 1],
     count   |-> h.count + 1,
     sum     |-> Wrap(h.sum + v),
     min     |-> IF v < h.min THEN v ELSE h.min,
     max     |-> IF v > h.max THEN v ELSE h.max]

\* Mutant: the extremes are those of the last one merged.
hist_merge_Extremes(d, s) ==
    [buckets |-> [i \in Indices |-> d.buckets[i] + s.buckets[i]],
     count   |-> d.count + s.count,
     sum     |-> Wrap(d.sum + s.sum),
     min     |-> s.min,
     max     |-> s.max]

hist_merge(d, s) ==
    [buckets |-> [i \in Indices |-> d.buckets[i] + s.buckets[i]],
     count   |-> d.count + s.count,
     sum     |-> Wrap(d.sum + s.sum),
     min     |-> IF s.min < d.min THEN s.min ELSE d.min,
     max     |-> IF s.max > d.max THEN s.max ELSE d.max]

\* The rank looked for: p of count, to the nearest, and at least 1.
Target(count, p) ==
    LET t == (2 * p * count + 1000) \div 2000 IN IF t = 0 THEN 1 ELSE t

Between(v, lo, hi) == IF v < lo THEN lo ELSE IF v > hi THEN hi ELSE v

hist_percentile(h, p) ==
    LET cum   == PrefixSum(h.buckets, Sub * Oct)
        reach == {i \in Indices : cum[i + 1] >= Target(h.count, p)}
    IN  IF h.count = 0 THEN 0
        ELSE IF p <= 0 THEN h.min
        ELSE IF p >= 1000 \/ reach = {} THEN h.max
        ELSE LET v == hist_value_at(Min(reach))
             IN  Between(Between(v, h.min, Greatest), 0, h.max)

-----------------------------------------------------------------------------
(* Its use: recorded by the workers, merged by main                          *)

VARIABLES hist,    \* per worker: its histogram
          seen,    \* per worker: how often it recorded each value (a history variable)
          merged,  \* main: the workers merged so far; -1 while they run
          point    \* main: the histogram of the point

histVars == <<hist, seen, merged, point>>

HistInit ==
    /\ hist = [w \in Recorders |-> Empty]
    /\ seen = [w \in Recorders |-> [v \in Latencies |-> 0]]
    /\ merged = -1
    /\ point = Empty

\* What was recorded: <<w, v, k>> is the k-th time that worker w recorded v.
Events == {e \in Recorders \X Latencies \X (1 .. MaxRecords) : e[3] <= seen[e[1]][e[2]]}
Of(w)  == {e \in Events : e[1] = w}

\* A kv verb ends: its latency is recorded.
Record(w) ==
    /\ merged = -1 /\ Cardinality(Of(w)) < MaxRecords
    /\ \E v \in Latencies :
         /\ hist' = [hist EXCEPT ![w] = hist_record(@, v)]
         /\ seen' = [seen EXCEPT ![w][v] = @ + 1]
    /\ UNCHANGED <<merged, point>>

\* The workers are joined, then stats_merge for each in turn.
Join == merged = -1 /\ merged' = 0 /\ UNCHANGED <<hist, seen, point>>

Merge ==
    /\ merged \in Recorders
    /\ point' = hist_merge(point, hist[merged])
    /\ merged' = merged + 1
    /\ UNCHANGED <<hist, seen>>

\* The point is reported.
Reported == merged = NWorkers /\ UNCHANGED histVars

HistNext == (\E w \in Recorders : Record(w)) \/ Join \/ Merge \/ Reported

HistSpec == HistInit /\ [][HistNext]_histVars

-----------------------------------------------------------------------------
(* Properties                                                                *)

\* The values of a set of events, and each event once for each unit of its value:
\* as many as the sum of the values.
Values(E) == {e[2] : e \in E}
Units(E)  == {u \in E \X (0 .. Greatest) : u[2] < u[1][2]}

\* The histogram of a set of events, by counting.
Tally(E) ==
    [buckets |-> [i \in Indices |-> Cardinality({e \in E : hist_index(e[2]) = i})],
     count   |-> Cardinality(E),
     sum     |-> Wrap(Cardinality(Units(E))),
     min     |-> IF E = {} THEN Greatest ELSE Min(Values(E)),
     max     |-> IF E = {} THEN 0 ELSE Max(Values(E))]

\* Merging loses nothing and counts nothing twice: the histogram of the point
\* is the one a single worker would have had that recorded everything, its
\* sum, its extremes and every bucket, whatever the order, and no value falls
\* outside the buckets.
MergeIsUnion ==
    merged = NWorkers =>
        /\ \A v \in Latencies : hist_index(v) \in Indices
        /\ point = Tally(Events)

Percentiles == {500, 990, 999}

\* The value of the rank the percentile asks for, from the values themselves.
Exact(p) ==
    CHOOSE v \in Values(Events) :
        /\ Cardinality({e \in Events : e[2] <= v}) >= Target(Cardinality(Events), p)
        /\ Cardinality({e \in Events : e[2] < v}) < Target(Cardinality(Events), p)

\* The values the buckets resolve: an octave has Sub of them from Sub on, and
\* Oct octaves end below 2^Oct.
Resolved == \A v \in Values(Events) : v >= Sub /\ v < Pow2[Oct]

\* A percentile of the point is a latency some verb could have had, between
\* the least and the greatest recorded, and for latencies the buckets resolve
\* it is within one part in Sub of the exact one, in the order p50, p99, p99.9.
PercentileFaithful ==
    merged = NWorkers /\ Events # {} =>
        /\ \A p \in Percentiles :
             hist_percentile(point, p) \in Min(Values(Events)) .. Max(Values(Events))
        /\ Resolved =>
             \A p \in Percentiles :
                /\ Sub * (hist_percentile(point, p) - Exact(p)) <= Exact(p)
                /\ Sub * (Exact(p) - hist_percentile(point, p)) <= Exact(p)
                /\ \A q \in Percentiles :
                     q <= p => hist_percentile(point, q) <= hist_percentile(point, p)
=============================================================================
