-------------------------------- MODULE Summary --------------------------------
(***************************************************************************)
(* The row of a point, src/src/main.c: summarize_point with median_d, over *)
(* the results of the repeats. One array tmp serves every median, and      *)
(* median_d sorts it in place; the extremes of a rate are then read off    *)
(* its ends. Operators only: Reporting takes the results as they come.     *)
(*                                                                         *)
(* A repeat's percentiles are taken as Hist makes them. Rates are whole    *)
(* numbers, chosen so that the divisions come out, and a median is kept    *)
(* doubled, since the middle of two may be a half.                         *)
(* Left out: the other verbs, p999, the prim_ops rate and the overall      *)
(* percentiles, each one more median of the same kind.                     *)
(***************************************************************************)
EXTENDS Integers, Sequences, FiniteSets, FiniteSetsExt, Functions

\* Per verb, what its histogram says: [count, p50, p99, max], all 0 if it is empty.
Verbs == {"get", "put"}

\* A repeat's result.
PointResults == [units : Nat, wall : Nat, hits : Nat, misses : Nat, errors : Nat,
                 h : [Verbs -> [count : Nat, p50 : Nat, p99 : Nat, max : Nat]]]

-----------------------------------------------------------------------------

\* qsort by cmp_d.
\* Mutant: the array is left as it was filled.
Sorted_Not(a) == a
Sorted(a) ==
    LET p == CHOOSE p \in Bijection(DOMAIN a, DOMAIN a) :
                 \A i, k \in DOMAIN a : i < k => a[p[i]] <= a[p[k]]
    IN  [i \in DOMAIN a |-> a[p[i]]]

\* Twice what median_d returns.
median_d(a) ==
    LET n == Len(a)
        s == Sorted(a)
    IN  IF n % 2 = 1 THEN 2 * s[n \div 2 + 1] ELSE s[n \div 2] + s[n \div 2 + 1]

\* The median cast to uint64_t.
Whole(a) == median_d(a) \div 2

\* The verbs that get a line: those some repeat has made.
\* Mutant: those the first one has.
Made_First(rs, v) == rs[1].h[v].count > 0
Made(rs, v) == \E r \in DOMAIN rs : rs[r].h[v].count > 0

\* The line of a verb; the count is rounded to nearest.
Line(rs, v) ==
    LET h == [r \in DOMAIN rs |-> rs[r].h[v]] IN
    [count |-> (median_d([r \in DOMAIN h |-> h[r].count]) + 1) \div 2,
     p50   |-> Whole([r \in DOMAIN h |-> h[r].p50]),
     p99   |-> Whole([r \in DOMAIN h |-> h[r].p99]),
     max   |-> Whole([r \in DOMAIN h |-> h[r].max])]

Percent(part, whole) == IF whole > 0 THEN (100 * part) \div whole ELSE 0

HitRate(r) == Percent(r.hits, r.hits + r.misses)
ErrRate(r) == Percent(r.errors, r.hits + r.misses + r.errors)

\* Work units per second, as prim_ops per second is taken too.
Rate(r) == IF r.wall > 0 THEN r.units \div r.wall ELSE 0

summarize_point(rs) ==
    LET tmp == [r \in DOMAIN rs |-> Rate(rs[r])] IN
    [ops     |-> [v \in {v \in Verbs : Made(rs, v)} |-> Line(rs, v)],
     has_hit |-> \E r \in DOMAIN rs : rs[r].hits + rs[r].misses > 0,
     hit2    |-> median_d([r \in DOMAIN rs |-> HitRate(rs[r])]),
     has_err |-> \E r \in DOMAIN rs : rs[r].errors > 0,
     err2    |-> median_d([r \in DOMAIN rs |-> ErrRate(rs[r])]),
     wu2     |-> median_d(tmp),
     wu_lo   |-> Sorted(tmp)[1],
     wu_hi   |-> Sorted(tmp)[Len(rs)]]
================================================================================
