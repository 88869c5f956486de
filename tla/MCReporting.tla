------------------------------ MODULE MCReporting ------------------------------
(* Instances of Reporting for TLC. *)
EXTENDS Reporting

Unused == [count |-> 0, p50 |-> 0, p99 |-> 0, max |-> 0]
Used(c, a, b, m) == [count |-> c, p50 |-> a, p99 |-> b, max |-> m]

Of(u, w, gets, g, p) ==
    [units |-> u, wall |-> w, hits |-> gets[1], misses |-> gets[2], errors |-> gets[3],
     h |-> [v \in Verbs |-> IF v = "get" THEN g ELSE p]]

\* Fast and slow repeats, one too short for the clock, ones with and without
\* reads, with a flat and with a long tail, with misses and with errors.
Various ==
    {Of(2, 1, <<0, 0, 0>>, Unused, Used(2, 3, 4, 9)),
     Of(4, 2, <<1, 1, 0>>, Used(2, 5, 5, 5), Used(2, 1, 8, 8)),
     Of(3, 1, <<2, 0, 0>>, Used(2, 2, 6, 7), Unused),
     Of(7, 1, <<0, 0, 1>>, Used(1, 4, 4, 4), Used(6, 2, 2, 3)),
     Of(1, 0, <<0, 1, 1>>, Used(2, 1, 9, 9), Unused),
     Of(6, 1, <<1, 0, 1>>, Used(2, 6, 7, 8), Used(4, 5, 6, 6))}

One == {Of(4, 2, <<1, 1, 0>>, Used(2, 5, 5, 5), Used(2, 1, 8, 8))}

Tok(name, path) == [name |-> name, path |-> path]

Cfgs(lens, once, reps) ==
    [nsw : lens, seedOnce : once, perValue : {FALSE}, repeat : reps]

\* A report directory with a timeline of an engine whose figures fit, just fit or
\* do not, over the ways of sharing a store.
Directory(n, lens, once) ==
    [spec |-> <<Tok("console", "-"), Tok("console", "report.txt"), Tok("tsv", "points.tsv"),
                Tok("timeline", "timeline.tsv")>>,
     timeline |-> TRUE, plot |-> TRUE, probes |-> 1, stats |-> n, datadir |-> TRUE,
     cfgs |-> Cfgs(lens, once, {1}), results |-> One]

\* Everything on stdout, two repeats.
Piped ==
    [spec |-> <<Tok("timeline", "-"), Tok("tsv", "-")>>,
     timeline |-> TRUE, plot |-> FALSE, probes |-> 1, stats |-> 0, datadir |-> FALSE,
     cfgs |-> Cfgs({0}, {FALSE}, {2}), results |-> One]

\* The figures of a point, from one to four repeats.
Figures ==
    [spec |-> <<Tok("tsv", "-")>>,
     timeline |-> TRUE, plot |-> FALSE, probes |-> 0, stats |-> 0, datadir |-> FALSE,
     cfgs |-> Cfgs({0}, {FALSE}, {1, 2, 3, 4}), results |-> Various]

\* Lists that are empty, too long or wrong.
Plain(spec) ==
    [spec |-> spec, timeline |-> FALSE, plot |-> FALSE, probes |-> 2, stats |-> 0,
     datadir |-> FALSE, cfgs |-> Cfgs({0}, {FALSE}, {1}), results |-> One]

MCJobs ==
    {Directory(0, {2}, {TRUE}), Directory(1, {0}, {TRUE}), Directory(2, {0}, {FALSE}), Piped, Figures, Plain(<< >>),
     Plain(<<Tok("tsv", "a"), Tok("csv", "b")>>),
     Plain([n \in 1 .. 5 |-> Tok("tsv", "-")])}
================================================================================
