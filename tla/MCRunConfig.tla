----------------------------- MODULE MCRunConfig -----------------------------
(* Instances of RunConfig for TLC. *)
EXTENDS RunConfig

\* Two values where two settings of a knob can disagree, a zero where it is a
\* value like any other, a repeat below 1, and each other knob on.
MCGiven ==
    {<<"ops", 0>>, <<"ops", 1>>, <<"items", 0>>, <<"secs", 1>>, <<"secs", 2>>, <<"threads", 2>>,
     <<"repeat", 0>>, <<"repeat", 3>>, <<"backend", 1>>, <<"backend", 2>>}
        \cup {<<k, 1>> : k \in {"seed_threads", "seed_once", "pin", "items", "data_dir",
                                "report", "report_dir", "timeline", "probe", "auto_plot"}}
=============================================================================
