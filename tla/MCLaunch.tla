-------------------------------- MODULE MCLaunch --------------------------------
(* An instance of Launch for TLC. *)
EXTENDS Launch, MCEngine, MCRunConfig

\* The command line that asks for a persistent engine and for its directory, with
\* a config file that has a section for the engine.
ForEngine ==
    /\ args = <<<<"backend", Persistent>>, <<"data_dir", 1>>>> /\ files # << >> /\ save = FALSE
    /\ file = [NoFile EXCEPT !.tuning = 1]

PlainCase == CHOOSE c \in Walks : c.engine = "tidesdb" /\ c.walks = 1 /\ c.churn = 0

\* Every engine with those settings, and every settings with one engine.
MCInit ==
    \/ RunInit /\ ForEngine /\ Init
    \/ case = PlainCase /\ Init /\ RunInit

MCSpec == MCInit /\ [][LaunchNext]_<<vars, runVars>>
=================================================================================
