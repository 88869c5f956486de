--------------------------------- MODULE Launch ---------------------------------
(***************************************************************************)
(* keybench from its command line to the close of an engine: main settles  *)
(* the settings (RunConfig), and measure_setup opens an engine with the    *)
(* directory and the section they come to (Engine). The two meet in        *)
(* Opens; neither looks back at the other. One engine is opened, in the    *)
(* run and not in its replay: the next one starts from the same settings.  *)
(***************************************************************************)
EXTENDS Engine, RunConfig

\* measure_setup is called once main is running, with the engine of the run, its
\* data directory, and the section of the engine in the config file, if any.
Opens ==
    /\ gen = 1 /\ mpc = "running" /\ run.val["backend"] = Persistent
    /\ case.dataDir # Empty <=> run.val["data_dir"] > 0
    /\ case.section # << >> => run.tuning = 1

\* The replay is another process: it comes after the engine's close, if one was opened.
LaunchNext ==
    \/ pc \in {"dir", "closed"} /\ RunNext /\ UNCHANGED vars
    \/ Opens /\ Next /\ UNCHANGED runVars
=================================================================================
