------------------------------- MODULE RunConfig -------------------------------
(***************************************************************************)
(* How main (src/src/main.c) arrives at the run it makes, from the [bench] *)
(* section of a config file and the command line, what save_config writes  *)
(* of it, and the run that replays that file.                              *)
(*                                                                         *)
(* A knob has a small number for its value: 0 where it is not set or off.  *)
(* items stands for users, items and seed, which are treated alike. The    *)
(* numbers are ones the file can hold: secs has at most the six digits %g  *)
(* prints, a size its plain value.                                         *)
(***************************************************************************)
EXTENDS Integers, Sequences, SequencesExt

CONSTANTS Given,    \* what a file or a command line may say: pairs <<knob, value>>
          MaxGiven  \* bound on how many of them one run is given

Knobs == {"backend", "threads", "seed_threads", "seed_once", "pin", "secs", "ops", "items",
          "repeat", "data_dir", "report", "report_dir", "timeline", "probe", "auto_plot"}

\* A text that is given is not the absent one, and --auto-plot has no off.
ASSUME GivenAssumption ==
    /\ Given \subseteq Knobs \X Nat /\ MaxGiven \in Nat
    /\ \A g \in Given : g[1] \in {"backend", "threads", "report_dir", "probe", "auto_plot"} => g[2] > 0

Skiplist   == 1   \* a backend: in memory, the default
Persistent == 2   \* a backend: rocksdb or tidesdb
Bundle     == 9   \* the report of a report directory

\* cfg and the other locals of main at their initial values.
Defaults == [k \in Knobs |-> CASE k \in {"ops", "items"} -> 8 [] k = "repeat" -> 1 [] OTHER -> 0]

VARIABLES
    gen,     \* 1 for the run, 2 for its replay
    mpc,     \* where main is
    file,    \* the config: [bench: per knob its value or Unset, workloads, tuning], or NoFile
    args,    \* the flags of the command line
    files,   \* the workloads of the command line
    save,    \* a replay file is to be written
    at,      \* the argument main is on
    val,     \* the knobs so far
    run,     \* the run made: [val, workloads, tuning], or NoRun
    first,   \* in the replay, the run it replays
    saved    \* the replay file, or NoFile

runVars == <<gen, mpc, file, args, files, save, at, val, run, first, saved>>

Unset  == -1
NoFile == [bench |-> [k \in Knobs |-> Unset], workloads |-> << >>, tuning |-> -1]
NoRun  == [val |-> Defaults, workloads |-> << >>, tuning |-> -1]

\* What kv_opt_str finds of a knob in the lines of a section: the first of several.
Found(s, k) ==
    LET own == {a \in DOMAIN s : s[a][1] = k} IN IF own = {} THEN Unset ELSE s[Min(own)][2]

\* Any file and command line within the bound. A bad flag is one main refuses.
RunInit ==
    /\ gen = 1 /\ mpc = "load" /\ at = 1 /\ val = Defaults
    /\ \E f \in SeqOf(Given, MaxGiven), a \in SeqOf(Given \cup {<<"bad", 0>>}, MaxGiven),
          w \in {<< >>, <<1>>}, u \in {-1, 0, 1} :
         /\ Len(f) + Len(a) <= MaxGiven
         /\ u = -1 => f = << >> /\ w = << >>
         /\ file = [bench |-> [k \in Knobs |-> Found(f, k)], workloads |-> w, tuning |-> u]
         /\ args = a
    /\ files \in {<< >>, <<2, 1>>}
    /\ save \in BOOLEAN
    /\ run = NoRun /\ first = NoRun /\ saved = NoFile

HasFile == file.tuning >= 0

\* kv_opt_str and kv_opt_int on [bench]: its setting, or the default.
Opt(k, dflt) == IF file.bench[k] = Unset THEN dflt ELSE file.bench[k]

\* What apply_config reads; main looks up the other knobs later, and only
\* where the command line is silent.
Applied == Knobs \ {"report_dir", "probe", "auto_plot"}

-----------------------------------------------------------------------------

\* main returns 2, over the command line or over a file it cannot use.
Refuse == mpc' = "refused" /\ UNCHANGED <<gen, file, args, files, save, at, val, run, first, saved>>
IOFail == mpc' = "failed" /\ UNCHANGED <<gen, file, args, files, save, at, val, run, first, saved>>

\* cfg_load and apply_config.
Load ==
    /\ mpc = "load"
    /\ \/ HasFile /\ IOFail
       \/ /\ val' = [k \in Knobs |-> IF k \in Applied THEN Opt(k, val[k]) ELSE val[k]]
          /\ mpc' = "args"
          /\ UNCHANGED <<gen, file, args, files, save, at, run, first, saved>>

\* A flag is taken, the last of several to stay.
\* Mutant: not where the file has spoken.
Took_FileWins(k, v) == IF file.bench[k] # Unset THEN val ELSE [val EXCEPT ![k] = v]
Took(k, v) == [val EXCEPT ![k] = v]

Arg ==
    /\ mpc = "args" /\ at <= Len(args)
    /\ IF args[at][1] = "bad" THEN Refuse
       ELSE /\ val' = Took(args[at][1], args[at][2])
            /\ at' = at + 1
            /\ UNCHANGED <<gen, mpc, file, args, files, save, run, first, saved>>

Workloads == IF files = << >> THEN file.workloads ELSE files

\* After the flags: --secs clears ops; a run needs a workload, and a persistent
\* engine a data directory; the backend, thread list and repeat get their
\* defaults, auto_plot and report_dir a second look in the file.
Check ==
    /\ mpc = "args" /\ at > Len(args)
    /\ IF Workloads = << >> \/ (val["backend"] = Persistent /\ val["data_dir"] = 0) THEN Refuse
       ELSE /\ mpc' = "report"
            /\ val' = [val EXCEPT
                  !["ops"] = IF val["secs"] > 0 THEN 0 ELSE @,
                  !["backend"] = IF @ = 0 THEN Skiplist ELSE @,
                  !["threads"] = IF @ = 0 THEN 1 ELSE @,
                  !["repeat"] = IF @ < 1 THEN 1 ELSE @,
                  !["auto_plot"] = IF @ = 0 THEN Opt("auto_plot", 0) ELSE @,
                  !["report_dir"] = IF @ = 0 THEN Opt("report_dir", 0) ELSE @]
            /\ UNCHANGED <<gen, file, args, files, save, at, run, first, saved>>

\* setup_report_dir takes over the report and asks for a replay file.
ReportDir ==
    /\ mpc = "report"
    /\ IF val["report_dir"] = 0
       THEN mpc' = "save" /\ UNCHANGED <<gen, file, args, files, save, at, val, run, first, saved>>
       ELSE \/ IOFail
            \/ /\ val' = [val EXCEPT !["report"] = Bundle]
               /\ save' = TRUE /\ mpc' = "save"
               /\ UNCHANGED <<gen, file, args, files, at, run, first, saved>>

\* The knobs save_config writes: items always, ops unless a time is set, report
\* unless there is a report directory, and the others where they are set.
\* Mutant: the flags without a value are forgotten.
Written(k) ==
    CASE k = "items"  -> TRUE
      [] k = "ops"    -> val["secs"] = 0
      [] k = "report" -> val["report_dir"] = 0 /\ val["report"] > 0
      [] OTHER        -> val[k] > 0

Kept_Valued(k) == Written(k) /\ k \notin {"timeline", "probe", "auto_plot", "pin", "seed_once"}
Kept(k) == Written(k) /\ k \notin {"timeline", "probe", "auto_plot"}

\* save_config: a file that cannot be written does not end the run.
Save ==
    /\ mpc = "save"
    /\ \/ /\ save
          /\ saved' = [bench |-> [k \in Knobs |-> IF Kept(k) THEN val[k] ELSE Unset],
                       workloads |-> Workloads,
                       tuning |-> IF HasFile THEN file.tuning ELSE 0]
       \/ UNCHANGED saved
    /\ mpc' = "start"
    /\ UNCHANGED <<gen, file, args, files, save, at, val, run, first>>

\* The probes are chosen, the reporters opened, and the workloads run.
Start ==
    /\ mpc = "start"
    /\ \/ IOFail
       \/ /\ val' = [val EXCEPT !["probe"] = IF @ = 0 THEN Opt("probe", 0) ELSE @]
          /\ run' = [val |-> val', workloads |-> Workloads,
                     tuning |-> IF HasFile THEN file.tuning ELSE 0]
          /\ mpc' = "running"
          /\ UNCHANGED <<gen, file, args, files, save, at, first, saved>>

\* keybench --config <the replay file>.
Replay ==
    /\ mpc = "running" /\ gen = 1 /\ saved # NoFile
    /\ gen' = 2 /\ mpc' = "load" /\ at' = 1 /\ val' = Defaults
    /\ file' = saved /\ args' = << >> /\ files' = << >> /\ save' = FALSE
    /\ first' = run /\ run' = NoRun
    /\ UNCHANGED saved

Over ==
    /\ mpc \in {"refused", "failed"} \/ (mpc = "running" /\ (gen = 2 \/ saved = NoFile))
    /\ UNCHANGED runVars

RunNext == Load \/ Arg \/ Check \/ ReportDir \/ Save \/ Start \/ Replay \/ Over

RunSpec == RunInit /\ [][RunNext]_runVars
FairRunSpec == RunSpec /\ WF_runVars(RunNext)

-----------------------------------------------------------------------------
(* Properties                                                                *)

\* What a run does to the engines; the others are how it is watched.
WorkKnobs == Knobs \ {"timeline", "probe", "auto_plot"}

\* A replay does the work of the run that wrote its file: whatever mix of file
\* and flags that came from, the replay is not refused and has the same knobs,
\* workloads and engine tuning.
ReplaySameWork ==
    gen = 2 =>
        /\ mpc # "refused"
        /\ mpc = "running" =>
             /\ \A k \in WorkKnobs : run.val[k] = first.val[k]
             /\ run.workloads = first.workloads /\ run.tuning = first.tuning

\* What was asked for: the last flag for the knob, else the file, else the default.
LastFlag(k, m) ==
    LET own == {a \in 1 .. m : args[a][1] = k} IN IF own = {} THEN Unset ELSE args[Max(own)][2]
Flag(k)  == LastFlag(k, Len(args))
Asked(k) == IF Flag(k) # Unset THEN Flag(k) ELSE Opt(k, Defaults[k])

\* The run has every knob as it was asked for, wherever main looks it up, with the
\* file read before the flags, among them or long after: but that a time asked for
\* anywhere, the file included, takes the place of ops, a report directory that of
\* report, and a backend, thread list or repeat of nothing is one.
InForce(k) ==
    CASE k = "ops" /\ Asked("secs") > 0 -> 0
      [] k = "report" /\ Asked("report_dir") > 0 -> Bundle
      [] k \in {"backend", "threads", "repeat"} /\ Asked(k) = 0 -> 1
      [] OTHER -> Asked(k)

SettingsInForce == mpc = "running" => \A k \in Knobs : run.val[k] = InForce(k)

\* Any flag overrides the file: a knob that the command line names comes out as
\* though there were no file. (A report directory, documented to override --report,
\* is left aside.)
FlagsOverrideFile ==
    mpc = "running" =>
        \A k \in Knobs \ {"report"} :
            Flag(k) # Unset =>
                run.val[k] = CASE k = "ops" /\ Flag("secs") > 0 -> 0
                               [] k = "repeat" /\ Flag(k) = 0 -> 1
                               [] OTHER -> Flag(k)

\* A run can be replayed exactly from the file it wrote.
ReplayIsExact == gen = 2 /\ mpc = "running" => run = first
=============================================================================
