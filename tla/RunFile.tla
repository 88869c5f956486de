------------------------------- MODULE RunFile -------------------------------
(***************************************************************************)
(* The sweep of one workload, src/src/main.c: run_file with                *)
(* run_measurement and read_workload_sweep. A cell is an engine, a thread  *)
(* count and a swept value; each cell is measured --repeat times and, if   *)
(* every repeat is ok, summarised into a row. Three ways of sharing the    *)
(* seeded store among the cells:                                           *)
(*   "engine"  --seed-once, and the swept value leaves the data alone: one *)
(*             store per engine;                                           *)
(*   "value"   --seed-once otherwise: one store per engine and value;      *)
(*   "repeat"  the default: one store per repeat of a cell.                *)
(* measure_setup and measure_timed are taken by their outcome (SeedPhase   *)
(* and TimedPhase show what it is worth).                                  *)
(***************************************************************************)
EXTENDS Integers, Sequences, FiniteSets

CONSTANTS NEng,     \* neng, the engines
          NThr,     \* ntp, the thread counts
          SweepLens,\* the numbers of swept values considered, 0 for no sweep
          Repeats   \* the values of --repeat considered

ASSUME SizesAssumption ==
    NEng \in Nat \ {0} /\ NThr \in Nat \ {0} /\ Repeats \subseteq Nat \ {0} /\ SweepLens \subseteq Nat

VARIABLES
    cfg,    \* [nsw: swept values, seedOnce, perValue: seed_per_value, repeat]
    pc,     \* "setup", "timed", "row", "close" or "done"
    ei, ti, si, r,  \* the loop indices
    store,  \* the open store: [value seeded with, runs: timed phases it has had], or NoStore
    Rs,     \* the results of the repeats: [cell, ok], stale ones included
    rows,   \* the rows written: [cell, from: the results summarised]
    blamed  \* the cells a failure was met in (a history variable)

vars == <<cfg, pc, ei, ti, si, r, store, Rs, rows, blamed>>

NoStore == [value |-> -1, runs |-> -1]
NoCell  == <<-1, -1, -1>>

NSteps == IF cfg.nsw > 0 THEN cfg.nsw ELSE 1
Cell == <<ei, ti, si>>
Cells == (0 .. NEng - 1) \X (0 .. NThr - 1) \X (0 .. NSteps - 1)

\* Which branch of run_file the flags choose.
\* Mutant: seed_per_value is not looked at.
Mode_AnySweep == IF cfg.seedOnce /\ cfg.nsw > 0 THEN "engine"
                 ELSE IF cfg.seedOnce THEN "value" ELSE "repeat"
Mode == IF cfg.seedOnce /\ cfg.nsw > 0 /\ ~cfg.perValue THEN "engine"
        ELSE IF cfg.seedOnce THEN "value" ELSE "repeat"

Init ==
    /\ cfg \in [nsw : SweepLens, seedOnce : BOOLEAN, perValue : BOOLEAN, repeat : Repeats]
    /\ pc = "setup" /\ ei = 0 /\ ti = 0 /\ si = 0 /\ r = 0
    /\ store = NoStore
    /\ Rs = [k \in 0 .. cfg.repeat - 1 |-> [cell |-> NoCell, ok |-> FALSE]]
    /\ rows = << >>
    /\ blamed = {}

-----------------------------------------------------------------------------
(* The loops                                                                 *)

\* The next engine, or the end.
NextEngine ==
    /\ ti' = 0 /\ si' = 0 /\ r' = 0
    /\ IF ei + 1 < NEng THEN ei' = ei + 1 /\ pc' = "setup"
                        ELSE pc' = "done" /\ UNCHANGED ei

\* The cell that follows in the order of the branch, by default the swept
\* values inside the thread counts and with --seed-once the other way round;
\* at the end of what one store serves, it is closed first.
NextCell ==
    CASE Mode = "repeat" /\ si + 1 < NSteps ->
            si' = si + 1 /\ r' = 0 /\ pc' = "setup" /\ UNCHANGED <<ei, ti>>
      [] Mode = "repeat" /\ si + 1 = NSteps /\ ti + 1 < NThr ->
            ti' = ti + 1 /\ si' = 0 /\ r' = 0 /\ pc' = "setup" /\ UNCHANGED ei
      [] Mode = "repeat" /\ si + 1 = NSteps /\ ti + 1 = NThr -> NextEngine
      [] Mode # "repeat" /\ ti + 1 < NThr ->
            ti' = ti + 1 /\ r' = 0 /\ pc' = "timed" /\ UNCHANGED <<ei, si>>
      [] Mode = "engine" /\ ti + 1 = NThr /\ si + 1 < NSteps ->
            si' = si + 1 /\ ti' = 0 /\ r' = 0 /\ pc' = "timed" /\ UNCHANGED ei
      [] OTHER -> pc' = "close" /\ UNCHANGED <<ei, ti, si, r>>

\* The store's share of the sweep is over: the next value or the next engine.
\* Mutant: a break where the code has a continue.
NextGroup_Break == NextEngine
NextGroup ==
    IF Mode = "value" /\ si + 1 < NSteps
    THEN si' = si + 1 /\ ti' = 0 /\ r' = 0 /\ pc' = "setup" /\ UNCHANGED ei
    ELSE NextEngine

-----------------------------------------------------------------------------
(* The steps                                                                 *)

\* measure_setup returned a store, seeded for the value the loop is on.
SetupOk ==
    /\ pc = "setup"
    /\ store' = [value |-> si, runs |-> 0]
    /\ pc' = "timed"
    /\ UNCHANGED <<cfg, ei, ti, si, r, Rs, rows, blamed>>

\* The cells the store being set up would serve.
Share ==
    {c \in Cells : /\ c[1] = ei
                   /\ Mode # "engine" => c[3] = si
                   /\ Mode = "repeat" => c[2] = ti}

\* It returned NULL. With --seed-once the whole share is skipped; otherwise
\* run_measurement reports a repeat that is not ok and the cell is left.
SetupNull ==
    /\ pc = "setup"
    /\ IF Mode = "repeat"
       THEN NextCell /\ Rs' = [Rs EXCEPT ![r] = [cell |-> Cell, ok |-> FALSE]]
       ELSE NextGroup /\ UNCHANGED Rs
    /\ blamed' = blamed \cup Share
    /\ UNCHANGED <<cfg, store, rows>>

\* What is left of the store when measure_timed returns: run_measurement
\* closes it, the --seed-once branches keep it.
\* Mutant: run_measurement keeps it too.
StoreAfter_Kept == [store EXCEPT !.runs = @ + 1]
StoreAfter == IF Mode = "repeat" THEN NoStore ELSE [store EXCEPT !.runs = @ + 1]

\* A repeat that is ok leads to the next, or to the row.
TimedOk ==
    /\ pc = "timed"
    /\ Rs' = [Rs EXCEPT ![r] = [cell |-> Cell, ok |-> TRUE]]
    /\ store' = StoreAfter
    /\ IF r + 1 < cfg.repeat
       THEN r' = r + 1 /\ pc' = (IF Mode = "repeat" THEN "setup" ELSE "timed")
       ELSE pc' = "row" /\ UNCHANGED r
    /\ UNCHANGED <<cfg, ei, ti, si, rows, blamed>>

\* One that is not leaves the cell without a row. Its result stays in Rs.
\* Mutant: the row is written all the same.
AfterFailure_Row == pc' = "row" /\ UNCHANGED <<ei, ti, si, r>>
AfterFailure == NextCell

TimedFailed ==
    /\ pc = "timed"
    /\ Rs' = [Rs EXCEPT ![r] = [cell |-> Cell, ok |-> FALSE]]
    /\ blamed' = blamed \cup {Cell}
    /\ store' = StoreAfter
    /\ AfterFailure
    /\ UNCHANGED <<cfg, rows>>

\* summarize_point over the results of the repeats.
Row ==
    /\ pc = "row"
    /\ rows' = Append(rows, [cell |-> Cell, from |-> Rs])
    /\ NextCell
    /\ UNCHANGED <<cfg, store, Rs, blamed>>

Close ==
    /\ pc = "close"
    /\ store' = NoStore
    /\ NextGroup
    /\ UNCHANGED <<cfg, Rs, rows, blamed>>

\* The summary is printed and the file is done.
Done == pc = "done" /\ UNCHANGED vars

Next == SetupOk \/ SetupNull \/ TimedOk \/ TimedFailed \/ Row \/ Close \/ Done

Spec == Init /\ [][Next]_vars

-----------------------------------------------------------------------------
(* Properties                                                                *)

\* A row is made only of the results of its own cell, all of them ok, though
\* one array Rs serves every cell and keeps what a failed one left in it; and
\* no cell has two rows.
RowsAreOwn ==
    \A a \in 1 .. Len(rows) :
        /\ \A k \in 0 .. cfg.repeat - 1 : rows[a].from[k] = [cell |-> rows[a].cell, ok |-> TRUE]
        /\ \A b \in 1 .. Len(rows) : a # b => rows[a].cell # rows[b].cell

\* A measurement whose data depends on the swept value runs on a store seeded
\* for that value; without --seed-once, on one no timed phase has touched.
SeededForCell ==
    pc = "timed" =>
        /\ store # NoStore
        /\ cfg.nsw > 0 /\ cfg.perValue => store.value = si
        /\ ~cfg.seedOnce => store.runs = 0

\* A store is opened only when none is open (a second engine would compete for the
\* memory, the disk and the CPUs being measured), and the last one is closed.
OneStore == pc \in {"setup", "done"} => store = NoStore

\* A failure costs the cells it was met in and no other: at the end every
\* cell either has its row or was blamed, never both, never neither.
EveryCellAccounted ==
    pc = "done" =>
        \A c \in Cells :
            (c \in blamed) # (\E a \in 1 .. Len(rows) : rows[a].cell = c)
=============================================================================
