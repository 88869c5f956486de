------------------------------ MODULE MCSeedPhase ------------------------------
(* Instances of SeedPhase for TLC. *)
EXTENDS SeedPhase

\* Unpinned, pinned where the set cannot be had, and pinned to fewer CPUs than
\* workers that do not start at 0, one of them withdrawn or not.
MCPlaces ==
    {[pin |-> FALSE, mask |-> {1, 4}, gone |-> {}],
     [pin |-> TRUE,  mask |-> {},     gone |-> {}],
     [pin |-> TRUE,  mask |-> {1, 4}, gone |-> {}],
     [pin |-> TRUE,  mask |-> {1, 4}, gone |-> {4}]}
================================================================================
