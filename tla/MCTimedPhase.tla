----------------------------- MODULE MCTimedPhase -----------------------------
(* Instances of TimedPhase for TLC. *)
EXTENDS TimedPhase

\* Each alone: the two share nothing with one another.
MCWatched == {{"sampler"}, {"progress"}}
=============================================================================
