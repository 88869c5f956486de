------------------------------- MODULE Affinity -------------------------------
(***************************************************************************)
(* Placing the workers on CPUs, src/src/affinity.c. The inherited CPU set  *)
(* is enumerated once, before any worker starts, and every worker of every *)
(* phase then pins itself by its thread number. Operators only: SeedPhase  *)
(* keeps the state.                                                        *)
(*                                                                         *)
(* Left out: kb_format_set and kb_desc, the words the probe prints.        *)
(***************************************************************************)
EXTENDS Integers, Sequences, FiniteSets

Unpinned == -1

\* The list kb_cpus of an inherited set, lowest first, and kb_enabled. An
\* empty set stands for a sched_getaffinity that failed.
kb_affinity_init(mask, enable) ==
    [cpus    |-> [n \in 1 .. Cardinality(mask) |->
                    CHOOSE c \in mask : Cardinality({d \in mask : d < c}) = n - 1],
     enabled |-> enable /\ mask # {}]

\* The CPU of worker tid, counted from 0 in C and from 1 here.
\* Mutant: the thread number is taken for the CPU.
Target_Direct(a, tid) == tid
Target(a, tid) == a.cpus[(tid % Len(a.cpus)) + 1]

\* What the worker is bound to; pthread_setaffinity_np fails for a CPU that
\* the process has lost since.
kb_pin_self(a, tid, gone) ==
    IF ~a.enabled \/ Target(a, tid) \in gone THEN Unpinned ELSE Target(a, tid)
===============================================================================
