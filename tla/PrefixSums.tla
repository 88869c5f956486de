------------------------------ MODULE PrefixSums ------------------------------
(***************************************************************************)
(* The sums main.c takes in loops over the threads (for t = 0; t < n; t++):*)
(* the counters of measure_timed, of measure_setup and of the threads that *)
(* watch them.                                                             *)
(***************************************************************************)
EXTENDS Integers

\* The sum after each turn of the loop: entry k is f[0] + ... + f[k - 1].
PrefixSum(f, n) ==
    LET sum[k \in 0 .. n] == IF k = 0 THEN 0 ELSE sum[k - 1] + f[k - 1]
    IN  sum
=============================================================================
