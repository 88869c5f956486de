------------------------------ MODULE MCSkiplist ------------------------------
(* Instances of Skiplist for TLC. *)
EXTENDS Skiplist, TLC

CONSTANTS t1, t2

MCThreads == {t1, t2}

\* Every key, with two values for the middle one.
MCPuts == {[key |-> 1, val |-> 1], [key |-> 2, val |-> 1],
           [key |-> 2, val |-> 2], [key |-> 3, val |-> 1]}

\* The whole list; one row at most; a limit, and a callback that stops at key 2.
MCRanges == {[lo |-> 1, hi |-> 9, limit |-> 0, stop |-> Nil],
             [lo |-> 2, hi |-> 3, limit |-> 1, stop |-> Nil],
             [lo |-> 1, hi |-> 9, limit |-> 2, stop |-> 2]}

\* Three calls against one: enough to fill the list and delete from the middle
\* while the other thread is anywhere in any call.
MCBudget == t1 :> 3 @@ t2 :> 1
=============================================================================
