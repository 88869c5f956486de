----------------------------- MODULE KvInterface -----------------------------
(***************************************************************************)
(* The calls a worker makes of an engine through the kv_backend vtable     *)
(* (src/src/bench.h) and the replies it gets: shared by the engine         *)
(* specifications.                                                         *)
(*                                                                         *)
(* Keys are positive integers, so that kv_keycmp's total order is <, 0 is  *)
(* left for a list head and -1 for the null pointer.                       *)
(***************************************************************************)
EXTENDS Integers, Sequences, FiniteSets

CONSTANTS Threads,  \* the threads that call the engine
          Keys,     \* the key space
          Values,   \* the values stored
          Puts,     \* the put calls made: records [key, val]
          Ranges    \* the range calls made: records [lo, hi, limit, stop]

ASSUME KeysAssumption == Keys \subseteq Nat \ {0} /\ IsFiniteSet(Keys)
ASSUME ValuesAssumption == Values \subseteq Nat \ {0}
ASSUME PutsAssumption == Puts \subseteq [key : Keys, val : Values]
ASSUME RangesAssumption == Ranges \subseteq [lo : Nat, hi : Nat, limit : Int, stop : Int]

Nil     == -1   \* a null pointer, and "the callback never stops the scan"
Missing == 0    \* the value of an absent key

(***************************************************************************)
(* A call: the operation and its arguments. A range carries the half-open  *)
(* interval [lo, hi), the row limit (0 for none) and the key at which the  *)
(* caller's callback asks to stop.                                         *)
(***************************************************************************)
Request ==
    {[op |-> "put", key |-> p.key, val |-> p.val] : p \in Puts}
        \cup [op : {"get", "del"}, key : Keys]
        \cup {[op |-> "range", lo |-> r.lo, hi |-> r.hi,
               limit |-> r.limit, stop |-> r.stop] : r \in Ranges}

NoRequest == [op |-> "none"]

(***************************************************************************)
(* A reply: the integer the C function returns and the rows it hands over  *)
(* (the value of a get hit, the rows a range passes to the callback).      *)
(***************************************************************************)
Reply(rc, rows) == [rc |-> rc, rows |-> rows]
NoReply == Reply(0, << >>)
=============================================================================
