--------------------------------- MODULE Scan ---------------------------------
(***************************************************************************)
(* kv.range and kv.scan: l_range and l_scan of src/src/kvlua.c, and the    *)
(* range of each backend, sl_range, rdb_range and tdb_range, which walk    *)
(* the keys of [lo, hi) in order and hand each row to a callback. What an  *)
(* engine hands out has to be given back on every way out: the read lock   *)
(* of the skip list, the iterator of RocksDB, and of TidesDB the           *)
(* transaction, the iterator and each row.                                 *)
(*                                                                         *)
(* One call on a database that stands still: the lock, or the snapshot of  *)
(* the iterator, keeps writers away from it.                               *)
(***************************************************************************)
EXTENDS Integers, Sequences, FiniteSets, FiniteSetsExt, SequencesExt

CONSTANTS ScanKeys,  \* the key space
          Bounds,    \* the values of lo and hi
          Limits     \* the values of limit

ASSUME ScanAssumption == ScanKeys \subseteq Nat \ {0} /\ Bounds \subseteq Nat /\ Limits \subseteq Int

None == 0   \* no key: an iterator past the end, a callback that never stops

VARIABLES
    backend, \* "skiplist", "rocksdb" or "tidesdb"
    present, \* the keys it holds
    q,       \* the call: [verb, lo, hi, limit, stop, raise]
    where,   \* where the call is
    pos,     \* the key the walk is on, or None
    n,       \* the local n
    rows,    \* the rows the callback was given
    held,    \* what the engine has handed out and not had back
    broken,  \* the engine failed somewhere (a history variable)
    result   \* what the verb came to: "none" yet, "table", "count" or "error"

scanVars == <<backend, present, q, where, pos, n, rows, held, broken, result>>

\* collect_cb never asks to stop; a scan's callback may, or may raise an error.
Query ==
    [verb : {"range"}, lo : Bounds, hi : Bounds, limit : Limits, stop : {None}, raise : {None}]
        \cup [verb : {"scan"}, lo : Bounds, hi : Bounds, limit : Limits,
              stop : ScanKeys \cup {None}, raise : ScanKeys \cup {None}]

ScanInit ==
    /\ backend \in {"skiplist", "rocksdb", "tidesdb"}
    /\ present \in SUBSET ScanKeys
    /\ q \in Query
    /\ where = "open" /\ pos = None /\ n = 0 /\ rows = << >>
    /\ held = {} /\ broken = FALSE /\ result = "none"

\* The first key of the database not below k.
From(k) == LET ge == {a \in present : a >= k} IN IF ge = {} THEN None ELSE Min(ge)

-----------------------------------------------------------------------------

\* The lock, the iterator, or the transaction, is taken. A TidesDB that will
\* not begin one makes an empty range.
Open ==
    /\ where = "open"
    /\ \/ /\ held' = {CASE backend = "skiplist" -> "lock" [] backend = "rocksdb" -> "iter"
                        [] backend = "tidesdb" -> "txn"}
          /\ where' = (IF backend = "tidesdb" THEN "iter" ELSE "seek")
          /\ UNCHANGED broken
       \/ /\ backend = "tidesdb"
          /\ where' = "lua" /\ broken' = TRUE /\ UNCHANGED held
    /\ UNCHANGED <<backend, present, q, pos, n, rows, result>>

\* tidesdb_iter_new, and the free of the transaction should it fail.
OpenIter ==
    /\ where = "iter"
    /\ \/ held' = held \cup {"iter"} /\ where' = "seek" /\ UNCHANGED broken
       \/ held' = held \ {"txn"} /\ where' = "lua" /\ broken' = TRUE
    /\ UNCHANGED <<backend, present, q, pos, n, rows, result>>

Seek ==
    /\ where = "seek"
    /\ pos' = From(q.lo) /\ where' = "head"
    /\ UNCHANGED <<backend, present, q, n, rows, held, broken, result>>

\* The condition of the loop.
LoopHead ==
    /\ where = "head"
    /\ where' = IF pos # None /\ (q.limit <= 0 \/ n < q.limit) THEN "row" ELSE "close"
    /\ UNCHANGED <<backend, present, q, pos, n, rows, held, broken, result>>

\* Mutant: hi is taken for part of the range.
PastHi_Open == pos > q.hi
PastHi == pos >= q.hi

\* Whether the callback ends the walk; an error in a Lua callback does too.
Stops == pos \in {q.stop, q.raise}

\* The row under the iterator: TidesDB hands out a copy of it, or fails to.
Fetch ==
    /\ where = "row"
    /\ \/ /\ held' = IF backend = "tidesdb" THEN held \cup {"row"} ELSE held
          /\ where' = "visit" /\ UNCHANGED broken
       \/ backend = "tidesdb" /\ where' = "close" /\ broken' = TRUE /\ UNCHANGED held
    /\ UNCHANGED <<backend, present, q, pos, n, rows, result>>

\* tidesdb_free of the row, on the way out as well.
\* Mutant: only on the common path.
Freed_Common == IF PastHi \/ Stops THEN {} ELSE {"row"}
Freed == {"row"}

\* It is looked at against hi, counted and given to the callback, which
\* sl_range asks before it counts, and given back.
Visit ==
    /\ where = "visit"
    /\ IF PastHi THEN UNCHANGED <<n, rows>>
       ELSE /\ rows' = Append(rows, pos)
            /\ n' = IF backend = "skiplist" /\ Stops THEN n ELSE n + 1
    /\ where' = IF PastHi \/ Stops THEN "close" ELSE "next"
    /\ held' = held \ Freed
    /\ UNCHANGED <<backend, present, q, pos, broken, result>>

\* The next key; the TidesDB iterator may fail to move.
Move ==
    /\ where = "next"
    /\ \/ pos' = From(pos + 1) /\ where' = "head" /\ UNCHANGED broken
       \/ backend = "tidesdb" /\ where' = "close" /\ broken' = TRUE /\ UNCHANGED pos
    /\ UNCHANGED <<backend, present, q, n, rows, held, result>>

Close ==
    /\ where = "close"
    /\ held' = held \ {"lock", "iter", "txn"}
    /\ where' = "lua"
    /\ UNCHANGED <<backend, present, q, pos, n, rows, broken, result>>

\* l_range makes the table of the rows; l_scan returns the count, or raises
\* the callback's error only now, with the engine out of the way.
Lua ==
    /\ where = "lua"
    /\ result' = IF q.verb = "range" THEN "table"
                 ELSE IF rows # << >> /\ Last(rows) = q.raise THEN "error" ELSE "count"
    /\ where' = "returned"
    /\ UNCHANGED <<backend, present, q, pos, n, rows, held, broken>>

Returned == where = "returned" /\ UNCHANGED scanVars

ScanNext == Open \/ OpenIter \/ Seek \/ LoopHead \/ Fetch \/ Visit \/ Move \/ Close \/ Lua \/ Returned

ScanSpec == ScanInit /\ [][ScanNext]_scanVars

-----------------------------------------------------------------------------
(* Properties                                                                *)

\* However the walk ends, past hi, at the limit, at the callback's word, in a
\* Lua error or in an engine's, everything the engine handed out is back when
\* the verb returns to Lua, and before a Lua error is raised.
NothingHeld == where \in {"lua", "returned"} => held = {}

\* The keys of [lo, hi), and those of them up to the one the callback stops at.
InRange == {k \in present : q.lo <= k /\ k < q.hi}
Seen    == {k \in InRange : \A s \in InRange \cap {q.stop, q.raise} : k <= s}

\* These in order, the one with a - 1 of them below it in place a, and cut at
\* the limit: defined on the set, with no walk.
Expected ==
    LET keys == [a \in 1 .. Cardinality(Seen) |->
                    CHOOSE k \in Seen : Cardinality({x \in Seen : x < k}) = a - 1]
    IN  IF q.limit > 0 /\ q.limit < Len(keys) THEN SubSeq(keys, 1, q.limit) ELSE keys

\* Every engine gives the callback the same rows, those of the half-open range,
\* unless it failed, and then a beginning of them; and the count is theirs, but
\* for the row a callback stops at, which the skip list does not count.
SameRows ==
    where = "returned" =>
        /\ IF broken THEN IsPrefix(rows, Expected) ELSE rows = Expected
        /\ n = IF backend = "skiplist" /\ rows # << >> /\ Last(rows) \in {q.stop, q.raise}
               THEN Len(rows) - 1 ELSE Len(rows)
=============================================================================
