------------------------------ MODULE OrderedMap ------------------------------
(***************************************************************************)
(* What keybench expects of any engine behind the kv_backend vtable        *)
(* (src/src/bench.h): an ordered map shared by the worker threads, whose   *)
(* put, get, del and range each take effect atomically at one instant      *)
(* between the call and its return.                                        *)
(***************************************************************************)
EXTENDS KvInterface

\* The elements of a finite set of integers, in increasing order.
Ascending(S) ==
    [n \in 1 .. Cardinality(S) |->
        CHOOSE k \in S : Cardinality({j \in S : j < k}) = n - 1]

\* The rows a range over map m delivers, and the count it returns: a row
\* whose callback asks to stop is delivered but not counted.
RangeReply(m, r) ==
    LET inRange == {k \in Keys : m[k] # Missing /\ r.lo <= k /\ k < r.hi}
        visible == {k \in inRange : r.stop \in inRange => k <= r.stop}
        all     == Ascending(visible)
        most    == IF r.limit > 0 /\ r.limit < Len(all) THEN r.limit ELSE Len(all)
        keys    == SubSeq(all, 1, most)
        stopped == \E n \in 1 .. most : keys[n] = r.stop
    IN  Reply(IF stopped THEN most - 1 ELSE most,
              [n \in 1 .. most |-> <<keys[n], m[keys[n]]>>])

\* The reply of request r executed alone on map m.
ReplyTo(m, r) ==
    CASE r.op = "put"   -> Reply(0, << >>)
      [] r.op = "get"   -> IF m[r.key] = Missing
                           THEN Reply(0, << >>)
                           ELSE Reply(1, << <<r.key, m[r.key]>> >>)
      [] r.op = "del"   -> Reply(IF m[r.key] = Missing THEN 0 ELSE 1, << >>)
      [] r.op = "range" -> RangeReply(m, r)

\* The map after request r.
MapAfter(m, r) ==
    CASE r.op = "put" -> [m EXCEPT ![r.key] = r.val]
      [] r.op = "del" -> [m EXCEPT ![r.key] = Missing]
      [] OTHER        -> m

VARIABLES open,   \* FALSE once the engine is closed
          map,    \* the contents
          status, \* per thread: "idle", "called" or "done"
          call,   \* per thread: the pending request
          reply   \* per thread: the reply, once done
vars == <<open, map, status, call, reply>>

Init ==
    /\ open = TRUE
    /\ map = [k \in Keys |-> Missing]
    /\ status = [t \in Threads |-> "idle"]
    /\ call = [t \in Threads |-> NoRequest]
    /\ reply = [t \in Threads |-> NoReply]

Invoke(t) ==
    /\ open /\ status[t] = "idle"
    /\ \E r \in Request : call' = [call EXCEPT ![t] = r]
    /\ status' = [status EXCEPT ![t] = "called"]
    /\ UNCHANGED <<open, map, reply>>

Execute(t) ==
    /\ status[t] = "called"
    /\ map' = MapAfter(map, call[t])
    /\ reply' = [reply EXCEPT ![t] = ReplyTo(map, call[t])]
    /\ status' = [status EXCEPT ![t] = "done"]
    /\ UNCHANGED <<open, call>>

Return(t) ==
    /\ status[t] = "done"
    /\ status' = [status EXCEPT ![t] = "idle"]
    /\ call' = [call EXCEPT ![t] = NoRequest]
    /\ reply' = [reply EXCEPT ![t] = NoReply]
    /\ UNCHANGED <<open, map>>

\* The engine is closed between calls, and its contents go with it.
Close ==
    /\ open /\ \A t \in Threads : status[t] = "idle"
    /\ open' = FALSE
    /\ map' = [k \in Keys |-> Missing]
    /\ UNCHANGED <<status, call, reply>>

Next ==
    \/ \E t \in Threads : Invoke(t) \/ Execute(t) \/ Return(t)
    \/ Close

Spec == Init /\ [][Next]_vars
=============================================================================
