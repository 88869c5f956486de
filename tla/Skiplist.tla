------------------------------- MODULE Skiplist -------------------------------
(***************************************************************************)
(* The in-memory engine, src/backends/skiplist/skiplist.c: a probabilistic *)
(* skip list behind one pthread_rwlock_t. Every pointer read or write      *)
(* under the lock is a step, so what another thread could see of a         *)
(* half-made change is in the model, and what the lock hides is shown, not *)
(* assumed.                                                                *)
(*                                                                         *)
(* A node is named by its key (keys are unique in the list); the head is   *)
(* 0 and the null pointer is Nil. Level 1 here is next[0] of the code.     *)
(***************************************************************************)
EXTENDS KvInterface

CONSTANTS MaxLevel,  \* SL_MAXLEVEL
          Budget     \* per thread, the number of calls it makes (a bound)

ASSUME MaxLevelAssumption == MaxLevel \in Nat \ {0}
ASSUME BudgetAssumption == Budget \in [Threads -> Nat]

HeadNode == 0
NoOne    == "nobody"    \* no thread holds the write lock

ASSUME ThreadsAssumption == NoOne \notin Threads

Nodes  == Keys \cup {HeadNode}
Levels == 1 .. MaxLevel

VARIABLES
    next,    \* next[p][i]: the successor of node p on level i
    nlev,    \* nlev[k]: the level of k's node, 0 when it is not allocated
    val,     \* val[k]: the value of k's node, Missing when it is freed
    level,   \* s->level: the levels in use
    count,   \* s->count: the keys in the list
    readers, \* the threads that hold the lock for reading
    writer,  \* the thread that holds it for writing, or NoOne
    pc,      \* per thread: where it is in its call
    req,     \* per thread: the call
    reply,   \* per thread: the reply built so far
    left,    \* per thread: the calls it still makes
    x, i,    \* per thread: the locals x and i
    update,  \* per thread: the local update[], Nil where it is uninitialised
    closing  \* sl_close: [pc |-> "open" | "walk" | "closed", x |-> node]

list   == <<next, nlev, val, level, count>>
lock   == <<readers, writer>>
locals == <<x, i, update>>
vars   == <<list, lock, pc, req, reply, left, locals, closing>>

Init ==
    /\ next = [p \in Nodes |-> [l \in Levels |-> Nil]]
    /\ nlev = [k \in Keys |-> 0]
    /\ val = [k \in Keys |-> Missing]
    /\ level = 1
    /\ count = 0
    /\ readers = {}
    /\ writer = NoOne
    /\ pc = [t \in Threads |-> "idle"]
    /\ req = [t \in Threads |-> NoRequest]
    /\ reply = [t \in Threads |-> NoReply]
    /\ left = Budget
    /\ x = [t \in Threads |-> HeadNode]
    /\ i = [t \in Threads |-> 0]
    /\ update = [t \in Threads |-> [l \in Levels |-> Nil]]
    /\ closing = [pc |-> "open", x |-> Nil]

Writes(t) == req[t].op \in {"put", "del"}

\* The key a search of thread t's call looks for.
Target(t) == IF req[t].op = "range" THEN req[t].lo ELSE req[t].key

Goto(t, label) == pc' = [pc EXCEPT ![t] = label]

-----------------------------------------------------------------------------
(* The call, the lock and the search every operation begins with.           *)

Invoke(t) ==
    /\ pc[t] = "idle" /\ left[t] > 0
    /\ \E r \in Request : req' = [req EXCEPT ![t] = r]
    /\ left' = [left EXCEPT ![t] = @ - 1]
    /\ Goto(t, "lock")
    /\ UNCHANGED <<list, lock, reply, locals, closing>>

\* The search starts at the head on the highest level in use.
StartSearch(t) ==
    /\ x' = [x EXCEPT ![t] = HeadNode]
    /\ i' = [i EXCEPT ![t] = level]
    /\ Goto(t, "search")
    /\ UNCHANGED <<list, req, reply, left, update, closing>>

\* When pthread_rwlock_wrlock grants the lock.
\* Mutant: a writer that does not wait for the readers.
WrFree_OverReaders == writer = NoOne
WrFree == writer = NoOne /\ readers = {}

\* pthread_rwlock_wrlock in sl_put and sl_del.
WrLock(t) ==
    /\ pc[t] = "lock" /\ Writes(t)
    /\ WrFree
    /\ writer' = t /\ UNCHANGED readers
    /\ StartSearch(t)

\* pthread_rwlock_rdlock in sl_get and sl_range.
RdLock(t) ==
    /\ pc[t] = "lock" /\ ~Writes(t)
    /\ writer = NoOne
    /\ readers' = readers \cup {t} /\ UNCHANGED writer
    /\ StartSearch(t)

\* One pointer of the search: advance on level i, or note the predecessor
\* (writers only) and go down a level.
Search(t) ==
    /\ pc[t] = "search" /\ i[t] > 0
    /\ LET nx == next[x[t]][i[t]] IN
         IF nx # Nil /\ nx < Target(t)
         THEN x' = [x EXCEPT ![t] = nx] /\ UNCHANGED <<i, update>>
         ELSE /\ i' = [i EXCEPT ![t] = @ - 1]
              /\ update' = IF Writes(t) THEN [update EXCEPT ![t][i[t]] = x[t]] ELSE update
              /\ UNCHANGED x
    /\ UNCHANGED <<list, lock, pc, req, reply, left, closing>>

\* x = x->next[0]: the first node not below the target.
Land(t) ==
    /\ pc[t] = "search" /\ i[t] = 0
    /\ x' = [x EXCEPT ![t] = next[x[t]][1]]
    /\ Goto(t, req[t].op)
    /\ UNCHANGED <<list, lock, req, reply, left, i, update, closing>>

Hit(t) == x[t] # Nil /\ x[t] = req[t].key

\* The lock is released with the reply set; the C locals go out of scope.
Unlock(t) ==
    /\ pc[t] = "unlock"
    /\ IF writer = t THEN writer' = NoOne /\ UNCHANGED readers
                     ELSE readers' = readers \ {t} /\ UNCHANGED writer
    /\ x' = [x EXCEPT ![t] = HeadNode]
    /\ i' = [i EXCEPT ![t] = 0]
    /\ update' = [update EXCEPT ![t] = [l \in Levels |-> Nil]]
    /\ Goto(t, "return")
    /\ UNCHANGED <<list, req, reply, left, closing>>

\* The reply is settled; the lock is still held.
Answer(t, r) == reply' = [reply EXCEPT ![t] = r] /\ Goto(t, "unlock")

Return(t) ==
    /\ pc[t] = "return"
    /\ req' = [req EXCEPT ![t] = NoRequest]
    /\ reply' = [reply EXCEPT ![t] = NoReply]
    /\ Goto(t, "idle")
    /\ UNCHANGED <<list, lock, left, locals, closing>>

-----------------------------------------------------------------------------
(* sl_put                                                                    *)

\* The key is there: its value is freed ...
PutFree(t) ==
    /\ pc[t] = "put" /\ Hit(t)
    /\ val' = [val EXCEPT ![x[t]] = Missing]
    /\ Goto(t, "overwrite")
    /\ UNCHANGED <<next, nlev, level, count, lock, req, reply, left, locals, closing>>

\* ... and the new one stored.
PutOverwrite(t) ==
    /\ pc[t] = "overwrite"
    /\ val' = [val EXCEPT ![x[t]] = req[t].val]
    /\ Answer(t, Reply(0, << >>))
    /\ UNCHANGED <<next, nlev, level, count, lock, req, left, locals, closing>>

\* update[] of a put whose node has lvl levels: those new to the list start
\* at the head.
\* Mutant: they are left uninitialised.
HeadFilled_Not(u, lvl) == u
HeadFilled(u, lvl) ==
    [l \in Levels |-> IF level < l /\ l <= lvl THEN HeadNode ELSE u[l]]

\* rand_level and node_new.
PutNode(t) ==
    /\ pc[t] = "put" /\ ~Hit(t)
    /\ \E lvl \in Levels :
         /\ level' = IF lvl > level THEN lvl ELSE level
         /\ update' = [update EXCEPT ![t] = HeadFilled(@, lvl)]
         /\ nlev' = [nlev EXCEPT ![req[t].key] = lvl]
    /\ val' = [val EXCEPT ![req[t].key] = req[t].val]
    /\ next' = [next EXCEPT ![req[t].key] = [l \in Levels |-> Nil]]
    /\ i' = [i EXCEPT ![t] = 1]
    /\ Goto(t, "link")
    /\ UNCHANGED <<count, lock, req, reply, left, x, closing>>

\* Node k spliced in after p on level l.
\* Mutant: p is redirected before its old successor is read.
Spliced_Swapped(k, p, l) == [next EXCEPT ![k][l] = k, ![p][l] = k]
Spliced(k, p, l) == [next EXCEPT ![k][l] = next[p][l], ![p][l] = k]

\* One turn of the splice loop, from the bottom level up.
PutLink(t) ==
    /\ pc[t] = "link"
    /\ LET k == req[t].key  l == i[t] IN
         /\ next' = Spliced(k, update[t][l], l)
         /\ IF l = nlev[k] THEN Goto(t, "counted") /\ UNCHANGED i
                           ELSE i' = [i EXCEPT ![t] = l + 1] /\ UNCHANGED pc
    /\ UNCHANGED <<nlev, val, level, count, lock, req, reply, left, x, update, closing>>

PutCount(t) ==
    /\ pc[t] = "counted"
    /\ count' = count + 1
    /\ Answer(t, Reply(0, << >>))
    /\ UNCHANGED <<next, nlev, val, level, lock, req, left, locals, closing>>

-----------------------------------------------------------------------------
(* sl_get                                                                    *)

GetRead(t) ==
    /\ pc[t] = "get"
    /\ Answer(t, IF Hit(t) THEN Reply(1, << <<x[t], val[x[t]]>> >>) ELSE Reply(0, << >>))
    /\ UNCHANGED <<list, lock, req, left, locals, closing>>

-----------------------------------------------------------------------------
(* sl_del                                                                    *)

\* Mutant: the early return forgets the lock.
DelMiss_KeepsLock(t) ==
    /\ pc[t] = "del" /\ ~Hit(t)
    /\ reply' = [reply EXCEPT ![t] = Reply(0, << >>)]
    /\ Goto(t, "return")
    /\ UNCHANGED <<list, lock, req, left, locals, closing>>

DelMiss(t) ==
    /\ pc[t] = "del" /\ ~Hit(t)
    /\ Answer(t, Reply(0, << >>))
    /\ UNCHANGED <<list, lock, req, left, locals, closing>>

DelHit(t) ==
    /\ pc[t] = "del" /\ Hit(t)
    /\ i' = [i EXCEPT ![t] = 1]
    /\ Goto(t, "unlink")
    /\ UNCHANGED <<list, lock, req, reply, left, x, update, closing>>

\* One turn of the unlink loop over the levels in use, from the bottom up.
DelUnlink(t) ==
    /\ pc[t] = "unlink"
    /\ LET l == i[t]  p == update[t][i[t]] IN
         /\ next' = IF next[p][l] = x[t]
                    THEN [next EXCEPT ![p][l] = next[x[t]][l]]
                    ELSE next
         /\ IF l = level THEN Goto(t, "shrink") /\ UNCHANGED i
                         ELSE i' = [i EXCEPT ![t] = l + 1] /\ UNCHANGED pc
    /\ UNCHANGED <<nlev, val, level, count, lock, req, reply, left, x, update, closing>>

\* The level drops past every level the head has nothing on, and not below 1.
\* Mutant: one level given up whatever is on it.
ShrinksTo_Blind(lvl) == lvl = IF level > 1 THEN level - 1 ELSE 1
ShrinksTo(lvl) ==
    /\ lvl > 1 => next[HeadNode][lvl] # Nil
    /\ \A l \in lvl + 1 .. level : next[HeadNode][l] = Nil

DelShrink(t) ==
    /\ pc[t] = "shrink"
    /\ \E lvl \in 1 .. level : ShrinksTo(lvl) /\ level' = lvl
    /\ Goto(t, "free")
    /\ UNCHANGED <<next, nlev, val, count, lock, req, reply, left, locals, closing>>

\* What a freed node holds is never looked at again (NoUseAfterFree).
FreeNode(k) ==
    /\ nlev' = [nlev EXCEPT ![k] = 0]
    /\ val' = [val EXCEPT ![k] = Missing]
    /\ next' = [next EXCEPT ![k] = [l \in Levels |-> Nil]]

DelFree(t) ==
    /\ pc[t] = "free"
    /\ FreeNode(x[t])
    /\ x' = [x EXCEPT ![t] = Nil]
    /\ Goto(t, "discounted")
    /\ UNCHANGED <<level, count, lock, req, reply, left, i, update, closing>>

DelCount(t) ==
    /\ pc[t] = "discounted"
    /\ count' = count - 1
    /\ Answer(t, Reply(1, << >>))
    /\ UNCHANGED <<next, nlev, val, level, lock, req, left, locals, closing>>

-----------------------------------------------------------------------------
(* sl_range                                                                  *)

\* Mutant: hi included.
RangeMore_Closed(t) ==
    /\ x[t] # Nil
    /\ req[t].limit <= 0 \/ reply[t].rc < req[t].limit
    /\ x[t] <= req[t].hi

\* The loop's condition, and the break on hi.
RangeMore(t) ==
    /\ x[t] # Nil
    /\ req[t].limit <= 0 \/ reply[t].rc < req[t].limit
    /\ x[t] < req[t].hi

\* One row: the callback has it before it is counted, and may stop the scan.
RangeRow(t) ==
    /\ pc[t] = "range" /\ RangeMore(t)
    /\ LET stop == x[t] = req[t].stop IN
         /\ reply' = [reply EXCEPT ![t] =
                        Reply(IF stop THEN @.rc ELSE @.rc + 1,
                              Append(@.rows, <<x[t], val[x[t]]>>))]
         /\ IF stop THEN Goto(t, "unlock") /\ UNCHANGED x
                    ELSE x' = [x EXCEPT ![t] = next[x[t]][1]] /\ UNCHANGED pc
    /\ UNCHANGED <<list, lock, req, left, i, update, closing>>

RangeEnd(t) ==
    /\ pc[t] = "range" /\ ~RangeMore(t)
    /\ Goto(t, "unlock")
    /\ UNCHANGED <<list, lock, req, reply, left, locals, closing>>

-----------------------------------------------------------------------------
(* sl_close, called once the threads are done (TimedPhase shows that).       *)

\* Mutant: the walk begins on the top level.
CloseFrom_Top == next[HeadNode][level]
CloseFrom == next[HeadNode][1]

CloseStart ==
    /\ closing.pc = "open"
    /\ \A t \in Threads : pc[t] = "idle" /\ left[t] = 0
    /\ closing' = [pc |-> "walk", x |-> CloseFrom]
    /\ UNCHANGED <<list, lock, pc, req, reply, left, locals>>

CloseFree ==
    /\ closing.pc = "walk" /\ closing.x # Nil
    /\ closing' = [closing EXCEPT !.x = next[closing.x][1]]
    /\ FreeNode(closing.x)
    /\ UNCHANGED <<level, count, lock, pc, req, reply, left, locals>>

CloseEnd ==
    /\ closing.pc = "walk" /\ closing.x = Nil
    /\ closing' = [closing EXCEPT !.pc = "closed"]
    /\ UNCHANGED <<list, lock, pc, req, reply, left, locals>>

\* The process has nothing left to do with the closed engine.
Closed == closing.pc = "closed" /\ UNCHANGED vars

Step(t) ==
    \/ Invoke(t) \/ WrLock(t) \/ RdLock(t) \/ Search(t) \/ Land(t)
    \/ PutFree(t) \/ PutOverwrite(t) \/ PutNode(t) \/ PutLink(t) \/ PutCount(t)
    \/ GetRead(t)
    \/ DelMiss(t) \/ DelHit(t) \/ DelUnlink(t) \/ DelShrink(t) \/ DelFree(t) \/ DelCount(t)
    \/ RangeRow(t) \/ RangeEnd(t)
    \/ Unlock(t) \/ Return(t)

CloseStep == CloseStart \/ CloseFree \/ CloseEnd

Next == (\E t \in Threads : Step(t)) \/ CloseStep \/ Closed

Spec == Init /\ [][Next]_vars

FairSpec == Spec /\ (\A t \in Threads : WF_vars(Step(t))) /\ WF_vars(CloseStep)

-----------------------------------------------------------------------------
(* Properties                                                                *)

Pcs == {"idle", "lock", "search", "put", "overwrite", "link", "counted", "get",
        "del", "unlink", "shrink", "free", "discounted", "range", "unlock", "return"}

\* The types of the list, the lock and the locals of skiplist.c.
TypeOK ==
    /\ next \in [Nodes -> [Levels -> Keys \cup {Nil}]]
    /\ nlev \in [Keys -> 0 .. MaxLevel]
    /\ val \in [Keys -> Values \cup {Missing}]
    /\ level \in Levels
    /\ count \in Int
    /\ readers \subseteq Threads
    /\ writer \in Threads \cup {NoOne}
    /\ pc \in [Threads -> Pcs]
    /\ req \in [Threads -> Request \cup {NoRequest}]
    /\ left \in [Threads -> Nat]
    /\ x \in [Threads -> Nodes \cup {Nil}]
    /\ i \in [Threads -> 0 .. MaxLevel]
    /\ update \in [Threads -> [Levels -> Nodes \cup {Nil}]]

Allocated(p) == p = HeadNode \/ (p \in Keys /\ nlev[p] > 0)
LevelOf(p)   == IF p = HeadNode THEN MaxLevel ELSE nlev[p]

\* The node after p on level l, were the list to hold exactly the allocated nodes.
Successor(p, l) ==
    LET after == {k \in Keys : nlev[k] >= l /\ k > p}
    IN  IF after = {} THEN Nil ELSE CHOOSE k \in after : \A j \in after : k <= j

\* Whenever no thread is writing, the list is a skip list of exactly the
\* allocated nodes: each level links, in key order, the nodes that reach it;
\* s->level is the highest one in use; s->count is the number of keys; and
\* every key has a value. Splices that go wrong on one level, a level left
\* too high or too low by sl_del and a miscount all break it.
WellFormed ==
    writer = NoOne /\ closing.pc = "open" =>
        /\ \A p \in Nodes : Allocated(p) =>
               \A l \in 1 .. LevelOf(p) : next[p][l] = Successor(p, l)
        /\ level = 1 \/ \E k \in Keys : nlev[k] = level
        /\ \A k \in Keys : nlev[k] <= level
        /\ count = Cardinality({k \in Keys : nlev[k] > 0})
        /\ \A k \in Keys : nlev[k] > 0 => val[k] # Missing

\* The levels a writer is still to splice at.
ToSplice(t) ==
    CASE pc[t] = "link"   -> i[t] .. nlev[req[t].key]
      [] pc[t] = "unlink" -> i[t] .. level
      [] OTHER            -> {}

\* No thread inside sl_put, sl_get, sl_del or sl_range, nor sl_close, holds a
\* pointer to a node another has freed: each cursor, and each predecessor a
\* writer is about to splice at, is set and is an allocated node.
NoUseAfterFree ==
    /\ \A t \in Threads : x[t] = Nil \/ Allocated(x[t])
    /\ \A t \in Threads : \A l \in ToSplice(t) : Allocated(update[t][l])
    /\ closing.x = Nil \/ Allocated(closing.x)

\* What sl_stats reports to the sampler, read without the lock.
sl_stats == [keys |-> count, level |-> level]

\* An unlocked sl_stats in the middle of any operation is off by at most the
\* one key being put or deleted, and never reports fewer levels than a key
\* linked above the bottom occupies.
StatsPlausible ==
    closing.pc = "open" =>
        LET linked == {k \in Keys : \E p \in Nodes : next[p][1] = k}
        IN  /\ sl_stats.keys - Cardinality(linked) \in {-1, 0, 1}
            /\ sl_stats.keys >= 0
            /\ \A k \in linked, p \in Nodes, l \in Levels :
                  next[p][l] = k => l <= sl_stats.level

\* Once sl_close is done, no key's node is left allocated: nothing sl_del took
\* out of the list was forgotten, and nothing in it was out of the walk's reach.
\* (The head has no state here; it is freed in the line after the walk.)
NoLeak == closing.pc = "closed" => \A k \in Keys : nlev[k] = 0

\* While any thread is inside sl_get or sl_range, the list does not change
\* under it.
StableUnderReaders == [][readers # {} => UNCHANGED list]_vars

\* Every call is answered, and the engine closed: the lock is always given
\* back, and no search or splice loop runs for ever.
AllAnswered == <>(closing.pc = "closed")

-----------------------------------------------------------------------------
(* The list implements the ordered map. A put takes effect when it links the *)
(* bottom level, or when it frees the value it overwrites; a del when it     *)
(* unlinks the bottom level; the others when their reply is complete.        *)

Linked(k) == \E p \in Nodes : next[p][1] = k

AbsMap ==
    [k \in Keys |->
        IF closing.pc # "open" \/ ~Linked(k) THEN Missing
        ELSE IF val[k] = Missing THEN req[writer].val ELSE val[k]]

Executed(t) ==
    \/ pc[t] \in {"overwrite", "counted", "shrink", "free", "discounted", "unlock", "return"}
    \/ pc[t] \in {"link", "unlink"} /\ i[t] > 1

AbsStatus ==
    [t \in Threads |-> IF pc[t] = "idle" THEN "idle"
                       ELSE IF Executed(t) THEN "done" ELSE "called"]

AbsReply ==
    [t \in Threads |->
        IF ~Executed(t) THEN NoReply
        ELSE IF pc[t] \in {"unlink", "shrink", "free", "discounted"} THEN Reply(1, << >>)
        ELSE reply[t]]

Map == INSTANCE OrderedMap
         WITH open <- closing.pc = "open", map <- AbsMap,
              status <- AbsStatus, call <- req, reply <- AbsReply

\* skiplist.c is an atomic ordered map for the threads that share it: every
\* put, get, del and range takes effect at one instant of its call.
ImplementsOrderedMap == Map!Spec
=============================================================================
