---------------------------- MODULE SkiplistProofs ----------------------------
(***************************************************************************)
(* What holds of skiplist.c for every number of threads and of calls, every *)
(* finite set of keys and every SL_MAXLEVEL, with a step for every pointer *)
(* that is read or written under the lock.                                 *)
(***************************************************************************)
EXTENDS Skiplist, CountingProofs, SequenceTheorems, TLAPS

-----------------------------------------------------------------------------
(* The lock and the calls                                                    *)

\* The threads between the lock and the unlock of their call.
Busy(t) == pc[t] \notin {"idle", "lock", "return"}

\* They are the ones that hold the lock, and it excludes as it should.
Locks ==
    /\ \A t \in Threads : t = writer <=> Busy(t) /\ Writes(t)
    /\ \A t \in Threads : t \in readers <=> Busy(t) /\ ~Writes(t)
    /\ writer = NoOne \/ readers = {}

\* Each thread is in the function it called.
Calls ==
    \A t \in Threads :
        /\ IF pc[t] = "idle" THEN req[t] = NoRequest ELSE req[t] \in Request
        /\ pc[t] \in {"put", "overwrite", "link", "counted"} => req[t].op = "put"
        /\ pc[t] \in {"del", "unlink", "shrink", "free", "discounted"} => req[t].op = "del"
        /\ pc[t] = "get" => req[t].op = "get"
        /\ pc[t] = "range" => req[t].op = "range"

-----------------------------------------------------------------------------
(* The list                                                                  *)

\* Where the writer is, if there is one.
WPc == IF writer = NoOne THEN "none" ELSE pc[writer]

\* The levels on which the node of a put is not yet linked, or that of a del not
\* any more.
Hidden(k, l) ==
    \/ WPc = "link" /\ k = req[writer].key /\ l >= i[writer]
    \/ WPc = "unlink" /\ k = x[writer] /\ l < i[writer]
    \/ WPc \in {"shrink", "free"} /\ k = x[writer]

\* The nodes in the list of each level, in the middle of a splice too.
Mem == [l \in Levels |-> {k \in Keys : nlev[k] >= l /\ ~Hidden(k, l)}]
In(k, l) == k \in Mem[l]

\* A node to go on from, on level l.
Starts(p, l) == (p = HeadNode /\ closing.pc = "open") \/ In(p, l)

\* k comes right after p on level l, or nothing does.
Follows(p, l, k) ==
    \/ k = Nil /\ \A j \in Keys : In(j, l) => j <= p
    \/ In(k, l) /\ p < k /\ \A j \in Keys : In(j, l) /\ j < k => j <= p

\* The node a del has begun to unlink: it still points into the list.
Dropped ==
    {k \in Keys : /\ WPc \in {"shrink", "free"} \/ (WPc = "unlink" /\ i[writer] > 1)
                  /\ k = x[writer]}

\* Every level links its nodes in order; no pointer leads out of the list, and no
\* other leads into it.
Links ==
    /\ \A p \in Nodes, l \in Levels : Starts(p, l) => Follows(p, l, next[p][l])
    /\ closing.pc = "open" =>
          \A p \in Nodes, l \in Levels :
             /\ next[p][l] = Nil \/ In(next[p][l], l)
             /\ next[p][l] = Nil \/ Starts(p, l) \/ p \in Dropped

\* The node a del is about to free, and that whose value a put is replacing.
Leaving == {k \in Keys : WPc = "free" /\ k = x[writer]}
Unset   == {k \in Keys : WPc = "overwrite" /\ k = x[writer]}

\* The level is the highest in use.
Heights ==
    /\ \A k \in Keys : nlev[k] <= level \/ k \in Leaving
    /\ closing.pc = "open" =>
          level = 1 \/ \E k \in Keys : nlev[k] = level /\ k \notin Leaving

\* The count is behind the bottom level by the key being put or deleted.
Behind ==
    IF WPc = "counted" \/ (WPc = "link" /\ i[writer] > 1) THEN -1
    ELSE IF WPc \in {"shrink", "free", "discounted"} \/ (WPc = "unlink" /\ i[writer] > 1) THEN 1
    ELSE 0

Filled ==
    /\ closing.pc = "open" => count = Cardinality(Mem[1]) + Behind
    /\ \A k \in Keys : nlev[k] > 0 => val[k] # Missing \/ k \in Unset

Shape == Links /\ Heights /\ Filled

-----------------------------------------------------------------------------
(* The cursors                                                               *)

\* p is the last node of level l before k.
Before(p, l, k) ==
    /\ Starts(p, l) /\ (p < k \/ p = HeadNode)
    /\ next[p][l] = Nil \/ next[p][l] >= k

\* y is the first node of the bottom level not below k.
First(y, k) ==
    \/ y = Nil /\ \A j \in Keys : In(j, 1) => j < k
    \/ In(y, 1) /\ y >= k /\ \A j \in Keys : In(j, 1) /\ j >= k => j >= y

Searching(t) ==
    /\ i[t] <= level
    /\ Starts(x[t], 1) /\ (i[t] > 0 => Starts(x[t], i[t]))
    /\ x[t] < Target(t) \/ x[t] = HeadNode
    /\ i[t] = 0 => Before(x[t], 1, Target(t))
    /\ Writes(t) => \A l \in i[t] + 1 .. level : Before(update[t][l], l, Target(t))

\* What a thread's cursors point to, by where it is.
Cursor(t) ==
    /\ ~Busy(t) => x[t] = HeadNode
    /\ x[t] = Nil \/ Allocated(x[t])
    /\ pc[t] = "search" => Searching(t)
    /\ pc[t] \in {"put", "del", "get"} => First(x[t], req[t].key)
    /\ pc[t] \in {"put", "del"} =>
          \A l \in 1 .. level : Before(update[t][l], l, req[t].key)
    /\ pc[t] \in {"overwrite", "unlink", "shrink", "free"} => x[t] = req[t].key
    /\ pc[t] \in {"link", "counted"} => nlev[req[t].key] >= 1
    /\ pc[t] = "link" =>
          /\ i[t] \in 1 .. nlev[req[t].key]
          /\ \A l \in i[t] .. nlev[req[t].key] : Before(update[t][l], l, req[t].key)
    /\ pc[t] = "unlink" =>
          /\ i[t] \in 1 .. level
          /\ \A l \in i[t] .. level : Before(update[t][l], l, req[t].key)
    /\ pc[t] = "range" => x[t] = Nil \/ In(x[t], 1)

\* sl_close frees the list from its low end.
Closing ==
    /\ closing.pc # "open" => \A t \in Threads : pc[t] = "idle" /\ left[t] = 0
    /\ closing.pc = "walk" => First(closing.x, 1)
    /\ closing.pc # "walk" => closing.x = Nil
    /\ closing.pc = "closed" => \A k \in Keys : nlev[k] = 0

Types == TypeOK /\ closing \in [pc : {"open", "walk", "closed"}, x : Keys \cup {Nil}]

IInv == Types /\ Locks /\ Calls /\ Shape /\ (\A t \in Threads : Cursor(t)) /\ Closing

-----------------------------------------------------------------------------
(* Requests, and the frame of a step                                         *)

LEMMA RequestFacts ==
    /\ \A q \in Request :
          /\ q.op \in {"put", "get", "del", "range"}
          /\ q.op \in {"put", "get", "del"} => q.key \in Keys
          /\ q.op = "put" => q.val \in Values
          /\ q.op = "range" => q.lo \in Nat /\ q.hi \in Nat /\ q.limit \in Int /\ q.stop \in Int
    /\ NoRequest.op = "none"
<1> SUFFICES ASSUME NEW q \in Request
             PROVE  /\ q.op \in {"put", "get", "del", "range"}
                    /\ q.op \in {"put", "get", "del"} => q.key \in Keys
                    /\ q.op = "put" => q.val \in Values
                    /\ q.op = "range" => /\ q.lo \in Nat /\ q.hi \in Nat
                                         /\ q.limit \in Int /\ q.stop \in Int
    BY DEF NoRequest
<1>1. CASE \E p \in Puts : q = [op |-> "put", key |-> p.key, val |-> p.val]
      BY <1>1, PutsAssumption
<1>2. CASE q \in [op : {"get", "del"}, key : Keys]  BY <1>2
<1>3. CASE \E r \in Ranges : q = [op |-> "range", lo |-> r.lo, hi |-> r.hi,
                                  limit |-> r.limit, stop |-> r.stop]
      BY <1>3, RangesAssumption
<1> QED BY <1>1, <1>2, <1>3 DEF Request

\* A number is a node or none: the head is below every key.
LEMMA NodeFacts ==
    /\ \A k \in Keys : k \in Nat /\ k > 0 /\ k # HeadNode /\ k # Nil /\ k \in Nodes
    /\ HeadNode \in Nodes /\ HeadNode = 0 /\ HeadNode # Nil
    /\ \A p \in Nodes : p \in Nat /\ p # Nil /\ (p = HeadNode \/ p \in Keys)
    /\ MaxLevel \in Nat /\ 1 \in Levels /\ \A l \in Levels : l \in Nat /\ l >= 1 /\ l <= MaxLevel
    /\ \A l \in Nat : l >= 1 /\ l <= MaxLevel => l \in Levels
BY KeysAssumption, MaxLevelAssumption DEF Nodes, HeadNode, Nil, Levels

LEMMA MemFacts ==
    \A l \in Levels : /\ Mem[l] \subseteq Keys
                      /\ \A k \in Keys : k \in Mem[l] <=> nlev[k] >= l /\ ~Hidden(k, l)
                      /\ \A p : Starts(p, l) => p \in Nodes
BY NodeFacts DEF Mem, Starts, In

\* A step of one thread leaves the locals of the others alone.
LEMMA StepFrame ==
    ASSUME Types, NEW t \in Threads, Step(t)
    PROVE  /\ \A u \in Threads : u # t =>
                 /\ pc'[u] = pc[u] /\ req'[u] = req[u] /\ x'[u] = x[u]
                 /\ i'[u] = i[u] /\ update'[u] = update[u] /\ left'[u] = left[u]
           /\ closing' = closing
<1> USE DEF Types, TypeOK, Goto, Answer, StartSearch, list, lock, locals
<1>1. CASE Invoke(t)  BY <1>1 DEF Invoke
<1>2. CASE WrLock(t)  BY <1>2 DEF WrLock
<1>3. CASE RdLock(t)  BY <1>3 DEF RdLock
<1>4. CASE Search(t)  BY <1>4 DEF Search
<1>5. CASE Land(t)  BY <1>5 DEF Land
<1>6. CASE PutFree(t)  BY <1>6 DEF PutFree
<1>7. CASE PutOverwrite(t)  BY <1>7 DEF PutOverwrite
<1>8. CASE PutNode(t)  BY <1>8 DEF PutNode
<1>9. CASE PutLink(t)  BY <1>9 DEF PutLink
<1>10. CASE PutCount(t)  BY <1>10 DEF PutCount
<1>11. CASE GetRead(t)  BY <1>11 DEF GetRead
<1>12. CASE DelMiss(t)  BY <1>12 DEF DelMiss
<1>13. CASE DelHit(t)  BY <1>13 DEF DelHit
<1>14. CASE DelUnlink(t)  BY <1>14 DEF DelUnlink
<1>15. CASE DelShrink(t)  BY <1>15 DEF DelShrink
<1>16. CASE DelFree(t)  BY <1>16 DEF DelFree
<1>17. CASE DelCount(t)  BY <1>17 DEF DelCount
<1>18. CASE RangeRow(t)  BY <1>18 DEF RangeRow
<1>19. CASE RangeEnd(t)  BY <1>19 DEF RangeEnd
<1>20. CASE Unlock(t)  BY <1>20 DEF Unlock
<1>21. CASE Return(t)  BY <1>21 DEF Return
<1> QED BY <1>1, <1>2, <1>3, <1>4, <1>5, <1>6, <1>7, <1>8, <1>9, <1>10, <1>11, <1>12,
           <1>13, <1>14, <1>15, <1>16, <1>17, <1>18, <1>19, <1>20, <1>21 DEF Step

\* The thread that holds the write lock is alone with the list.
LEMMA WriterAlone ==
    ASSUME Types, Locks, Calls, Closing, NEW t \in Threads, Busy(t), Writes(t)
    PROVE  /\ writer = t /\ writer # NoOne /\ readers = {} /\ closing.pc = "open"
           /\ \A u \in Threads : u # t => ~Busy(u)
           /\ req[t].key \in Keys /\ Target(t) = req[t].key
           /\ req[t] \in Request
           /\ WPc = pc[t]
<1>1. writer = t /\ writer # NoOne  BY ThreadsAssumption DEF Locks
<1>2. readers = {}  BY <1>1 DEF Locks
<1>3. \A u \in Threads : u # t => ~Busy(u)  BY <1>1, <1>2 DEF Locks
<1>4. req[t] \in Request  BY DEF Calls, Busy
<1>5. req[t].key \in Keys  BY <1>4, RequestFacts DEF Writes
<1>6. Target(t) = req[t].key  BY DEF Target, Writes
<1>7. closing.pc = "open"  BY DEF Closing, Busy
<1>8. WPc = pc[t]  BY <1>1 DEF WPc
<1> QED BY <1>1, <1>2, <1>3, <1>4, <1>5, <1>6, <1>7, <1>8

\* While a thread reads, nobody writes.
LEMMA ReaderShares ==
    ASSUME Types, Locks, Calls, Closing, NEW t \in Threads, Busy(t), ~Writes(t)
    PROVE  /\ writer = NoOne /\ t \in readers /\ closing.pc = "open" /\ req[t] \in Request
           /\ WPc = "none"
<1>1. t \in readers  BY DEF Locks
<1>2. writer = NoOne  BY <1>1 DEF Locks
<1>3. req[t] \in Request  BY DEF Calls, Busy
<1>4. closing.pc = "open"  BY DEF Closing, Busy
<1>5. WPc = "none"  BY <1>2 DEF WPc
<1> QED BY <1>1, <1>2, <1>3, <1>4, <1>5

-----------------------------------------------------------------------------
(* The types                                                                 *)

LEMMA TypesStep ==
    ASSUME IInv, NEW t \in Threads, Step(t)
    PROVE  Types'
<1>c. closing' = closing  BY StepFrame DEF IInv
<1>n. /\ HeadNode \in Nodes /\ \A k \in Keys : k \in Nodes
      /\ 1 \in Levels /\ Levels \subseteq 0 .. MaxLevel /\ 0 \in 0 .. MaxLevel
      BY NodeFacts
<1>k. Busy(t) /\ Writes(t) => req[t].key \in Keys /\ req[t] \in Request
      BY WriterAlone DEF IInv
<1>p. pc' \in [Threads -> Pcs]
  <2> USE DEF Types, TypeOK, Goto, Answer, StartSearch, Pcs
  <2>o. IInv => TypeOK  BY DEF IInv
  <2>1. CASE Land(t)
    <3>1. req[t] \in Request  BY <2>1 DEF Land, IInv, Calls
    <3>2. req[t].op \in Pcs  BY <3>1, RequestFacts
    <3> QED BY <2>1, <2>o, <3>2 DEF Land
  <2>2. CASE Invoke(t) \/ WrLock(t) \/ RdLock(t) \/ Search(t) \/ PutFree(t) \/ PutOverwrite(t)
        BY <2>o, <2>2 DEF Invoke, WrLock, RdLock, Search, PutFree, PutOverwrite
  <2>3. CASE PutNode(t) \/ PutLink(t) \/ PutCount(t) \/ GetRead(t) \/ DelMiss(t) \/ DelHit(t)
        BY <2>o, <2>3 DEF PutNode, PutLink, PutCount, GetRead, DelMiss, DelHit
  <2>4. CASE DelUnlink(t) \/ DelShrink(t) \/ DelFree(t) \/ DelCount(t)
        BY <2>o, <2>4 DEF DelUnlink, DelShrink, DelFree, DelCount
  <2>5. CASE RangeRow(t) \/ RangeEnd(t) \/ Unlock(t) \/ Return(t)
        BY <2>o, <2>5 DEF RangeRow, RangeEnd, Unlock, Return
  <2> QED BY <2>1, <2>2, <2>3, <2>4, <2>5 DEF Step
<1> USE <1>c, <1>n, <1>p DEF Types, list, lock, locals
<1>t. TypeOK /\ closing \in [pc : {"open", "walk", "closed"}, x : Keys \cup {Nil}]
      BY DEF IInv
<1>1. CASE Invoke(t)
  <2>1. req' \in [Threads -> Request \cup {NoRequest}] /\ left' \in [Threads -> Nat]
        BY <1>1, <1>t DEF Invoke, TypeOK
  <2> QED BY <1>1, <1>t, <2>1 DEF Invoke, TypeOK
<1>2. CASE WrLock(t) \/ RdLock(t)
  <2>1. x' \in [Threads -> Nodes \cup {Nil}] /\ i' \in [Threads -> 0 .. MaxLevel]
        BY <1>2, <1>t DEF WrLock, RdLock, StartSearch, TypeOK
  <2>2. readers' \subseteq Threads /\ writer' \in Threads \cup {NoOne}
        BY <1>2, <1>t DEF WrLock, RdLock, TypeOK
  <2> QED BY <1>2, <1>t, <2>1, <2>2 DEF WrLock, RdLock, StartSearch, TypeOK
<1>4. CASE Search(t)
  <2>1. pc[t] = "search" /\ i[t] \in Levels
        BY <1>4, <1>t, NodeFacts DEF Search, TypeOK
  <2>2. x[t] \in Nodes
        BY <2>1, <1>n, MemFacts DEF IInv, Cursor, Searching
  <2>3. next[x[t]][i[t]] \in Keys \cup {Nil}  BY <1>t, <2>1, <2>2 DEF TypeOK
  <2>4. x' \in [Threads -> Nodes \cup {Nil}]
        BY <1>4, <1>t, <2>3 DEF Search, TypeOK
  <2>5. i' \in [Threads -> 0 .. MaxLevel]
        BY <1>4, <1>t, <2>1, NodeFacts DEF Search, TypeOK
  <2>6. update' \in [Threads -> [Levels -> Nodes \cup {Nil}]]
    <3>1. update' = update \/ update' = [update EXCEPT ![t] = [update[t] EXCEPT ![i[t]] = x[t]]]
          BY <1>4, <1>t, <2>1 DEF Search, TypeOK
    <3>2. [update[t] EXCEPT ![i[t]] = x[t]] \in [Levels -> Nodes \cup {Nil}]
          BY <1>t, <2>1, <2>2 DEF TypeOK
    <3> QED BY <1>t, <3>1, <3>2 DEF TypeOK
  <2> QED BY <1>4, <1>t, <2>4, <2>5, <2>6 DEF Search, TypeOK
<1>5. CASE Land(t)
  <2>1. pc[t] = "search"  BY <1>5 DEF Land
  <2>2. x[t] \in Nodes
        BY <2>1, <1>n, MemFacts DEF IInv, Cursor, Searching
  <2>3. next[x[t]][1] \in Keys \cup {Nil}  BY <1>t, <2>1, <2>2 DEF TypeOK
  <2>4. x' \in [Threads -> Nodes \cup {Nil}]
        BY <1>5, <1>t, <2>3 DEF Land, TypeOK
  <2> QED BY <1>5, <1>t, <2>4 DEF Land, TypeOK
<1>w. pc[t] \in {"put", "overwrite", "link", "counted", "del", "unlink", "shrink", "free", "discounted"}
      => Busy(t) /\ Writes(t)
      BY DEF IInv, Calls, Busy, Writes
<1>6. CASE PutFree(t)  BY <1>6, <1>t DEF PutFree, TypeOK
<1>7. CASE PutOverwrite(t)
  <2>1. req[t].val \in Values
        BY <1>7, <1>w, <1>k, RequestFacts DEF PutOverwrite, IInv, Calls
  <2> QED BY <1>7, <1>t, <2>1 DEF PutOverwrite, TypeOK, Answer
<1>8. CASE PutNode(t)
  <2>1. req[t].val \in Values /\ req[t].key \in Keys
        BY <1>8, <1>w, <1>k, RequestFacts DEF PutNode, IInv, Calls
  <2>2. next' \in [Nodes -> [Levels -> Keys \cup {Nil}]] /\ val' \in [Keys -> Values \cup {Missing}]
        BY <1>8, <1>t, <2>1 DEF PutNode, TypeOK
  <2>3. PICK lvl \in Levels : /\ level' = IF lvl > level THEN lvl ELSE level
                              /\ update' = [update EXCEPT ![t] = HeadFilled(@, lvl)]
                              /\ nlev' = [nlev EXCEPT ![req[t].key] = lvl]
        BY <1>8 DEF PutNode
  <2>4. level' \in Levels /\ nlev' \in [Keys -> 0 .. MaxLevel]
        BY <1>t, <2>1, <2>3 DEF TypeOK
  <2>5. HeadFilled(update[t], lvl) \in [Levels -> Nodes \cup {Nil}]
        BY <1>t DEF HeadFilled, TypeOK
  <2>6. update' \in [Threads -> [Levels -> Nodes \cup {Nil}]]
        BY <1>t, <2>3, <2>5 DEF TypeOK
  <2>7. i' \in [Threads -> 0 .. MaxLevel]  BY <1>8, <1>t DEF PutNode, TypeOK
  <2> QED BY <1>8, <1>t, <2>2, <2>4, <2>6, <2>7 DEF PutNode, TypeOK
<1>9. CASE PutLink(t)
  <2> DEFINE k == req[t].key
             l == i[t]
             p == update[t][l]
  <2>1. k \in Keys /\ pc[t] = "link"  BY <1>9, <1>w, <1>k DEF PutLink
  <2>2. l \in 1 .. nlev[k] /\ Before(p, l, k) /\ nlev[k] \in Nat /\ nlev[k] <= MaxLevel
    <3>1. l \in 1 .. nlev[k] /\ \A m \in l .. nlev[k] : Before(update[t][m], m, k)
          BY <2>1 DEF IInv, Cursor
    <3>2. nlev[k] \in Nat /\ nlev[k] <= MaxLevel  BY <1>t, <2>1, NodeFacts DEF TypeOK
    <3>3. l \in l .. nlev[k]  BY <3>1, <3>2
    <3> QED BY <3>1, <3>2, <3>3
  <2>3. l \in Levels /\ p \in Nodes
        BY <1>t, <2>1, <2>2, NodeFacts, MemFacts DEF TypeOK, Before
  <2>4. next[p][l] \in Keys \cup {Nil}  BY <1>t, <2>3 DEF TypeOK
  <2>5. next' = [next EXCEPT ![k][l] = next[p][l], ![p][l] = k]
        BY <1>9 DEF PutLink, Spliced
  <2>6. i' \in [Threads -> 0 .. MaxLevel]
    <3>1. l # nlev[k] => l + 1 \in 0 .. MaxLevel
          BY <2>2, NodeFacts
    <3> QED BY <1>9, <1>t, <3>1 DEF PutLink, TypeOK
  <2>7. next' \in [Nodes -> [Levels -> Keys \cup {Nil}]]
        BY <1>t, <2>1, <2>3, <2>4, <2>5 DEF TypeOK
  <2> QED BY <1>9, <1>t, <2>6, <2>7 DEF PutLink, TypeOK
<1>10. CASE PutCount(t)  BY <1>10, <1>t DEF PutCount, TypeOK, Answer
<1>11. CASE GetRead(t)  BY <1>11, <1>t DEF GetRead, TypeOK, Answer
<1>12. CASE DelMiss(t)  BY <1>12, <1>t DEF DelMiss, TypeOK, Answer
<1>13. CASE DelHit(t)  BY <1>13, <1>t DEF DelHit, TypeOK
<1>14. CASE DelUnlink(t)
  <2> DEFINE l == i[t]
             p == update[t][l]
  <2>1. req[t].key \in Keys /\ pc[t] = "unlink"  BY <1>14, <1>w, <1>k DEF DelUnlink
  <2>2. x[t] \in Keys /\ l \in 1 .. level /\ Before(p, l, req[t].key)
        BY <2>1, <1>t DEF IInv, Cursor, TypeOK
  <2>3. l \in Levels /\ p \in Nodes
        BY <1>t, <2>1, <2>2, NodeFacts, MemFacts DEF TypeOK, Before
  <2>4. next[x[t]][l] \in Keys \cup {Nil}  BY <1>t, <2>2, <2>3 DEF TypeOK
  <2>5. next' \in [Nodes -> [Levels -> Keys \cup {Nil}]]
        BY <1>14, <1>t, <2>3, <2>4 DEF DelUnlink, TypeOK
  <2>6. i' \in [Threads -> 0 .. MaxLevel]
    <3>1. level \in Nat /\ level <= MaxLevel  BY <1>t, NodeFacts DEF TypeOK
    <3>2. l # level => l + 1 \in 0 .. MaxLevel  BY <2>2, <3>1, NodeFacts
    <3> QED BY <1>14, <1>t, <3>2 DEF DelUnlink, TypeOK
  <2> QED BY <1>14, <1>t, <2>5, <2>6 DEF DelUnlink, TypeOK
<1>15. CASE DelShrink(t)
  <2>1. level' \in Levels  BY <1>15, <1>t, NodeFacts DEF DelShrink, TypeOK
  <2> QED BY <1>15, <1>t, <2>1 DEF DelShrink, TypeOK
<1>16. CASE DelFree(t)
  <2>1. next' \in [Nodes -> [Levels -> Keys \cup {Nil}]]
        BY <1>16, <1>t DEF DelFree, FreeNode, TypeOK
  <2>2. x' \in [Threads -> Nodes \cup {Nil}]  BY <1>16, <1>t DEF DelFree, TypeOK
  <2>3. nlev' \in [Keys -> 0 .. MaxLevel] /\ val' \in [Keys -> Values \cup {Missing}]
        BY <1>16, <1>t DEF DelFree, FreeNode, TypeOK
  <2> QED BY <1>16, <1>t, <2>1, <2>2, <2>3 DEF DelFree, TypeOK
<1>17. CASE DelCount(t)  BY <1>17, <1>t DEF DelCount, TypeOK, Answer
<1>18. CASE RangeRow(t)
  <2>1. x[t] \in Nodes  BY <1>18, <1>t DEF RangeRow, RangeMore, TypeOK
  <2>2. next[x[t]][1] \in Keys \cup {Nil}  BY <1>t, <2>1 DEF TypeOK
  <2>3. x' \in [Threads -> Nodes \cup {Nil}]
        BY <1>18, <1>t, <2>2 DEF RangeRow, TypeOK
  <2> QED BY <1>18, <1>t, <2>3 DEF RangeRow, TypeOK
<1>19. CASE RangeEnd(t)  BY <1>19, <1>t DEF RangeEnd, TypeOK
<1>20. CASE Unlock(t)
  <2>1. update' \in [Threads -> [Levels -> Nodes \cup {Nil}]]
        BY <1>20, <1>t DEF Unlock, TypeOK
  <2>2. x' \in [Threads -> Nodes \cup {Nil}] /\ i' \in [Threads -> 0 .. MaxLevel]
        BY <1>20, <1>t DEF Unlock, TypeOK
  <2>3. readers' \subseteq Threads /\ writer' \in Threads \cup {NoOne}
        BY <1>20, <1>t DEF Unlock, TypeOK
  <2> QED BY <1>20, <1>t, <2>1, <2>2, <2>3 DEF Unlock, TypeOK
<1>21. CASE Return(t)
  <2>1. req' \in [Threads -> Request \cup {NoRequest}]  BY <1>21, <1>t DEF Return, TypeOK
  <2> QED BY <1>21, <1>t, <2>1 DEF Return, TypeOK
<1> QED BY <1>1, <1>2, <1>4, <1>5, <1>6, <1>7, <1>8, <1>9, <1>10, <1>11, <1>12,
           <1>13, <1>14, <1>15, <1>16, <1>17, <1>18, <1>19, <1>20, <1>21 DEF Step

-----------------------------------------------------------------------------
(* The lock excludes                                                         *)

LEMMA CallsStep ==
    ASSUME IInv, NEW t \in Threads, Step(t)
    PROVE  Calls'
<1>t. TypeOK /\ Calls  BY DEF IInv, Types
<1>1. \A u \in Threads : u # t => pc'[u] = pc[u] /\ req'[u] = req[u]
      BY StepFrame DEF IInv
<1> DEFINE C(p, q) ==
        /\ IF p = "idle" THEN q = NoRequest ELSE q \in Request
        /\ p \in {"put", "overwrite", "link", "counted"} => q.op = "put"
        /\ p \in {"del", "unlink", "shrink", "free", "discounted"} => q.op = "del"
        /\ p = "get" => q.op = "get"
        /\ p = "range" => q.op = "range"
<1>2. C(pc[t], req[t])  BY <1>t DEF Calls
<1>3. C(pc'[t], req'[t])
  <2> USE <1>2, <1>t DEF TypeOK, Goto, Answer
  <2>1. CASE Land(t)  BY <2>1, RequestFacts DEF Land
  <2>2. CASE Invoke(t)  BY <2>2 DEF Invoke
  <2>3. CASE WrLock(t) \/ RdLock(t) \/ Search(t) \/ PutFree(t) \/ PutOverwrite(t)
        BY <2>3 DEF WrLock, RdLock, StartSearch, Search, PutFree, PutOverwrite
  <2>4. CASE PutNode(t)  BY <2>4 DEF PutNode
  <2>5. CASE PutLink(t) \/ PutCount(t) \/ GetRead(t) \/ DelMiss(t) \/ DelHit(t)
        BY <2>5 DEF PutLink, PutCount, GetRead, DelMiss, DelHit
  <2>6. CASE DelUnlink(t) \/ DelShrink(t) \/ DelFree(t) \/ DelCount(t)
        BY <2>6 DEF DelUnlink, DelShrink, DelFree, DelCount
  <2>7. CASE RangeRow(t) \/ RangeEnd(t) \/ Unlock(t)
        BY <2>7 DEF RangeRow, RangeEnd, Unlock
  <2>8. CASE Return(t)  BY <2>8 DEF Return
  <2> QED BY <2>1, <2>2, <2>3, <2>4, <2>5, <2>6, <2>7, <2>8 DEF Step
<1>4. ASSUME NEW u \in Threads PROVE C(pc'[u], req'[u])
  <2>1. CASE u = t  BY <1>3, <2>1
  <2>2. CASE u # t
    <3>1. C(pc[u], req[u])  BY <1>t DEF Calls
    <3> QED BY <1>1, <2>2, <3>1
  <2> QED BY <2>1, <2>2
<1> QED BY <1>4 DEF Calls

\* A thread enters and leaves the list with the lock and nowhere else.
LEMMA StepKinds ==
    ASSUME IInv, NEW t \in Threads, Step(t)
    PROVE  \/ (Invoke(t) \/ Return(t)) /\ UNCHANGED lock /\ ~Busy(t) /\ ~Busy(t)'
           \/ UNCHANGED <<lock, req>> /\ Busy(t) /\ Busy(t)'
           \/ WrLock(t) \/ RdLock(t) \/ Unlock(t)
<1>t. TypeOK /\ Calls  BY DEF IInv, Types
<1> USE <1>t DEF TypeOK, Goto, Answer, Busy
<1>1. CASE Land(t)
  <2>1. req[t].op \in {"put", "get", "del", "range"}
        BY <1>1, RequestFacts DEF Land, Calls
  <2> QED BY <1>1, <2>1 DEF Land
<1>2. CASE Invoke(t)  BY <1>2 DEF Invoke
<1>3. CASE Search(t) \/ PutFree(t) \/ PutOverwrite(t) \/ PutNode(t)
      BY <1>3 DEF Search, PutFree, PutOverwrite, PutNode
<1>5. CASE PutLink(t) \/ PutCount(t) \/ GetRead(t) \/ DelMiss(t) \/ DelHit(t)
      BY <1>5 DEF PutLink, PutCount, GetRead, DelMiss, DelHit
<1>6. CASE DelUnlink(t) \/ DelShrink(t) \/ DelFree(t) \/ DelCount(t)
      BY <1>6 DEF DelUnlink, DelShrink, DelFree, DelCount
<1>7. CASE RangeRow(t) \/ RangeEnd(t)
      BY <1>7 DEF RangeRow, RangeEnd
<1>8. CASE Return(t)  BY <1>8 DEF Return
<1> QED BY <1>1, <1>2, <1>3, <1>5, <1>6, <1>7, <1>8 DEF Step

LEMMA LocksStep ==
    ASSUME IInv, NEW t \in Threads, Step(t)
    PROVE  Locks'
<1>t. TypeOK /\ Calls /\ Locks  BY DEF IInv, Types
<1>1. \A u \in Threads : u # t => (Busy(u)' <=> Busy(u)) /\ (Writes(u)' <=> Writes(u))
      BY StepFrame DEF IInv, Busy, Writes
<1>2. CASE UNCHANGED lock /\ ~Busy(t) /\ ~Busy(t)'
      BY <1>t, <1>1, <1>2 DEF Locks, lock
<1>3. CASE UNCHANGED <<lock, req>> /\ Busy(t) /\ Busy(t)'
  <2>1. Writes(t)' <=> Writes(t)  BY <1>3 DEF Writes
  <2> QED BY <1>t, <1>1, <1>3, <2>1 DEF Locks, lock
<1>4. CASE WrLock(t)
  <2>1. writer' = t /\ readers' = readers /\ readers = {} /\ writer = NoOne
        BY <1>4 DEF WrLock, WrFree
  <2>2. Busy(t)' /\ Writes(t)'
        BY <1>4, <1>t DEF WrLock, StartSearch, Goto, Busy, Writes, TypeOK
  <2>3. \A u \in Threads : ~Busy(u)
        BY <1>t, <2>1, ThreadsAssumption DEF Locks
  <2> QED BY <1>1, <2>1, <2>2, <2>3 DEF Locks
<1>5. CASE RdLock(t)
  <2>1. readers' = readers \cup {t} /\ writer' = writer /\ writer = NoOne
        BY <1>5 DEF RdLock
  <2>2. Busy(t)' /\ ~Writes(t)'
        BY <1>5, <1>t DEF RdLock, StartSearch, Goto, Busy, Writes, TypeOK
  <2> QED BY <1>t, <1>1, <2>1, <2>2, ThreadsAssumption DEF Locks
<1>6. CASE Unlock(t)
  <2>1. Busy(t) /\ ~Busy(t)'
        BY <1>6, <1>t DEF Unlock, Goto, Busy, TypeOK
  <2>2. CASE writer = t
    <3>1. writer' = NoOne /\ readers' = readers  BY <1>6, <2>2 DEF Unlock
    <3> QED BY <1>t, <1>1, <2>1, <2>2, <3>1, ThreadsAssumption DEF Locks
  <2>3. CASE writer # t
    <3>1. writer' = writer /\ readers' = readers \ {t}  BY <1>6, <2>3 DEF Unlock
    <3> QED BY <1>t, <1>1, <2>1, <2>3, <3>1 DEF Locks
  <2> QED BY <2>2, <2>3
<1> QED BY StepKinds, <1>2, <1>3, <1>4, <1>5, <1>6

-----------------------------------------------------------------------------
(* The steps that leave the list alone                                       *)

\* Where a writer is in the middle of a change.
Splicing == {"overwrite", "link", "counted", "unlink", "shrink", "free", "discounted"}

\* What the list is made of, seen from outside the writer's call.
Content == <<Mem, Dropped, Leaving, Unset, Behind>>

\* A writer that is not splicing hides nothing.
LEMMA NothingHidden ==
    ASSUME WPc \notin Splicing \/ (WPc = "unlink" /\ i[writer] = 1)
    PROVE  /\ \A k \in Keys, l \in Levels : ~Hidden(k, l)
           /\ Mem = [l \in Levels |-> {k \in Keys : nlev[k] >= l}]
           /\ Dropped = {} /\ Leaving = {} /\ Unset = {} /\ Behind = 0
<1>1. \A k \in Keys, l \in Levels : ~Hidden(k, l)  BY NodeFacts DEF Splicing, Hidden
<1>2. Mem = [l \in Levels |-> {k \in Keys : nlev[k] >= l}]  BY <1>1 DEF Mem
<1> QED BY <1>1, <1>2 DEF Dropped, Leaving, Unset, Behind, Splicing

LEMMA WriterMoves ==
    ASSUME IInv, NEW t \in Threads, Step(t)
    PROVE  \/ /\ writer # t /\ writer' = writer
              /\ WPc' = WPc
              /\ writer # NoOne => /\ x'[writer] = x[writer] /\ i'[writer] = i[writer]
                                   /\ req'[writer] = req[writer]
           \/ /\ WPc \in {pc[t], "none"} /\ WPc' \in {pc'[t], "none"}
              /\ writer \in {t, NoOne} /\ writer' \in {t, NoOne}
<1>t. TypeOK /\ Locks  BY DEF IInv, Types
<1>1. \A u \in Threads : u # t =>
         /\ pc'[u] = pc[u] /\ req'[u] = req[u] /\ x'[u] = x[u] /\ i'[u] = i[u]
      BY StepFrame DEF IInv
<1>2. writer \in Threads \cup {NoOne}  BY <1>t DEF TypeOK
<1>3. \/ writer # t /\ writer' = writer
      \/ writer \in {t, NoOne} /\ writer' \in {t, NoOne}
  <2>1. CASE UNCHANGED lock  BY <2>1 DEF lock
  <2>2. CASE WrLock(t)  BY <2>2 DEF WrLock, WrFree
  <2>3. CASE RdLock(t)  BY <2>3 DEF RdLock
  <2>4. CASE Unlock(t)  BY <2>4 DEF Unlock
  <2> QED BY <2>1, <2>2, <2>3, <2>4, StepKinds
<1>4. CASE writer # t /\ writer' = writer
      BY <1>1, <1>2, <1>4 DEF WPc
<1>5. CASE writer \in {t, NoOne} /\ writer' \in {t, NoOne}
      BY <1>5 DEF WPc
<1> QED BY <1>3, <1>4, <1>5

LEMMA CalmContent ==
    ASSUME IInv, NEW t \in Threads, Step(t), nlev' = nlev,
           pc[t] \notin Splicing,
           pc'[t] \notin Splicing \/ (pc'[t] = "unlink" /\ i'[t] = 1)
    PROVE  UNCHANGED Content
<1>1. CASE /\ writer # t /\ writer' = writer /\ WPc' = WPc
           /\ writer # NoOne => /\ x'[writer] = x[writer] /\ i'[writer] = i[writer]
                                /\ req'[writer] = req[writer]
  <2>1. ASSUME NEW k \in Keys, NEW l \in Levels PROVE Hidden(k, l)' <=> Hidden(k, l)
    <3>1. CASE writer = NoOne  BY <1>1, <3>1 DEF Hidden, WPc
    <3>2. CASE writer # NoOne  BY <1>1, <3>2 DEF Hidden
    <3> QED BY <3>1, <3>2
  <2>2. Mem' = Mem  BY <2>1 DEF Mem
  <2>3. Dropped' = Dropped /\ Leaving' = Leaving /\ Unset' = Unset /\ Behind' = Behind
    <3>1. CASE writer = NoOne  BY <1>1, <3>1 DEF Dropped, Leaving, Unset, Behind, WPc
    <3>2. CASE writer # NoOne  BY <1>1, <3>2 DEF Dropped, Leaving, Unset, Behind
    <3> QED BY <3>1, <3>2
  <2> QED BY <2>2, <2>3 DEF Content
<1>2. CASE /\ WPc \in {pc[t], "none"} /\ WPc' \in {pc'[t], "none"}
           /\ writer \in {t, NoOne} /\ writer' \in {t, NoOne}
  <2>1. WPc \notin Splicing  BY <1>2 DEF Splicing
  <2>2. (WPc \notin Splicing \/ (WPc = "unlink" /\ i[writer] = 1))'
    <3>1. WPc' = "unlink" => writer' = t  BY <1>2 DEF WPc
    <3> QED BY <1>2, <3>1 DEF Splicing
  <2>3. /\ Mem = [l \in Levels |-> {k \in Keys : nlev[k] >= l}]
        /\ Dropped = {} /\ Leaving = {} /\ Unset = {} /\ Behind = 0
        BY <2>1, NothingHidden
  <2>4. /\ Mem' = [l \in Levels |-> {k \in Keys : nlev'[k] >= l}]
        /\ Dropped' = {} /\ Leaving' = {} /\ Unset' = {} /\ Behind' = 0
    <3>1. \A k \in Keys, l \in Levels : ~Hidden(k, l)'
          BY <2>2, NodeFacts DEF Splicing, Hidden
    <3>2. Mem' = [l \in Levels |-> {k \in Keys : nlev'[k] >= l}]  BY <3>1 DEF Mem
    <3> QED BY <2>2, <3>2 DEF Dropped, Leaving, Unset, Behind, Splicing
  <2> QED BY <2>3, <2>4 DEF Content
<1> QED BY <1>1, <1>2, WriterMoves

LEMMA CalmShape ==
    ASSUME Shape, UNCHANGED <<list, closing, Content>>
    PROVE  Shape'
<1>1. UNCHANGED <<next, nlev, val, level, count, closing, Mem, Dropped, Leaving, Unset, Behind>>
      BY DEF list, Content
<1>2. Links'  BY <1>1 DEF Shape, Links, Starts, Follows, In
<1>3. Heights'  BY <1>1 DEF Shape, Heights
<1>4. Filled'  BY <1>1 DEF Shape, Filled
<1> QED BY <1>2, <1>3, <1>4 DEF Shape

\* The cursors of a thread that does not move, in a list that does not change ...
LEMMA StillCursor ==
    ASSUME NEW u \in Threads, Cursor(u), UNCHANGED <<next, nlev, level, closing, Mem>>,
           pc'[u] = pc[u], req'[u] = req[u], x'[u] = x[u], i'[u] = i[u], update'[u] = update[u]
    PROVE  Cursor(u)'
<1>1. /\ Busy(u)' <=> Busy(u)
      /\ Writes(u)' <=> Writes(u)
      /\ Target(u)' = Target(u)
      BY DEF Busy, Writes, Target
<1>2. Searching(u) => Searching(u)'
      BY <1>1 DEF Searching, Before, Starts, In
<1> QED BY <1>1, <1>2 DEF Cursor, Before, First, Starts, In, Allocated

\* ... or outside of it.
LEMMA OutsideCursor ==
    ASSUME NEW u \in Threads, Cursor(u), ~Busy(u), pc'[u] = pc[u], x'[u] = x[u]
    PROVE  Cursor(u)'
BY DEF Cursor, Busy, Allocated

\* A node on a level is on every lower one while nothing is hidden.
LEMMA LowerLevels ==
    ASSUME Types, \A k \in Keys, l \in Levels : ~Hidden(k, l),
           NEW l \in Levels, NEW m \in Levels, m <= l, NEW p, Starts(p, l)
    PROVE  Starts(p, m) /\ p \in Nodes
<1>1. p \in Nodes  BY MemFacts
<1>2. CASE p = HeadNode /\ closing.pc = "open"  BY <1>1, <1>2 DEF Starts
<1>3. CASE In(p, l)
  <2>1. p \in Keys /\ nlev[p] >= l  BY <1>3, MemFacts DEF In
  <2>2. nlev[p] \in Nat  BY <2>1 DEF Types, TypeOK
  <2>3. nlev[p] >= m  BY <2>1, <2>2, NodeFacts
  <2>4. p \in Mem[m]  BY <2>1, <2>3, MemFacts
  <2> QED BY <1>1, <2>4 DEF Starts, In
<1> QED BY <1>2, <1>3 DEF Starts

\* While a thread searches, nothing is hidden from it.
LEMMA SearchSeesAll ==
    ASSUME IInv, NEW t \in Threads, Busy(t), pc[t] \notin Splicing
    PROVE  /\ \A k \in Keys, l \in Levels : ~Hidden(k, l)
           /\ closing.pc = "open" /\ req[t] \in Request
<1>1. WPc \notin Splicing /\ closing.pc = "open" /\ req[t] \in Request
  <2>1. CASE Writes(t)  BY <2>1, WriterAlone DEF IInv
  <2>2. CASE ~Writes(t)
    <3>1. WPc = "none" /\ closing.pc = "open" /\ req[t] \in Request
          BY <2>2, ReaderShares DEF IInv
    <3> QED BY <3>1 DEF Splicing
  <2> QED BY <2>1, <2>2
<1> QED BY <1>1, NothingHidden

LEMMA TargetIsNumber ==
    ASSUME NEW t \in Threads, req[t] \in Request
    PROVE  Target(t) \in Nat /\ (Writes(t) => Target(t) \in Keys)
BY RequestFacts, NodeFacts DEF Target, Writes

LEMMA SearchCursor ==
    ASSUME IInv, Types', NEW t \in Threads, Search(t), UNCHANGED <<list, closing, Content>>
    PROVE  Cursor(t)'
<1> DEFINE l == i[t]
           p == x[t]
           nx == next[p][l]
<1>t. TypeOK /\ TypeOK'  BY DEF IInv, Types
<1>1. /\ pc[t] = "search" /\ l > 0 /\ pc'[t] = "search" /\ req'[t] = req[t]
      /\ UNCHANGED <<next, nlev, level, closing, Mem>>
      BY DEF Search, list, Content
<1>2. Busy(t) /\ pc[t] \notin Splicing  BY <1>1 DEF Busy, Splicing
<1>3. /\ \A k \in Keys, m \in Levels : ~Hidden(k, m)
      /\ closing.pc = "open" /\ req[t] \in Request
      BY <1>2, SearchSeesAll
<1>4. Searching(t)  BY <1>1 DEF IInv, Cursor
<1>5. l \in Levels /\ l \in Nat /\ l <= level /\ level \in Levels /\ level \in Nat
      BY <1>t, <1>1, <1>4, NodeFacts DEF TypeOK, Searching
<1>6. Starts(p, l) /\ p \in Nodes /\ Starts(p, 1)
      BY <1>1, <1>4, <1>5, MemFacts DEF Searching
<1>7. Follows(p, l, nx) /\ nx \in Keys \cup {Nil}
      BY <1>t, <1>5, <1>6 DEF IInv, Shape, Links, TypeOK
<1>8. Target(t) \in Nat /\ (Target(t))' = Target(t) /\ (Writes(t)' <=> Writes(t))
      BY <1>1, <1>3, TargetIsNumber DEF Target, Writes
<1>9. CASE nx # Nil /\ nx < Target(t)
  <2>1. x'[t] = nx /\ i'[t] = l /\ update'[t] = update[t]
        BY <1>9, <1>t DEF Search, TypeOK
  <2>2. In(nx, l) /\ nx \in Keys  BY <1>7, <1>9 DEF Follows
  <2>3. Starts(nx, l) /\ Starts(nx, 1)
    <3>1. Starts(nx, l)  BY <2>2 DEF Starts
    <3> QED BY <1>3, <1>5, <3>1, LowerLevels, NodeFacts DEF IInv
  <2>4. Allocated(nx)
    <3>1. nlev[nx] >= l /\ nlev[nx] \in Nat
          BY <1>t, <1>5, <2>2, MemFacts DEF In, TypeOK
    <3> QED BY <1>5, <2>2, <3>1, NodeFacts DEF Allocated
  <2>5. Searching(t)'
        BY <1>1, <1>4, <1>5, <1>8, <1>9, <2>1, <2>3 DEF Searching, Before, Starts, In
  <2>6. Allocated(x[t])'  BY <1>1, <2>1, <2>4 DEF Allocated
  <2> QED BY <1>1, <2>5, <2>6 DEF Cursor, Busy
<1>10. CASE ~(nx # Nil /\ nx < Target(t))
  <2>1. /\ x'[t] = p /\ i'[t] = l - 1
        /\ update'[t] = IF Writes(t) THEN [update[t] EXCEPT ![l] = p] ELSE update[t]
        BY <1>10, <1>t DEF Search, TypeOK
  <2>2. Before(p, l, Target(t))
    <3>1. nx = Nil \/ nx >= Target(t)  BY <1>7, <1>8, <1>10, NodeFacts
    <3>2. p < Target(t) \/ p = HeadNode  BY <1>4 DEF Searching
    <3> QED BY <1>6, <3>1, <3>2 DEF Before
  <2>3. l - 1 > 0 => Starts(p, l - 1)
    <3>1. l - 1 > 0 => l - 1 \in Levels /\ l - 1 <= l  BY <1>5, NodeFacts
    <3> QED BY <1>3, <1>5, <1>6, <3>1, LowerLevels DEF IInv
  <2>4. ASSUME Writes(t), NEW m \in (l - 1) + 1 .. level
        PROVE  Before(update'[t][m], m, Target(t))
    <3>0. m \in Levels /\ update[t] \in [Levels -> Nodes \cup {Nil}]
          BY <1>t, <1>5, NodeFacts DEF TypeOK
    <3>1. CASE m = l  BY <2>1, <2>2, <2>4, <3>0, <3>1
    <3>2. CASE m # l
      <4>1. m \in l + 1 .. level  BY <1>5, <3>2
      <4>2. update'[t][m] = update[t][m]  BY <2>1, <3>0, <3>2
      <4> QED BY <1>4, <2>4, <4>1, <4>2 DEF Searching
    <3> QED BY <3>1, <3>2
  <2>5. l - 1 = 0 => Before(p, 1, Target(t))
    <3>1. l - 1 = 0 => l = 1  BY <1>5
    <3> QED BY <2>2, <3>1
  <2>6. Searching(t)'
    <3>1. (i[t] <= level)' /\ (i[t])' = l - 1  BY <1>1, <1>5, <2>1
    <3>2. (Starts(x[t], 1))' /\ ((i[t] > 0) => Starts(x[t], i[t]))'
          BY <1>1, <1>6, <2>1, <2>3 DEF Starts, In
    <3>3. (x[t] < Target(t) \/ x[t] = HeadNode)'
          BY <1>4, <1>8, <2>1 DEF Searching
    <3>4. (i[t] = 0 => Before(x[t], 1, Target(t)))'
          BY <1>1, <1>8, <2>1, <2>5 DEF Before, Starts, In
    <3>5. (Writes(t) => \A m \in i[t] + 1 .. level : Before(update[t][m], m, Target(t)))'
          BY <1>1, <1>8, <2>1, <2>4 DEF Before, Starts, In
    <3> QED BY <3>1, <3>2, <3>3, <3>4, <3>5 DEF Searching
  <2>7. (x[t] = Nil \/ Allocated(x[t]))'
        BY <1>1, <2>1 DEF IInv, Cursor, Allocated
  <2> QED BY <1>1, <2>6, <2>7 DEF Cursor, Busy
<1> QED BY <1>9, <1>10

\* The search ends before the first node not below its key.
LEMMA NextIsFirst ==
    ASSUME NEW p \in Nodes, NEW k \in Nat, NEW y \in Keys \cup {Nil},
           Follows(p, 1, y), p < k \/ p = HeadNode, y = Nil \/ y >= k
    PROVE  First(y, k)
<1>1. CASE y = Nil
  <2>1. \A j \in Keys : In(j, 1) => j <= p  BY <1>1, MemFacts, NodeFacts DEF Follows, In
  <2>2. \A j \in Keys : In(j, 1) => j < k  BY <2>1, NodeFacts
  <2> QED BY <1>1, <2>2 DEF First
<1>2. CASE y # Nil
  <2>1. In(y, 1) /\ y >= k /\ \A j \in Keys : In(j, 1) /\ j < y => j <= p
        BY <1>2 DEF Follows
  <2>2. \A j \in Keys : In(j, 1) /\ j >= k => j >= y  BY <1>2, <2>1, NodeFacts
  <2> QED BY <2>1, <2>2 DEF First
<1> QED BY <1>1, <1>2

LEMMA InIsAllocated ==
    ASSUME Types, NEW k, NEW l \in Levels, In(k, l)
    PROVE  Allocated(k) /\ k \in Keys /\ nlev[k] >= l
<1>1. k \in Keys /\ nlev[k] >= l /\ nlev[k] \in Nat  BY MemFacts DEF In, Types, TypeOK
<1> QED BY <1>1, NodeFacts DEF Allocated

LEMMA LandCursor ==
    ASSUME IInv, Types', NEW t \in Threads, Land(t), UNCHANGED <<list, closing, Content>>
    PROVE  Cursor(t)'
<1> DEFINE p == x[t]
           nx == next[p][1]
           op == req[t].op
<1>t. TypeOK /\ TypeOK'  BY DEF IInv, Types
<1>1. /\ pc[t] = "search" /\ i[t] = 0 /\ pc'[t] = op /\ req'[t] = req[t]
      /\ x'[t] = nx /\ update'[t] = update[t]
      /\ UNCHANGED <<next, nlev, level, closing, Mem>>
      BY <1>t DEF Land, list, Content, Goto, TypeOK
<1>2. Busy(t) /\ pc[t] \notin Splicing  BY <1>1 DEF Busy, Splicing
<1>3. /\ \A k \in Keys, m \in Levels : ~Hidden(k, m)
      /\ closing.pc = "open" /\ req[t] \in Request
      BY <1>2, SearchSeesAll
<1>4. Searching(t)  BY <1>1 DEF IInv, Cursor
<1>6. Starts(p, 1) /\ p \in Nodes /\ Before(p, 1, Target(t))
      BY <1>1, <1>4, NodeFacts, MemFacts DEF Searching
<1>7. Follows(p, 1, nx) /\ nx \in Keys \cup {Nil}
  <2>1. 1 \in Levels  BY NodeFacts
  <2>2. Follows(p, 1, nx)  BY <1>6, <2>1 DEF IInv, Shape, Links
  <2>3. nx \in Keys \cup {Nil}  BY <1>t, <1>6, <2>1 DEF TypeOK
  <2> QED BY <2>2, <2>3
<1>8. Target(t) \in Nat  BY <1>3, TargetIsNumber
<1>9. First(nx, Target(t))
  <2>1. /\ p < Target(t) \/ p = HeadNode
        /\ nx = Nil \/ nx >= Target(t)
        BY <1>6 DEF Before
  <2> HIDE DEF nx, p
  <2> QED BY <1>6, <1>7, <1>8, <2>1, NextIsFirst
<1>10. nx = Nil \/ (In(nx, 1) /\ Allocated(nx))
       BY <1>7, InIsAllocated, NodeFacts DEF Follows, IInv
<1>11. op \in {"put", "get", "del", "range"} /\ (op # "range" => Target(t) = req[t].key)
       BY <1>3, RequestFacts DEF Target
<1>12. (x[t] = Nil \/ Allocated(x[t]))'  BY <1>1, <1>10 DEF Allocated
<1>13. pc'[t] \in {"put", "del", "get"} => First(x[t], req[t].key)'
       BY <1>1, <1>9, <1>11 DEF First, In
<1>14. pc'[t] \in {"put", "del"} =>
          (\A l \in 1 .. level : Before(update[t][l], l, req[t].key))'
  <2>1. op \in {"put", "del"} =>
           \A l \in 0 + 1 .. level : Before(update[t][l], l, req[t].key)
        BY <1>1, <1>4, <1>11 DEF Searching, Writes
  <2>2. 0 + 1 .. level = 1 .. level  OBVIOUS
  <2> QED BY <1>1, <2>1, <2>2 DEF Before, Starts, In
<1>15. pc'[t] = "range" => (x[t] = Nil \/ In(x[t], 1))'  BY <1>1, <1>10 DEF In
<1> QED BY <1>1, <1>11, <1>12, <1>13, <1>14, <1>15 DEF Cursor, Busy

LEMMA CalmCursor ==
    ASSUME IInv, Types', NEW t \in Threads, UNCHANGED <<list, closing, Content>>,
           \/ Invoke(t) \/ Return(t) \/ WrLock(t) \/ RdLock(t) \/ GetRead(t) \/ DelMiss(t)
           \/ DelHit(t) \/ RangeRow(t) \/ RangeEnd(t) \/ Unlock(t)
    PROVE  Cursor(t)'
<1>t. TypeOK /\ TypeOK' /\ Cursor(t)  BY DEF IInv, Types
<1>u. UNCHANGED <<next, nlev, level, closing, Mem>>  BY DEF list, Content
<1>1. CASE Invoke(t) \/ Return(t)
  <2>1. pc'[t] \in {"lock", "idle"} /\ pc[t] \in {"idle", "return"} /\ x'[t] = x[t]
        BY <1>1, <1>t DEF Invoke, Return, Goto, TypeOK, locals
  <2>2. x'[t] = HeadNode  BY <1>t, <2>1 DEF Cursor, Busy
  <2> QED BY <2>1, <2>2 DEF Cursor, Busy, Allocated
<1>2. CASE WrLock(t) \/ RdLock(t)
  <2>1. pc[t] = "lock" /\ pc'[t] = "search" /\ x'[t] = HeadNode /\ i'[t] = level
        BY <1>2, <1>t DEF WrLock, RdLock, StartSearch, Goto, TypeOK
  <2>2. closing.pc = "open"  BY <2>1 DEF IInv, Closing
  <2>3. level \in Nat /\ level > 0 /\ \A l \in level + 1 .. level : FALSE
        BY <1>t, NodeFacts DEF TypeOK
  <2>4. Searching(t)'
        BY <1>u, <2>1, <2>2, <2>3 DEF Searching, Starts
  <2> QED BY <2>1, <2>4 DEF Cursor, Busy, Allocated
<1>3. CASE GetRead(t) \/ DelMiss(t) \/ RangeEnd(t)
  <2>1. pc'[t] = "unlock" /\ x'[t] = x[t]
        BY <1>3, <1>t DEF GetRead, DelMiss, RangeEnd, Answer, Goto, TypeOK, locals
  <2> QED BY <1>t, <1>u, <2>1 DEF Cursor, Busy, Allocated
<1>4. CASE DelHit(t)
  <2>1. /\ pc[t] = "del" /\ pc'[t] = "unlink" /\ x'[t] = x[t] /\ i'[t] = 1
        /\ update'[t] = update[t] /\ req'[t] = req[t] /\ x[t] = req[t].key
        BY <1>4, <1>t DEF DelHit, Hit, Goto, TypeOK
  <2>2. 1 \in 1 .. level  BY <1>t, NodeFacts DEF TypeOK
  <2>3. (\A l \in i[t] .. level : Before(update[t][l], l, req[t].key))'
        BY <1>t, <1>u, <2>1 DEF Cursor, Before, Starts, In
  <2>4. (x[t] = Nil \/ Allocated(x[t]))'  BY <1>t, <1>u, <2>1 DEF Cursor, Allocated
  <2> QED BY <1>u, <2>1, <2>2, <2>3, <2>4 DEF Cursor, Busy
<1>5. CASE RangeRow(t)
  <2>1. CASE pc'[t] = "unlock" /\ x'[t] = x[t]
        BY <1>t, <1>u, <2>1 DEF Cursor, Busy, Allocated
  <2>2. CASE pc'[t] = "range" /\ x'[t] = next[x[t]][1]
    <3>1. In(x[t], 1)  BY <1>5, <1>t DEF RangeRow, RangeMore, Cursor
    <3>2. x[t] \in Nodes /\ Starts(x[t], 1)  BY <3>1, NodeFacts, MemFacts DEF Starts
    <3>3. Follows(x[t], 1, x'[t])
          BY <2>2, <3>2, NodeFacts DEF IInv, Shape, Links
    <3>4. x'[t] = Nil \/ (In(x'[t], 1) /\ Allocated(x'[t]))
          BY <3>3, InIsAllocated, NodeFacts DEF Follows, IInv
    <3> QED BY <1>u, <2>2, <3>4 DEF Cursor, Busy, Allocated, In
  <2>3. \/ pc'[t] = "unlock" /\ x'[t] = x[t]
        \/ pc'[t] = "range" /\ x'[t] = next[x[t]][1]
        BY <1>5, <1>t DEF RangeRow, Goto, TypeOK
  <2> QED BY <2>1, <2>2, <2>3
<1>6. CASE Unlock(t)
  <2>1. pc'[t] = "return" /\ x'[t] = HeadNode  BY <1>6, <1>t DEF Unlock, Goto, TypeOK
  <2> QED BY <2>1 DEF Cursor, Busy, Allocated
<1> QED BY <1>1, <1>2, <1>3, <1>4, <1>5, <1>6

-----------------------------------------------------------------------------
(* The steps of a writer                                                     *)

LEMMA WriterStep ==
    ASSUME IInv, NEW t \in Threads,
           pc[t] \in Splicing \cup {"put", "del"}, UNCHANGED <<lock, req, closing>>
    PROVE  /\ writer = t /\ writer' = t /\ WPc = pc[t] /\ WPc' = pc'[t]
           /\ closing.pc = "open" /\ closing' = closing /\ req'[t] = req[t]
           /\ req[t].key \in Keys /\ TypeOK /\ Shape /\ Cursor(t)
           /\ \A u \in Threads : u # t => ~Busy(u)
           /\ req[t].op = "put" => req[t].val \in Values
<1>1. Busy(t) /\ Writes(t)
      BY DEF IInv, Calls, Busy, Writes, Splicing
<1>2. /\ writer = t /\ writer # NoOne /\ closing.pc = "open" /\ WPc = pc[t]
      /\ req[t].key \in Keys /\ req[t] \in Request
      /\ \A u \in Threads : u # t => ~Busy(u)
      BY <1>1, WriterAlone DEF IInv
<1>3. writer' = t /\ WPc' = pc'[t]  BY <1>2 DEF WPc, lock
<1> QED BY <1>2, <1>3, RequestFacts DEF IInv, Types

\* A put that finds its key.
LEMMA PutFreeKeeps ==
    ASSUME IInv, Types', NEW t \in Threads, PutFree(t)
    PROVE  Shape' /\ Cursor(t)'
<1> DEFINE k == req[t].key
<1>0. /\ pc[t] = "put" /\ x[t] = k /\ UNCHANGED <<lock, req, closing>>
      /\ UNCHANGED <<next, nlev, level, count, x, i, update>>
      BY DEF PutFree, Hit, locals
<1>1. /\ writer = t /\ writer' = t /\ WPc = "put" /\ WPc' = pc'[t] /\ req'[t] = req[t]
      /\ closing.pc = "open" /\ closing' = closing
      /\ k \in Keys /\ TypeOK /\ Shape /\ Cursor(t)
      BY <1>0, WriterStep DEF Splicing
<1>2. pc'[t] = "overwrite" /\ val' = [val EXCEPT ![k] = Missing]
      BY <1>0, <1>1 DEF PutFree, Goto, TypeOK
<1>3. Mem' = Mem /\ Dropped' = Dropped /\ Leaving' = Leaving /\ Behind' = Behind /\ Unset' = {k}
  <2>1. \A j \in Keys, l \in Levels : ~Hidden(j, l) /\ ~Hidden(j, l)'
        BY <1>1, <1>2 DEF Hidden
  <2>2. Mem' = Mem  BY <1>0, <2>1 DEF Mem
  <2> QED BY <1>0, <1>1, <1>2, <2>2 DEF Dropped, Leaving, Behind, Unset
<1>4. Links'  BY <1>0, <1>1, <1>3 DEF Shape, Links, Starts, Follows, In
<1>5. Heights'  BY <1>0, <1>1, <1>3 DEF Shape, Heights
<1>6. Filled'
  <2>1. (closing.pc = "open" => count = Cardinality(Mem[1]) + Behind)'
        BY <1>0, <1>1, <1>3 DEF Shape, Filled
  <2>2. Unset = {}  BY <1>1 DEF Unset
  <2>3. \A j \in Keys : nlev'[j] > 0 => val'[j] # Missing \/ j \in Unset'
        BY <1>0, <1>1, <1>2, <1>3, <2>2 DEF Shape, Filled, TypeOK
  <2> QED BY <2>1, <2>3 DEF Filled
<1>7. Cursor(t)'
      BY <1>0, <1>1, <1>2 DEF Cursor, Busy, Allocated
<1> QED BY <1>4, <1>5, <1>6, <1>7 DEF Shape

LEMMA PutOverwriteKeeps ==
    ASSUME IInv, Types', NEW t \in Threads, PutOverwrite(t)
    PROVE  Shape' /\ Cursor(t)'
<1> DEFINE k == req[t].key
<1>0. /\ pc[t] = "overwrite" /\ UNCHANGED <<lock, req, closing>>
      /\ UNCHANGED <<next, nlev, level, count, x, i, update>>
      BY DEF PutOverwrite, locals
<1>1. /\ writer = t /\ writer' = t /\ WPc = "overwrite" /\ WPc' = pc'[t] /\ req'[t] = req[t]
      /\ closing.pc = "open" /\ closing' = closing
      /\ k \in Keys /\ TypeOK /\ Shape /\ Cursor(t)
      BY <1>0, WriterStep DEF Splicing
<1>v. x[t] = k /\ req[t].val # Missing
  <2>1. x[t] = k  BY <1>0, <1>1 DEF Cursor
  <2>2. req[t].val \in Values  BY <1>0, WriterStep DEF Splicing, IInv, Calls
  <2> QED BY <2>1, <2>2, ValuesAssumption DEF Missing
<1>2. pc'[t] = "unlock" /\ val' = [val EXCEPT ![k] = req[t].val]
      BY <1>0, <1>1, <1>v DEF PutOverwrite, Answer, Goto, TypeOK
<1>3. Mem' = Mem /\ Dropped' = Dropped /\ Leaving' = Leaving /\ Behind' = Behind /\ Unset = {k}
  <2>1. \A j \in Keys, l \in Levels : ~Hidden(j, l) /\ ~Hidden(j, l)'
        BY <1>1, <1>2 DEF Hidden
  <2>2. Mem' = Mem  BY <1>0, <2>1 DEF Mem
  <2> QED BY <1>0, <1>1, <1>2, <1>v, <2>2 DEF Dropped, Leaving, Behind, Unset
<1>4. Links'  BY <1>0, <1>1, <1>3 DEF Shape, Links, Starts, Follows, In
<1>5. Heights'  BY <1>0, <1>1, <1>3 DEF Shape, Heights
<1>6. Filled'
  <2>1. (closing.pc = "open" => count = Cardinality(Mem[1]) + Behind)'
        BY <1>0, <1>1, <1>3 DEF Shape, Filled
  <2>3. \A j \in Keys : nlev'[j] > 0 => val'[j] # Missing
        BY <1>0, <1>1, <1>2, <1>3, <1>v DEF Shape, Filled, TypeOK
  <2> QED BY <2>1, <2>3 DEF Filled
<1>7. Cursor(t)'
      BY <1>0, <1>1, <1>2 DEF Cursor, Busy, Allocated
<1> QED BY <1>4, <1>5, <1>6, <1>7 DEF Shape

\* The counts of sl_put and sl_del.
LEMMA CountKeeps ==
    ASSUME IInv, Types', NEW t \in Threads, PutCount(t) \/ DelCount(t)
    PROVE  Shape' /\ Cursor(t)'
<1>0. /\ pc[t] \in {"counted", "discounted"} /\ UNCHANGED <<lock, req, closing>>
      /\ UNCHANGED <<next, nlev, val, level, x, i, update>>
      BY DEF PutCount, DelCount, locals
<1>1. /\ writer = t /\ writer' = t /\ WPc = pc[t] /\ WPc' = pc'[t] /\ req'[t] = req[t]
      /\ closing.pc = "open" /\ closing' = closing
      /\ req[t].key \in Keys /\ TypeOK /\ Shape /\ Cursor(t)
      BY <1>0, WriterStep DEF Splicing
<1>2. /\ pc'[t] = "unlock"
      /\ count' = IF pc[t] = "counted" THEN count + 1 ELSE count - 1
      BY <1>0, <1>1 DEF PutCount, DelCount, Answer, Goto, TypeOK
<1>3. /\ Mem' = Mem /\ Dropped' = Dropped /\ Leaving' = Leaving /\ Unset' = Unset
      /\ Behind' = 0 /\ Behind = IF pc[t] = "counted" THEN -1 ELSE 1
  <2>1. \A j \in Keys, l \in Levels : ~Hidden(j, l) /\ ~Hidden(j, l)'
        BY <1>0, <1>1, <1>2 DEF Hidden
  <2>2. Mem' = Mem  BY <1>0, <2>1 DEF Mem
  <2> QED BY <1>0, <1>1, <1>2, <2>2 DEF Dropped, Leaving, Behind, Unset
<1>4. Links'  BY <1>0, <1>1, <1>3 DEF Shape, Links, Starts, Follows, In
<1>5. Heights'  BY <1>0, <1>1, <1>3 DEF Shape, Heights
<1>6. Filled'
  <2>1. IsFiniteSet(Mem[1])
        BY MemFacts, NodeFacts, KeysAssumption, FS_Subset
  <2>2. Cardinality(Mem[1]) \in Nat  BY <2>1, FS_CardinalityType
  <2>3. count = Cardinality(Mem[1]) + Behind  BY <1>1 DEF Shape, Filled
  <2>4. count' = Cardinality(Mem[1]) + 0  BY <1>2, <1>3, <2>2, <2>3
  <2> QED BY <1>0, <1>1, <1>3, <2>4 DEF Shape, Filled
<1>7. Cursor(t)'
      BY <1>0, <1>1, <1>2 DEF Cursor, Busy, Allocated
<1> QED BY <1>4, <1>5, <1>6, <1>7 DEF Shape

\* A put that does not find its key makes a node, which is not in the list yet.
LEMMA PutNodeKeeps ==
    ASSUME IInv, Types', NEW t \in Threads, PutNode(t)
    PROVE  Shape' /\ Cursor(t)'
<1> DEFINE k == req[t].key
<1>0. /\ pc[t] = "put" /\ ~Hit(t) /\ UNCHANGED <<lock, req, closing, count, x>>
      BY DEF PutNode
<1>1. /\ writer = t /\ writer' = t /\ WPc = "put" /\ WPc' = pc'[t] /\ req'[t] = req[t]
      /\ closing.pc = "open" /\ closing' = closing
      /\ k \in Keys /\ TypeOK /\ Shape /\ Cursor(t)
      BY <1>0, WriterStep DEF Splicing
<1>v. req[t].val # Missing
  <2>1. req[t].val \in Values  BY <1>0, WriterStep DEF Splicing, IInv, Calls
  <2> QED BY <2>1, ValuesAssumption DEF Missing
<1>2. /\ pc'[t] = "link" /\ i'[t] = 1
      /\ val' = [val EXCEPT ![k] = req[t].val]
      /\ next' = [next EXCEPT ![k] = [l \in Levels |-> Nil]]
      BY <1>1 DEF PutNode, Goto, TypeOK
<1>3. PICK lvl \in Levels : /\ level' = IF lvl > level THEN lvl ELSE level
                            /\ update' = [update EXCEPT ![t] = HeadFilled(@, lvl)]
                            /\ nlev' = [nlev EXCEPT ![k] = lvl]
      BY DEF PutNode
<1>m. Mem = [l \in Levels |-> {j \in Keys : nlev[j] >= l}] /\ Dropped = {} /\ Leaving = {}
      /\ Unset = {} /\ Behind = 0
      BY <1>1, NothingHidden DEF Splicing
<1>4. nlev[k] = 0
  <2>1. First(x[t], k)  BY <1>0, <1>1 DEF Cursor
  <2>2. ~In(k, 1)
    <3>1. k \in Nat /\ ~(k < k)  BY <1>1, NodeFacts
    <3>2. CASE x[t] = Nil
      <4>1. ~In(Nil, 1)  BY MemFacts, NodeFacts DEF In
      <4> QED BY <1>1, <2>1, <3>1, <3>2, <4>1 DEF First
    <3>3. CASE x[t] # Nil
      <4>1. x[t] # k  BY <1>0, <3>3 DEF Hit
      <4>2. In(x[t], 1) /\ x[t] >= k /\ (In(k, 1) /\ k >= k => k >= x[t])
            BY <1>1, <2>1, <3>3 DEF First
      <4>3. x[t] \in Nat  BY <4>2, MemFacts, NodeFacts DEF In
      <4> QED BY <3>1, <4>1, <4>2, <4>3
    <3> QED BY <3>2, <3>3
  <2>3. k \notin Mem[1] /\ nlev[k] \in Nat  BY <1>1, <2>2, NodeFacts DEF In, TypeOK
  <2>4. ~(nlev[k] >= 1)  BY <1>m, <1>1, <2>3, NodeFacts
  <2> QED BY <2>3, <2>4
<1>n. \A l \in Levels : k \notin Mem[l]  BY <1>m, <1>1, <1>4, NodeFacts
<1>5. /\ Mem' = Mem /\ Dropped' = {} /\ Leaving' = {} /\ Behind' = 0 /\ Unset' = {}
  <2>1. \A j \in Keys, l \in Levels : Hidden(j, l)' <=> j = k
        BY <1>1, <1>2, NodeFacts DEF Hidden
  <2>2. ASSUME NEW l \in Levels
        PROVE  {j \in Keys : nlev[j] >= l} = {j \in Keys : nlev'[j] >= l /\ j # k}
        BY <1>1, <1>3, <1>4, NodeFacts DEF TypeOK
  <2>3. Mem' = Mem  BY <1>m, <2>1, <2>2 DEF Mem
  <2> QED BY <1>1, <1>2, <2>3 DEF Dropped, Leaving, Behind, Unset
<1>6. /\ \A p \in Nodes, l \in Levels : Starts(p, l) => next'[p][l] = next[p][l]
      /\ \A p \in Nodes, l \in Levels : Starts(p, l)' <=> Starts(p, l)
      /\ \A p \in Nodes, l \in Levels : next'[p][l] = Nil \/ next'[p][l] = next[p][l]
  <2>1. k \in Nodes /\ k # HeadNode  BY <1>1, NodeFacts
  <2>2. \A p \in Nodes, l \in Levels : Starts(p, l) => p # k
        BY <1>n, <2>1 DEF Starts, In
  <2> QED BY <1>1, <1>2, <1>5, <2>1, <2>2 DEF TypeOK, Starts, In
<1>7. Links'
      BY <1>1, <1>5, <1>6, <1>m DEF Shape, Links, Follows, In
<1>8. Heights'
  <2>0. level \in Nat /\ lvl \in Nat /\ lvl >= 1 /\ \A j \in Keys : nlev[j] \in Nat
        BY <1>1, NodeFacts DEF TypeOK
  <2>1. \A j \in Keys : nlev[j] <= level  BY <1>1, <1>m DEF Shape, Heights
  <2>2. \A j \in Keys : nlev'[j] <= level'  BY <1>1, <1>3, <2>0, <2>1 DEF TypeOK
  <2>3. level' = 1 \/ \E j \in Keys : nlev'[j] = level'
    <3>1. CASE lvl > level  BY <1>1, <1>3, <3>1 DEF TypeOK
    <3>2. CASE ~(lvl > level)
      <4>1. level = 1 \/ \E j \in Keys : nlev[j] = level
            BY <1>1 DEF Shape, Heights
      <4>2. level' = level  BY <1>3, <3>2
      <4>3. \A j \in Keys : nlev[j] = level => j # k  BY <1>4, <2>0, <3>2
      <4> QED BY <1>1, <1>3, <4>1, <4>2, <4>3 DEF TypeOK
    <3> QED BY <3>1, <3>2
  <2> QED BY <1>1, <1>5, <2>2, <2>3 DEF Heights
<1>9. Filled'
  <2>1. count' = Cardinality(Mem'[1]) + Behind'
        BY <1>0, <1>1, <1>5, <1>m DEF Shape, Filled
  <2>2. \A j \in Keys : nlev'[j] > 0 => val'[j] # Missing
        BY <1>1, <1>2, <1>3, <1>m, <1>v DEF Shape, Filled, TypeOK
  <2> QED BY <2>1, <2>2 DEF Filled
<1>10. Cursor(t)'
  <2>0. level \in Nat /\ lvl \in Nat /\ lvl >= 1 /\ nlev'[k] = lvl
        BY <1>1, <1>3, NodeFacts DEF TypeOK
  <2>1. ASSUME NEW l \in 1 .. lvl PROVE (Before(update[t][l], l, req[t].key))'
    <3>0. l \in Levels  BY <2>0, NodeFacts
    <3>1. update'[t][l] = IF level < l THEN HeadNode ELSE update[t][l]
          BY <1>1, <1>3, <2>0, <3>0 DEF HeadFilled, TypeOK
    <3>2. CASE level < l
      <4>1. Starts(HeadNode, l) /\ HeadNode \in Nodes  BY <1>1, NodeFacts DEF Starts
      <4>2. next[HeadNode][l] = Nil
        <5>1. next[HeadNode][l] = Nil \/ In(next[HeadNode][l], l)
              BY <1>1, <3>0, <4>1 DEF Shape, Links
        <5>2. \A j : In(j, l) => j \in Keys /\ nlev[j] >= l  BY <3>0, MemFacts DEF In
        <5>3. \A j \in Keys : nlev[j] <= level /\ nlev[j] \in Nat
              BY <1>1, <1>m DEF Shape, Heights, TypeOK
        <5> QED BY <2>0, <3>2, <5>1, <5>2, <5>3
      <4> QED BY <1>2, <1>6, <3>0, <3>1, <3>2, <4>1, <4>2 DEF Before
    <3>3. CASE ~(level < l)
      <4>1. l \in 1 .. level  BY <2>0, <3>3
      <4>2. Before(update[t][l], l, k)  BY <1>0, <1>1, <4>1 DEF Cursor
      <4>3. Starts(update[t][l], l) /\ update[t][l] \in Nodes
            BY <3>0, <4>2, MemFacts DEF Before
      <4> QED BY <1>1, <1>6, <3>0, <3>1, <3>3, <4>2, <4>3 DEF Before
    <3> QED BY <3>2, <3>3
  <2>2. (x[t] = Nil \/ Allocated(x[t]))'
    <3>1. \A j \in Keys : nlev[j] > 0 => nlev'[j] > 0
          BY <1>1, <1>3, NodeFacts DEF TypeOK
    <3> QED BY <1>0, <1>1, <3>1 DEF Cursor, Allocated
  <2>3. (\A l \in i[t] .. nlev[req[t].key] : Before(update[t][l], l, req[t].key))'
        BY <1>1, <1>2, <2>0, <2>1
  <2>4. (i[t] \in 1 .. nlev[req[t].key])' /\ (nlev[req[t].key] >= 1)'
        BY <1>1, <1>2, <2>0
  <2> QED BY <1>2, <2>2, <2>3, <2>4 DEF Cursor, Busy
<1> QED BY <1>7, <1>8, <1>9, <1>10 DEF Shape

\* The predecessor noted by the search precedes k, and no node lies between.
LEMMA NothingBetween ==
    ASSUME NEW l \in Levels, NEW p \in Nodes, NEW k \in Keys,
           Before(p, l, k), Follows(p, l, next[p][l])
    PROVE  p < k /\ \A j \in Keys : In(j, l) /\ j < k => j <= p
<1>1. p < k  BY NodeFacts DEF Before
<1>2. CASE next[p][l] = Nil
  <2>1. ~In(Nil, l)  BY MemFacts, NodeFacts DEF In
  <2> QED BY <1>1, <1>2, <2>1 DEF Follows
<1>3. CASE next[p][l] # Nil
  <2>1. In(next[p][l], l) /\ \A j \in Keys : In(j, l) /\ j < next[p][l] => j <= p
        BY <1>3 DEF Follows
  <2>2. next[p][l] \in Keys /\ next[p][l] >= k  BY <1>3, <2>1, MemFacts DEF Before, In
  <2>3. \A j \in Keys : j < k => j < next[p][l]  BY <2>2, NodeFacts
  <2> QED BY <1>1, <2>1, <2>3
<1> QED BY <1>2, <1>3

LEMMA BottomIsFinite == IsFiniteSet(Mem[1]) /\ Cardinality(Mem[1]) \in Nat
<1>1. IsFiniteSet(Mem[1])  BY MemFacts, NodeFacts, KeysAssumption, FS_Subset
<1> QED BY <1>1, FS_CardinalityType

\* What the splice of level l does to the list of the level.
LEMMA SpliceIn ==
    ASSUME Types, NEW l \in Levels, NEW p \in Nodes, NEW k \in Keys, closing.pc = "open",
           Links, Starts(p, l), Before(p, l, k), k \notin Mem[l],
           next' = Spliced(k, p, l), Mem' = [Mem EXCEPT ![l] = @ \cup {k}],
           closing' = closing, Dropped = {}, Dropped' = {}
    PROVE  Links'
<1> DEFINE nx == next[p][l]
<1>t. next \in [Nodes -> [Levels -> Keys \cup {Nil}]]  BY DEF Types, TypeOK
<1>k. k \in Nodes /\ k # p /\ k # HeadNode /\ Nil \notin Keys
  <2>1. k # p  BY NodeFacts DEF Starts, In
  <2> QED BY <2>1, NodeFacts
<1>1. Follows(p, l, nx) /\ nx \in Keys \cup {Nil}  BY <1>t DEF Links
<1>2. p < k /\ \A j \in Keys : In(j, l) /\ j < k => j <= p  BY <1>1, NothingBetween
<1>3. /\ next'[k][l] = nx /\ next'[p][l] = k
      /\ \A q \in Nodes, m \in Levels :
            (m # l \/ (q # k /\ q # p)) => next'[q][m] = next[q][m]
      BY <1>t, <1>k DEF Spliced
<1>4. Mem \in [Levels -> SUBSET Keys]  BY MemFacts DEF Mem
<1>5. /\ Mem'[l] = Mem[l] \cup {k}
      /\ \A m \in Levels : m # l => Mem'[m] = Mem[m]
      BY <1>4
<1>n. /\ \A q \in Nodes : q \in Nat /\ (q = HeadNode \/ q \in Keys)
      /\ \A j \in Keys : j \in Nat /\ j \in Nodes
      BY NodeFacts
<1>6. nx = Nil \/ (nx \in Mem[l] /\ nx > k)
  <2>1. nx = Nil \/ (nx \in Mem[l] /\ nx >= k)  BY <1>1 DEF Follows, In, Before
  <2> QED BY <1>1, <1>n, <2>1
<1>7. ASSUME NEW q \in Nodes, NEW m \in Levels, Starts(q, m)'
      PROVE  Follows(q, m, next[q][m])'
  <2>1. CASE m # l
    <3>1. Starts(q, m)  BY <1>5, <1>7, <2>1 DEF Starts, In
    <3>2. Follows(q, m, next[q][m])  BY <3>1 DEF Links
    <3> QED BY <1>3, <1>5, <2>1, <3>2 DEF Follows, In
  <2>2. CASE m = l /\ q = k
    <3>1. CASE nx = Nil
      <4>1. \A j \in Keys : j \in Mem[l] => j <= p  BY <1>1, <1>4, <1>k, <3>1 DEF Follows, In
      <4>2. \A j \in Keys : j \in Mem[l] \cup {k} => j <= k  BY <1>2, <1>n, <4>1
      <4> QED BY <1>3, <1>5, <2>2, <3>1, <4>2 DEF Follows, In
    <3>2. CASE nx # Nil
      <4>1. \A j \in Keys : j \in Mem[l] /\ j < nx => j <= p  BY <1>1, <3>2 DEF Follows, In
      <4>2. \A j \in Keys : j \in Mem[l] \cup {k} /\ j < nx => j <= k  BY <1>2, <1>n, <4>1
      <4> QED BY <1>3, <1>5, <1>6, <2>2, <3>2, <4>2 DEF Follows, In
    <3> QED BY <3>1, <3>2
  <2>3. CASE m = l /\ q = p
    <3>1. \A j \in Keys : j \in Mem[l] \cup {k} /\ j < k => j <= p
          BY <1>2, <1>n DEF In
    <3> QED BY <1>2, <1>3, <1>5, <2>3, <3>1 DEF Follows, In
  <2>4. CASE m = l /\ q # k /\ q # p
    <3> DEFINE y == next[q][l]
    <3>1. Starts(q, l)  BY <1>5, <1>7, <2>4 DEF Starts, In
    <3>2. Follows(q, l, y) /\ next'[q][m] = y  BY <1>3, <2>4, <3>1 DEF Links
    <3>3. q < k => q < p /\ p \in Mem[l]
      <4>1. q < k => q <= p
        <5>1. CASE q = HeadNode  BY <1>n, <5>1 DEF HeadNode
        <5>2. CASE q \in Mem[l]  BY <1>2, <1>4, <5>2 DEF In
        <5> QED BY <3>1, <5>1, <5>2 DEF Starts, In
      <4>2. q < k => q < p  BY <1>n, <2>4, <4>1
      <4>3. q < p => p # HeadNode  BY <1>n DEF HeadNode
      <4> QED BY <4>2, <4>3 DEF Starts, In
    <3>4. CASE y = Nil
      <4>1. \A j \in Keys : j \in Mem[l] => j <= q  BY <1>4, <1>k, <3>2, <3>4 DEF Follows, In
      <4>2. k <= q  BY <1>4, <1>n, <3>3, <4>1
      <4>3. \A j \in Keys : j \in Mem[l] \cup {k} => j <= q  BY <4>1, <4>2
      <4> QED BY <1>5, <2>4, <3>2, <3>4, <4>3 DEF Follows, In
    <3>5. CASE y # Nil
      <4>1. y \in Mem[l] /\ q < y /\ \A j \in Keys : j \in Mem[l] /\ j < y => j <= q
            BY <3>2, <3>5 DEF Follows, In
      <4>2. k < y => k <= q
        <5> SUFFICES ASSUME k < y, q < k PROVE FALSE  BY <1>n
        <5>1. q < p /\ p \in Mem[l] /\ p < y  BY <1>2, <1>4, <1>n, <3>3, <4>1
        <5>2. p <= q  BY <1>4, <4>1, <5>1
        <5> QED BY <1>n, <5>1, <5>2
      <4>3. \A j \in Keys : j \in Mem[l] \cup {k} /\ j < y => j <= q  BY <4>1, <4>2
      <4> QED BY <1>5, <2>4, <3>2, <4>1, <4>3 DEF Follows, In
    <3> QED BY <3>4, <3>5
  <2> QED BY <2>1, <2>2, <2>3, <2>4
<1>8. ASSUME NEW q \in Nodes, NEW m \in Levels
      PROVE  /\ next'[q][m] = Nil \/ In(next[q][m], m)'
             /\ next'[q][m] = Nil \/ Starts(q, m)'
  <2>1. /\ next[q][m] = Nil \/ next[q][m] \in Mem[m]
        /\ next[q][m] = Nil \/ q = HeadNode \/ q \in Mem[m]
        BY DEF Links, Starts, In
  <2>2. \A z : z \in Mem[m] => z \in Mem'[m]  BY <1>5
  <2>3. CASE m = l /\ q = k
    <3>1. next'[q][m] = nx /\ q \in Mem'[m]  BY <1>3, <1>5, <2>3
    <3> QED BY <1>6, <2>2, <2>3, <3>1 DEF Starts, In
  <2>4. CASE m = l /\ q = p
    <3>1. next'[q][m] = k /\ k \in Mem'[m]  BY <1>3, <1>5, <2>4
    <3>2. q = HeadNode \/ q \in Mem'[m]  BY <2>2, <2>4 DEF Starts, In
    <3> QED BY <3>1, <3>2 DEF Starts, In
  <2>5. CASE m # l \/ (q # k /\ q # p)
    <3>1. next'[q][m] = next[q][m]  BY <1>3, <2>5
    <3> QED BY <2>1, <2>2, <3>1 DEF Starts, In
  <2> QED BY <2>3, <2>4, <2>5
<1> QED BY <1>7, <1>8 DEF Links

LEMMA PutLinkKeeps ==
    ASSUME IInv, Types', NEW t \in Threads, PutLink(t)
    PROVE  Shape' /\ Cursor(t)' /\ Mem' = [Mem EXCEPT ![i[t]] = @ \cup {req[t].key}]
<1> DEFINE k == req[t].key
           l == i[t]
           p == update[t][l]
<1>0. /\ pc[t] = "link" /\ UNCHANGED <<lock, req, closing>>
      /\ UNCHANGED <<nlev, val, level, count, x, update>>
      /\ next' = Spliced(k, p, l)
      BY DEF PutLink
<1>1. /\ writer = t /\ writer' = t /\ WPc = "link" /\ WPc' = pc'[t] /\ req'[t] = req[t]
      /\ closing.pc = "open" /\ closing' = closing
      /\ k \in Keys /\ TypeOK /\ Shape /\ Cursor(t)
      BY <1>0, WriterStep DEF Splicing
<1>2. /\ l = nlev[k] => pc'[t] = "counted" /\ i'[t] = l
      /\ l # nlev[k] => pc'[t] = "link" /\ i'[t] = l + 1
      BY <1>0, <1>1 DEF PutLink, Goto, TypeOK
<1>3. /\ l \in Nat /\ l >= 1 /\ l <= nlev[k] /\ l \in Levels /\ nlev[k] \in Nat /\ nlev[k] <= MaxLevel
      /\ \A m \in l .. nlev[k] : Before(update[t][m], m, k)
  <2>1. l \in 1 .. nlev[k] /\ \A m \in l .. nlev[k] : Before(update[t][m], m, k)
        BY <1>0, <1>1 DEF Cursor
  <2>2. nlev[k] \in Nat /\ nlev[k] <= MaxLevel  BY <1>1, NodeFacts DEF TypeOK
  <2>3. l \in Nat /\ l >= 1 /\ l <= nlev[k]  BY <2>1, <2>2
  <2> QED BY <2>1, <2>2, <2>3, NodeFacts
<1>4. Before(p, l, k) /\ Starts(p, l) /\ p \in Nodes
  <2>1. l \in l .. nlev[k]  BY <1>3
  <2> QED BY <1>3, <2>1, MemFacts DEF Before
<1>5. /\ \A j \in Keys, m \in Levels : Hidden(j, m) <=> j = k /\ m >= l
      BY <1>1 DEF Hidden
<1>6. \A j \in Keys, m \in Levels : nlev[j] >= m => (Hidden(j, m)' <=> j = k /\ m > l)
  <2>1. CASE l = nlev[k]
    <3>1. \A j \in Keys, m \in Levels : ~Hidden(j, m)'  BY <1>1, <1>2, <2>1 DEF Hidden
    <3>2. \A m \in Levels : nlev[k] >= m => ~(m > l)  BY <1>3, <2>1, NodeFacts
    <3> QED BY <3>1, <3>2
  <2>2. CASE l # nlev[k]
    <3>1. \A j \in Keys, m \in Levels : Hidden(j, m)' <=> j = k /\ m >= l + 1
          BY <1>1, <1>2, <2>2 DEF Hidden
    <3>2. \A m \in Levels : m >= l + 1 <=> m > l  BY <1>3, NodeFacts
    <3> QED BY <3>1, <3>2
  <2> QED BY <2>1, <2>2
<1>7. k \notin Mem[l] /\ Mem' = [Mem EXCEPT ![l] = @ \cup {k}]
  <2>1. k \notin Mem[l]  BY <1>1, <1>3, <1>5, MemFacts
  <2>2. Mem' = [m \in Levels |-> {j \in Keys : nlev[j] >= m /\ ~Hidden(j, m)'}]
        BY <1>0 DEF Mem
  <2>3. ASSUME NEW m \in Levels
        PROVE  {j \in Keys : nlev[j] >= m /\ ~Hidden(j, m)'} =
                  IF m = l THEN Mem[l] \cup {k} ELSE Mem[m]
    <3>0. m \in Nat /\ (m > l <=> m >= l /\ m # l)  BY <1>3, NodeFacts
    <3>1. Mem[m] = {j \in Keys : nlev[j] >= m /\ ~(j = k /\ m >= l)}
          BY <1>5 DEF Mem
    <3>2. {j \in Keys : nlev[j] >= m /\ ~Hidden(j, m)'} = {j \in Keys : nlev[j] >= m /\ ~(j = k /\ m > l)}
          BY <1>6
    <3>3. CASE m = l
      <4>1. Mem[l] = {j \in Keys : nlev[j] >= l /\ j # k}  BY <1>3, <3>1, <3>3
      <4>2. {j \in Keys : nlev[j] >= m /\ ~(j = k /\ m > l)} = {j \in Keys : nlev[j] >= l}
            BY <1>3, <3>3
      <4> QED BY <1>1, <1>3, <3>2, <3>3, <4>1, <4>2
    <3>4. CASE m # l  BY <3>0, <3>1, <3>2, <3>4
    <3> QED BY <3>3, <3>4
  <2>4. Mem' = [m \in Levels |-> IF m = l THEN Mem[l] \cup {k} ELSE Mem[m]]
        BY <2>2, <2>3
  <2>5. Mem \in [Levels -> SUBSET Keys]  BY DEF Mem
  <2> QED BY <2>1, <2>4, <2>5
<1>8. /\ Dropped = {} /\ Dropped' = {} /\ Leaving = {} /\ Leaving' = {} /\ Unset = {} /\ Unset' = {}
  <2>1. pc'[t] \in {"link", "counted"}  BY <1>2
  <2> QED BY <1>1, <2>1 DEF Dropped, Leaving, Unset
<1>9. Links'
      BY <1>0, <1>1, <1>3, <1>4, <1>7, <1>8, SpliceIn DEF Shape, IInv
<1>10. Heights'  BY <1>0, <1>1, <1>8 DEF Shape, Heights
<1>11. Filled'
  <2>1. Mem \in [Levels -> SUBSET Keys] /\ 1 \in Levels  BY NodeFacts DEF Mem
  <2>2. count = Cardinality(Mem[1]) + Behind  BY <1>1 DEF Shape, Filled
  <2>3. Behind' = -1
        BY <1>1, <1>2, <1>3 DEF Behind
  <2>4. CASE l = 1
    <3>1. Behind = 0  BY <1>1, <2>4 DEF Behind
    <3>2. Mem'[1] = Mem[1] \cup {k}  BY <1>7, <2>1, <2>4
    <3>3. Cardinality(Mem'[1]) = Cardinality(Mem[1]) + 1
          BY <1>7, <2>4, <3>2, BottomIsFinite, FS_AddElement
    <3>4. count' = Cardinality(Mem'[1]) + Behind'
          BY <1>0, <2>2, <2>3, <3>1, <3>3, BottomIsFinite
    <3> QED BY <1>0, <1>1, <1>8, <3>4 DEF Shape, Filled
  <2>5. CASE l # 1
    <3>1. Behind = -1
      <4>1. i[writer] > 1  BY <1>1, <1>3, <2>5
      <4> QED BY <1>1, <4>1 DEF Behind
    <3>2. Mem'[1] = Mem[1]  BY <1>7, <2>1, <2>5
    <3> QED BY <1>0, <1>1, <1>8, <2>2, <2>3, <3>1, <3>2 DEF Shape, Filled
  <2> QED BY <2>4, <2>5
<1>12. Cursor(t)'
  <2>1. (x[t] = Nil \/ Allocated(x[t]))'  BY <1>0, <1>1 DEF Cursor, Allocated
  <2>2. (nlev[req[t].key] >= 1)'  BY <1>0, <1>1, <1>3
  <2>3. CASE l = nlev[k]
        BY <1>2, <2>1, <2>2, <2>3 DEF Cursor, Busy
  <2>4. CASE l # nlev[k]
    <3>1. (i[t] \in 1 .. nlev[req[t].key])'
      <4>1. l + 1 \in 1 .. nlev[k]  BY <1>3, <2>4
      <4> QED BY <1>0, <1>2, <2>4, <4>1
    <3>2. ASSUME NEW m \in l + 1 .. nlev[k]
          PROVE  (Before(update[t][m], m, req[t].key))'
      <4>1. m \in l .. nlev[k] /\ m # l /\ m \in Levels  BY <1>3, NodeFacts
      <4>2. Before(update[t][m], m, k)  BY <1>3, <4>1
      <4>3. update[t][m] \in Nodes  BY <4>1, <4>2, MemFacts DEF Before
      <4>4. next'[update[t][m]][m] = next[update[t][m]][m]
        <5>1. next \in [Nodes -> [Levels -> Keys \cup {Nil}]] /\ k \in Nodes  BY <1>1, NodeFacts DEF TypeOK
        <5> QED BY <1>0, <1>3, <1>4, <4>1, <4>3, <5>1 DEF Spliced
      <4>5. Mem \in [Levels -> SUBSET Keys]  BY DEF Mem
      <4>6. Mem'[m] = Mem[m]  BY <1>7, <4>1, <4>5
      <4> QED BY <1>0, <1>1, <4>2, <4>4, <4>6 DEF Before, Starts, In
    <3>3. (\A m \in i[t] .. nlev[req[t].key] : Before(update[t][m], m, req[t].key))'
          BY <1>0, <1>2, <2>4, <3>2
    <3> QED BY <1>2, <2>1, <2>2, <2>4, <3>1, <3>3 DEF Cursor, Busy
  <2> QED BY <2>3, <2>4
<1> QED BY <1>7, <1>9, <1>10, <1>11, <1>12 DEF Shape

\* The predecessor noted by the search points to k exactly where k is in the list.
LEMMA PointsAt ==
    ASSUME NEW l \in Levels, NEW p \in Nodes, NEW k \in Keys,
           Before(p, l, k), Follows(p, l, next[p][l])
    PROVE  next[p][l] = k <=> In(k, l)
<1>1. p < k /\ k \in Nat /\ p \in Nat  BY NothingBetween, NodeFacts
<1>2. ASSUME next[p][l] = k PROVE In(k, l)  BY <1>2, NodeFacts DEF Follows
<1>3. ASSUME In(k, l) PROVE next[p][l] = k
  <2>1. CASE next[p][l] = Nil
    <3>1. ~In(Nil, l)  BY MemFacts, NodeFacts DEF In
    <3>2. k <= p  BY <1>3, <2>1, <3>1 DEF Follows
    <3> QED BY <1>1, <3>2
  <2>2. CASE next[p][l] # Nil
    <3>1. In(next[p][l], l) /\ (k < next[p][l] => k <= p)  BY <1>3, <2>2 DEF Follows
    <3>2. next[p][l] \in Nat /\ next[p][l] >= k
          BY <2>2, <3>1, MemFacts, NodeFacts DEF Before, In
    <3> QED BY <1>1, <3>1, <3>2
  <2> QED BY <2>1, <2>2
<1> QED BY <1>2, <1>3

\* What taking k out of the list of level l does to it.
LEMMA SpliceOut ==
    ASSUME Types, NEW l \in Levels, NEW p \in Nodes, NEW k \in Keys, closing.pc = "open",
           Links, Starts(p, l), Before(p, l, k), next[p][l] = k,
           next' = [next EXCEPT ![p][l] = next[k][l]], Mem' = [Mem EXCEPT ![l] = @ \ {k}],
           closing' = closing, Dropped \subseteq {k}, Dropped' = {k}
    PROVE  Links'
<1> DEFINE z == next[k][l]
<1>t. next \in [Nodes -> [Levels -> Keys \cup {Nil}]]  BY DEF Types, TypeOK
<1>n. /\ \A q \in Nodes : q \in Nat /\ (q = HeadNode \/ q \in Keys)
      /\ \A j \in Keys : j \in Nat /\ j \in Nodes /\ j # HeadNode
      /\ Nil \notin Keys
      BY NodeFacts
<1>m. Mem \in [Levels -> SUBSET Keys]  BY DEF Mem
<1>1. Follows(p, l, k)  BY DEF Links
<1>2. p < k /\ k \in Mem[l] /\ \A j \in Keys : j \in Mem[l] /\ j < k => j <= p
      BY <1>1, <1>n DEF Follows, In
<1>3. Follows(k, l, z) /\ z \in Keys \cup {Nil}
      BY <1>2, <1>n, <1>t DEF Links, Starts, In
<1>4. /\ next'[p][l] = z
      /\ \A q \in Nodes, m \in Levels : (m # l \/ q # p) => next'[q][m] = next[q][m]
      BY <1>t
<1>5. /\ Mem'[l] = Mem[l] \ {k}
      /\ \A m \in Levels : m # l => Mem'[m] = Mem[m]
      BY <1>m
<1>6. ASSUME NEW q \in Nodes, Starts(q, l), q # p PROVE next[q][l] # k
  <2> SUFFICES ASSUME next[q][l] = k PROVE FALSE  OBVIOUS
  <2>1. Follows(q, l, k)  BY <1>6 DEF Links
  <2>2. q < k /\ \A j \in Keys : j \in Mem[l] /\ j < k => j <= q
        BY <1>n, <2>1 DEF Follows, In
  <2>3. q <= p
    <3>1. CASE q = HeadNode  BY <1>n, <3>1 DEF HeadNode
    <3>2. CASE q \in Mem[l]  BY <1>2, <1>m, <2>2, <3>2
    <3> QED BY <1>6, <3>1, <3>2 DEF Starts, In
  <2>4. p <= q
    <3>1. CASE p = HeadNode  BY <1>n, <3>1 DEF HeadNode
    <3>2. CASE p \in Mem[l]  BY <1>2, <1>m, <2>2, <3>2
    <3> QED BY <3>1, <3>2 DEF Starts, In
  <2> QED BY <1>6, <1>n, <2>3, <2>4
<1>7. ASSUME NEW q \in Nodes, NEW m \in Levels, Starts(q, m)'
      PROVE  Follows(q, m, next[q][m])'
  <2>1. Starts(q, m)  BY <1>5, <1>7 DEF Starts, In
  <2>2. Follows(q, m, next[q][m])  BY <2>1 DEF Links
  <2>3. CASE m # l
        BY <1>4, <1>5, <2>2, <2>3 DEF Follows, In
  <2>4. CASE m = l /\ q = p
    <3>1. CASE z = Nil
      <4>1. \A j \in Keys : j \in Mem[l] => j <= k  BY <1>3, <1>m, <1>n, <3>1 DEF Follows, In
      <4>2. \A j \in Keys : j \in Mem[l] \ {k} => j <= p  BY <1>2, <1>n, <4>1
      <4> QED BY <1>4, <1>5, <2>4, <3>1, <4>2 DEF Follows, In
    <3>2. CASE z # Nil
      <4>1. z \in Mem[l] /\ k < z /\ \A j \in Keys : j \in Mem[l] /\ j < z => j <= k
            BY <1>3, <3>2 DEF Follows, In
      <4>2. z \in Mem[l] \ {k} /\ p < z  BY <1>2, <1>3, <1>m, <1>n, <4>1
      <4>3. \A j \in Keys : j \in Mem[l] \ {k} /\ j < z => j <= p  BY <1>2, <1>n, <4>1
      <4> QED BY <1>4, <1>5, <2>4, <4>2, <4>3 DEF Follows, In
    <3> QED BY <3>1, <3>2
  <2>5. CASE m = l /\ q # p
    <3>1. next'[q][m] = next[q][l] /\ next[q][l] # k
          BY <1>4, <1>6, <2>1, <2>5
    <3> QED BY <1>5, <2>2, <2>5, <3>1 DEF Follows, In
  <2> QED BY <2>3, <2>4, <2>5
<1>8. ASSUME NEW q \in Nodes, NEW m \in Levels
      PROVE  /\ next'[q][m] = Nil \/ next'[q][m] \in Mem'[m]
             /\ next'[q][m] = Nil \/ q = HeadNode \/ q \in Mem'[m] \/ q = k
  <2>1. /\ next[q][m] = Nil \/ next[q][m] \in Mem[m]
        /\ next[q][m] = Nil \/ q = HeadNode \/ q \in Mem[m] \/ q = k
        BY DEF Links, Starts, In
  <2>2. CASE m # l  BY <1>4, <1>5, <2>1, <2>2
  <2>3. CASE m = l /\ q = p
    <3>1. z = Nil \/ (z \in Mem[l] /\ z # k)  BY <1>3, <1>n DEF Follows, In
    <3>2. p = HeadNode \/ p \in Mem[l]  BY DEF Starts, In
    <3> QED BY <1>2, <1>4, <1>5, <1>n, <2>3, <3>1, <3>2
  <2>4. CASE m = l /\ q # p
    <3>1. next[q][l] # k
      <4>1. CASE Starts(q, l)  BY <1>6, <2>4, <4>1
      <4>2. CASE ~Starts(q, l)
        <5>1. q # k  BY <1>2, <4>2 DEF Starts, In
        <5>2. next[q][l] = Nil  BY <2>1, <2>4, <4>2, <5>1 DEF Starts, In
        <5> QED BY <1>n, <5>2
      <4> QED BY <4>1, <4>2
    <3> QED BY <1>4, <1>5, <2>1, <2>4, <3>1
  <2> QED BY <2>2, <2>3, <2>4
<1> QED BY <1>7, <1>8 DEF Links, Starts, In

LEMMA DelUnlinkKeeps ==
    ASSUME IInv, Types', NEW t \in Threads, DelUnlink(t)
    PROVE  Shape' /\ Cursor(t)' /\ Mem' = [Mem EXCEPT ![i[t]] = @ \ {req[t].key}]
<1> DEFINE k == req[t].key
           l == i[t]
           p == update[t][l]
<1>0. /\ pc[t] = "unlink" /\ UNCHANGED <<lock, req, closing>>
      /\ UNCHANGED <<nlev, val, level, count, x, update>>
      BY DEF DelUnlink
<1>1. /\ writer = t /\ writer' = t /\ WPc = "unlink" /\ WPc' = pc'[t] /\ req'[t] = req[t]
      /\ closing.pc = "open" /\ closing' = closing
      /\ k \in Keys /\ TypeOK /\ Shape /\ Cursor(t)
      BY <1>0, WriterStep DEF Splicing
<1>x. x[t] = k /\ x'[t] = k /\ nlev[k] > 0 /\ nlev[k] \in Nat
      BY <1>0, <1>1, NodeFacts DEF Cursor, Allocated, TypeOK
<1>2. /\ l = level => pc'[t] = "shrink" /\ i'[t] = l
      /\ l # level => pc'[t] = "unlink" /\ i'[t] = l + 1
      /\ next' = IF next[p][l] = k THEN [next EXCEPT ![p][l] = next[k][l]] ELSE next
      BY <1>0, <1>1, <1>x DEF DelUnlink, Goto, TypeOK
<1>3. /\ l \in Nat /\ l >= 1 /\ l <= level /\ l \in Levels /\ level \in Nat /\ level <= MaxLevel
      /\ \A m \in l .. level : Before(update[t][m], m, k)
  <2>1. l \in 1 .. level /\ \A m \in l .. level : Before(update[t][m], m, k)
        BY <1>0, <1>1 DEF Cursor
  <2>2. level \in Nat /\ level <= MaxLevel  BY <1>1, NodeFacts DEF TypeOK
  <2>3. l \in Nat /\ l >= 1 /\ l <= level  BY <2>1, <2>2
  <2> QED BY <2>1, <2>2, <2>3, NodeFacts
<1>4. Before(p, l, k) /\ Starts(p, l) /\ p \in Nodes
  <2>1. l \in l .. level  BY <1>3
  <2> QED BY <1>3, <2>1, MemFacts DEF Before
<1>5. \A j \in Keys, m \in Levels : Hidden(j, m) <=> j = k /\ m < l
      BY <1>1, <1>x DEF Hidden
<1>h. nlev[k] <= level
  <2>1. Leaving = {}  BY <1>1 DEF Leaving
  <2> QED BY <1>1, <2>1 DEF Shape, Heights
<1>6. \A j \in Keys, m \in Levels : nlev[j] >= m => (Hidden(j, m)' <=> j = k /\ m <= l)
  <2>1. CASE l = level
    <3>1. \A j \in Keys, m \in Levels : Hidden(j, m)' <=> j = k
          BY <1>1, <1>2, <1>x, <2>1 DEF Hidden
    <3>2. \A m \in Levels : nlev[k] >= m => m <= l  BY <1>3, <1>h, <1>x, <2>1, NodeFacts
    <3> QED BY <3>1, <3>2
  <2>2. CASE l # level
    <3>1. \A j \in Keys, m \in Levels : Hidden(j, m)' <=> j = k /\ m < l + 1
          BY <1>1, <1>2, <1>x, <2>2 DEF Hidden
    <3>2. \A m \in Levels : m < l + 1 <=> m <= l  BY <1>3, NodeFacts
    <3> QED BY <3>1, <3>2
  <2> QED BY <2>1, <2>2
<1>7. Mem' = [Mem EXCEPT ![l] = @ \ {k}]
  <2>2. Mem' = [m \in Levels |-> {j \in Keys : nlev[j] >= m /\ ~Hidden(j, m)'}]
        BY <1>0 DEF Mem
  <2>3. ASSUME NEW m \in Levels
        PROVE  {j \in Keys : nlev[j] >= m /\ ~Hidden(j, m)'} =
                  IF m = l THEN Mem[l] \ {k} ELSE Mem[m]
    <3>0. m \in Nat /\ (m < l <=> m <= l /\ m # l)  BY <1>3, NodeFacts
    <3>1. Mem[m] = {j \in Keys : nlev[j] >= m /\ ~(j = k /\ m < l)}
          BY <1>5 DEF Mem
    <3>2. {j \in Keys : nlev[j] >= m /\ ~Hidden(j, m)'} = {j \in Keys : nlev[j] >= m /\ ~(j = k /\ m <= l)}
          BY <1>6
    <3>3. CASE m = l
      <4>1. Mem[l] = {j \in Keys : nlev[j] >= l}  BY <1>3, <3>1, <3>3
      <4>2. {j \in Keys : nlev[j] >= m /\ ~(j = k /\ m <= l)} = {j \in Keys : nlev[j] >= l /\ j # k}
            BY <1>3, <3>3
      <4> QED BY <1>1, <1>3, <3>2, <3>3, <4>1, <4>2
    <3>4. CASE m # l  BY <3>0, <3>1, <3>2, <3>4
    <3> QED BY <3>3, <3>4
  <2>4. Mem' = [m \in Levels |-> IF m = l THEN Mem[l] \ {k} ELSE Mem[m]]
        BY <2>2, <2>3
  <2>5. Mem \in [Levels -> SUBSET Keys]  BY DEF Mem
  <2> QED BY <2>4, <2>5
<1>8. /\ Dropped \subseteq {k} /\ Dropped' = {k}
      /\ Leaving = {} /\ Leaving' = {} /\ Unset = {} /\ Unset' = {}
  <2>1. pc'[t] \in {"unlink", "shrink"} /\ (pc'[t] = "unlink" => i'[t] > 1)  BY <1>2, <1>3
  <2>2. Dropped' = {k}  BY <1>1, <1>x, <2>1 DEF Dropped
  <2> QED BY <1>1, <1>x, <2>1, <2>2 DEF Dropped, Leaving, Unset
<1>f. Follows(p, l, next[p][l])  BY <1>1, <1>3, <1>4 DEF Shape, Links
<1>9. Links'
  <2>1. CASE next[p][l] = k
    <3>1. next' = [next EXCEPT ![p][l] = next[k][l]]  BY <1>2, <2>1
    <3> QED BY <1>1, <1>3, <1>4, <1>7, <1>8, <2>1, <3>1, SpliceOut DEF Shape, IInv
  <2>2. CASE next[p][l] # k
    <3>1. k \notin Mem[l]  BY <1>1, <1>3, <1>4, <1>f, <2>2, PointsAt DEF In
    <3>2. Mem \in [Levels -> SUBSET Keys]  BY DEF Mem
    <3>3. Mem' = Mem /\ next' = next  BY <1>2, <1>7, <2>2, <3>1, <3>2
    <3> QED BY <1>1, <1>8, <3>3 DEF Shape, Links, Starts, Follows, In
  <2> QED BY <2>1, <2>2
<1>10. Heights'  BY <1>0, <1>1, <1>8 DEF Shape, Heights
<1>11. Filled'
  <2>1. Mem \in [Levels -> SUBSET Keys] /\ 1 \in Levels  BY NodeFacts DEF Mem
  <2>2. count = Cardinality(Mem[1]) + Behind  BY <1>1 DEF Shape, Filled
  <2>3. Behind' = 1
        BY <1>1, <1>2, <1>3 DEF Behind
  <2>4. CASE l = 1
    <3>1. Behind = 0  BY <1>1, <2>4 DEF Behind
    <3>2. Mem'[1] = Mem[1] \ {k}  BY <1>7, <2>1, <2>4
    <3>3. k \in Mem[1]
      <4>1. nlev[k] >= 1 /\ ~Hidden(k, 1)  BY <1>1, <1>5, <1>x, <2>1, <2>4
      <4> QED BY <1>1, <2>1, <4>1, MemFacts
    <3>4. Cardinality(Mem'[1]) = Cardinality(Mem[1]) - 1
          BY <3>2, <3>3, BottomIsFinite, FS_RemoveElement
    <3>5. count' = Cardinality(Mem'[1]) + Behind'
          BY <1>0, <2>2, <2>3, <3>1, <3>4, BottomIsFinite
    <3> QED BY <1>0, <1>1, <1>8, <3>5 DEF Shape, Filled
  <2>5. CASE l # 1
    <3>1. Behind = 1
      <4>1. i[writer] > 1  BY <1>1, <1>3, <2>5
      <4> QED BY <1>1, <4>1 DEF Behind
    <3>2. Mem'[1] = Mem[1]  BY <1>7, <2>1, <2>5
    <3> QED BY <1>0, <1>1, <1>8, <2>2, <2>3, <3>1, <3>2 DEF Shape, Filled
  <2> QED BY <2>4, <2>5
<1>12. Cursor(t)'
  <2>1. (x[t] = Nil \/ Allocated(x[t]))' /\ (x[t] = req[t].key)'
        BY <1>0, <1>1, <1>x DEF Cursor, Allocated
  <2>3. CASE l = level
        BY <1>2, <2>1, <2>3 DEF Cursor, Busy
  <2>4. CASE l # level
    <3>1. (i[t] \in 1 .. level)'
      <4>1. l + 1 \in 1 .. level  BY <1>3, <2>4
      <4> QED BY <1>0, <1>2, <2>4, <4>1
    <3>2. ASSUME NEW m \in l + 1 .. level
          PROVE  (Before(update[t][m], m, req[t].key))'
      <4>1. m \in l .. level /\ m # l /\ m \in Levels  BY <1>3, NodeFacts
      <4>2. Before(update[t][m], m, k)  BY <1>3, <4>1
      <4>3. update[t][m] \in Nodes  BY <4>1, <4>2, MemFacts DEF Before
      <4>4. next'[update[t][m]][m] = next[update[t][m]][m]
        <5>1. next \in [Nodes -> [Levels -> Keys \cup {Nil}]] /\ k \in Nodes  BY <1>1, NodeFacts DEF TypeOK
        <5> QED BY <1>2, <1>3, <1>4, <4>1, <4>3, <5>1
      <4>5. Mem \in [Levels -> SUBSET Keys]  BY DEF Mem
      <4>6. Mem'[m] = Mem[m]  BY <1>7, <4>1, <4>5
      <4> QED BY <1>0, <1>1, <4>2, <4>4, <4>6 DEF Before, Starts, In
    <3>3. (\A m \in i[t] .. level : Before(update[t][m], m, req[t].key))'
          BY <1>0, <1>2, <2>4, <3>2
    <3> QED BY <1>2, <2>1, <2>4, <3>1, <3>3 DEF Cursor, Busy
  <2> QED BY <2>3, <2>4
<1> QED BY <1>7, <1>9, <1>10, <1>11, <1>12 DEF Shape

LEMMA DelShrinkKeeps ==
    ASSUME IInv, Types', NEW t \in Threads, DelShrink(t)
    PROVE  Shape' /\ Cursor(t)' /\ Mem' = Mem
<1> DEFINE k == req[t].key
<1>0. /\ pc[t] = "shrink" /\ UNCHANGED <<lock, req, closing>>
      /\ UNCHANGED <<next, nlev, val, count, x, i, update>>
      BY DEF DelShrink, locals
<1>1. /\ writer = t /\ writer' = t /\ WPc = "shrink" /\ WPc' = pc'[t] /\ req'[t] = req[t]
      /\ closing.pc = "open" /\ closing' = closing
      /\ k \in Keys /\ TypeOK /\ Shape /\ Cursor(t)
      BY <1>0, WriterStep DEF Splicing
<1>2. pc'[t] = "free" /\ x[t] = k
      BY <1>0, <1>1 DEF DelShrink, Goto, TypeOK, Cursor
<1>3. PICK lvl \in 1 .. level : ShrinksTo(lvl) /\ level' = lvl  BY DEF DelShrink
<1>4. /\ Mem' = Mem /\ Dropped' = Dropped /\ Unset' = Unset /\ Behind' = Behind
      /\ Leaving = {} /\ Leaving' = {k}
  <2>1. \A j \in Keys, l \in Levels : Hidden(j, l)' <=> Hidden(j, l)
        BY <1>0, <1>1, <1>2 DEF Hidden
  <2>2. Mem' = Mem  BY <1>0, <2>1 DEF Mem
  <2> QED BY <1>0, <1>1, <1>2, <2>2 DEF Dropped, Leaving, Unset, Behind
<1>5. Links'  BY <1>0, <1>1, <1>4 DEF Shape, Links, Starts, Follows, In
<1>6. Heights'
  <2>0. /\ level \in Nat /\ lvl \in Nat /\ lvl >= 1 /\ lvl <= level /\ lvl \in Levels /\ level <= MaxLevel
        /\ \A j \in Keys : nlev[j] \in Nat /\ nlev[j] <= level
    <3>1. level \in Nat /\ level <= MaxLevel /\ \A j \in Keys : nlev[j] \in Nat
          BY <1>1, NodeFacts DEF TypeOK
    <3>2. lvl \in Nat /\ lvl >= 1 /\ lvl <= level  BY <1>3, <3>1
    <3>3. \A j \in Keys : nlev[j] <= level  BY <1>1, <1>4 DEF Shape, Heights
    <3> QED BY <3>1, <3>2, <3>3, NodeFacts
  <2>1. \A j \in Keys, l \in Levels : nlev[j] >= l /\ j # k => j \in Mem[l]
        BY <1>1, <1>2, MemFacts DEF Hidden
  <2>2. ASSUME NEW j \in Keys, j # k PROVE nlev[j] <= lvl
    <3> SUFFICES ASSUME nlev[j] > lvl PROVE FALSE  BY <2>0
    <3>1. nlev[j] \in lvl + 1 .. level /\ nlev[j] \in Levels  BY <2>0, NodeFacts
    <3>2. next[HeadNode][nlev[j]] = Nil  BY <1>3, <3>1 DEF ShrinksTo
    <3>3. HeadNode \in Nodes /\ Starts(HeadNode, nlev[j])  BY <1>1, NodeFacts DEF Starts
    <3>4. Follows(HeadNode, nlev[j], Nil)  BY <1>1, <3>1, <3>2, <3>3 DEF Shape, Links
    <3>5. In(j, nlev[j]) /\ ~In(Nil, nlev[j])
          BY <2>0, <2>1, <2>2, <3>1, MemFacts, NodeFacts DEF In
    <3>6. j <= HeadNode  BY <3>4, <3>5 DEF Follows
    <3> QED BY <3>6, NodeFacts
  <2>3. lvl = 1 \/ \E j \in Keys : nlev[j] = lvl /\ j # k
    <3> SUFFICES ASSUME lvl # 1 PROVE \E j \in Keys : nlev[j] = lvl /\ j # k  OBVIOUS
    <3>1. next[HeadNode][lvl] # Nil  BY <1>3, <2>0 DEF ShrinksTo
    <3>2. In(next[HeadNode][lvl], lvl)  BY <1>1, <2>0, <3>1, NodeFacts DEF Shape, Links
    <3> DEFINE j == next[HeadNode][lvl]
    <3>3. j \in Keys /\ nlev[j] >= lvl /\ ~Hidden(j, lvl)  BY <2>0, <3>2, MemFacts DEF In
    <3>4. j # k  BY <1>1, <1>2, <3>3 DEF Hidden
    <3>5. nlev[j] = lvl  BY <2>0, <2>2, <3>3, <3>4
    <3> QED BY <3>3, <3>4, <3>5
  <2> QED BY <1>0, <1>1, <1>3, <1>4, <2>2, <2>3 DEF Heights
<1>7. Filled'  BY <1>0, <1>1, <1>4 DEF Shape, Filled
<1>8. Cursor(t)'
      BY <1>0, <1>1, <1>2 DEF Cursor, Busy, Allocated
<1> QED BY <1>4, <1>5, <1>6, <1>7, <1>8 DEF Shape

LEMMA DelFreeKeeps ==
    ASSUME IInv, Types', NEW t \in Threads, DelFree(t)
    PROVE  Shape' /\ Cursor(t)' /\ Mem' = Mem
<1> DEFINE k == req[t].key
<1>0. /\ pc[t] = "free" /\ UNCHANGED <<lock, req, closing, level, count, i, update>>
      BY DEF DelFree
<1>1. /\ writer = t /\ writer' = t /\ WPc = "free" /\ WPc' = pc'[t] /\ req'[t] = req[t]
      /\ closing.pc = "open" /\ closing' = closing
      /\ k \in Keys /\ TypeOK /\ Shape /\ Cursor(t)
      BY <1>0, WriterStep DEF Splicing
<1>2. /\ pc'[t] = "discounted" /\ x[t] = k /\ x'[t] = Nil
      /\ nlev' = [nlev EXCEPT ![k] = 0]
      /\ val' = [val EXCEPT ![k] = Missing]
      /\ next' = [next EXCEPT ![k] = [l \in Levels |-> Nil]]
      BY <1>0, <1>1 DEF DelFree, FreeNode, Goto, TypeOK, Cursor
<1>3. \A l \in Levels : k \notin Mem[l]
      BY <1>1, <1>2, MemFacts DEF Hidden
<1>4. /\ Mem' = Mem /\ Dropped' = {} /\ Unset = {} /\ Unset' = {} /\ Behind' = Behind
      /\ Leaving = {k} /\ Leaving' = {} /\ Dropped = {k}
  <2>1. \A j \in Keys, l \in Levels : ~Hidden(j, l)' /\ (Hidden(j, l) <=> j = k)
        BY <1>1, <1>2 DEF Hidden
  <2>2. Mem' = [l \in Levels |-> {j \in Keys : nlev'[j] >= l}]  BY <2>1 DEF Mem
  <2>3. ASSUME NEW l \in Levels
        PROVE  {j \in Keys : nlev'[j] >= l} = {j \in Keys : nlev[j] >= l /\ ~Hidden(j, l)}
        BY <1>1, <1>2, <2>1, NodeFacts DEF TypeOK
  <2>4. Mem' = Mem  BY <2>2, <2>3 DEF Mem
  <2> QED BY <1>0, <1>1, <1>2, <2>4 DEF Dropped, Leaving, Unset, Behind
<1>5. /\ \A p \in Nodes, l \in Levels : p # k => next'[p][l] = next[p][l]
      /\ \A l \in Levels : next'[k][l] = Nil
      /\ k \in Nodes /\ k # HeadNode
      BY <1>1, <1>2, NodeFacts DEF TypeOK
<1>6. Links'
  <2>1. ASSUME NEW p \in Nodes, NEW l \in Levels, Starts(p, l)'
        PROVE  Follows(p, l, next[p][l])'
    <3>1. Starts(p, l) /\ p # k  BY <1>1, <1>3, <1>4, <1>5, <2>1 DEF Starts, In
    <3>2. Follows(p, l, next[p][l])  BY <1>1, <3>1 DEF Shape, Links
    <3> QED BY <1>4, <1>5, <3>1, <3>2 DEF Follows, In
  <2>2. ASSUME NEW p \in Nodes, NEW l \in Levels
        PROVE  /\ next'[p][l] = Nil \/ next'[p][l] \in Mem[l]
               /\ next'[p][l] = Nil \/ p = HeadNode \/ p \in Mem[l]
    <3>1. /\ next[p][l] = Nil \/ next[p][l] \in Mem[l]
          /\ next[p][l] = Nil \/ p = HeadNode \/ p \in Mem[l] \/ p = k
          BY <1>1, <1>4 DEF Shape, Links, Starts, In
    <3> QED BY <1>5, <3>1
  <2> QED BY <1>1, <1>4, <2>1, <2>2 DEF Links, Starts, In
<1>7. Heights'
  <2>1. \A j \in Keys : nlev'[j] = IF j = k THEN 0 ELSE nlev[j]  BY <1>1, <1>2 DEF TypeOK
  <2>2. level \in Nat  BY <1>1, NodeFacts DEF TypeOK
  <2>3. \A j \in Keys : nlev'[j] <= level  BY <1>1, <1>4, <2>1, <2>2 DEF Shape, Heights
  <2>4. level = 1 \/ \E j \in Keys : nlev'[j] = level
        BY <1>1, <1>4, <2>1 DEF Shape, Heights
  <2> QED BY <1>0, <1>1, <1>4, <2>3, <2>4 DEF Heights
<1>8. Filled'
  <2>1. \A j \in Keys : nlev'[j] > 0 => j # k /\ nlev[j] > 0 /\ val'[j] = val[j]
        BY <1>1, <1>2 DEF TypeOK
  <2> QED BY <1>0, <1>1, <1>4, <2>1 DEF Shape, Filled
<1>9. Cursor(t)'  BY <1>2 DEF Cursor, Busy
<1> QED BY <1>4, <1>6, <1>7, <1>8, <1>9 DEF Shape

-----------------------------------------------------------------------------
(* sl_close                                                                  *)

LEMMA NobodyInside ==
    ASSUME IInv, \A t \in Threads : pc[t] = "idle"
    PROVE  /\ writer = NoOne /\ WPc = "none"
           /\ Mem = [l \in Levels |-> {k \in Keys : nlev[k] >= l}]
           /\ Dropped = {} /\ Leaving = {} /\ Unset = {} /\ Behind = 0
<1>1. writer = NoOne  BY DEF IInv, Locks, Busy, Types, TypeOK
<1>2. WPc = "none"  BY <1>1 DEF WPc
<1> QED BY <1>1, <1>2, NothingHidden DEF Splicing

LEMMA CloseKeeps ==
    ASSUME IInv, CloseStep
    PROVE  IInv'
<1>t. /\ TypeOK /\ Shape /\ Closing /\ Locks /\ Calls /\ (\A t \in Threads : Cursor(t))
      /\ closing \in [pc : {"open", "walk", "closed"}, x : Keys \cup {Nil}]
      BY DEF IInv, Types
<1>1. /\ \A t \in Threads : pc[t] = "idle" /\ left[t] = 0
      /\ UNCHANGED <<lock, level, count, pc, req, left, x, i, update>>
      BY <1>t DEF CloseStep, CloseStart, CloseFree, CloseEnd, Closing, list, locals
<1>2. /\ Mem = [l \in Levels |-> {k \in Keys : nlev[k] >= l}]
      /\ Dropped = {} /\ Leaving = {} /\ Unset = {} /\ Behind = 0 /\ writer = NoOne
      BY <1>1, NobodyInside
<1>3. Dropped' = {} /\ Leaving' = {} /\ Unset' = {} /\ Behind' = 0
      /\ Mem' = [l \in Levels |-> {k \in Keys : nlev'[k] >= l}]
  <2>1. WPc' = "none"  BY <1>1, <1>2 DEF WPc, lock
  <2>2. \A k \in Keys, l \in Levels : ~Hidden(k, l)'  BY <2>1 DEF Hidden
  <2>3. Mem' = [l \in Levels |-> {k \in Keys : nlev'[k] >= l}]  BY <2>2 DEF Mem
  <2> QED BY <2>1, <2>3 DEF Dropped, Leaving, Unset, Behind
<1>4. Locks' /\ Calls'
      BY <1>t, <1>1 DEF Locks, Calls, Busy, Writes, lock
<1>5. \A t \in Threads : Cursor(t)'
      BY <1>t, <1>1 DEF Cursor, Busy, Allocated
<1>n. next \in [Nodes -> [Levels -> Keys \cup {Nil}]] /\ HeadNode \in Nodes /\ 1 \in Levels
      BY <1>t, NodeFacts DEF TypeOK
<1>6. CASE CloseStart
  <2>1. UNCHANGED <<next, nlev, val>> /\ closing.pc = "open"
        /\ closing' = [pc |-> "walk", x |-> next[HeadNode][1]]
        BY <1>6 DEF CloseStart, CloseFrom, list
  <2>2. Mem' = Mem  BY <1>2, <1>3, <2>1
  <2>3. Types'
        BY <1>t, <1>1, <1>n, <2>1 DEF Types, TypeOK, lock
  <2>4. Shape'
    <3>1. Links'  BY <1>t, <2>1, <2>2 DEF Shape, Links, Starts, Follows, In
    <3>2. Heights' /\ Filled'
          BY <1>t, <1>1, <1>2, <1>3, <2>1, <2>2 DEF Shape, Heights, Filled
    <3> QED BY <3>1, <3>2 DEF Shape
  <2>5. First(next[HeadNode][1], 1)
    <3>1. Starts(HeadNode, 1)  BY <2>1 DEF Starts
    <3>2. Follows(HeadNode, 1, next[HeadNode][1])  BY <1>t, <1>n, <3>1 DEF Shape, Links
    <3>3. next[HeadNode][1] \in Keys \cup {Nil}  BY <1>n
    <3>4. next[HeadNode][1] = Nil \/ next[HeadNode][1] >= 1  BY <3>3, NodeFacts
    <3> QED BY <1>n, <3>2, <3>3, <3>4, NextIsFirst
  <2>6. Closing'
        BY <1>1, <2>1, <2>2, <2>5 DEF Closing, First, In
  <2> QED BY <1>4, <1>5, <2>3, <2>4, <2>6 DEF IInv
<1>7. CASE CloseFree
  <2> DEFINE y == closing.x
             z == next[y][1]
  <2>1. /\ closing.pc = "walk" /\ y # Nil /\ y \in Keys /\ y \in Nodes
        /\ closing' = [closing EXCEPT !.x = z]
        /\ nlev' = [nlev EXCEPT ![y] = 0]
        /\ val' = [val EXCEPT ![y] = Missing]
        /\ next' = [next EXCEPT ![y] = [l \in Levels |-> Nil]]
        BY <1>7, <1>t, NodeFacts DEF CloseFree, FreeNode
  <2>2. closing'.pc = "walk" /\ closing'.x = z /\ z \in Keys \cup {Nil}
        BY <1>t, <1>n, <2>1
  <2>3. Types'
    <3>1. next' \in [Nodes -> [Levels -> Keys \cup {Nil}]]  BY <1>n, <2>1
    <3>2. nlev' \in [Keys -> 0 .. MaxLevel] /\ val' \in [Keys -> Values \cup {Missing}]
          BY <1>t, <2>1, NodeFacts DEF TypeOK
    <3>3. closing' \in [pc : {"open", "walk", "closed"}, x : Keys \cup {Nil}]
          BY <1>t, <2>1, <2>2
    <3> QED BY <1>t, <1>1, <3>1, <3>2, <3>3 DEF Types, TypeOK, lock
  <2>4. \A l \in Levels : Mem'[l] = Mem[l] \ {y}
    <3>1. ASSUME NEW l \in Levels
          PROVE  {k \in Keys : nlev'[k] >= l} = {k \in Keys : nlev[k] >= l} \ {y}
          BY <1>t, <2>1, NodeFacts DEF TypeOK
    <3> QED BY <1>2, <1>3, <3>1
  <2>5. /\ y \in Mem[1] /\ \A k \in Keys : k \in Mem[1] => k >= y
    <3>1. First(y, 1)  BY <1>t, <2>1 DEF Closing
    <3> QED BY <2>1, <3>1, NodeFacts DEF First, In
  <2>6. \A k \in Keys, l \in Levels : k \in Mem[l] => k >= y
        BY <1>2, <1>t, <2>5, NodeFacts DEF TypeOK
  <2>7. Links'
    <3> SUFFICES ASSUME NEW p \in Nodes, NEW l \in Levels, Starts(p, l)'
                 PROVE  Follows(p, l, next[p][l])'
        BY <2>2 DEF Links
    <3>1. p \in Mem[l] /\ p # y /\ p \in Keys  BY <2>2, <2>4, MemFacts DEF Starts, In
    <3>2. next'[p][l] = next[p][l]  BY <1>n, <2>1, <3>1
    <3>3. Follows(p, l, next[p][l])  BY <1>t, <3>1 DEF Shape, Links, Starts, In
    <3>4. p > y  BY <2>1, <2>6, <3>1, NodeFacts
    <3>5. next[p][l] = Nil \/ (next[p][l] \in Keys /\ next[p][l] > p)
          BY <1>n, <3>3, NodeFacts DEF Follows
    <3>6. next[p][l] # y  BY <2>1, <3>1, <3>4, <3>5, NodeFacts
    <3> QED BY <2>4, <3>2, <3>3, <3>6 DEF Follows, In
  <2>8. Heights' /\ Filled'
    <3>1. \A k \in Keys : nlev'[k] = IF k = y THEN 0 ELSE nlev[k]  BY <1>t, <2>1 DEF TypeOK
    <3>2. \A k \in Keys : nlev[k] <= level  BY <1>t, <1>2 DEF Shape, Heights
    <3>3. level \in Nat  BY <1>t, NodeFacts DEF TypeOK
    <3>4. \A k \in Keys : nlev'[k] <= level  BY <3>1, <3>2, <3>3
    <3>5. \A k \in Keys : nlev'[k] > 0 => nlev[k] > 0 /\ val'[k] = val[k]
          BY <1>t, <2>1, <3>1 DEF TypeOK
    <3>6. Heights'  BY <1>1, <2>2, <3>4 DEF Heights
    <3>7. Filled'  BY <1>t, <1>2, <2>2, <3>5 DEF Shape, Filled
    <3> QED BY <3>6, <3>7
  <2>9. (First(closing.x, 1))'
    <3>1. Follows(y, 1, z)  BY <1>t, <1>n, <2>1, <2>5 DEF Shape, Links, Starts, In
    <3>2. CASE z = Nil
      <4>1. \A k \in Keys : k \in Mem[1] => k <= y
            BY <3>1, <3>2, MemFacts, NodeFacts DEF Follows, In
      <4>2. \A k \in Keys : k \notin Mem[1] \ {y}  BY <2>5, <4>1, <2>1, NodeFacts
      <4>3. \A k \in Keys : k \notin Mem'[1]  BY <1>n, <2>4, <4>2
      <4> QED BY <2>2, <3>2, <4>3 DEF First, In
    <3>3. CASE z # Nil
      <4>1. z \in Mem[1] /\ z > y /\ \A k \in Keys : k \in Mem[1] /\ k < z => k <= y
            BY <2>1, <2>2, <3>1, <3>3, NodeFacts DEF Follows, In
      <4>2. z \in Mem[1] \ {y} /\ \A k \in Keys : k \in Mem[1] \ {y} => k >= z
            BY <2>1, <2>2, <2>5, <3>3, <4>1, NodeFacts
      <4>3. z \in Mem'[1] /\ (\A k \in Keys : k \in Mem'[1] => k >= z) /\ z >= 1
            BY <1>n, <2>2, <2>4, <3>3, <4>2, NodeFacts
      <4> QED BY <2>2, <4>3 DEF First, In
    <3> QED BY <3>2, <3>3
  <2>10. Closing'
        BY <1>1, <2>2, <2>9 DEF Closing, First, In
  <2> QED BY <1>4, <1>5, <2>3, <2>7, <2>8, <2>10 DEF IInv, Shape
<1>8. CASE CloseEnd
  <2>1. UNCHANGED <<next, nlev, val>> /\ closing.pc = "walk" /\ closing.x = Nil
        /\ closing' = [closing EXCEPT !.pc = "closed"]
        BY <1>8 DEF CloseEnd, list
  <2>2. Mem' = Mem /\ closing'.pc = "closed" /\ closing'.x = Nil
        BY <1>2, <1>3, <1>t, <2>1
  <2>3. Types'
        BY <1>t, <1>1, <1>n, <2>1, <2>2 DEF Types, TypeOK, lock
  <2>4. Shape'
    <3>1. Links'  BY <1>t, <2>1, <2>2 DEF Shape, Links, Starts, Follows, In
    <3>2. Heights' /\ Filled'
          BY <1>t, <1>1, <1>2, <1>3, <2>1, <2>2 DEF Shape, Heights, Filled
    <3> QED BY <3>1, <3>2 DEF Shape
  <2>5. \A k \in Keys : nlev[k] = 0
    <3>1. First(Nil, 1)  BY <1>t, <2>1 DEF Closing
    <3>2. \A k \in Keys : k \notin Mem[1]  BY <3>1, MemFacts, NodeFacts DEF First, In
    <3>3. \A k \in Keys : ~(nlev[k] >= 1)  BY <1>2, <1>n, <3>2
    <3> QED BY <1>t, <3>3, NodeFacts DEF TypeOK
  <2>6. Closing'
        BY <1>1, <2>1, <2>2, <2>5 DEF Closing
  <2> QED BY <1>4, <1>5, <2>3, <2>4, <2>6 DEF IInv
<1> QED BY <1>6, <1>7, <1>8 DEF CloseStep

-----------------------------------------------------------------------------
(* Every step keeps the invariant                                            *)

\* The steps that only look, and those that change the list.
Calm(t) ==
    \/ Invoke(t) \/ Return(t) \/ WrLock(t) \/ RdLock(t) \/ Search(t) \/ Land(t) \/ GetRead(t)
    \/ DelMiss(t) \/ DelHit(t) \/ RangeRow(t) \/ RangeEnd(t) \/ Unlock(t)

Change(t) ==
    \/ PutFree(t) \/ PutOverwrite(t) \/ PutNode(t) \/ PutLink(t) \/ PutCount(t)
    \/ DelUnlink(t) \/ DelShrink(t) \/ DelFree(t) \/ DelCount(t)

LEMMA CalmOrChange ==
    ASSUME NEW t \in Threads
    PROVE  Step(t) <=> Calm(t) \/ Change(t)
BY DEF Step, Calm, Change

LEMMA CalmList ==
    ASSUME IInv, NEW t \in Threads, Calm(t)
    PROVE  UNCHANGED <<list, closing, Content>>
<1>t. TypeOK /\ Calls  BY DEF IInv, Types
<1>s. Step(t)  BY CalmOrChange
<1>1. /\ UNCHANGED <<list, closing>> /\ pc[t] \notin Splicing
      /\ pc'[t] \notin Splicing \/ (pc'[t] = "unlink" /\ i'[t] = 1)
  <2> USE <1>t DEF TypeOK, Goto, Answer, StartSearch, Splicing
  <2>1. CASE Land(t)
    <3>1. req[t].op \in {"put", "get", "del", "range"}
          BY <2>1, RequestFacts DEF Land, Calls
    <3> QED BY <2>1, <3>1 DEF Land
  <2>2. CASE Invoke(t) \/ Return(t) \/ WrLock(t) \/ RdLock(t) \/ Search(t) \/ GetRead(t)
        BY <2>2 DEF Invoke, Return, WrLock, RdLock, Search, GetRead
  <2>3. CASE DelHit(t)  BY <2>3 DEF DelHit
  <2>4. CASE DelMiss(t) \/ RangeRow(t) \/ RangeEnd(t) \/ Unlock(t)
        BY <2>4 DEF DelMiss, RangeRow, RangeEnd, Unlock
  <2> QED BY <2>1, <2>2, <2>3, <2>4 DEF Calm
<1>2. nlev' = nlev  BY <1>1 DEF list
<1>3. UNCHANGED Content  BY <1>s, <1>1, <1>2, CalmContent
<1> QED BY <1>1, <1>3

\* A writer in the middle of a change.
LEMMA ChangeAlone ==
    ASSUME IInv, NEW t \in Threads, Change(t)
    PROVE  /\ pc[t] \in Splicing \cup {"put", "del"} /\ UNCHANGED <<lock, req, closing>>
           /\ \A u \in Threads : u # t => ~Busy(u)
<1>1. pc[t] \in Splicing \cup {"put", "del"} /\ UNCHANGED <<lock, req, closing>>
  <2>1. CASE PutFree(t) \/ PutOverwrite(t) \/ PutNode(t) \/ PutLink(t) \/ PutCount(t)
        BY <2>1 DEF PutFree, PutOverwrite, PutNode, PutLink, PutCount, Splicing
  <2>2. CASE DelUnlink(t) \/ DelShrink(t) \/ DelFree(t) \/ DelCount(t)
        BY <2>2 DEF DelUnlink, DelShrink, DelFree, DelCount, Splicing
  <2> QED BY <2>1, <2>2 DEF Change
<1>2. \A u \in Threads : u # t => ~Busy(u)  BY <1>1, WriterStep
<1> QED BY <1>1, <1>2

LEMMA StepKeeps ==
    ASSUME IInv, NEW t \in Threads, Step(t)
    PROVE  IInv'
<1>t. Types' /\ Locks' /\ Calls'  BY TypesStep, LocksStep, CallsStep
<1>f. /\ \A u \in Threads : u # t =>
            /\ pc'[u] = pc[u] /\ req'[u] = req[u] /\ x'[u] = x[u]
            /\ i'[u] = i[u] /\ update'[u] = update[u] /\ left'[u] = left[u]
      /\ closing' = closing
      BY StepFrame DEF IInv
<1>o. closing.pc = "open"
  <2>1. SUFFICES ASSUME closing.pc # "open" PROVE FALSE  OBVIOUS
  <2>2. pc[t] = "idle" /\ left[t] = 0  BY <2>1 DEF IInv, Closing
  <2>3. CASE Invoke(t)  BY <2>2, <2>3 DEF Invoke
  <2>4. CASE Busy(t)  BY <2>2, <2>4 DEF Busy
  <2>5. CASE Return(t) \/ WrLock(t) \/ RdLock(t) \/ Unlock(t)
        BY <2>2, <2>5 DEF Return, WrLock, RdLock, Unlock
  <2> QED BY <2>3, <2>4, <2>5, StepKinds
<1>c. Closing'  BY <1>f, <1>o DEF IInv, Closing
<1>1. CASE Calm(t)
  <2>1. UNCHANGED <<list, closing, Content>>  BY <1>1, CalmList
  <2>2. UNCHANGED <<next, nlev, level, closing, Mem>>  BY <2>1 DEF list, Content
  <2>3. Shape'  BY <2>1, CalmShape DEF IInv
  <2>4. Cursor(t)'
        BY <1>1, <1>t, <2>1, SearchCursor, LandCursor, CalmCursor DEF Calm
  <2>5. \A u \in Threads : u # t => Cursor(u)'
        BY <1>f, <2>2, StillCursor DEF IInv
  <2> QED BY <1>t, <1>c, <2>3, <2>4, <2>5 DEF IInv
<1>2. CASE Change(t)
  <2>1. \A u \in Threads : u # t => ~Busy(u)  BY <1>2, ChangeAlone
  <2>2. \A u \in Threads : u # t => Cursor(u)'
        BY <1>f, <2>1, OutsideCursor DEF IInv
  <2>3. Shape' /\ Cursor(t)'
        BY <1>2, <1>t, PutFreeKeeps, PutOverwriteKeeps, PutNodeKeeps, PutLinkKeeps, CountKeeps,
           DelUnlinkKeeps, DelShrinkKeeps, DelFreeKeeps DEF Change
  <2> QED BY <1>t, <1>c, <2>2, <2>3 DEF IInv
<1> QED BY <1>1, <1>2, CalmOrChange

LEMMA InitHolds == Init => IInv
<1> SUFFICES ASSUME Init PROVE IInv  OBVIOUS
<1>1. Types
  <2>1. HeadNode \in Nodes /\ 1 \in Levels /\ 0 \in 0 .. MaxLevel /\ "idle" \in Pcs
        BY NodeFacts DEF Pcs
  <2>2. next \in [Nodes -> [Levels -> Keys \cup {Nil}]]  BY DEF Init
  <2>3. update \in [Threads -> [Levels -> Nodes \cup {Nil}]]  BY DEF Init
  <2>4. nlev \in [Keys -> 0 .. MaxLevel] /\ val \in [Keys -> Values \cup {Missing}]
        BY <2>1 DEF Init
  <2>5. left \in [Threads -> Nat]  BY BudgetAssumption DEF Init
  <2> QED BY <2>1, <2>2, <2>3, <2>4, <2>5 DEF Init, Types, TypeOK
<1>2. Locks /\ Calls  BY ThreadsAssumption DEF Init, Locks, Calls, Busy
<1>3. WPc = "none"  BY DEF Init, WPc
<1>4. /\ Mem = [l \in Levels |-> {k \in Keys : nlev[k] >= l}]
      /\ Dropped = {} /\ Leaving = {} /\ Unset = {} /\ Behind = 0
      BY <1>3, NothingHidden DEF Splicing
<1>5. \A l \in Levels : Mem[l] = {}  BY <1>4, NodeFacts DEF Init
<1>6. Shape
  <2>1. \A p \in Nodes, l \in Levels : next[p][l] = Nil  BY DEF Init
  <2>2. Links  BY <1>5, <2>1 DEF Links, Follows, In, Starts
  <2>3. Heights  BY NodeFacts DEF Heights, Init
  <2>4. Filled
    <3>1. Cardinality(Mem[1]) = 0  BY <1>5, NodeFacts, FS_EmptySet
    <3> QED BY <1>4, <3>1 DEF Filled, Init
  <2> QED BY <2>2, <2>3, <2>4 DEF Shape
<1>7. \A t \in Threads : Cursor(t)  BY DEF Init, Cursor, Busy, Allocated
<1>8. Closing  BY DEF Init, Closing
<1> QED BY <1>1, <1>2, <1>6, <1>7, <1>8 DEF IInv

LEMMA StutterKeeps ==
    ASSUME IInv, UNCHANGED vars
    PROVE  IInv'
<1>1. UNCHANGED <<next, nlev, val, level, count, readers, writer, pc, req, left, x, i,
                  update, closing>>
      BY DEF vars, list, lock, locals
<1>2. Types' /\ Locks' /\ Calls'
      BY <1>1 DEF IInv, Types, TypeOK, Locks, Calls, Busy, Writes
<1>3. UNCHANGED Content
  <2>1. WPc' = WPc  BY <1>1 DEF WPc
  <2>2. \A k \in Keys, l \in Levels : Hidden(k, l)' <=> Hidden(k, l)  BY <1>1, <2>1 DEF Hidden
  <2>3. Mem' = Mem  BY <1>1, <2>2 DEF Mem
  <2> QED BY <1>1, <2>1, <2>3 DEF Content, Dropped, Leaving, Unset, Behind
<1>4. Shape'  BY <1>1, <1>3, CalmShape DEF IInv, list
<1>5. \A t \in Threads : Cursor(t)'
      BY <1>1, <1>3, StillCursor DEF IInv, Content
<1>6. Closing'
      BY <1>1, <1>3 DEF IInv, Closing, First, In, Content
<1> QED BY <1>2, <1>4, <1>5, <1>6 DEF IInv

\* The list, in the middle of every splice, and every cursor that walks it: each
\* level links its nodes in key order, only the writer's own node is half in it,
\* and a thread inside the lock points at a node that is in it.
THEOREM ListInvariant == Spec => []IInv
<1>1. ASSUME IInv, [Next]_vars PROVE IInv'
  <2>1. CASE \E t \in Threads : Step(t)  BY <1>1, <2>1, StepKeeps
  <2>2. CASE CloseStep  BY <1>1, <2>2, CloseKeeps
  <2>3. CASE Closed \/ UNCHANGED vars  BY <1>1, <2>3, StutterKeeps DEF Closed
  <2> QED BY <1>1, <2>1, <2>2, <2>3 DEF Next
<1> QED BY InitHolds, <1>1, PTL DEF Spec

-----------------------------------------------------------------------------
(* What the invariant says of the list                                       *)

\* The node that follows is the successor of the specification.
LEMMA FollowsIsSuccessor ==
    ASSUME Types, NEW p \in Nodes, NEW l \in Levels, NEW k,
           Mem[l] = {j \in Keys : nlev[j] >= l}, Follows(p, l, k)
    PROVE  k = Successor(p, l)
<1> DEFINE after == {j \in Keys : nlev[j] >= l /\ j > p}
<1>1. Successor(p, l) = IF after = {} THEN Nil ELSE CHOOSE j \in after : \A m \in after : j <= m
      BY DEF Successor
<1>2. CASE k = Nil /\ \A j \in Keys : In(j, l) => j <= p
  <2>1. p \in Nat /\ \A j \in Keys : j \in Nat  BY NodeFacts
  <2>2. \A j \in Keys : nlev[j] >= l => j <= p  BY <1>2 DEF In
  <2>3. \A j \in Keys : ~(nlev[j] >= l /\ j > p)  BY <2>1, <2>2
  <2> QED BY <1>1, <1>2, <2>3
<1>3. CASE In(k, l) /\ p < k /\ \A j \in Keys : In(j, l) /\ j < k => j <= p
  <2>n. p \in Nat /\ \A j \in Keys : j \in Nat  BY NodeFacts
  <2>1. k \in after /\ k \in Nat  BY <1>3, <2>n DEF In
  <2>a. \A m \in after : m \in Nat /\ In(m, l) /\ ~(m <= p)
    <3> SUFFICES ASSUME NEW m \in after PROVE m \in Nat /\ In(m, l) /\ ~(m <= p)  OBVIOUS
    <3>1. m \in Keys /\ nlev[m] >= l /\ m > p  OBVIOUS
    <3>2. m \in Nat /\ ~(m <= p)  BY <3>1, <2>n
    <3> QED BY <3>1, <3>2 DEF In
  <2>b. \A m \in after : m \in Keys  OBVIOUS
  <2> HIDE DEF after
  <2>2. \A m \in after : k <= m
    <3> SUFFICES ASSUME NEW m \in after, ~(k <= m) PROVE FALSE  OBVIOUS
    <3>1. m < k  BY <2>1, <2>a
    <3>2. m <= p  BY <1>3, <2>a, <2>b, <3>1
    <3> QED BY <2>a, <3>2
  <2>3. PICK j \in after : j = (CHOOSE h \in after : \A m \in after : h <= m) /\ \A m \in after : j <= m
        BY <2>1, <2>2
  <2>4. j = k
    <3>1. j <= k /\ k <= j  BY <2>1, <2>2, <2>3
    <3>2. j \in Nat  BY <2>3, <2>a
    <3> QED BY <2>1, <3>1, <3>2
  <2>5. after # {}  BY <2>1
  <2>6. Successor(p, l) = CHOOSE h \in after : \A m \in after : h <= m
        BY <1>1, <2>5
  <2>7. Successor(p, l) = j  BY <2>3, <2>6
  <2> QED BY <2>4, <2>7
<1> QED BY <1>2, <1>3 DEF Follows

LEMMA WellFormedHolds == IInv => WellFormed
<1> SUFFICES ASSUME IInv, writer = NoOne, closing.pc = "open"
             PROVE  /\ \A p \in Nodes : Allocated(p) =>
                           \A l \in 1 .. LevelOf(p) : next[p][l] = Successor(p, l)
                    /\ level = 1 \/ \E k \in Keys : nlev[k] = level
                    /\ \A k \in Keys : nlev[k] <= level
                    /\ count = Cardinality({k \in Keys : nlev[k] > 0})
                    /\ \A k \in Keys : nlev[k] > 0 => val[k] # Missing
    BY DEF WellFormed
<1>t. Types /\ TypeOK /\ Shape  BY DEF IInv, Types
<1>1. /\ Mem = [l \in Levels |-> {k \in Keys : nlev[k] >= l}]
      /\ Leaving = {} /\ Unset = {} /\ Behind = 0
      BY NothingHidden DEF WPc, Splicing
<1>2. ASSUME NEW p \in Nodes, Allocated(p), NEW l \in 1 .. LevelOf(p)
      PROVE  next[p][l] = Successor(p, l)
  <2>1. l \in Levels /\ Starts(p, l)
        BY <1>t, <1>1, <1>2, NodeFacts DEF Allocated, LevelOf, Starts, In, TypeOK
  <2>2. Follows(p, l, next[p][l])  BY <1>t, <2>1 DEF Shape, Links
  <2> QED BY <1>t, <1>1, <2>1, <2>2, FollowsIsSuccessor
<1>3. {k \in Keys : nlev[k] > 0} = Mem[1]  BY <1>t, <1>1, NodeFacts DEF TypeOK
<1>4. count = Cardinality(Mem[1])
      BY <1>t, <1>1, BottomIsFinite DEF Shape, Filled
<1>5. /\ level = 1 \/ \E k \in Keys : nlev[k] = level
      /\ \A k \in Keys : nlev[k] <= level
      BY <1>t, <1>1 DEF Shape, Heights
<1>6. \A k \in Keys : nlev[k] > 0 => val[k] # Missing
      BY <1>t, <1>1 DEF Shape, Filled
<1> QED BY <1>2, <1>3, <1>4, <1>5, <1>6

\* Whenever no thread holds the write lock, every level of the list links exactly
\* the nodes that reach it, in key order; the level, the count and the values are
\* those of its nodes.
THEOREM ListIsWellFormed == Spec => []WellFormed
BY ListInvariant, WellFormedHolds, PTL

LEMMA NoUseAfterFreeHolds == IInv => NoUseAfterFree
<1> SUFFICES ASSUME IInv PROVE NoUseAfterFree  OBVIOUS
<1>t. Types /\ TypeOK /\ Closing  BY DEF IInv, Types
<1>1. \A p, l : l \in Levels /\ Starts(p, l) => Allocated(p)
      BY <1>t, InIsAllocated DEF Starts, Allocated
<1>2. ASSUME NEW t \in Threads, NEW l \in ToSplice(t) PROVE Allocated(update[t][l])
  <2>1. CASE pc[t] = "link"
    <3>1. ToSplice(t) = i[t] .. nlev[req[t].key]  BY <2>1 DEF ToSplice
    <3>2. Before(update[t][l], l, req[t].key)  BY <2>1, <3>1 DEF IInv, Cursor
    <3>3. req[t].key \in Keys  BY <2>1, RequestFacts DEF IInv, Calls
    <3>4. l \in Levels
          BY <2>1, <1>t, <3>1, <3>3, NodeFacts DEF IInv, Cursor, TypeOK
    <3> QED BY <1>1, <3>2, <3>4 DEF Before
  <2>2. CASE pc[t] = "unlink"
    <3>1. ToSplice(t) = i[t] .. level  BY <2>2 DEF ToSplice
    <3>2. Before(update[t][l], l, req[t].key)  BY <2>2, <3>1 DEF IInv, Cursor
    <3>3. l \in Levels
          BY <2>2, <1>t, <3>1, NodeFacts DEF IInv, Cursor, TypeOK
    <3> QED BY <1>1, <3>2, <3>3 DEF Before
  <2>3. CASE pc[t] \notin {"link", "unlink"}  BY <2>3 DEF ToSplice
  <2> QED BY <2>1, <2>2, <2>3
<1>3. closing.x = Nil \/ Allocated(closing.x)
  <2>1. closing.pc = "walk" => closing.x = Nil \/ In(closing.x, 1)  BY <1>t DEF Closing, First
  <2>2. 1 \in Levels  BY NodeFacts
  <2> QED BY <1>t, <2>1, <2>2, InIsAllocated DEF Closing
<1>4. \A t \in Threads : x[t] = Nil \/ Allocated(x[t])  BY DEF IInv, Cursor
<1> QED BY <1>2, <1>3, <1>4 DEF NoUseAfterFree

\* No thread inside sl_put, sl_get, sl_del or sl_range, nor sl_close, ever follows a
\* pointer to a node that was freed, or to no node.
THEOREM NoCursorDangles == Spec => []NoUseAfterFree
BY ListInvariant, NoUseAfterFreeHolds, PTL

\* sl_close frees the node of every key: none is out of reach of its walk.
THEOREM CloseFreesAll == Spec => []NoLeak
<1>1. IInv => NoLeak  BY DEF IInv, Closing, NoLeak
<1> QED BY <1>1, ListInvariant, PTL

\* Every node in the list has one before it that points at it.
LEMMA InIsLinked ==
    ASSUME IInv, closing.pc = "open", NEW k \in Keys
    PROVE  (\E p \in Nodes : next[p][1] = k) <=> In(k, 1)
<1>n. 1 \in Levels /\ k # Nil  BY NodeFacts
<1>1. ASSUME NEW p \in Nodes, next[p][1] = k PROVE In(k, 1)
      BY <1>1, <1>n DEF IInv, Shape, Links
<1>2. ASSUME In(k, 1) PROVE \E p \in Nodes : next[p][1] = k
  <2> DEFINE Low == {p \in Nodes : Starts(p, 1) /\ p < k}
             Gap == {k - p : p \in Low}
  <2>1. Gap \subseteq Nat  BY NodeFacts
  <2>2. k - HeadNode \in Gap  BY NodeFacts DEF Starts
  <2>3. PICK d \in Gap : \A e \in Gap : d <= e  BY <2>1, <2>2, LeastNumber
  <2>4. PICK p \in Low : d = k - p  BY <2>3
  <2>5. \A q \in Low : q <= p
    <3> SUFFICES ASSUME NEW q \in Low PROVE q <= p  OBVIOUS
    <3>1. k - q \in Gap  OBVIOUS
    <3>2. k - p <= k - q  BY <2>3, <2>4, <3>1
    <3> QED BY <3>2, NodeFacts
  <2>6. Follows(p, 1, next[p][1])  BY <1>n DEF IInv, Shape, Links
  <2>7. next[p][1] \in Keys \cup {Nil}  BY <1>n DEF IInv, Types, TypeOK
  <2>8. CASE next[p][1] = Nil  BY <1>2, <2>6, <2>8, NodeFacts, <1>n, MemFacts DEF Follows, In
  <2>9. CASE next[p][1] # Nil
    <3>1. /\ next[p][1] \in Keys /\ In(next[p][1], 1) /\ p < next[p][1]
          /\ \A j \in Keys : In(j, 1) /\ j < next[p][1] => j <= p
          BY <2>6, <2>7, <2>9, <1>n, MemFacts, NodeFacts DEF Follows, In
    <3>2. ~(k < next[p][1])  BY <1>2, <3>1, NodeFacts
    <3>3. ~(next[p][1] < k)
      <4>1. SUFFICES ASSUME next[p][1] < k PROVE FALSE  OBVIOUS
      <4>2. next[p][1] \in Low  BY <3>1, <4>1, NodeFacts DEF Starts
      <4> QED BY <2>5, <3>1, <4>2, NodeFacts
    <3>4. next[p][1] \in Nat /\ k \in Nat /\ p \in Nodes  BY <3>1, NodeFacts
    <3> HIDE DEF Low
    <3>5. next[p][1] = k  BY <3>2, <3>3, <3>4
    <3> QED BY <3>4, <3>5
  <2> QED BY <2>8, <2>9
<1> QED BY <1>1, <1>2

LEMMA StatsPlausibleHolds == IInv => StatsPlausible
<1> SUFFICES ASSUME IInv, closing.pc = "open" PROVE StatsPlausible  BY DEF StatsPlausible
<1>n. 1 \in Levels  BY NodeFacts
<1>t. Types /\ TypeOK /\ Shape  BY DEF IInv, Types
<1>1. {k \in Keys : \E p \in Nodes : next[p][1] = k} = Mem[1]
      BY <1>n, InIsLinked, MemFacts DEF In
<1>2. count = Cardinality(Mem[1]) + Behind /\ Cardinality(Mem[1]) \in Nat
      BY <1>t, BottomIsFinite DEF Shape, Filled
<1>3. Behind \in {-1, 0, 1}  BY DEF Behind
<1>4. count - Cardinality(Mem[1]) \in {-1, 0, 1}  BY <1>2, <1>3
<1>5. count >= 0
  <2>1. CASE Behind # -1  BY <1>2, <1>3, <2>1
  <2>2. CASE Behind = -1
    <3>1. WPc = "counted" \/ (WPc = "link" /\ i[writer] > 1)  BY <2>2 DEF Behind
    <3>2. writer \in Threads /\ pc[writer] = WPc  BY <1>t, <3>1 DEF WPc, TypeOK
    <3>3. req[writer].key \in Keys  BY <3>1, <3>2, RequestFacts DEF IInv, Calls
    <3>4. nlev[req[writer].key] >= 1  BY <3>1, <3>2 DEF IInv, Cursor
    <3>5. ~Hidden(req[writer].key, 1)  BY <1>t, <3>1, <3>2, NodeFacts DEF Hidden, TypeOK
    <3>6. req[writer].key \in Mem[1]  BY <1>n, <3>3, <3>4, <3>5, MemFacts
    <3>7. Cardinality(Mem[1]) # 0  BY <3>6, BottomIsFinite, FS_EmptySet
    <3> QED BY <1>2, <2>2, <3>7
  <2> QED BY <2>1, <2>2
<1>6. ASSUME NEW k \in Mem[1], NEW p \in Nodes, NEW l \in Levels, next[p][l] = k
      PROVE  l <= level
  <2>1. k \in Keys /\ k # Nil  BY <1>n, MemFacts, NodeFacts
  <2>2. In(k, l)  BY <1>t, <1>6, <2>1 DEF Shape, Links
  <2>3. nlev[k] >= l /\ ~Hidden(k, l)  BY <2>1, <2>2, MemFacts DEF In
  <2>4. k \notin Leaving  BY <2>3 DEF Leaving, Hidden
  <2>5. nlev[k] <= level  BY <1>t, <2>1, <2>4 DEF Shape, Heights
  <2> QED BY <1>t, <2>1, <2>3, <2>5, NodeFacts DEF TypeOK
<1> QED BY <1>1, <1>4, <1>5, <1>6 DEF StatsPlausible, sl_stats

\* sl_stats, which reads without the lock, is off by at most the one key being put or
\* deleted, and never reports fewer levels than a linked node occupies.
THEOREM StatsArePlausible == Spec => []StatsPlausible
BY ListInvariant, StatsPlausibleHolds, PTL

\* While any thread is inside sl_get or sl_range, no step of any thread, nor sl_close,
\* changes the list.
THEOREM ListIsStable == Spec => StableUnderReaders
<1>1. ASSUME IInv, [Next]_vars, readers # {} PROVE UNCHANGED list
  <2>1. ASSUME NEW t \in Threads, Step(t) PROVE UNCHANGED list
    <3>1. CASE Calm(t)  BY <1>1, <3>1, CalmList
    <3>2. CASE Change(t)
      <4>1. writer = t  BY <1>1, <3>2, ChangeAlone, WriterStep
      <4> QED BY <1>1, <4>1, ThreadsAssumption DEF IInv, Locks
    <3> QED BY <2>1, <3>1, <3>2, CalmOrChange
  <2>2. CASE CloseStep
    <3>1. \A t \in Threads : pc[t] = "idle"
          BY <1>1, <2>2 DEF CloseStep, CloseStart, CloseFree, CloseEnd, IInv, Closing
    <3>2. readers = {}  BY <1>1, <3>1 DEF IInv, Locks, Busy, Types, TypeOK
    <3> QED BY <1>1, <3>2
  <2>3. CASE Closed \/ UNCHANGED vars  BY <2>3 DEF Closed, vars
  <2> QED BY <1>1, <2>1, <2>2, <2>3 DEF Next
<1>2. IInv /\ [Next]_vars => [readers # {} => UNCHANGED list]_vars  BY <1>1
<1> QED BY <1>2, ListInvariant, PTL DEF Spec, StableUnderReaders

-----------------------------------------------------------------------------
(* The list implements the ordered map                                       *)

\* The keys a range has handed to its callback.
Got(t) == {k \in Keys : In(k, 1) /\ req[t].lo <= k /\ (x[t] = Nil \/ k < x[t])}

\* The members of D below k.
Below(D, k) == {j \in D : j < k}

\* The rows are those of the keys of D, each in its place, with its value.
Lists(D, rows, m) ==
    /\ Len(rows) = Cardinality(D)
    /\ \A n \in 1 .. Cardinality(D) :
          \E k \in D : Cardinality(Below(D, k)) = n - 1 /\ rows[n] = <<k, m[k]>>

\* What a thread has of its reply, by where it is; and the value a new node has.
Answering(t) ==
    /\ pc[t] \notin {"range", "unlock", "return"} => reply[t] = NoReply
    /\ pc[t] = "link" => val[req[t].key] = req[t].val
    /\ pc[t] = "overwrite" => val[x[t]] = Missing
    /\ pc[t] = "range" =>
          /\ Lists(Got(t), reply[t].rows, val)
          /\ reply[t].rc = Cardinality(Got(t))
          /\ req[t].stop \notin Got(t)
          /\ \A k \in Got(t) : k < req[t].hi
          /\ req[t].limit <= 0 \/ reply[t].rc <= req[t].limit
          /\ x[t] = Nil \/ x[t] >= req[t].lo

Replies ==
    /\ reply \in [Threads -> [rc : Nat, rows : Seq(Keys \X Values)]]
    /\ \A t \in Threads : Answering(t)

\* The constants of the ordered map are those of the list.
LEMMA SameInterface ==
    /\ Map!Missing = Missing /\ Map!NoRequest = NoRequest /\ Map!NoReply = NoReply
    /\ Map!Request = Request
    /\ \A rc, rows : Map!Reply(rc, rows) = Reply(rc, rows)
BY DEF Map!Missing, Missing, Map!NoRequest, NoRequest, Map!NoReply, NoReply,
       Map!Request, Request, Map!Reply, Reply

\* An element of a finite set of numbers is told by how many are below it.
LEMMA RankIsUnique ==
    ASSUME NEW D, IsFiniteSet(D), D \subseteq Nat, NEW a \in D, NEW b \in D,
           Cardinality(Below(D, a)) = Cardinality(Below(D, b))
    PROVE  a = b
<1>1. \A u \in D : IsFiniteSet(Below(D, u))
  <2>1. \A u \in D : Below(D, u) \in SUBSET D  BY DEF Below
  <2> QED BY <2>1, FS_Subset
<1>2. ASSUME NEW u \in D, NEW v \in D, u < v
      PROVE  Cardinality(Below(D, u)) # Cardinality(Below(D, v))
  <2>0. \A j \in D : j < u => j < v  BY <1>2
  <2>1. Below(D, u) \in SUBSET Below(D, v)  BY <2>0 DEF Below
  <2>2. Below(D, u) # Below(D, v)
    <3>1. u \in Below(D, v)  BY <1>2 DEF Below
    <3>2. u \notin Below(D, u)  BY DEF Below
    <3> QED BY <3>1, <3>2
  <2>3. IsFiniteSet(Below(D, v))  BY <1>1
  <2> HIDE <1>2
  <2> QED BY <2>1, <2>2, <2>3, FS_Subset
<1>3. ~(a < b) /\ ~(b < a)  BY <1>2
<1> QED BY <1>3

\* One more row: that of a key above all the others.
LEMMA ListsExtends ==
    ASSUME NEW D, IsFiniteSet(D), D \subseteq Nat, NEW y \in Nat, \A d \in D : d < y,
           NEW S, NEW rows \in Seq(S), NEW m, <<y, m[y]>> \in S, Lists(D, rows, m)
    PROVE  /\ Lists(D \cup {y}, Append(rows, <<y, m[y]>>), m)
           /\ Cardinality(D \cup {y}) = Cardinality(D) + 1
<1> DEFINE E == D \cup {y}
           more == Append(rows, <<y, m[y]>>)
           c == Cardinality(D)
<1>1. c \in Nat  BY FS_CardinalityType
<1>2. y \notin D  OBVIOUS
<1>3. Cardinality(E) = c + 1  BY <1>2, FS_AddElement
<1>4. Len(rows) = c  BY DEF Lists
<1>5. /\ Len(more) = c + 1 /\ more[c + 1] = <<y, m[y]>>
      /\ \A n \in 1 .. c : more[n] = rows[n]
      BY <1>1, <1>4
<1>6. Below(E, y) = D
  <2>1. ~(y < y)  OBVIOUS
  <2> QED BY <2>1 DEF Below
<1>7. ASSUME NEW n \in 1 .. c
      PROVE  \E k \in E : Cardinality(Below(E, k)) = n - 1 /\ more[n] = <<k, m[k]>>
  <2>1. PICK k \in D : Cardinality(Below(D, k)) = n - 1 /\ rows[n] = <<k, m[k]>>
        BY <1>1, <1>7 DEF Lists
  <2>2. Below(E, k) = Below(D, k)  BY DEF Below
  <2> QED BY <1>5, <2>1, <2>2
<1>8. \E k \in E : Cardinality(Below(E, k)) = c /\ more[c + 1] = <<k, m[k]>>
      BY <1>5, <1>6
<1>9. ASSUME NEW n \in 1 .. c + 1
      PROVE  \E k \in E : Cardinality(Below(E, k)) = n - 1 /\ more[n] = <<k, m[k]>>
  <2>1. CASE n = c + 1
    <3>1. n - 1 = c  BY <1>1, <2>1
    <3> QED BY <1>8, <2>1, <3>1
  <2>2. CASE n # c + 1
    <3>1. n \in 1 .. c  BY <1>1, <2>2
    <3> QED BY <1>7, <3>1
  <2> QED BY <2>1, <2>2
<1> QED BY <1>3, <1>5, <1>9 DEF Lists

\* The keys a range sees in map m, and those it hands over but for its limit.
InRange(m, r) == {k \in Keys : m[k] # Missing /\ r.lo <= k /\ k < r.hi}
Visible(m, r) == {k \in InRange(m, r) : r.stop \in InRange(m, r) => k <= r.stop}

\* The elements of S in order: the one that is asked for is there when any is.
LEMMA SameCardinality == ASSUME NEW S PROVE Map!Cardinality(S) = Cardinality(S)
BY DEF Map!Cardinality, Cardinality, Map!IsFiniteSet, IsFiniteSet

LEMMA AscendingIs ==
    ASSUME NEW S
    PROVE  /\ DOMAIN Map!Ascending(S) = 1 .. Cardinality(S)
           /\ Map!Ascending(S) = [n \in DOMAIN Map!Ascending(S) |-> Map!Ascending(S)[n]]
           /\ \A n \in 1 .. Cardinality(S), h \in S :
                 Cardinality(Below(S, h)) = n - 1
                    => /\ Map!Ascending(S)[n] \in S
                       /\ Cardinality(Below(S, Map!Ascending(S)[n])) = n - 1
<1> DEFINE A == Map!Ascending(S)
           P(n, k) == Map!Cardinality(Below(S, k)) = n - 1
           C(n) == CHOOSE k \in S : P(n, k)
<1>1. A = [n \in 1 .. Map!Cardinality(S) |-> C(n)]  BY DEF Map!Ascending, Below
<1>2. Map!Cardinality(S) = Cardinality(S)  BY SameCardinality
<1>3. ASSUME NEW n \in 1 .. Cardinality(S), NEW h \in S, Cardinality(Below(S, h)) = n - 1
      PROVE  A[n] \in S /\ Cardinality(Below(S, A[n])) = n - 1
  <2>1. P(n, h)  BY <1>3, SameCardinality
  <2> HIDE DEF P
  <2>2. C(n) \in S /\ P(n, C(n))  BY <2>1
  <2> HIDE DEF A, C
  <2>3. A[n] = C(n)  BY <1>1, <1>2
  <2>4. P(n, A[n])  BY <2>2, <2>3
  <2> USE DEF P
  <2>5. Cardinality(Below(S, A[n])) = n - 1  BY <2>4, SameCardinality
  <2> QED BY <2>2, <2>3, <2>5
<1> HIDE DEF C, A
<1>4. DOMAIN A = 1 .. Cardinality(S) /\ A = [n \in DOMAIN A |-> A[n]]  BY <1>1, <1>2
<1> USE DEF A
<1> QED BY <1>3, <1>4

\* The low end D of the visible keys is the reply when it is all of them or as many as
\* the limit allows.
LEMMA RangeIs ==
    ASSUME NEW m, NEW r, NEW D, NEW rows \in Seq(Keys \X Values), r.limit \in Int,
           D \subseteq Visible(m, r), Lists(D, rows, m),
           \A d \in D : \A k \in Visible(m, r) : k \notin D => d < k,
           \/ D = Visible(m, r) /\ (r.limit <= 0 \/ Cardinality(D) <= r.limit)
           \/ r.limit > 0 /\ Cardinality(D) = r.limit
    PROVE  Map!RangeReply(m, r) =
               Reply(IF r.stop \in D THEN Cardinality(D) - 1 ELSE Cardinality(D), rows)
<1> DEFINE V    == Visible(m, r)
           c    == Cardinality(D)
           all  == Map!Ascending(V)
           most == IF r.limit > 0 /\ r.limit < Len(all) THEN r.limit ELSE Len(all)
           keys == SubSeq(all, 1, most)
           out  == [n \in 1 .. most |-> <<keys[n], m[keys[n]]>>]
           stopped == \E n \in 1 .. most : keys[n] = r.stop
<1>1. Map!RangeReply(m, r) = Reply(IF stopped THEN most - 1 ELSE most, out)
      BY SameInterface DEF Map!RangeReply, Visible, InRange
<1>2. V \subseteq Nat /\ IsFiniteSet(V)
  <2>1. V \in SUBSET Keys  BY DEF Visible, InRange
  <2>2. IsFiniteSet(Keys) /\ Keys \subseteq Nat  BY KeysAssumption
  <2> HIDE DEF V
  <2> QED BY <2>1, <2>2, FS_Subset
<1>3. IsFiniteSet(D) /\ c \in Nat /\ D \subseteq V /\ D \subseteq Nat
      /\ Cardinality(V) \in Nat /\ c <= Cardinality(V)
  <2>1. D \in SUBSET V  OBVIOUS
  <2> HIDE DEF V
  <2> QED BY <1>2, <2>1, FS_Subset, FS_CardinalityType
<1>d. \A d \in D, k \in V : k \notin D => d < k  OBVIOUS
<1>m. (D = V /\ (r.limit <= 0 \/ c <= r.limit)) \/ (r.limit > 0 /\ c = r.limit)  OBVIOUS
<1>4. /\ DOMAIN all = 1 .. Cardinality(V) /\ all = [n \in DOMAIN all |-> all[n]]
      /\ \A n \in 1 .. Cardinality(V), h \in V :
            Cardinality(Below(V, h)) = n - 1
               => all[n] \in V /\ Cardinality(Below(V, all[n])) = n - 1
      BY AscendingIs
<1> HIDE DEF V, all
<1>5. ASSUME NEW k \in D PROVE Below(V, k) = Below(D, k)
  <2>1. \A j \in V : j < k => j \in D  BY <1>2, <1>3, <1>d
  <2> QED BY <1>3, <2>1 DEF Below
<1>6. ASSUME NEW n \in 1 .. c, NEW k \in D, Cardinality(Below(D, k)) = n - 1
      PROVE  all[n] = k
  <2>1. k \in V /\ Cardinality(Below(V, k)) = n - 1  BY <1>3, <1>5, <1>6
  <2>2. n \in 1 .. Cardinality(V)  BY <1>3
  <2>3. all[n] \in V /\ Cardinality(Below(V, all[n])) = n - 1  BY <1>4, <2>1, <2>2
  <2>4. Cardinality(Below(V, all[n])) = Cardinality(Below(V, k))  BY <2>1, <2>3
  <2>5. all[n] \in V  BY <2>3
  <2>6. k \in V  BY <2>1
  <2> HIDE <1>6
  <2> QED BY <1>2, <2>4, <2>5, <2>6, RankIsUnique
<1>7. ASSUME NEW n \in 1 .. c PROVE all[n] \in D /\ rows[n] = <<all[n], m[all[n]]>>
  <2>1. PICK k \in D : Cardinality(Below(D, k)) = n - 1 /\ rows[n] = <<k, m[k]>>
        BY DEF Lists
  <2> QED BY <1>6, <2>1
<1>8. Len(all) = Cardinality(V)
  <2> DEFINE T == {all[n] : n \in 1 .. Cardinality(V)}
  <2>1. all \in [1 .. Cardinality(V) -> T]  BY <1>4
  <2> HIDE DEF T, all
  <2>2. all \in Seq(T)  BY <1>3, <2>1, SeqDef
  <2>3. DOMAIN all = 1 .. Len(all) /\ Len(all) \in Nat  BY <2>2, LenProperties
  <2>4. DOMAIN all = 1 .. Cardinality(V)  BY <2>1
  <2> QED BY <1>3, <2>3, <2>4
<1>9. most = c  BY <1>3, <1>8, <1>m
<1>10. \A n \in 1 .. c : keys[n] = all[n]
  <2>1. \A n \in 1 .. c : all[n] \in D  BY <1>7
  <2> HIDE DEF all
  <2>2. \A n \in 1 .. c : SubSeq(all, 1, c)[n] = all[1 + n - 1]
        BY <1>3, <2>1, SubSeqProperties
  <2>3. \A n \in 1 .. c : 1 + n - 1 = n  BY <1>3
  <2> QED BY <1>9, <2>2, <2>3
<1>11. out = rows
  <2>1. rows = [n \in 1 .. c |-> rows[n]]
    <3>1. Len(rows) = c  BY DEF Lists
    <3>2. rows \in [1 .. Len(rows) -> Keys \X Values]  BY LenProperties
    <3> QED BY <3>1, <3>2
  <2>2. \A n \in 1 .. c : <<keys[n], m[keys[n]]>> = rows[n]  BY <1>7, <1>10
  <2> HIDE DEF keys
  <2> QED BY <1>9, <2>1, <2>2
<1>12. stopped <=> r.stop \in D
  <2>1. ASSUME stopped PROVE r.stop \in D
        BY <1>7, <1>9, <1>10, <2>1
  <2>2. ASSUME r.stop \in D PROVE stopped
    <3> DEFINE Lo == Below(D, r.stop)
    <3>s. D \subseteq Nat  BY <1>3
    <3>r. \A q \in Nat : ~(q < q)  OBVIOUS
    <3>0. ~(r.stop < r.stop)  BY <2>2, <3>s, <3>r
    <3>1. Lo \in SUBSET D /\ r.stop \notin Lo  BY <3>0 DEF Below
    <3>2. Lo # D  BY <2>2, <3>1
    <3> HIDE DEF Lo
    <3>3. Cardinality(Lo) \in Nat /\ Cardinality(Lo) < c
      <4>1. Cardinality(Lo) \in Nat /\ Cardinality(Lo) <= c /\ Cardinality(Lo) # c
            BY <1>3, <3>1, <3>2, FS_Subset, FS_CardinalityType
      <4> QED BY <1>3, <4>1
    <3>4. Cardinality(Lo) + 1 \in 1 .. c /\ Cardinality(Lo) = (Cardinality(Lo) + 1) - 1
          BY <1>3, <3>3
    <3>5. all[Cardinality(Lo) + 1] = r.stop  BY <1>6, <2>2, <3>4 DEF Lo
    <3> QED BY <1>9, <1>10, <3>4, <3>5
  <2> QED BY <2>1, <2>2
<1> HIDE DEF stopped, out, most
<1> QED BY <1>1, <1>9, <1>11, <1>12


\* What the list holds, in terms of the bottom level.
MapNow ==
    [k \in Keys |->
        IF closing.pc # "open" \/ k \notin Mem[1] THEN Missing
        ELSE IF val[k] = Missing THEN req[writer].val ELSE val[k]]

LEMMA MapIs == IInv => AbsMap = MapNow
<1> SUFFICES ASSUME IInv PROVE AbsMap = MapNow  OBVIOUS
<1>1. CASE closing.pc # "open"  BY <1>1 DEF AbsMap, MapNow
<1>2. CASE closing.pc = "open"
  <2>1. \A k \in Keys : Linked(k) <=> k \in Mem[1]  BY <1>2, InIsLinked DEF Linked, In
  <2> QED BY <2>1 DEF AbsMap, MapNow
<1> QED BY <1>1, <1>2

LEMMA MapIsNext == IInv' => AbsMap' = MapNow'
<1> DEFINE Agree == AbsMap = MapNow
<1>1. IInv => Agree  BY MapIs
<1> HIDE DEF Agree
<1>2. IInv' => Agree'  BY <1>1, PTL
<1> USE DEF Agree
<1> QED BY <1>2

\* A thread's call and reply in the ordered map.
StatusOf(t) == IF pc[t] = "idle" THEN "idle" ELSE IF Executed(t) THEN "done" ELSE "called"
ReplyOf(t) ==
    IF ~Executed(t) THEN NoReply
    ELSE IF pc[t] \in {"unlink", "shrink", "free", "discounted"} THEN Reply(1, << >>)
    ELSE reply[t]

\* The reply of another thread is its own.
LEMMA ReplyFrame ==
    ASSUME IInv, Replies, NEW t \in Threads, Step(t)
    PROVE  /\ \A u \in Threads : u # t => reply'[u] = reply[u]
           /\ \A R : reply \in [Threads -> R] /\ reply'[t] \in R => reply' \in [Threads -> R]
<1> DEFINE Rs == [rc : Nat, rows : Seq(Keys \X Values)]
<1>1. reply \in [Threads -> Rs]  BY DEF Replies
<1>2. reply' = reply \/ reply' = [reply EXCEPT ![t] = reply'[t]]
  <2>1. CASE Change(t)
        BY <1>1, <2>1 DEF Change, PutFree, PutOverwrite, PutNode, PutLink, PutCount, DelUnlink,
                          DelShrink, DelFree, DelCount, Answer
  <2>2. CASE Calm(t)
        BY <1>1, <2>2 DEF Calm, Invoke, Return, WrLock, RdLock, StartSearch, Search, Land, GetRead, DelMiss,
                          DelHit, RangeRow, RangeEnd, Unlock, Answer
  <2> QED BY <2>1, <2>2, CalmOrChange
<1> HIDE DEF Rs
<1> QED BY <1>1, <1>2

Rows    == Seq(Keys \X Values)
Replied == [rc : Nat, rows : Rows]

\* A node of the bottom level has a value while nobody writes.
LEMMA InHasValue ==
    ASSUME IInv, writer = NoOne, NEW k \in Mem[1]
    PROVE  k \in Keys /\ val[k] \in Values /\ val[k] # Missing /\ <<k, val[k]>> \in Keys \X Values
<1>1. 1 \in Levels  BY NodeFacts
<1>2. k \in Keys /\ nlev[k] >= 1  BY <1>1, MemFacts
<1>3. Unset = {}  BY DEF Unset, WPc
<1>4. val[k] \in Values \cup {Missing} /\ nlev[k] \in Nat
      BY <1>2, NodeFacts DEF IInv, Types, TypeOK
<1>5. val[k] # Missing  BY <1>2, <1>3, <1>4 DEF IInv, Shape, Filled
<1> QED BY <1>2, <1>4, <1>5

LEMMA NilIsOut == Nil \notin Mem[1]
BY NodeFacts, MemFacts

\* The first node not below a key is its node, if it has one.
LEMMA HitIsIn ==
    ASSUME IInv, NEW t \in Threads, pc[t] \in {"put", "get", "del"}
    PROVE  Hit(t) <=> req[t].key \in Mem[1]
<1>1. First(x[t], req[t].key)  BY DEF IInv, Cursor
<1>2. req[t].key \in Keys  BY RequestFacts DEF IInv, Calls
<1>3. 1 \in Levels  BY NodeFacts
<1>4. x[t] # Nil => x[t] \in Keys  BY <1>1, <1>3, MemFacts DEF First, In
<1>5. ASSUME req[t].key \in Mem[1] PROVE x[t] = req[t].key
  <2>0. req[t].key \in Nat  BY <1>2, NodeFacts
  <2>1. x[t] # Nil  BY <1>1, <1>2, <1>5, <2>0, NilIsOut DEF First, In
  <2>2. x[t] >= req[t].key /\ req[t].key >= x[t]  BY <1>1, <1>2, <1>5, <2>0, <2>1 DEF First, In
  <2>3. x[t] \in Nat  BY <1>4, <2>1, NodeFacts
  <2> QED BY <2>0, <2>2, <2>3
<1>6. ASSUME Hit(t) PROVE req[t].key \in Mem[1]
      BY <1>1, <1>6 DEF First, In, Hit
<1> QED BY <1>2, <1>5, <1>6, NodeFacts DEF Hit

LEMMA GotIsFinite ==
    ASSUME NEW t \in Threads
    PROVE  Got(t) \subseteq Nat /\ Got(t) \subseteq Keys /\ IsFiniteSet(Got(t))
           /\ Cardinality(Got(t)) \in Nat
<1>1. Got(t) \in SUBSET Keys  BY DEF Got
<1> QED BY <1>1, KeysAssumption, FS_Subset, FS_CardinalityType

\* A range takes one more row.
LEMMA RowTaken ==
    ASSUME IInv, Replies, NEW t \in Threads, RangeRow(t)
    PROVE  /\ writer = NoOne /\ closing.pc = "open" /\ req[t] \in Request
           /\ x[t] \in Mem[1] /\ x[t] \in Nat /\ x[t] \notin Got(t) /\ \A d \in Got(t) : d < x[t]
           /\ <<x[t], val[x[t]]>> \in Keys \X Values
           /\ Append(reply[t].rows, <<x[t], val[x[t]]>>) \in Rows
           /\ Lists(Got(t) \cup {x[t]}, Append(reply[t].rows, <<x[t], val[x[t]]>>), val)
           /\ Cardinality(Got(t) \cup {x[t]}) = Cardinality(Got(t)) + 1
<1>1. pc[t] = "range" /\ x[t] # Nil  BY DEF RangeRow, RangeMore
<1>2. Busy(t) /\ ~Writes(t)  BY <1>1 DEF IInv, Calls, Busy, Writes
<1>3. writer = NoOne /\ closing.pc = "open" /\ req[t] \in Request
      BY <1>2, ReaderShares DEF IInv
<1>4. x[t] \in Mem[1]  BY <1>1 DEF IInv, Cursor, In
<1>5. x[t] \in Keys /\ <<x[t], val[x[t]]>> \in Keys \X Values  BY <1>3, <1>4, InHasValue
<1>6. x[t] \in Nat /\ ~(x[t] < x[t])  BY <1>5, NodeFacts
<1>7. x[t] \notin Got(t) /\ \A d \in Got(t) : d < x[t]  BY <1>1, <1>6 DEF Got
<1>8. reply[t].rows \in Seq(Keys \X Values) /\ Lists(Got(t), reply[t].rows, val)
      BY <1>1 DEF Replies, Answering
<1>9. Append(reply[t].rows, <<x[t], val[x[t]]>>) \in Rows  BY <1>5, <1>8 DEF Rows
<1>10. /\ Lists(Got(t) \cup {x[t]}, Append(reply[t].rows, <<x[t], val[x[t]]>>), val)
       /\ Cardinality(Got(t) \cup {x[t]}) = Cardinality(Got(t)) + 1
  <2> DEFINE D == Got(t)
             y == x[t]
             rows == reply[t].rows
  <2>1. IsFiniteSet(D) /\ D \subseteq Nat  BY GotIsFinite
  <2>2. y \in Nat /\ \A d \in D : d < y  BY <1>6, <1>7
  <2>3. rows \in Seq(Keys \X Values) /\ <<y, val[y]>> \in Keys \X Values /\ Lists(D, rows, val)
        BY <1>5, <1>8
  <2> HIDE DEF D, y, rows
  <2>4. Lists(D \cup {y}, Append(rows, <<y, val[y]>>), val) /\ Cardinality(D \cup {y}) = Cardinality(D) + 1
        BY <2>1, <2>2, <2>3, ListsExtends
  <2> QED BY <2>4 DEF D, y, rows
<1> QED BY <1>3, <1>4, <1>5, <1>6, <1>7, <1>9, <1>10

\* The reply a step gives is a reply.
LEMMA ReplyTyped ==
    ASSUME IInv, Replies, NEW t \in Threads, Step(t)
    PROVE  reply'[t] \in Replied
<1>t. reply \in [Threads -> Replied]  BY DEF Replies, Replied, Rows
<1>e. << >> \in Rows  BY DEF Rows
<1>n. \A rc \in Nat, rows \in Rows : Reply(rc, rows) \in Replied  BY DEF Reply, Replied
<1>1. CASE RangeRow(t)
  <2>1. Append(reply[t].rows, <<x[t], val[x[t]]>>) \in Rows  BY <1>1, RowTaken
  <2>2. reply[t].rc \in Nat  BY <1>t DEF Replied
  <2>3. PICK rc \in Nat : reply'[t] = Reply(rc, Append(reply[t].rows, <<x[t], val[x[t]]>>))
    <3> DEFINE q == IF x[t] = req[t].stop THEN reply[t].rc ELSE reply[t].rc + 1
    <3>1. q \in Nat  BY <2>2
    <3>2. reply'[t] = Reply(q, Append(reply[t].rows, <<x[t], val[x[t]]>>))
          BY <1>1, <1>t DEF RangeRow
    <3> QED BY <3>1, <3>2
  <2> QED BY <1>n, <2>1, <2>3
<1>2. CASE GetRead(t)
  <2>1. CASE Hit(t)
    <3>0. pc[t] = "get" /\ x[t] = req[t].key  BY <1>2, <2>1 DEF GetRead, Hit
    <3>1. x[t] \in Mem[1]  BY <2>1, <3>0, HitIsIn
    <3>2. Busy(t) /\ ~Writes(t)  BY <3>0 DEF IInv, Calls, Busy, Writes
    <3>3. <<x[t], val[x[t]]>> \in Keys \X Values  BY <3>1, <3>2, ReaderShares, InHasValue DEF IInv
    <3>4. << <<x[t], val[x[t]]>> >> \in Rows  BY <3>3 DEF Rows
    <3> QED BY <1>2, <1>t, <1>n, <2>1, <3>4 DEF GetRead, Answer
  <2>2. CASE ~Hit(t)  BY <1>2, <1>t, <1>n, <1>e, <2>2 DEF GetRead, Answer
  <2> QED BY <2>1, <2>2
<1>z. Reply(0, << >>) \in Replied /\ Reply(1, << >>) \in Replied  BY <1>e, <1>n
<1>3. CASE Change(t)
  <2>1. reply' = reply \/ reply' = [reply EXCEPT ![t] = Reply(0, << >>)]
                       \/ reply' = [reply EXCEPT ![t] = Reply(1, << >>)]
        BY <1>3 DEF Change, PutFree, PutOverwrite, PutNode, PutLink, PutCount, DelUnlink,
                    DelShrink, DelFree, DelCount, Answer
  <2> QED BY <1>t, <1>z, <2>1
<1>4. CASE Calm(t) /\ ~RangeRow(t) /\ ~GetRead(t)
  <2>1. reply' = reply \/ reply' = [reply EXCEPT ![t] = Reply(0, << >>)]
        BY <1>4 DEF Calm, Invoke, Return, WrLock, RdLock, StartSearch, Search, Land,
                    DelMiss, DelHit, RangeEnd, Unlock, Answer, NoReply
  <2> QED BY <1>t, <1>z, <2>1
<1> QED BY <1>1, <1>2, <1>3, <1>4, CalmOrChange

\* The walk of a range, from its first row to its last.
LEMMA RangeStarts ==
    ASSUME IInv, Replies, NEW t \in Threads, Land(t), req[t].op = "range", Step(t), Types'
    PROVE  Answering(t)'
<1>0. /\ pc[t] = "search" /\ i[t] = 0 /\ x'[t] = next[x[t]][1] /\ pc'[t] = "range"
      /\ UNCHANGED <<list, closing, req, reply>>
      BY DEF Land, Goto, IInv, Types, TypeOK, list
<1>1. UNCHANGED Content  BY CalmList DEF Calm
<1>2. Mem' = Mem  BY <1>1 DEF Content
<1>3. Searching(t) /\ Calls /\ TypeOK /\ Links  BY <1>0 DEF IInv, Cursor, Types, Shape
<1>4. req[t] \in Request /\ Target(t) = req[t].lo  BY <1>0, <1>3 DEF Calls, Target
<1>5. req[t].lo \in Nat /\ req[t].limit \in Int  BY <1>4, RequestFacts
<1>6. 1 \in Levels /\ x[t] \in Nodes  BY <1>3, NodeFacts, MemFacts DEF Searching
<1>7. x'[t] \in Keys \cup {Nil}  BY <1>0, <1>3, <1>6 DEF TypeOK
<1>8. /\ x[t] < req[t].lo \/ x[t] = HeadNode
      /\ x'[t] = Nil \/ x'[t] >= req[t].lo
      BY <1>0, <1>3, <1>4 DEF Searching, Before
<1>9. Follows(x[t], 1, x'[t])  BY <1>0, <1>3, <1>6 DEF Links, Searching
<1>10. First(x'[t], req[t].lo)  BY <1>5, <1>6, <1>7, <1>8, <1>9, NextIsFirst
<1>11. Got(t)' = {}
  <2>1. ASSUME NEW k \in Keys, In(k, 1), req[t].lo <= k PROVE x'[t] # Nil /\ ~(k < x'[t])
    <3>1. k \in Nat  BY NodeFacts
    <3>2. x'[t] # Nil  BY <1>5, <1>10, <2>1, <3>1, NilIsOut DEF First, In
    <3>3. x'[t] \in Nat  BY <1>7, <3>2, NodeFacts
    <3> QED BY <1>5, <1>10, <2>1, <3>1, <3>2, <3>3 DEF First, In
  <2> QED BY <1>0, <1>2, <2>1 DEF Got, In
<1>12. reply'[t] = NoReply  BY <1>0 DEF Replies, Answering
<1>13. Cardinality({}) = 0  BY FS_EmptySet
<1>14. Lists({}, << >>, val')  BY <1>13 DEF Lists
<1>15. reply'[t].rows = << >> /\ reply'[t].rc = 0  BY <1>12 DEF NoReply, Reply
<1> QED BY <1>0, <1>5, <1>8, <1>11, <1>13, <1>14, <1>15 DEF Answering

LEMMA RangeGoesOn ==
    ASSUME IInv, Replies, NEW t \in Threads, RangeRow(t), x[t] # req[t].stop, Types'
    PROVE  Answering(t)'
<1>0. /\ pc[t] = "range" /\ pc' = pc /\ x'[t] = next[x[t]][1]
      /\ reply'[t] = Reply(reply[t].rc + 1, Append(reply[t].rows, <<x[t], val[x[t]]>>))
      /\ UNCHANGED <<list, closing, req>>
      /\ req[t].limit <= 0 \/ reply[t].rc < req[t].limit
      /\ x[t] < req[t].hi
      BY DEF RangeRow, RangeMore, IInv, Types, TypeOK, Replies
<1>1. UNCHANGED Content  BY CalmList DEF Calm
<1>2. Mem' = Mem /\ val' = val  BY <1>0, <1>1 DEF Content, list
<1>3. /\ req[t] \in Request /\ x[t] \in Mem[1] /\ x[t] \in Nat
      /\ Lists(Got(t) \cup {x[t]}, Append(reply[t].rows, <<x[t], val[x[t]]>>), val)
      /\ Cardinality(Got(t) \cup {x[t]}) = Cardinality(Got(t)) + 1
      BY RowTaken
<1>4. 1 \in Levels /\ x[t] \in Keys /\ x[t] \in Nodes  BY <1>3, NodeFacts, MemFacts
<1>5. req[t].lo \in Nat /\ req[t].limit \in Int /\ req[t].hi \in Nat
      BY <1>0, <1>3, RequestFacts DEF IInv, Calls
<1>6. Follows(x[t], 1, x'[t])  BY <1>0, <1>3, <1>4 DEF IInv, Shape, Links, Starts, In
<1>7. x[t] >= req[t].lo /\ x[t] # Nil  BY <1>0, <1>4, NodeFacts DEF Replies, Answering
<1>8. x'[t] \in Keys \cup {Nil}  BY <1>0, <1>4 DEF IInv, Types, TypeOK
<1>9. x'[t] = Nil \/ (x'[t] \in Nat /\ x'[t] > x[t])
      BY <1>6, <1>8, NilIsOut, NodeFacts DEF Follows, In
<1>10. Got(t)' = Got(t) \cup {x[t]}
  <2>1. Got(t)' = {k \in Keys : k \in Mem[1] /\ req[t].lo <= k /\ (x'[t] = Nil \/ k < x'[t])}
        BY <1>0, <1>2 DEF Got, In
  <2>2. ASSUME NEW k \in Keys, k \in Mem[1]
        PROVE  (x'[t] = Nil \/ k < x'[t]) <=> k < x[t] \/ k = x[t]
    <3>1. k \in Nat  BY NodeFacts
    <3>2. CASE x'[t] = Nil
      <4>1. k <= x[t]  BY <1>6, <2>2, <3>2, NilIsOut DEF Follows, In
      <4> QED BY <1>3, <3>1, <3>2, <4>1
    <3>3. CASE x'[t] # Nil
      <4>1. k < x'[t] => k <= x[t]  BY <1>6, <2>2, <3>3 DEF Follows, In
      <4> QED BY <1>3, <1>9, <3>1, <3>3, <4>1
    <3> QED BY <3>2, <3>3
  <2>3. Got(t) = {k \in Keys : k \in Mem[1] /\ req[t].lo <= k /\ k < x[t]}
        BY <1>7 DEF Got, In
  <2> QED BY <1>3, <1>4, <1>7, <2>1, <2>2, <2>3
<1>11. /\ Lists(Got(t), reply[t].rows, val)' /\ reply'[t].rc = Cardinality(Got(t)')
  <2>1. reply'[t].rows = Append(reply[t].rows, <<x[t], val[x[t]]>>) /\ reply'[t].rc = reply[t].rc + 1
        BY <1>0 DEF Reply
  <2>2. reply[t].rc = Cardinality(Got(t))  BY <1>0 DEF Replies, Answering
  <2>3. Lists(Got(t)', reply'[t].rows, val')  BY <1>2, <1>3, <1>10, <2>1
  <2>4. Lists(Got(t), reply[t].rows, val)'  BY <2>3 DEF Lists, Below
  <2> QED BY <1>3, <1>10, <2>1, <2>2, <2>4
<1>12. req[t].stop \notin Got(t)' /\ \A k \in Got(t)' : k < req[t].hi
      BY <1>0, <1>10 DEF Replies, Answering
<1>13. req[t].limit <= 0 \/ reply'[t].rc <= req[t].limit
  <2>1. reply[t].rc \in Nat  BY DEF Replies
  <2> QED BY <1>0, <1>5, <2>1 DEF Reply
<1>14. x'[t] = Nil \/ x'[t] >= req[t].lo  BY <1>3, <1>5, <1>7, <1>9
<1> QED BY <1>0, <1>11, <1>12, <1>13, <1>14 DEF Answering

\* A thread that does not move, in a list that does not change.
LEMMA StillAnswering ==
    ASSUME NEW u \in Threads, Answering(u), UNCHANGED <<val, Mem>>,
           pc'[u] = pc[u], req'[u] = req[u], x'[u] = x[u], reply'[u] = reply[u]
    PROVE  Answering(u)'
<1>1. Got(u)' = Got(u)  BY DEF Got, In
<1>2. Lists(Got(u), reply[u].rows, val) => Lists(Got(u), reply[u].rows, val)'
      BY <1>1 DEF Lists, Below
<1> QED BY <1>1, <1>2 DEF Answering

LEMMA RepliesStep ==
    ASSUME IInv, Types', Replies, NEW t \in Threads, Step(t)
    PROVE  Replies'
<1>f. /\ \A u \in Threads : u # t => /\ pc'[u] = pc[u] /\ req'[u] = req[u] /\ x'[u] = x[u]
                                      /\ reply'[u] = reply[u]
      BY StepFrame, ReplyFrame DEF IInv
<1>t. /\ TypeOK /\ reply \in [Threads -> [rc : Nat, rows : Seq(Keys \X Values)]]
      /\ \A u \in Threads : Answering(u)
      BY DEF IInv, Types, Replies
<1>1. reply' \in [Threads -> [rc : Nat, rows : Seq(Keys \X Values)]]
  <2>1. reply'[t] \in [rc : Nat, rows : Seq(Keys \X Values)]  BY ReplyTyped DEF Replied, Rows
  <2> QED BY <1>t, <2>1, ReplyFrame
<1>2. ASSUME NEW u \in Threads, u # t PROVE Answering(u)'
  <2>1. CASE Calm(t)
    <3>1. UNCHANGED <<val, Mem>>  BY <2>1, CalmList DEF list, Content
    <3> QED BY <1>f, <1>t, <1>2, <3>1, StillAnswering
  <2>2. CASE Change(t)
    <3>1. pc'[u] \in {"idle", "lock", "return"}  BY <1>f, <1>2, <2>2, ChangeAlone DEF Busy
    <3> QED BY <1>f, <1>t, <1>2, <3>1 DEF Answering
  <2> QED BY <2>1, <2>2, CalmOrChange
<1>3. Answering(t)'
  <2> USE <1>t DEF TypeOK, Goto
  <2>1. CASE Land(t)
    <3>1. req[t].op \in {"put", "get", "del", "range"}
          BY <2>1, RequestFacts DEF Land, IInv, Calls
    <3>2. CASE req[t].op = "range"  BY <2>1, <3>2, RangeStarts
    <3>3. CASE req[t].op # "range"
          BY <2>1, <3>1, <3>3 DEF Land, Answering
    <3> QED BY <3>2, <3>3
  <2>2. CASE RangeRow(t)
    <3>1. CASE x[t] = req[t].stop
          BY <2>2, <3>1 DEF RangeRow, Answering
    <3>2. CASE x[t] # req[t].stop  BY <2>2, <3>2, RangeGoesOn
    <3> QED BY <3>1, <3>2
  <2>3. CASE Invoke(t) \/ WrLock(t) \/ RdLock(t) \/ Search(t)
        BY <2>3 DEF Invoke, WrLock, RdLock, StartSearch, Search, Answering
  <2>4. CASE Return(t) \/ Unlock(t) \/ RangeEnd(t) \/ GetRead(t) \/ DelMiss(t) \/ DelHit(t)
        BY <2>4 DEF Return, Unlock, RangeEnd, GetRead, DelMiss, DelHit, Answer, Answering
  <2>5. CASE PutFree(t)
    <3>1. x[t] \in Keys  BY <2>5, RequestFacts DEF PutFree, Hit, IInv, Calls
    <3> QED BY <2>5, <3>1 DEF PutFree, Answering, locals
  <2>6. CASE PutNode(t)
    <3>1. req[t].key \in Keys  BY <2>6, RequestFacts DEF PutNode, IInv, Calls
    <3> QED BY <2>6, <3>1 DEF PutNode, Answering
  <2>7. CASE PutLink(t)  BY <2>7 DEF PutLink, Answering
  <2>8. CASE PutOverwrite(t) \/ PutCount(t) \/ DelCount(t)
        BY <2>8 DEF PutOverwrite, PutCount, DelCount, Answer, Answering
  <2>9. CASE DelUnlink(t) \/ DelShrink(t) \/ DelFree(t)
        BY <2>9 DEF DelUnlink, DelShrink, DelFree, Answering
  <2> QED BY <2>1, <2>2, <2>3, <2>4, <2>5, <2>6, <2>7, <2>8, <2>9 DEF Step
<1> QED BY <1>1, <1>2, <1>3 DEF Replies

-----------------------------------------------------------------------------
(* Every step is a step of the ordered map, or none                          *)

LEMMA OthersStay ==
    ASSUME IInv, Replies, NEW t \in Threads, Step(t)
    PROVE  /\ AbsStatus = [u \in Threads |-> StatusOf(u)] /\ AbsReply = [u \in Threads |-> ReplyOf(u)]
           /\ AbsStatus' = [AbsStatus EXCEPT ![t] = StatusOf(t)']
           /\ AbsReply' = [AbsReply EXCEPT ![t] = ReplyOf(t)']
<1>1. AbsStatus = [u \in Threads |-> StatusOf(u)] /\ AbsReply = [u \in Threads |-> ReplyOf(u)]
      BY DEF AbsStatus, AbsReply, StatusOf, ReplyOf
<1>2. AbsStatus' = [u \in Threads |-> StatusOf(u)'] /\ AbsReply' = [u \in Threads |-> ReplyOf(u)']
      BY DEF AbsStatus, AbsReply, StatusOf, ReplyOf
<1>3. ASSUME NEW u \in Threads, u # t
      PROVE  StatusOf(u)' = StatusOf(u) /\ ReplyOf(u)' = ReplyOf(u)
  <2>1. pc'[u] = pc[u] /\ i'[u] = i[u] /\ reply'[u] = reply[u]
        BY <1>3, StepFrame, ReplyFrame DEF IInv
  <2>2. Executed(u)' <=> Executed(u)  BY <2>1 DEF Executed
  <2> QED BY <2>1, <2>2 DEF StatusOf, ReplyOf
<1> QED BY <1>1, <1>2, <1>3

LEMMA IsStutter ==
    ASSUME IInv, Replies, NEW t \in Threads, Step(t), req' = req, AbsMap' = AbsMap,
           StatusOf(t)' = StatusOf(t), ReplyOf(t)' = ReplyOf(t)
    PROVE  UNCHANGED Map!vars
<1>1. closing' = closing  BY StepFrame DEF IInv
<1>2. AbsStatus' = AbsStatus /\ AbsReply' = AbsReply  BY OthersStay
<1>3. (closing.pc = "open")' = (closing.pc = "open")  BY <1>1
<1> QED BY <1>2, <1>3 DEF Map!vars

LEMMA IsExecute ==
    ASSUME IInv, Replies, NEW t \in Threads, Step(t), req' = req,
           AbsMap' = Map!MapAfter(AbsMap, req[t]),
           ~Executed(t), pc[t] # "idle", Executed(t)', pc'[t] # "idle",
           ReplyOf(t)' = Map!ReplyTo(AbsMap, req[t])
    PROVE  Map!Next
<1>1. closing' = closing  BY StepFrame DEF IInv
<1>2. StatusOf(t) = "called" /\ StatusOf(t)' = "done"  BY DEF StatusOf
<1>3. AbsStatus[t] = "called" /\ AbsStatus' = [AbsStatus EXCEPT ![t] = "done"]
      BY <1>2, OthersStay
<1>4. AbsReply' = [AbsReply EXCEPT ![t] = Map!ReplyTo(AbsMap, req[t])]  BY OthersStay
<1>5. (closing.pc = "open")' = (closing.pc = "open")  BY <1>1
<1>6. Map!Execute(t)  BY <1>3, <1>4, <1>5 DEF Map!Execute
<1> QED BY <1>6 DEF Map!Next

\* Looking leaves the map alone.
LEMMA CalmMap ==
    ASSUME IInv, IInv', NEW t \in Threads, Calm(t)
    PROVE  AbsMap' = AbsMap
<1>1. AbsMap = MapNow /\ AbsMap' = MapNow'  BY MapIs, MapIsNext
<1>2. UNCHANGED <<val, closing, Mem>>  BY CalmList DEF list, Content
<1>3. ASSUME NEW k \in Keys, k \in Mem[1], val[k] = Missing, closing.pc = "open"
      PROVE  req'[writer'].val = req[writer].val
  <2>0. 1 \in Levels  BY NodeFacts
  <2>1. nlev[k] >= 1 /\ nlev[k] \in Nat
        BY <2>0, <1>3, MemFacts, NodeFacts DEF IInv, Types, TypeOK
  <2>2. k \in Unset  BY <1>3, <2>1 DEF IInv, Shape, Filled
  <2>3. WPc = "overwrite"  BY <2>2 DEF Unset
  <2>4. pc[t] # "overwrite"
        BY DEF Calm, Invoke, Return, WrLock, RdLock, Search, Land, GetRead, DelMiss, DelHit,
               RangeRow, RangeEnd, Unlock
  <2>5. Step(t)  BY CalmOrChange
  <2>6. writer' = writer /\ (writer # NoOne => req'[writer] = req[writer])
        BY <2>3, <2>4, <2>5, WriterMoves
  <2>7. writer # NoOne  BY <2>3 DEF WPc
  <2> QED BY <2>6, <2>7
<1>4. MapNow' = MapNow  BY <1>2, <1>3 DEF MapNow
<1> QED BY <1>1, <1>4

\* What the map holds around a step of the writer.
LEMMA WriterMap ==
    ASSUME IInv, IInv', NEW t \in Threads, Change(t)
    PROVE  /\ AbsMap = [k \in Keys |-> IF k \notin Mem[1] THEN Missing
                                        ELSE IF val[k] = Missing THEN req[t].val ELSE val[k]]
           /\ AbsMap' = [k \in Keys |-> IF k \notin Mem'[1] THEN Missing
                                         ELSE IF val'[k] = Missing THEN req[t].val ELSE val'[k]]
           /\ req' = req /\ req[t].key \in Keys /\ writer = t /\ WPc = pc[t] /\ WPc' = pc'[t]
           /\ writer' = t /\ TypeOK
           /\ req[t].op = "put" => req[t].val \in Values /\ req[t].val # Missing
<1>1. AbsMap = MapNow /\ AbsMap' = MapNow'  BY MapIs, MapIsNext
<1>2. pc[t] \in Splicing \cup {"put", "del"} /\ UNCHANGED <<lock, req, closing>>  BY ChangeAlone
<1>3. /\ writer = t /\ writer' = t /\ closing.pc = "open" /\ closing' = closing
      /\ req[t].key \in Keys /\ WPc = pc[t] /\ WPc' = pc'[t] /\ TypeOK
      /\ req[t].op = "put" => req[t].val \in Values
      BY <1>2, WriterStep
<1>4. \A v \in Values : v # Missing  BY ValuesAssumption DEF Missing
<1>5. AbsMap = [k \in Keys |-> IF k \notin Mem[1] THEN Missing
                               ELSE IF val[k] = Missing THEN req[t].val ELSE val[k]]
      BY <1>1, <1>3 DEF MapNow
<1>6. AbsMap' = [k \in Keys |-> IF k \notin Mem'[1] THEN Missing
                                ELSE IF val'[k] = Missing THEN req[t].val ELSE val'[k]]
      BY <1>1, <1>2, <1>3 DEF MapNow
<1> QED BY <1>2, <1>3, <1>4, <1>5, <1>6

\* What is on the bottom level after a step of the writer.
LEMMA BottomAfter ==
    ASSUME IInv, IInv', NEW t \in Threads, Change(t)
    PROVE  Mem'[1] = IF PutLink(t) /\ i[t] = 1 THEN Mem[1] \cup {req[t].key}
                     ELSE IF DelUnlink(t) /\ i[t] = 1 THEN Mem[1] \ {req[t].key}
                     ELSE Mem[1]
<1>w. /\ WPc = pc[t] /\ WPc' = pc'[t] /\ writer = t /\ writer' = t /\ req' = req
      /\ req[t].key \in Keys /\ TypeOK
      BY WriterMap
<1>l. 1 \in Levels /\ Types'  BY NodeFacts DEF IInv
<1>m. Mem \in [Levels -> SUBSET Keys]  BY DEF Mem
<1>1. CASE PutLink(t)
  <2>1. Mem' = [Mem EXCEPT ![i[t]] = @ \cup {req[t].key}]  BY <1>1, <1>l, PutLinkKeeps
  <2>2. ~DelUnlink(t)  BY <1>1 DEF PutLink, DelUnlink
  <2> QED BY <1>1, <1>l, <1>m, <2>1, <2>2
<1>2. CASE DelUnlink(t)
  <2>1. Mem' = [Mem EXCEPT ![i[t]] = @ \ {req[t].key}]  BY <1>2, <1>l, DelUnlinkKeeps
  <2>2. ~PutLink(t)  BY <1>2 DEF PutLink, DelUnlink
  <2> QED BY <1>2, <1>l, <1>m, <2>1, <2>2
<1>3. CASE DelShrink(t) \/ DelFree(t)
  <2>1. Mem' = Mem  BY <1>3, <1>l, DelShrinkKeeps, DelFreeKeeps
  <2>2. ~PutLink(t) /\ ~DelUnlink(t)  BY <1>3 DEF PutLink, DelUnlink, DelShrink, DelFree
  <2> QED BY <2>1, <2>2
<1>4. CASE PutFree(t) \/ PutOverwrite(t) \/ PutCount(t) \/ DelCount(t)
  <2>1. /\ pc[t] \in {"put", "overwrite", "counted", "discounted"} /\ pc'[t] \in {"overwrite", "unlock"}
        /\ nlev' = nlev
        BY <1>4, <1>w DEF PutFree, PutOverwrite, PutCount, DelCount, Goto, Answer, TypeOK
  <2>2. \A k \in Keys, l \in Levels : ~Hidden(k, l) /\ ~Hidden(k, l)'  BY <1>w, <2>1 DEF Hidden
  <2>3. Mem' = Mem  BY <2>1, <2>2 DEF Mem
  <2>4. ~PutLink(t) /\ ~DelUnlink(t)  BY <2>1 DEF PutLink, DelUnlink
  <2> QED BY <2>3, <2>4
<1>5. CASE PutNode(t)
  <2>1. /\ pc[t] = "put" /\ ~Hit(t) /\ pc'[t] = "link" /\ i'[t] = 1
        /\ \A k \in Keys : k # req[t].key => nlev'[k] = nlev[k]
        BY <1>5, <1>w DEF PutNode, Goto, TypeOK
  <2>2. req[t].key \notin Mem[1]  BY <2>1, HitIsIn
  <2>3. \A k \in Keys : ~Hidden(k, 1) /\ (Hidden(k, 1)' <=> k = req[t].key)
        BY <1>w, <2>1 DEF Hidden
  <2>4. \A k \in Keys : k \in Mem[1] <=> nlev[k] >= 1  BY <1>l, <2>3, MemFacts
  <2>5. \A k \in Keys : k \in Mem'[1] <=> nlev'[k] >= 1 /\ k # req[t].key
        BY <1>l, <2>3 DEF Mem
  <2>6. Mem[1] \subseteq Keys /\ Mem'[1] \subseteq Keys  BY <1>l DEF Mem
  <2>7. Mem'[1] = Mem[1]
    <3> HIDE DEF Mem
    <3> QED BY <2>1, <2>2, <2>4, <2>5, <2>6
  <2>8. ~PutLink(t) /\ ~DelUnlink(t)  BY <2>1 DEF PutLink, DelUnlink
  <2> QED BY <2>7, <2>8
<1> QED BY <1>1, <1>2, <1>3, <1>4, <1>5 DEF Change

\* A put and a del that change the map do it in one step.
LEMMA ChangeSimulates ==
    ASSUME IInv, IInv', Replies, Replies', NEW t \in Threads, Change(t)
    PROVE  Map!Next \/ UNCHANGED Map!vars
<1> DEFINE k == req[t].key
           v == req[t].val
<1>s. Step(t)  BY CalmOrChange
<1>w. /\ AbsMap = [j \in Keys |-> IF j \notin Mem[1] THEN Missing
                                   ELSE IF val[j] = Missing THEN v ELSE val[j]]
      /\ AbsMap' = [j \in Keys |-> IF j \notin Mem'[1] THEN Missing
                                    ELSE IF val'[j] = Missing THEN v ELSE val'[j]]
      /\ req' = req /\ k \in Keys /\ writer = t /\ WPc = pc[t] /\ WPc' = pc'[t]
      /\ writer' = t /\ TypeOK
      /\ req[t].op = "put" => v \in Values /\ v # Missing
      BY WriterMap
<1>b. Mem'[1] = IF PutLink(t) /\ i[t] = 1 THEN Mem[1] \cup {k}
                ELSE IF DelUnlink(t) /\ i[t] = 1 THEN Mem[1] \ {k}
                ELSE Mem[1]
      BY BottomAfter
<1>a. Answering(t) /\ Answering(t)' /\ Calls /\ Cursor(t)  BY DEF Replies, IInv
<1>r. \A j \in Mem[1] : val[j] = Missing => pc[t] = "overwrite" /\ j = x[t]
  <2>1. 1 \in Levels /\ Unset = {j \in Keys : pc[t] = "overwrite" /\ j = x[t]}
        BY <1>w, NodeFacts DEF Unset
  <2>2. \A j \in Mem[1] : j \in Keys /\ nlev[j] > 0
        BY <1>w, <2>1, MemFacts, NodeFacts DEF TypeOK
  <2> QED BY <2>1, <2>2 DEF IInv, Shape, Filled
<1>p. /\ req[t].op = "put" => Map!MapAfter(AbsMap, req[t]) = [AbsMap EXCEPT ![k] = v]
      /\ req[t].op = "del" => Map!MapAfter(AbsMap, req[t]) = [AbsMap EXCEPT ![k] = Missing]
      /\ req[t].op = "put" => Map!ReplyTo(AbsMap, req[t]) = Reply(0, << >>)
      /\ req[t].op = "del" /\ AbsMap[k] # Missing => Map!ReplyTo(AbsMap, req[t]) = Reply(1, << >>)
      BY SameInterface DEF Map!MapAfter, Map!ReplyTo
<1> HIDE DEF k, v
<1>1. CASE PutFree(t)
  <2>1. /\ pc[t] = "put" /\ pc'[t] = "overwrite" /\ val' = [val EXCEPT ![x[t]] = Missing]
        /\ Hit(t) /\ reply' = reply
        BY <1>1, <1>w DEF PutFree, Goto, TypeOK
  <2>2. x[t] = k /\ k \in Mem[1] /\ req[t].op = "put"  BY <1>a, <2>1, HitIsIn DEF Hit, Calls, k
  <2>3. Mem'[1] = Mem[1]  BY <1>b, <1>1 DEF PutFree, PutLink, DelUnlink
  <2>4. AbsMap' = [AbsMap EXCEPT ![k] = v]
        BY <1>w, <1>r, <2>1, <2>2, <2>3 DEF TypeOK
  <2>5. ~Executed(t) /\ Executed(t)' /\ ReplyOf(t)' = Reply(0, << >>)
        BY <1>a, <2>1 DEF Executed, ReplyOf, Answering, NoReply
  <2> QED BY <1>s, <1>w, <1>p, <2>1, <2>2, <2>4, <2>5, IsExecute
<1>2. CASE PutOverwrite(t)
  <2>1. /\ pc[t] = "overwrite" /\ pc'[t] = "unlock" /\ val' = [val EXCEPT ![x[t]] = v]
        /\ reply'[t] = Reply(0, << >>)
        BY <1>2, <1>w DEF PutOverwrite, Answer, Goto, TypeOK, v, Replies
  <2>2. x[t] = k /\ req[t].op = "put" /\ val[k] = Missing
        BY <1>a, <2>1 DEF Cursor, Calls, Answering, k
  <2>3. Mem'[1] = Mem[1]  BY <1>b, <1>2 DEF PutOverwrite, PutLink, DelUnlink
  <2>4. AbsMap' = AbsMap  BY <1>w, <2>1, <2>2, <2>3 DEF TypeOK
  <2>5. StatusOf(t)' = StatusOf(t) /\ ReplyOf(t)' = ReplyOf(t)
        BY <1>a, <2>1 DEF Executed, ReplyOf, StatusOf, Answering, NoReply
  <2> QED BY <1>s, <1>w, <2>4, <2>5, IsStutter
<1>3. CASE PutNode(t)
  <2>1. /\ pc[t] = "put" /\ pc'[t] = "link" /\ i'[t] = 1 /\ val' = [val EXCEPT ![k] = v]
        /\ ~Hit(t) /\ reply' = reply
        BY <1>3, <1>w DEF PutNode, Goto, TypeOK, k, v
  <2>2. k \notin Mem[1]  BY <2>1, HitIsIn DEF k
  <2>3. Mem'[1] = Mem[1]  BY <1>b, <1>3 DEF PutNode, PutLink, DelUnlink
  <2>4. AbsMap' = AbsMap  BY <1>w, <2>1, <2>2, <2>3 DEF TypeOK
  <2>5. StatusOf(t)' = StatusOf(t) /\ ReplyOf(t)' = ReplyOf(t)
        BY <2>1 DEF Executed, ReplyOf, StatusOf
  <2> QED BY <1>s, <1>w, <2>4, <2>5, IsStutter
<1>4. CASE PutLink(t)
  <2>1. /\ pc[t] = "link" /\ val' = val /\ reply' = reply /\ req[t].op = "put"
        /\ pc'[t] = "counted" \/ (pc'[t] = "link" /\ i'[t] = i[t] + 1)
        BY <1>4, <1>w, <1>a DEF PutLink, Goto, TypeOK, Calls
  <2>2. i[t] \in Nat /\ i[t] >= 1  BY <1>a, <1>w, <2>1, NodeFacts DEF Cursor, TypeOK
  <2>3. val[k] = v /\ reply[t] = NoReply  BY <1>a, <2>1 DEF Answering, k, v
  <2>4. Executed(t)' /\ ReplyOf(t)' = Reply(0, << >>)
        BY <2>1, <2>2, <2>3 DEF Executed, ReplyOf, NoReply
  <2>5. CASE i[t] = 1
    <3>1. Mem'[1] = Mem[1] \cup {k}  BY <1>b, <1>4, <2>5
    <3>2. AbsMap' = [AbsMap EXCEPT ![k] = v]  BY <1>w, <2>1, <2>3, <3>1
    <3>3. ~Executed(t)  BY <2>1, <2>5 DEF Executed
    <3> QED BY <1>s, <1>w, <1>p, <2>1, <2>4, <3>2, <3>3, IsExecute
  <2>6. CASE i[t] # 1
    <3>1. Mem'[1] = Mem[1]  BY <1>b, <1>4, <2>6 DEF PutLink, DelUnlink
    <3>2. AbsMap' = AbsMap  BY <1>w, <2>1, <3>1
    <3>3. Executed(t)  BY <2>1, <2>2, <2>6 DEF Executed
    <3>4. StatusOf(t)' = StatusOf(t) /\ ReplyOf(t)' = ReplyOf(t)
          BY <2>1, <2>3, <2>4, <3>3 DEF StatusOf, ReplyOf, NoReply
    <3> QED BY <1>s, <1>w, <3>2, <3>4, IsStutter
  <2> QED BY <2>5, <2>6
<1>5. CASE PutCount(t) \/ DelCount(t)
  <2>1. /\ val' = val /\ pc'[t] = "unlock" /\ pc[t] \in {"counted", "discounted"}
        /\ pc[t] = "counted" => reply'[t] = Reply(0, << >>)
        /\ pc[t] = "discounted" => reply'[t] = Reply(1, << >>)
        BY <1>5, <1>w DEF PutCount, DelCount, Answer, Goto, TypeOK, Replies
  <2>2. Mem'[1] = Mem[1]  BY <1>b, <2>1 DEF PutLink, DelUnlink
  <2>3. AbsMap' = AbsMap  BY <1>w, <2>1, <2>2
  <2>4. StatusOf(t)' = StatusOf(t) /\ ReplyOf(t)' = ReplyOf(t)
        BY <1>a, <2>1 DEF Executed, ReplyOf, StatusOf, Answering, NoReply
  <2> QED BY <1>s, <1>w, <2>3, <2>4, IsStutter
<1>6. CASE DelUnlink(t)
  <2>1. /\ pc[t] = "unlink" /\ val' = val /\ req[t].op = "del"
        /\ pc'[t] = "shrink" \/ (pc'[t] = "unlink" /\ i'[t] = i[t] + 1)
        BY <1>6, <1>w, <1>a DEF DelUnlink, Goto, TypeOK, Calls
  <2>2. i[t] \in Nat /\ i[t] >= 1  BY <1>a, <1>w, <2>1, NodeFacts DEF Cursor, TypeOK
  <2>3. Executed(t)' /\ ReplyOf(t)' = Reply(1, << >>)
        BY <2>1, <2>2 DEF Executed, ReplyOf
  <2>4. CASE i[t] = 1
    <3>1. Mem'[1] = Mem[1] \ {k}  BY <1>b, <1>6, <2>4 DEF PutLink, DelUnlink
    <3>2. AbsMap' = [AbsMap EXCEPT ![k] = Missing]  BY <1>w, <2>1, <3>1
    <3>3. ~Executed(t)  BY <2>1, <2>4 DEF Executed
    <3>4. k \in Mem[1]
      <4>0. 1 \in Levels  BY NodeFacts
      <4>1. x[t] = k /\ x[t] # Nil /\ Allocated(x[t])
            BY <1>a, <1>w, <2>1, NodeFacts DEF Cursor, k
      <4>2. nlev[k] >= 1  BY <1>w, <4>1, NodeFacts DEF Allocated, TypeOK
      <4>3. ~Hidden(k, 1)  BY <1>w, <2>1, <2>4 DEF Hidden
      <4> QED BY <1>w, <4>0, <4>2, <4>3, MemFacts
    <3>5. AbsMap[k] # Missing  BY <1>w, <1>r, <2>1, <3>4
    <3> QED BY <1>s, <1>w, <1>p, <2>1, <2>3, <3>2, <3>3, <3>5, IsExecute
  <2>5. CASE i[t] # 1
    <3>1. Mem'[1] = Mem[1]  BY <1>b, <1>6, <2>5 DEF PutLink, DelUnlink
    <3>2. AbsMap' = AbsMap  BY <1>w, <2>1, <3>1
    <3>3. Executed(t)  BY <2>1, <2>2, <2>5 DEF Executed
    <3>4. StatusOf(t)' = StatusOf(t) /\ ReplyOf(t)' = ReplyOf(t)
          BY <2>1, <2>3, <3>3 DEF StatusOf, ReplyOf
    <3> QED BY <1>s, <1>w, <3>2, <3>4, IsStutter
  <2> QED BY <2>4, <2>5
<1>7. CASE DelShrink(t) \/ DelFree(t)
  <2>1. /\ pc[t] \in {"shrink", "free"} /\ pc'[t] \in {"free", "discounted"}
        /\ val' = val \/ val' = [val EXCEPT ![x[t]] = Missing]
        BY <1>7, <1>w DEF DelShrink, DelFree, FreeNode, Goto, TypeOK
  <2>2. x[t] = k  BY <1>a, <2>1 DEF Cursor, k
  <2>3. k \notin Mem[1]
    <3>0. 1 \in Levels  BY NodeFacts
    <3>1. Hidden(k, 1)  BY <1>w, <2>1, <2>2 DEF Hidden
    <3> QED BY <1>w, <3>0, <3>1, MemFacts
  <2>4. Mem'[1] = Mem[1]  BY <1>b, <2>1 DEF PutLink, DelUnlink
  <2>5. AbsMap' = AbsMap  BY <1>w, <2>1, <2>2, <2>3, <2>4 DEF TypeOK
  <2>6. StatusOf(t)' = StatusOf(t) /\ ReplyOf(t)' = ReplyOf(t)
        BY <2>1 DEF Executed, ReplyOf, StatusOf
  <2> QED BY <1>s, <1>w, <2>5, <2>6, IsStutter
<1> QED BY <1>1, <1>2, <1>3, <1>4, <1>5, <1>6, <1>7 DEF Change

\* The map while no value is being replaced.
LEMMA SettledMap ==
    ASSUME IInv, WPc # "overwrite", closing.pc = "open"
    PROVE  /\ AbsMap = [k \in Keys |-> IF k \notin Mem[1] THEN Missing ELSE val[k]]
           /\ \A k \in Mem[1] : k \in Keys /\ val[k] # Missing
<1>1. AbsMap = MapNow  BY MapIs
<1>2. \A k \in Mem[1] : k \in Keys /\ val[k] # Missing
  <2>1. 1 \in Levels /\ Unset = {}  BY NodeFacts DEF Unset
  <2>2. \A k \in Mem[1] : k \in Keys /\ nlev[k] > 0
        BY <2>1, MemFacts, NodeFacts DEF IInv, Types, TypeOK
  <2> QED BY <2>1, <2>2 DEF IInv, Shape, Filled
<1> QED BY <1>1, <1>2 DEF MapNow

\* A range that ends has the rows of one instant of the map.
LEMMA RangeReplies ==
    ASSUME IInv, Replies, NEW t \in Threads, pc[t] = "range", NEW D, NEW rows \in Rows,
           Lists(D, rows, val), D \subseteq Mem[1], req[t].limit \in Int,
           D \subseteq Visible(AbsMap, req[t]),
           \A d \in D : \A k \in Visible(AbsMap, req[t]) : k \notin D => d < k,
           \/ D = Visible(AbsMap, req[t]) /\ (req[t].limit <= 0 \/ Cardinality(D) <= req[t].limit)
           \/ req[t].limit > 0 /\ Cardinality(D) = req[t].limit
    PROVE  Map!ReplyTo(AbsMap, req[t]) =
               Reply(IF req[t].stop \in D THEN Cardinality(D) - 1 ELSE Cardinality(D), rows)
<1>1. Busy(t) /\ ~Writes(t) /\ req[t].op = "range"  BY DEF IInv, Calls, Busy, Writes
<1>2. WPc = "none" /\ closing.pc = "open"  BY <1>1, ReaderShares DEF IInv
<1>3. \A k \in Mem[1] : AbsMap[k] = val[k]  BY <1>2, SettledMap
<1>4. Lists(D, rows, AbsMap)
  <2>1. \A k \in D : AbsMap[k] = val[k]  BY <1>3
  <2> QED BY <2>1 DEF Lists
<1>5. Map!ReplyTo(AbsMap, req[t]) = Map!RangeReply(AbsMap, req[t])  BY <1>1 DEF Map!ReplyTo
<1>6. rows \in Seq(Keys \X Values)  BY DEF Rows
<1> QED BY <1>4, <1>5, <1>6, RangeIs

LEMMA RangeFacts ==
    ASSUME IInv, Replies, NEW t \in Threads, pc[t] = "range"
    PROVE  /\ closing.pc = "open" /\ req[t].op = "range" /\ WPc = "none"
           /\ req[t].lo \in Nat /\ req[t].hi \in Nat /\ req[t].limit \in Int /\ req[t].stop \in Int
           /\ reply[t] \in Replied /\ reply[t].rows \in Rows /\ reply[t].rc \in Nat
           /\ Answering(t)
           /\ x[t] = Nil \/ (x[t] \in Mem[1] /\ x[t] \in Keys /\ x[t] \in Nat)
           /\ InRange(AbsMap, req[t]) = {k \in Keys : k \in Mem[1] /\ req[t].lo <= k /\ k < req[t].hi}
<1>1. Busy(t) /\ ~Writes(t) /\ req[t].op = "range"  BY DEF IInv, Calls, Busy, Writes
<1>2. WPc = "none" /\ closing.pc = "open" /\ req[t] \in Request  BY <1>1, ReaderShares DEF IInv
<1>3. /\ req[t].lo \in Nat /\ req[t].hi \in Nat /\ req[t].limit \in Int /\ req[t].stop \in Int
      BY <1>1, <1>2, RequestFacts
<1>4. reply[t] \in Replied /\ reply[t].rows \in Rows /\ reply[t].rc \in Nat /\ Answering(t)
      BY DEF Replies, Replied, Rows
<1>5. x[t] = Nil \/ (x[t] \in Mem[1] /\ x[t] \in Keys /\ x[t] \in Nat)
      BY NodeFacts, MemFacts DEF IInv, Cursor, In
<1>6. \A k \in Keys : AbsMap[k] # Missing <=> k \in Mem[1]  BY <1>2, SettledMap
<1>7. InRange(AbsMap, req[t]) = {k \in Keys : k \in Mem[1] /\ req[t].lo <= k /\ k < req[t].hi}
      BY <1>6 DEF InRange
<1> QED BY <1>1, <1>2, <1>3, <1>4, <1>5, <1>7

LEMMA RangeEnds ==
    ASSUME IInv, Replies, NEW t \in Threads, RangeEnd(t)
    PROVE  reply[t] = Map!ReplyTo(AbsMap, req[t])
<1> DEFINE D == Got(t)
           r == req[t]
           In0 == InRange(AbsMap, r)
           V == Visible(AbsMap, r)
<1>0. pc[t] = "range" /\ ~RangeMore(t)  BY DEF RangeEnd
<1>1. /\ r.lo \in Nat /\ r.hi \in Nat /\ r.limit \in Int /\ r.stop \in Int
      /\ reply[t] \in Replied /\ reply[t].rows \in Rows /\ reply[t].rc \in Nat
      /\ x[t] = Nil \/ (x[t] \in Mem[1] /\ x[t] \in Keys /\ x[t] \in Nat)
      /\ In0 = {k \in Keys : k \in Mem[1] /\ r.lo <= k /\ k < r.hi}
      BY <1>0, RangeFacts
<1>2. /\ Lists(D, reply[t].rows, val) /\ reply[t].rc = Cardinality(D) /\ r.stop \notin D
      /\ \A k \in D : k < r.hi
      /\ r.limit <= 0 \/ reply[t].rc <= r.limit
      BY <1>0, RangeFacts DEF Answering
<1>3. D = {k \in Keys : k \in Mem[1] /\ r.lo <= k /\ (x[t] = Nil \/ k < x[t])}  BY DEF Got, In
<1>n. Keys \subseteq Nat  BY NodeFacts
<1>v. V = {k \in In0 : r.stop \in In0 => k <= r.stop}  BY DEF Visible
<1> HIDE DEF D, r, In0, V
<1>4. D \subseteq In0 /\ D \subseteq Mem[1]  BY <1>1, <1>2, <1>3
<1>5. \A k \in In0, d \in D : k \notin D => d < k
  <2> SUFFICES ASSUME NEW k \in In0, NEW d \in D, k \notin D PROVE d < k  OBVIOUS
  <2>1. k \in Nat /\ d \in Nat /\ x[t] # Nil /\ ~(k < x[t]) /\ d < x[t]  BY <1>1, <1>3, <1>n
  <2>2. x[t] \in Nat  BY <1>1, <2>1
  <2> QED BY <2>1, <2>2
<1>6. D \subseteq V
  <2> SUFFICES ASSUME NEW d \in D, r.stop \in In0 PROVE d <= r.stop  BY <1>4, <1>v
  <2>1. d < r.stop  BY <1>2, <1>5
  <2>2. d \in Nat /\ r.stop \in Int  BY <1>1, <1>3, <1>n
  <2> QED BY <2>1, <2>2
<1>7. \/ D = V /\ (r.limit <= 0 \/ Cardinality(D) <= r.limit)
      \/ r.limit > 0 /\ Cardinality(D) = r.limit
  <2>1. x[t] = Nil \/ ~(r.limit <= 0 \/ reply[t].rc < r.limit) \/ ~(x[t] < r.hi)
        BY <1>0 DEF RangeMore, r
  <2>2. CASE ~(r.limit <= 0 \/ reply[t].rc < r.limit)  BY <1>1, <1>2, <2>2
  <2>3. CASE x[t] = Nil \/ ~(x[t] < r.hi)
    <3>1. In0 \subseteq D
      <4> SUFFICES ASSUME NEW k \in In0 PROVE k \in D  OBVIOUS
      <4>1. k \in Keys /\ k \in Mem[1] /\ r.lo <= k /\ k < r.hi /\ k \in Nat  BY <1>1, <1>n
      <4>2. x[t] = Nil \/ k < x[t]  BY <1>1, <2>3, <4>1
      <4> QED BY <1>3, <4>1, <4>2
    <3>2. D = V  BY <1>4, <1>6, <1>v, <3>1
    <3> QED BY <1>2, <3>2
  <2> QED BY <2>1, <2>2, <2>3
<1>8. \A d \in D : \A k \in V : k \notin D => d < k  BY <1>5, <1>v
<1>9. Map!ReplyTo(AbsMap, r) = Reply(Cardinality(D), reply[t].rows)
  <2> USE DEF r, V
  <2>1. Map!ReplyTo(AbsMap, r) =
           Reply(IF r.stop \in D THEN Cardinality(D) - 1 ELSE Cardinality(D), reply[t].rows)
        BY <1>0, <1>1, <1>2, <1>4, <1>6, <1>7, <1>8, RangeReplies
  <2> QED BY <1>2, <2>1
<1>10. reply[t] = Reply(reply[t].rc, reply[t].rows)  BY <1>1 DEF Replied, Reply
<1> QED BY <1>2, <1>9, <1>10 DEF r

LEMMA RangeStops ==
    ASSUME IInv, Replies, NEW t \in Threads, RangeRow(t), x[t] = req[t].stop
    PROVE  reply'[t] = Map!ReplyTo(AbsMap, req[t])
<1> DEFINE D == Got(t) \cup {x[t]}
           r == req[t]
           rows == Append(reply[t].rows, <<x[t], val[x[t]]>>)
           In0 == InRange(AbsMap, r)
           V == Visible(AbsMap, r)
<1>0. /\ pc[t] = "range" /\ x[t] # Nil /\ x[t] < r.hi /\ (r.limit <= 0 \/ reply[t].rc < r.limit)
      /\ reply'[t] = Reply(reply[t].rc, rows)
      BY DEF RangeRow, RangeMore, Replies
<1>1. /\ r.lo \in Nat /\ r.hi \in Nat /\ r.limit \in Int /\ reply[t].rc \in Nat
      /\ x[t] \in Mem[1] /\ x[t] \in Keys /\ x[t] \in Nat
      /\ In0 = {k \in Keys : k \in Mem[1] /\ r.lo <= k /\ k < r.hi}
      BY <1>0, RangeFacts
<1>2. /\ reply[t].rc = Cardinality(Got(t)) /\ (\A k \in Got(t) : k < r.hi) /\ x[t] >= r.lo
      BY <1>0, RangeFacts DEF Answering
<1>3. Got(t) = {k \in Keys : k \in Mem[1] /\ r.lo <= k /\ k < x[t]}  BY <1>0 DEF Got, In
<1>4. Lists(D, rows, val) /\ rows \in Rows /\ Cardinality(D) = Cardinality(Got(t)) + 1  BY RowTaken
<1>n. Keys \subseteq Nat /\ r.stop = x[t]  BY NodeFacts
<1>v. V = {k \in In0 : r.stop \in In0 => k <= r.stop}  BY DEF Visible
<1>d. D = Got(t) \cup {x[t]}  OBVIOUS
<1> HIDE DEF D, r, In0, V, rows
<1>5. D \subseteq Mem[1] /\ r.stop \in D  BY <1>1, <1>3, <1>d, <1>n
<1>6. V = D
  <2>1. r.stop \in In0  BY <1>0, <1>1, <1>2, <1>n
  <2>2. V = {k \in In0 : k <= x[t]}  BY <1>v, <1>n, <2>1
  <2>3. ASSUME NEW k \in Keys, k \in Mem[1], r.lo <= k
        PROVE  (k < r.hi /\ k <= x[t]) <=> k < x[t] \/ k = x[t]
    <3>1. k \in Nat  BY <1>n
    <3> QED BY <1>0, <1>1, <3>1
  <2> QED BY <1>1, <1>2, <1>3, <1>d, <2>2, <2>3
<1>7. r.limit <= 0 \/ Cardinality(D) <= r.limit  BY <1>0, <1>1, <1>2, <1>4
<1>8. Map!ReplyTo(AbsMap, r) = Reply(Cardinality(D) - 1, rows)
  <2> USE DEF r, V
  <2>1. Map!ReplyTo(AbsMap, r) =
           Reply(IF r.stop \in D THEN Cardinality(D) - 1 ELSE Cardinality(D), rows)
        BY <1>0, <1>1, <1>4, <1>5, <1>6, <1>7, RangeReplies
  <2> QED BY <1>5, <2>1
<1>9. Cardinality(D) - 1 = reply[t].rc  BY <1>1, <1>2, <1>4
<1> QED BY <1>0, <1>8, <1>9 DEF r

LEMMA CalmSimulates ==
    ASSUME IInv, IInv', Replies, Replies', NEW t \in Threads, Calm(t)
    PROVE  Map!Next \/ UNCHANGED Map!vars
<1>s. Step(t) /\ AbsMap' = AbsMap  BY CalmOrChange, CalmMap
<1>t. TypeOK /\ Calls /\ Answering(t) /\ closing' = closing
      /\ reply \in [Threads -> Replied] /\ reply' \in [Threads -> Replied]
      BY <1>s, StepFrame DEF IInv, Types, Replies, Replied, Rows
<1>c. (closing.pc = "open")' = (closing.pc = "open")  BY <1>t
<1>1. CASE Invoke(t)
  <2>1. /\ pc[t] = "idle" /\ pc'[t] = "lock" /\ reply' = reply /\ left[t] > 0
        /\ \E r \in Request : req' = [req EXCEPT ![t] = r]
        BY <1>1, <1>t DEF Invoke, Goto, TypeOK
  <2>2. /\ StatusOf(t) = "idle" /\ StatusOf(t)' = "called"
        /\ ReplyOf(t) = NoReply /\ ReplyOf(t)' = NoReply
        BY <2>1 DEF StatusOf, ReplyOf, Executed
  <2>3. /\ AbsStatus[t] = "idle" /\ AbsStatus' = [AbsStatus EXCEPT ![t] = "called"]
        /\ AbsReply' = AbsReply
        BY <1>s, <2>2, OthersStay
  <2>4. closing.pc = "open"  BY <1>t, <2>1 DEF IInv, Closing, TypeOK
  <2>5. \E r \in Map!Request : req' = [req EXCEPT ![t] = r]  BY <2>1, SameInterface
  <2>6. Map!Invoke(t)  BY <1>s, <1>c, <2>3, <2>4, <2>5 DEF Map!Invoke
  <2> QED BY <2>6 DEF Map!Next
<1>2. CASE Return(t)
  <2>1. /\ pc[t] = "return" /\ pc'[t] = "idle" /\ req' = [req EXCEPT ![t] = NoRequest]
        BY <1>2, <1>t DEF Return, Goto, TypeOK
  <2>2. StatusOf(t) = "done" /\ StatusOf(t)' = "idle" /\ ReplyOf(t)' = NoReply
        BY <2>1 DEF StatusOf, ReplyOf, Executed
  <2>3. /\ AbsStatus[t] = "done" /\ AbsStatus' = [AbsStatus EXCEPT ![t] = "idle"]
        /\ AbsReply' = [AbsReply EXCEPT ![t] = NoReply]
        BY <1>s, <2>2, OthersStay
  <2>4. Map!Return(t)  BY <1>s, <1>c, <2>1, <2>3, SameInterface DEF Map!Return
  <2> QED BY <2>4 DEF Map!Next
<1>3. CASE WrLock(t) \/ RdLock(t) \/ Search(t)
  <2>1. /\ pc[t] \in {"lock", "search"} /\ pc'[t] = "search" /\ req' = req
        BY <1>3, <1>t DEF WrLock, RdLock, StartSearch, Search, Goto, TypeOK
  <2>2. StatusOf(t)' = StatusOf(t) /\ ReplyOf(t)' = ReplyOf(t)
        BY <2>1 DEF StatusOf, ReplyOf, Executed
  <2> QED BY <1>s, <2>1, <2>2, IsStutter
<1>4. CASE Land(t)
  <2>1. pc[t] = "search" /\ pc'[t] = req[t].op /\ req' = req
        BY <1>4, <1>t DEF Land, Goto, TypeOK
  <2>2. pc'[t] \in {"put", "get", "del", "range"}  BY <1>t, <2>1, RequestFacts DEF Calls
  <2>3. StatusOf(t)' = StatusOf(t) /\ ReplyOf(t)' = ReplyOf(t)
        BY <2>1, <2>2 DEF StatusOf, ReplyOf, Executed
  <2> QED BY <1>s, <2>1, <2>3, IsStutter
<1>5. CASE DelHit(t)
  <2>1. pc[t] = "del" /\ pc'[t] = "unlink" /\ i'[t] = 1 /\ req' = req
        BY <1>5, <1>t DEF DelHit, Goto, TypeOK
  <2>2. StatusOf(t)' = StatusOf(t) /\ ReplyOf(t)' = ReplyOf(t)
        BY <2>1 DEF StatusOf, ReplyOf, Executed
  <2> QED BY <1>s, <2>1, <2>2, IsStutter
<1>6. CASE Unlock(t)
  <2>1. pc[t] = "unlock" /\ pc'[t] = "return" /\ req' = req /\ reply' = reply
        BY <1>6, <1>t DEF Unlock, Goto, TypeOK
  <2>2. StatusOf(t)' = StatusOf(t) /\ ReplyOf(t)' = ReplyOf(t)
        BY <2>1 DEF StatusOf, ReplyOf, Executed
  <2> QED BY <1>s, <2>1, <2>2, IsStutter
<1>7. CASE GetRead(t)
  <2>1. /\ pc[t] = "get" /\ pc'[t] = "unlock" /\ req' = req /\ req[t].op = "get"
        /\ reply'[t] = IF Hit(t) THEN Reply(1, << <<x[t], val[x[t]]>> >>) ELSE Reply(0, << >>)
        BY <1>7, <1>t DEF GetRead, Answer, Goto, TypeOK, Calls
  <2>2. Busy(t) /\ ~Writes(t)  BY <2>1 DEF Busy, Writes
  <2>3. WPc = "none" /\ closing.pc = "open" /\ req[t] \in Request  BY <2>2, ReaderShares DEF IInv
  <2>4. req[t].key \in Keys  BY <2>1, <2>3, RequestFacts
  <2>5. IF Hit(t) THEN AbsMap[req[t].key] # Missing /\ AbsMap[req[t].key] = val[req[t].key]
                  ELSE AbsMap[req[t].key] = Missing
        BY <2>1, <2>3, <2>4, HitIsIn, SettledMap
  <2>6. Hit(t) => x[t] = req[t].key  BY DEF Hit
  <2>7. Map!ReplyTo(AbsMap, req[t]) = reply'[t]
        BY <2>1, <2>5, <2>6, SameInterface DEF Map!ReplyTo
  <2>8. Map!MapAfter(AbsMap, req[t]) = AbsMap  BY <2>1 DEF Map!MapAfter
  <2>9. ~Executed(t) /\ Executed(t)' /\ ReplyOf(t)' = reply'[t]
        BY <2>1 DEF Executed, ReplyOf
  <2> QED BY <1>s, <2>1, <2>7, <2>8, <2>9, IsExecute
<1>8. CASE DelMiss(t)
  <2>1. /\ pc[t] = "del" /\ pc'[t] = "unlock" /\ req' = req /\ req[t].op = "del" /\ ~Hit(t)
        /\ reply'[t] = Reply(0, << >>)
        BY <1>8, <1>t DEF DelMiss, Answer, Goto, TypeOK, Calls
  <2>2. Busy(t) /\ Writes(t)  BY <2>1 DEF Busy, Writes
  <2>3. WPc = "del" /\ closing.pc = "open" /\ req[t].key \in Keys
        BY <2>1, <2>2, WriterAlone DEF IInv
  <2>4. AbsMap[req[t].key] = Missing /\ AbsMap = [k \in Keys |-> AbsMap[k]]
        BY <2>1, <2>3, HitIsIn, SettledMap
  <2>5. Map!ReplyTo(AbsMap, req[t]) = reply'[t]
        BY <2>1, <2>4, SameInterface DEF Map!ReplyTo
  <2>6. Map!MapAfter(AbsMap, req[t]) = AbsMap
    <3>1. Map!MapAfter(AbsMap, req[t]) = [AbsMap EXCEPT ![req[t].key] = Missing]
          BY <2>1, SameInterface DEF Map!MapAfter
    <3> QED BY <2>3, <2>4, <3>1
  <2>7. ~Executed(t) /\ Executed(t)' /\ ReplyOf(t)' = reply'[t]
        BY <2>1 DEF Executed, ReplyOf
  <2> QED BY <1>s, <2>1, <2>5, <2>6, <2>7, IsExecute
<1>9. CASE RangeEnd(t) \/ (RangeRow(t) /\ x[t] = req[t].stop)
  <2>1. pc[t] = "range" /\ pc'[t] = "unlock" /\ req' = req /\ (RangeEnd(t) => reply' = reply)
        BY <1>9, <1>t DEF RangeEnd, RangeRow, Goto, TypeOK
  <2>2. reply'[t] = Map!ReplyTo(AbsMap, req[t])  BY <1>9, <2>1, RangeEnds, RangeStops
  <2>3. Map!MapAfter(AbsMap, req[t]) = AbsMap  BY <1>t, <2>1 DEF Map!MapAfter, Calls
  <2>4. ~Executed(t) /\ Executed(t)' /\ ReplyOf(t)' = reply'[t]
        BY <2>1 DEF Executed, ReplyOf
  <2> QED BY <1>s, <2>1, <2>2, <2>3, <2>4, IsExecute
<1>10. CASE RangeRow(t) /\ x[t] # req[t].stop
  <2>1. pc[t] = "range" /\ pc' = pc /\ req' = req
        BY <1>10 DEF RangeRow
  <2>2. StatusOf(t)' = StatusOf(t) /\ ReplyOf(t)' = ReplyOf(t)
        BY <2>1 DEF StatusOf, ReplyOf, Executed
  <2> QED BY <1>s, <2>1, <2>2, IsStutter
<1> QED BY <1>1, <1>2, <1>3, <1>4, <1>5, <1>6, <1>7, <1>8, <1>9, <1>10 DEF Calm

\* sl_close empties the map when it begins.
LEMMA CloseSimulates ==
    ASSUME IInv, CloseStep
    PROVE  Map!Next \/ UNCHANGED Map!vars
<1>1. UNCHANGED <<pc, req, reply, i>> /\ closing'.pc # "open"
      BY DEF CloseStep, CloseStart, CloseFree, CloseEnd, list, locals, IInv, Types
<1>2. AbsStatus' = AbsStatus /\ AbsReply' = AbsReply
  <2>1. \A t \in Threads : Executed(t)' <=> Executed(t)  BY <1>1 DEF Executed
  <2> QED BY <1>1, <2>1 DEF AbsStatus, AbsReply
<1>3. AbsMap' = [k \in Keys |-> Missing]  BY <1>1 DEF AbsMap
<1>4. CASE CloseStart
  <2>1. closing.pc = "open" /\ \A t \in Threads : AbsStatus[t] = "idle"
        BY <1>4 DEF CloseStart, AbsStatus
  <2>2. Map!Close
        BY <1>1, <1>2, <1>3, <2>1, SameInterface DEF Map!Close
  <2> QED BY <2>2 DEF Map!Next
<1>5. CASE CloseFree \/ CloseEnd
  <2>1. closing.pc # "open"  BY <1>5 DEF CloseFree, CloseEnd
  <2>2. AbsMap = [k \in Keys |-> Missing]  BY <2>1 DEF AbsMap
  <2>3. (closing.pc = "open")' = (closing.pc = "open")  BY <1>1, <2>1
  <2> QED BY <1>1, <1>2, <1>3, <2>2, <2>3 DEF Map!vars
<1> QED BY <1>4, <1>5 DEF CloseStep

LEMMA InitSimulates == Init => Map!Init /\ Replies
<1> SUFFICES ASSUME Init PROVE Map!Init /\ Replies  OBVIOUS
<1>1. AbsMap = [k \in Keys |-> Missing]
  <2>1. \A k \in Keys : ~Linked(k)  BY NodeFacts DEF Init, Linked
  <2> QED BY <2>1 DEF AbsMap
<1>2. AbsStatus = [t \in Threads |-> "idle"]  BY DEF AbsStatus, Init
<1>3. AbsReply = [t \in Threads |-> NoReply]  BY DEF AbsReply, Init, Executed
<1>4. Map!Init  BY <1>1, <1>2, <1>3, SameInterface DEF Map!Init, Init
<1>5. Replies
  <2>1. NoReply \in [rc : Nat, rows : Seq(Keys \X Values)]  BY DEF NoReply, Reply
  <2> QED BY <2>1 DEF Init, Replies, Answering
<1> QED BY <1>4, <1>5

LEMMA IdleReplies ==
    ASSUME Replies, UNCHANGED <<reply, pc>>, \A t \in Threads : pc[t] = "idle"
    PROVE  Replies'
BY DEF Replies, Answering

LEMMA StutterReplies ==
    ASSUME IInv, Replies, UNCHANGED vars
    PROVE  Replies' /\ UNCHANGED Map!vars
<1>1. UNCHANGED <<next, nlev, val, level, count, readers, writer, pc, req, reply, left, x, i,
                  update, closing>>
      BY DEF vars, list, lock, locals
<1>2. Mem' = Mem
  <2>1. WPc' = WPc  BY <1>1 DEF WPc
  <2>2. \A k \in Keys, l \in Levels : Hidden(k, l)' <=> Hidden(k, l)  BY <1>1, <2>1 DEF Hidden
  <2> QED BY <1>1, <2>2 DEF Mem
<1>3. Replies'  BY <1>1, <1>2, StillAnswering DEF Replies
<1>4. AbsMap' = AbsMap /\ AbsStatus' = AbsStatus /\ AbsReply' = AbsReply
  <2>1. \A k \in Keys : Linked(k)' <=> Linked(k)  BY <1>1 DEF Linked
  <2>2. \A t \in Threads : Executed(t)' <=> Executed(t)  BY <1>1 DEF Executed
  <2> QED BY <1>1, <2>1, <2>2 DEF AbsMap, AbsStatus, AbsReply
<1>5. (closing.pc = "open")' = (closing.pc = "open")  BY <1>1
<1> QED BY <1>1, <1>3, <1>4, <1>5 DEF Map!vars

LEMMA ReplyInvariant == Spec => []Replies
<1>1. ASSUME IInv, IInv', Replies, [Next]_vars PROVE Replies'
  <2>1. ASSUME NEW t \in Threads, Step(t) PROVE Replies'
        BY <1>1, <2>1, RepliesStep DEF IInv
  <2>2. CASE CloseStep
    <3>1. \A t \in Threads : pc[t] = "idle"
          BY <1>1, <2>2 DEF CloseStep, CloseStart, CloseFree, CloseEnd, IInv, Closing
    <3>2. UNCHANGED <<reply, pc>>
          BY <2>2 DEF CloseStep, CloseStart, CloseFree, CloseEnd
    <3> QED BY <1>1, <3>1, <3>2, IdleReplies
  <2>3. CASE Closed \/ UNCHANGED vars  BY <1>1, <2>3, StutterReplies DEF Closed
  <2> QED BY <1>1, <2>1, <2>2, <2>3 DEF Next
<1>2. Init => Replies  BY InitSimulates
<1> QED BY <1>1, <1>2, ListInvariant, PTL DEF Spec

\* skiplist.c is an atomic ordered map: every put, get, del and range of every thread
\* takes effect at one instant between its call and its return, a range with all its
\* rows at once, and sl_close ends it.
THEOREM ListIsOrderedMap == Spec => ImplementsOrderedMap
<1>1. ASSUME IInv, IInv', Replies, Replies', [Next]_vars PROVE [Map!Next]_(Map!vars)
  <2>1. ASSUME NEW t \in Threads, Step(t) PROVE Map!Next \/ UNCHANGED Map!vars
        BY <1>1, <2>1, CalmSimulates, ChangeSimulates, CalmOrChange
  <2>2. CASE CloseStep  BY <1>1, <2>2, CloseSimulates
  <2>3. CASE Closed \/ UNCHANGED vars  BY <1>1, <2>3, StutterReplies DEF Closed
  <2> QED BY <1>1, <2>1, <2>2, <2>3 DEF Next
<1>2. Init => Map!Init  BY InitSimulates
<1> QED BY <1>1, <1>2, ListInvariant, ReplyInvariant, PTL DEF Spec, ImplementsOrderedMap, Map!Spec
=============================================================================
