-------------------------------- MODULE Store --------------------------------
(***************************************************************************)
(* A kv verb on its way to the engine and back: the verbs of               *)
(* src/src/kvlua.c, the retry and batch loops of src/src/store.c and the   *)
(* write paths of the three backends. An engine call succeeds, stalls      *)
(* (KV_RETRY: the store backs off and calls again) or fails; the skip list *)
(* only succeeds. TidesDB stages every write in a transaction, key by key, *)
(* and commits it; RocksDB does so with the write batch of mput and mdel   *)
(* only, where nothing but the write can stall or fail. "minimal" stands   *)
(* for any backend with only the required entries of the vtable.           *)
(*                                                                         *)
(* The engines themselves are external: a commit, or a single write, takes *)
(* effect as a whole or not at all. What is staged, when it is committed   *)
(* and what is freed is the backends'. A put of thread t stores t.         *)
(***************************************************************************)
EXTENDS Integers, Sequences, FiniteSets

CONSTANTS Threads,    \* the workers
          Keys,       \* the key space
          Calls,      \* the verbs made: records [verb, keys], keys a sequence
          Engines,    \* the backends considered
          Budget,     \* the verbs each worker makes (a bound)
          MaxStalls   \* the KV_RETRYs of an engine before it recovers (a bound)

ASSUME CallsAssumption ==
    Calls \subseteq [verb : {"put", "get", "del", "mput", "mget", "mdel"}, keys : Seq(Keys) \ {<< >>}]
ASSUME EnginesAssumption == Engines \subseteq {"skiplist", "rocksdb", "tidesdb", "minimal"}
ASSUME BoundsAssumption == Budget \in [Threads -> Nat] /\ MaxStalls \in Nat

Absent == "absent"
Idle   == [verb |-> "none", keys |-> << >>]

VARIABLES
    engine,  \* the backend of the run
    db,      \* what it holds: per key a thread's value, or Absent
    stalls,  \* the stalls it has left
    pc,      \* per thread: "idle", "engine", "batch", "record"
    call,    \* per thread: the verb under way
    at,      \* per thread: the key its loop is on
    rc,      \* per thread: the return code so far
    staged,  \* per thread: the places, among the call's keys, of those in its
             \* transaction or write batch
    lent,    \* per thread: the transactions and write batches not freed yet
    applied, \* per thread: per key of the call, the times the engine applied it
    found,   \* per thread: per key of the call, what get returned: 1, 0, -1
    stats,   \* per thread: op_stats
    made     \* per thread: the calls made, the keys they named, the lookups among
             \* them and those that found nothing there (a history variable)

vars == <<engine, db, stalls, pc, call, at, rc, staged, lent, applied, found, stats, made>>

Init ==
    /\ engine \in Engines
    /\ db = [k \in Keys |-> Absent]
    /\ stalls = IF engine = "skiplist" THEN 0 ELSE MaxStalls
    /\ pc = [t \in Threads |-> "idle"]
    /\ call = [t \in Threads |-> Idle]
    /\ at = [t \in Threads |-> 1]
    /\ rc = [t \in Threads |-> 0]
    /\ staged = [t \in Threads |-> {}]
    /\ lent = [t \in Threads |-> 0]
    /\ applied = [t \in Threads |-> << >>]
    /\ found = [t \in Threads |-> << >>]
    /\ stats = [t \in Threads |-> [samples |-> 0, prim |-> 0,
                                   hits |-> 0, misses |-> 0, errors |-> 0]]
    /\ made = [t \in Threads |-> [calls |-> 0, keys |-> 0, lookups |-> 0, absent |-> 0]]

NKeys(t) == Len(call[t].keys)
Deletes(t) == call[t].verb \in {"del", "mdel"}
Reads(t)   == call[t].verb \in {"get", "mget"}
Goto(t, label) == pc' = [pc EXCEPT ![t] = label]

\* A verb: its arguments are read off the Lua stack.
Call(t) ==
    /\ pc[t] = "idle" /\ made[t].calls < Budget[t]
    /\ \E c \in Calls :
         /\ call' = [call EXCEPT ![t] = c]
         /\ applied' = [applied EXCEPT ![t] = [a \in 1 .. Len(c.keys) |-> 0]]
         /\ made' = [made EXCEPT ![t] =
               [calls |-> @.calls + 1, keys |-> @.keys + Len(c.keys), absent |-> @.absent,
                lookups |-> @.lookups + (IF c.verb \in {"get", "mget"} THEN Len(c.keys) ELSE 0)]]
    /\ at' = [at EXCEPT ![t] = 1]
    /\ rc' = [rc EXCEPT ![t] = 0]
    /\ found' = [found EXCEPT ![t] = << >>]
    /\ Goto(t, "engine")
    /\ UNCHANGED <<engine, db, stalls, staged, lent, stats>>

HasBatch == engine \in {"rocksdb", "tidesdb"}
MayFail  == engine # "skiplist"

\* The keys one call of the vtable writes: a batch goes in one call to an
\* engine that has putbatch and delbatch, and key by key to one that has not.
Batched(t) == call[t].verb \in {"mput", "mdel"} /\ HasBatch

Chunk(t) == IF Batched(t) THEN at[t] .. NKeys(t) ELSE {at[t]}

\* The engine applies the keys at S: what db and the history become.
Apply(t, S) ==
    /\ db' = [k \in Keys |->
                IF \E a \in S : call[t].keys[a] = k
                THEN (IF Deletes(t) THEN Absent ELSE t) ELSE db[k]]
    /\ applied' = [applied EXCEPT ![t] =
                     [a \in 1 .. NKeys(t) |-> @[a] + (IF a \in S THEN 1 ELSE 0)]]

Advance(t) == at' = [at EXCEPT ![t] = IF Batched(t) THEN NKeys(t) + 1 ELSE @ + 1]

Writing(t) == pc[t] = "engine" /\ ~Reads(t) /\ at[t] <= NKeys(t)

\* Whether the write is staged before the engine sees it.
Stages(t) == engine = "tidesdb" \/ (engine = "rocksdb" /\ Batched(t))

\* What the backend's del returns for a key, deleted: rdb_del and
\* tdb_del say 1 whether it was there or not.
DelReply(k) == IF ~HasBatch /\ db[k] = Absent THEN 0 ELSE 1
Replied(t) ==
    rc' = IF call[t].verb = "del" THEN [rc EXCEPT ![t] = DelReply(call[t].keys[1])] ELSE rc

\* A write that is one call of the engine succeeds.
WriteOk(t) ==
    /\ Writing(t) /\ ~Stages(t)
    /\ Apply(t, Chunk(t)) /\ Advance(t) /\ Replied(t)
    /\ UNCHANGED <<engine, stalls, pc, call, staged, lent, found, stats, made>>

\* A transaction is begun, or a write batch created.
Begin(t) ==
    /\ Writing(t) /\ Stages(t)
    /\ lent' = [lent EXCEPT ![t] = @ + 1]
    /\ Goto(t, "batch")
    /\ UNCHANGED <<engine, db, stalls, call, at, rc, staged, applied, found, stats, made>>

\* The next key of the loop is put in it.
Stage(t) ==
    /\ pc[t] = "batch"
    /\ \E a \in Chunk(t) \ staged[t] :
         /\ \A b \in Chunk(t) \ staged[t] : a <= b
         /\ staged' = [staged EXCEPT ![t] = @ \cup {a}]
    /\ UNCHANGED <<engine, db, stalls, pc, call, at, rc, lent, applied, found, stats, made>>

\* It is freed, however the write went.
\* Mutant: not when the staging loop was left early.
GivenBack_AfterCommit(t) ==
    /\ lent' = [lent EXCEPT ![t] = IF pc[t] = "batch" /\ staged[t] = Chunk(t) THEN @ - 1 ELSE @]
    /\ staged' = [staged EXCEPT ![t] = {}]
GivenBack(t) ==
    /\ lent' = [lent EXCEPT ![t] = IF pc[t] = "batch" THEN @ - 1 ELSE @]
    /\ staged' = [staged EXCEPT ![t] = {}]

\* Committed once every key is in it: a key that could not be staged ends the
\* loop with the code that keeps the commit from being called.
\* Mutant: called whatever the loop came to.
Commits_Anyway(t) == TRUE
Commits(t) == staged[t] = Chunk(t)

Commit(t) ==
    /\ pc[t] = "batch" /\ Commits(t)
    /\ Apply(t, staged[t]) /\ Advance(t) /\ Replied(t) /\ GivenBack(t)
    /\ Goto(t, "engine")
    /\ UNCHANGED <<engine, stalls, call, found, stats, made>>

\* Where a write may stall or fail: at its only call; with TidesDB at the begin,
\* at any key staged and at the commit; with a write batch at its write alone.
Stumbles(t) ==
    \/ Writing(t) /\ (Stages(t) => engine = "tidesdb")
    \/ pc[t] = "batch" /\ (engine = "tidesdb" \/ staged[t] = Chunk(t))

\* A stall: KV_RETRY, store_backoff, and again from the start, with nothing
\* applied.
\* Mutant: a stalled write taken for a failed one, dropped.
Retried_Dropped(t) == Advance(t)
Retried(t) == UNCHANGED at

Stall(t) ==
    /\ Stumbles(t)
    /\ stalls > 0
    /\ stalls' = stalls - 1
    /\ Retried(t) /\ GivenBack(t)
    /\ Goto(t, "engine")
    /\ UNCHANGED <<engine, db, call, rc, applied, found, stats, made>>

\* A failure is not tried again: a loop over the keys goes on with the next.
\* Mutant: retried like a stall.
GivenUp_Retried(t) == UNCHANGED at
GivenUp(t) == Advance(t)

\* A failure: -1, but 0 from rdb_del and tdb_del.
WriteFail(t) ==
    /\ Stumbles(t)
    /\ MayFail
    /\ rc' = [rc EXCEPT ![t] = IF call[t].verb = "del" /\ HasBatch THEN 0 ELSE -1]
    /\ GivenUp(t) /\ GivenBack(t)
    /\ Goto(t, "engine")
    /\ UNCHANGED <<engine, db, stalls, call, applied, found, stats, made>>

\* store_get, once for each key: found, absent, or an engine that failed.
Read(t) ==
    /\ pc[t] = "engine" /\ Reads(t) /\ at[t] <= NKeys(t)
    /\ LET there == db[call[t].keys[at[t]]] # Absent IN
         \/ /\ found' = [found EXCEPT ![t] = Append(@, IF there THEN 1 ELSE 0)]
            /\ made' = [made EXCEPT ![t].absent = IF there THEN @ ELSE @ + 1]
         \/ MayFail /\ found' = [found EXCEPT ![t] = Append(@, -1)] /\ UNCHANGED made
    /\ at' = [at EXCEPT ![t] = @ + 1]
    /\ UNCHANGED <<engine, db, stalls, pc, call, rc, staged, lent, applied, stats>>

\* How many of the lookups came back as v.
Times(t, v) == Cardinality({a \in 1 .. Len(found[t]) : found[t][a] = v})

\* prim_ops counts the keys of a batch, the histogram one sample.
\* What get_misses counts.
\* Mutant: a failed lookup too.
Misses_WithErrors(t) == Times(t, 0) + Times(t, -1)
Misses(t) == Times(t, 0)

\* The verb returns: one latency sample, its primitive operations, and for
\* reads what became of each key. What a write returned is not looked at.
Record(t) ==
    /\ pc[t] = "engine" /\ at[t] > NKeys(t)
    /\ stats' = [stats EXCEPT ![t] =
                   [samples |-> @.samples + 1, prim |-> @.prim + NKeys(t),
                    hits |-> @.hits + Times(t, 1), misses |-> @.misses + Misses(t),
                    errors |-> @.errors + Times(t, -1)]]
    /\ Goto(t, "record")
    /\ UNCHANGED <<engine, db, stalls, call, at, rc, staged, lent, applied, found, made>>

Return(t) ==
    /\ pc[t] = "record"
    /\ call' = [call EXCEPT ![t] = Idle]
    /\ applied' = [applied EXCEPT ![t] = << >>]
    /\ found' = [found EXCEPT ![t] = << >>]
    /\ at' = [at EXCEPT ![t] = 1]
    /\ rc' = [rc EXCEPT ![t] = 0]
    /\ Goto(t, "idle")
    /\ UNCHANGED <<engine, db, stalls, staged, lent, stats, made>>

Step(t) ==
    \/ Call(t) \/ WriteOk(t) \/ Begin(t) \/ Stage(t) \/ Commit(t) \/ Stall(t) \/ WriteFail(t)
    \/ Read(t) \/ Record(t) \/ Return(t)

\* The workers are done.
Done == (\A t \in Threads : pc[t] = "idle" /\ made[t].calls = Budget[t]) /\ UNCHANGED vars

Next == (\E t \in Threads : Step(t)) \/ Done

Spec == Init /\ [][Next]_vars

FairSpec == Spec /\ \A t \in Threads : WF_vars(Step(t))

-----------------------------------------------------------------------------
(* Properties                                                                *)

\* A write through the retry loops happens once or not at all: when the verb
\* returns, a code of success means every key was applied exactly once, one
\* of failure that some key was not, and nothing was ever applied twice,
\* however many stalls came in between.
WrittenOnce ==
    \A t \in Threads : pc[t] = "record" /\ call[t].verb \in {"put", "mput", "mdel"} =>
        /\ \A a \in 1 .. NKeys(t) : applied[t][a] <= 1
        /\ rc[t] = 0 <=> \A a \in 1 .. NKeys(t) : applied[t][a] = 1

\* A batch is one write of one transaction. The loop that stages it key by key may
\* end at any key, with the transaction half full, and then start over; still no
\* more and no less than a whole mput or mdel is ever committed, no key of it having
\* been applied oftener than another, and each transaction or write batch is freed
\* once, none being left between two tries or after the verb. (That one commit takes
\* effect as a whole is the engine's.)
BatchIsOneWrite ==
    \A t \in Threads :
        /\ HasBatch /\ call[t].verb \in {"mput", "mdel"} =>
              \A a, b \in 1 .. NKeys(t) : applied[t][a] = applied[t][b]
        /\ lent[t] = IF pc[t] = "batch" THEN 1 ELSE 0

\* The statistics of a worker add up between verbs: one sample for each, a
\* primitive operation for each key, every lookup a hit, a miss or an error,
\* and a miss exactly where the key was not there: an engine that fails its
\* lookups does not pass for one that lost its keys.
StatsAddUp ==
    \A t \in Threads : pc[t] = "idle" =>
        /\ stats[t].samples = made[t].calls
        /\ stats[t].prim = made[t].keys
        /\ stats[t].hits + stats[t].misses + stats[t].errors = made[t].lookups
        /\ stats[t].misses = made[t].absent

\* Every verb returns, once the engine has no stalls left: the retry loops do
\* not spin for ever, nor wait on one another.
VerbsReturn == <>(\A t \in Threads : pc[t] = "idle" /\ made[t].calls = Budget[t])

\* kv.del answers whether the key was there.
DelTellsExistence ==
    [][\A t \in Threads :
         call[t].verb = "del" /\ applied'[t] # applied[t] /\ call'[t] = call[t] =>
            (rc'[t] = 1 <=> db[call[t].keys[1]] # Absent)]_vars
=============================================================================
