------------------------------ MODULE StoreProofs ------------------------------
(***************************************************************************)
(* What Store promises for any number of workers, keys, verbs and stalls;  *)
(* and, in the last parts, what Scan promises of ranges and scans.         *)
(***************************************************************************)
EXTENDS Store, Scan, CountingProofs, SequenceTheorems, TLAPS

Answers == {-1, 0, 1}

TypeOK ==
    /\ engine \in Engines
    /\ db \in [Keys -> Threads \cup {Absent}]
    /\ stalls \in Nat
    /\ pc \in [Threads -> {"idle", "engine", "batch", "record"}]
    /\ call \in [Threads -> Calls \cup {Idle}]
    /\ at \in [Threads -> Nat]
    /\ rc \in [Threads -> Answers]
    /\ staged \in [Threads -> SUBSET Nat]
    /\ lent \in [Threads -> Nat]
    /\ DOMAIN applied = Threads
    /\ \A t \in Threads : applied[t] \in [1 .. NKeys(t) -> Nat]
    /\ found \in [Threads -> Seq(Answers)]
    /\ stats \in [Threads -> [samples : Nat, prim : Nat, hits : Nat, misses : Nat, errors : Nat]]
    /\ made \in [Threads -> [calls : Nat, keys : Nat, lookups : Nat, absent : Nat]]

\* Where the loop over the keys of a verb is: a batch that is one call of the
\* engine is before it or behind it.
Placed(t) ==
    /\ pc[t] = "idle" <=> call[t] = Idle
    /\ at[t] \in 1 .. NKeys(t) + 1
    /\ pc[t] = "batch" => ~Reads(t) /\ at[t] <= NKeys(t)
    /\ pc[t] = "record" => at[t] = NKeys(t) + 1
    /\ Batched(t) => at[t] \in {1, NKeys(t) + 1}

\* What the engine has of the keys: none of those to come, each of the others
\* once or not at all, and then the return code says so.
Once(t) ==
    /\ \A a \in 1 .. NKeys(t) : IF a < at[t] THEN applied[t][a] <= 1 ELSE applied[t][a] = 0
    /\ call[t].verb \in {"put", "mput", "mdel"} =>
          (rc[t] = 0 <=> \A a \in 1 .. NKeys(t) : a < at[t] => applied[t][a] = 1)
    /\ Batched(t) => \A a, b \in 1 .. NKeys(t) : applied[t][a] = applied[t][b]

\* What is staged is of the write under way, and only within it.
InBatch(t) ==
    IF pc[t] = "batch" THEN staged[t] \subseteq Chunk(t) /\ lent[t] = 1
                       ELSE staged[t] = {} /\ lent[t] = 0

\* The answers of the lookups made so far.
Answered(t) == Len(found[t]) = IF Reads(t) THEN at[t] - 1 ELSE 0

\* The statistics lack what the verb under way will add.
Tallied(t) ==
    LET open == pc[t] \in {"engine", "batch"}
        Owed(m) == IF open THEN m ELSE 0
    IN  /\ stats[t].samples + Owed(1) = made[t].calls
        /\ stats[t].prim + Owed(NKeys(t)) = made[t].keys
        /\ stats[t].hits + stats[t].misses + stats[t].errors
              + Owed(IF Reads(t) THEN NKeys(t) ELSE 0) = made[t].lookups
        /\ stats[t].misses + Owed(Times(t, 0)) = made[t].absent

IInv ==
    TypeOK /\ \A t \in Threads : Placed(t) /\ Once(t) /\ InBatch(t) /\ Answered(t) /\ Tallied(t)

-----------------------------------------------------------------------------
(* Counting the answers                                                      *)

Having(s, v) == {a \in 1 .. Len(s) : s[a] = v}

LEMMA HavingIsFinite ==
    ASSUME NEW s \in Seq(Answers), NEW v
    PROVE  IsFiniteSet(Having(s, v)) /\ Cardinality(Having(s, v)) \in Nat
<1>1. IsFiniteSet(1 .. Len(s))  BY FS_Interval
<1>2. Having(s, v) \subseteq 1 .. Len(s)  BY DEF Having
<1> QED BY <1>1, <1>2, FS_Subset, FS_CardinalityType

LEMMA HavingMore ==
    ASSUME NEW s \in Seq(Answers), NEW w \in Answers, NEW v
    PROVE  Cardinality(Having(Append(s, w), v)) =
               Cardinality(Having(s, v)) + (IF w = v THEN 1 ELSE 0)
<1> DEFINE len == Len(s)
<1>1. len \in Nat /\ Len(Append(s, w)) = len + 1  OBVIOUS
<1>2. \A a \in 1 .. len : Append(s, w)[a] = s[a]  OBVIOUS
<1>3. Append(s, w)[len + 1] = w  OBVIOUS
<1>4. IsFiniteSet(Having(s, v)) /\ Cardinality(Having(s, v)) \in Nat  BY HavingIsFinite
<1> HIDE DEF len
<1>5. len + 1 \notin Having(s, v)  BY <1>1 DEF Having, len
<1>6. CASE w = v
  <2>1. Having(Append(s, w), v) = Having(s, v) \cup {len + 1}
        BY <1>1, <1>2, <1>3, <1>6 DEF Having, len
  <2> QED BY <1>4, <1>5, <1>6, <2>1, FS_AddElement
<1>7. CASE w # v
  <2>1. Having(Append(s, w), v) = Having(s, v)
        BY <1>1, <1>2, <1>3, <1>7 DEF Having, len
  <2> QED BY <1>4, <1>7, <2>1
<1> QED BY <1>6, <1>7

LEMMA HavingNone ==
    ASSUME NEW s, Len(s) = 0, NEW v
    PROVE  Cardinality(Having(s, v)) = 0
<1>1. Having(s, v) = {}  BY DEF Having
<1> QED BY <1>1, FS_EmptySet

\* Every answer is one of the three.
LEMMA HavingAll ==
    ASSUME NEW s \in Seq(Answers)
    PROVE  Cardinality(Having(s, 1)) + Cardinality(Having(s, 0)) + Cardinality(Having(s, -1)) = Len(s)
<1> DEFINE A == Having(s, 1)  B == Having(s, 0)  C == Having(s, -1)
<1>1. /\ IsFiniteSet(A) /\ IsFiniteSet(B) /\ IsFiniteSet(C)
      /\ Cardinality(A) \in Nat /\ Cardinality(B) \in Nat /\ Cardinality(C) \in Nat
      BY HavingIsFinite
<1>2. \A a \in 1 .. Len(s) : s[a] \in Answers  OBVIOUS
<1>3. 1 .. Len(s) = (A \cup B) \cup C
  <2>1. \A a \in 1 .. Len(s) : s[a] = 1 \/ s[a] = 0 \/ s[a] = -1  BY <1>2 DEF Answers
  <2>2. \A a \in 1 .. Len(s) : a \in (A \cup B) \cup C  BY <2>1 DEF Having
  <2>3. A \cup B \cup C \subseteq 1 .. Len(s)  BY DEF Having
  <2> HIDE DEF A, B, C
  <2> QED BY <2>2, <2>3
<1>4. A \cap B = {} /\ (A \cup B) \cap C = {}  BY DEF Having
<1>5. Cardinality(1 .. Len(s)) = Len(s)
  <2>1. Len(s) \in Nat  OBVIOUS
  <2>2. \A m \in Nat : Cardinality(1 .. m) = IF 1 > m THEN 0 ELSE m - 1 + 1  BY FS_Interval
  <2>3. \A m \in Nat : (IF 1 > m THEN 0 ELSE m - 1 + 1) = m  OBVIOUS
  <2> QED BY <2>1, <2>2, <2>3, Zenon
<1> HIDE DEF A, B, C
<1>7. IsFiniteSet(A \cup B) /\ Cardinality(A \cup B) = Cardinality(A) + Cardinality(B)
      BY <1>1, <1>4, DisjointUnion
<1>8. Cardinality((A \cup B) \cup C) = Cardinality(A \cup B) + Cardinality(C)
      BY <1>1, <1>4, <1>7, DisjointUnion
<1> QED BY <1>3, <1>5, <1>7, <1>8 DEF A, B, C

-----------------------------------------------------------------------------
(* A worker and the others                                                   *)

LEMMA CallFacts ==
    ASSUME NEW c \in Calls
    PROVE  /\ c.verb \in {"put", "get", "del", "mput", "mget", "mdel"}
           /\ c.keys \in Seq(Keys) /\ Len(c.keys) \in Nat \ {0} /\ c # Idle
<1>1. c \in [verb : {"put", "get", "del", "mput", "mget", "mdel"}, keys : Seq(Keys) \ {<< >>}]
      BY CallsAssumption
<1>2. c.verb \in {"put", "get", "del", "mput", "mget", "mdel"}
      /\ c.keys \in Seq(Keys) /\ c.keys # << >>  BY <1>1
<1>3. Len(c.keys) \in Nat \ {0}  BY <1>2
<1>4. c # Idle  BY <1>2 DEF Idle
<1> QED BY <1>2, <1>3, <1>4

\* The verb a worker is on.
LEMMA VerbFacts ==
    ASSUME TypeOK, NEW t \in Threads
    PROVE  /\ NKeys(t) \in Nat
           /\ call[t] = Idle => NKeys(t) = 0 /\ call[t].verb = "none"
           /\ call[t] # Idle => /\ call[t] \in Calls /\ NKeys(t) > 0
                                /\ call[t].keys \in Seq(Keys)
                                /\ call[t].verb \in {"put", "get", "del", "mput", "mget", "mdel"}
<1>1. call[t] \in Calls \/ call[t] = Idle  BY DEF TypeOK
<1>2. CASE call[t] = Idle  BY <1>2 DEF NKeys, Idle
<1>3. CASE call[t] \in Calls
  <2>1. /\ call[t].verb \in {"put", "get", "del", "mput", "mget", "mdel"}
        /\ call[t].keys \in Seq(Keys) /\ Len(call[t].keys) \in Nat \ {0} /\ call[t] # Idle
        BY <1>3, CallFacts
  <2> QED BY <1>3, <2>1 DEF NKeys
<1> QED BY <1>1, <1>2, <1>3

\* What a step leaves alone of worker u.
Untouched(u) ==
    /\ pc'[u] = pc[u] /\ call'[u] = call[u] /\ at'[u] = at[u] /\ rc'[u] = rc[u]
    /\ staged'[u] = staged[u] /\ lent'[u] = lent[u]
    /\ applied'[u] = applied[u] /\ found'[u] = found[u]
    /\ stats'[u] = stats[u] /\ made'[u] = made[u]

Kept(t) == Placed(t) /\ Once(t) /\ InBatch(t) /\ Answered(t) /\ Tallied(t)

LEMMA UntouchedIsKept ==
    ASSUME NEW u, engine' = engine, Untouched(u), Kept(u)
    PROVE  Kept(u)'
<1>1. Placed(u)'  BY DEF Untouched, Kept, Placed, NKeys, Reads, Batched, HasBatch
<1>2. Once(u)'  BY DEF Untouched, Kept, Once, NKeys, Batched, HasBatch
<1>3. Answered(u)'  BY DEF Untouched, Kept, Answered, Reads
<1>4. Tallied(u)'  BY DEF Untouched, Kept, Tallied, NKeys, Reads, Times
<1>5. InBatch(u)'  BY DEF Untouched, Kept, InBatch, Chunk, NKeys, Batched, HasBatch
<1> QED BY <1>1, <1>2, <1>3, <1>4, <1>5 DEF Kept

\* A step of one worker is looked at for that worker only.
LEMMA StepOfOne ==
    ASSUME IInv, NEW t \in Threads, TypeOK', engine' = engine,
           \A u \in Threads : u # t => Untouched(u), Kept(t)'
    PROVE  IInv'
<1>1. \A u \in Threads : Kept(u)  BY DEF IInv, Kept
<1>2. \A u \in Threads : u # t => Kept(u)'  BY <1>1, UntouchedIsKept
<1>3. \A u \in Threads : Kept(u)'  BY <1>2
<1> QED BY <1>3 DEF IInv, Kept

LEMMA InitHolds == Init => IInv
<1> SUFFICES ASSUME Init PROVE IInv  OBVIOUS
<1>1. \A t \in Threads : call[t] = Idle /\ NKeys(t) = 0  BY DEF Init, NKeys, Idle
<1>2. TypeOK
  <2>1. << >> \in Seq(Answers)  OBVIOUS
  <2>2. \A t \in Threads : applied[t] \in [1 .. NKeys(t) -> Nat]  BY <1>1 DEF Init
  <2>3. stalls \in Nat  BY BoundsAssumption DEF Init
  <2>4. found \in [Threads -> Seq(Answers)]  BY <2>1 DEF Init
  <2> QED BY <2>2, <2>3, <2>4 DEF Init, TypeOK, Answers
<1>3. ASSUME NEW t \in Threads PROVE Placed(t) /\ Once(t) /\ InBatch(t) /\ Answered(t) /\ Tallied(t)
  <2>1. ~Batched(t) /\ ~Reads(t) /\ call[t].verb = "none"
        BY <1>1 DEF Batched, Reads, Idle
  <2>2. Placed(t)  BY <1>1, <2>1 DEF Init, Placed
  <2>3. Once(t)  BY <1>1, <2>1 DEF Init, Once
  <2>4. Answered(t)  BY <2>1 DEF Init, Answered
  <2>5. Tallied(t)  BY DEF Init, Tallied
  <2>6. InBatch(t)  BY DEF Init, InBatch
  <2> QED BY <2>2, <2>3, <2>4, <2>5, <2>6
<1> QED BY <1>2, <1>3 DEF IInv

-----------------------------------------------------------------------------
(* The steps                                                                 *)

LEMMA CallKeeps ==
    ASSUME IInv, NEW t \in Threads, Call(t)
    PROVE  IInv'
<1>t. TypeOK /\ Placed(t) /\ Tallied(t)  BY DEF IInv
<1>b. InBatch(t)  BY DEF IInv
<1>1. PICK c \in Calls :
         /\ call' = [call EXCEPT ![t] = c]
         /\ applied' = [applied EXCEPT ![t] = [a \in 1 .. Len(c.keys) |-> 0]]
         /\ made' = [made EXCEPT ![t] =
               [calls |-> @.calls + 1, keys |-> @.keys + Len(c.keys), absent |-> @.absent,
                lookups |-> @.lookups + (IF c.verb \in {"get", "mget"} THEN Len(c.keys) ELSE 0)]]
      BY DEF Call
<1>2. /\ c.verb \in {"put", "get", "del", "mput", "mget", "mdel"}
      /\ c.keys \in Seq(Keys) /\ Len(c.keys) \in Nat \ {0} /\ c # Idle
      BY CallFacts
<1>3. /\ pc[t] = "idle" /\ pc' = [pc EXCEPT ![t] = "engine"] /\ at' = [at EXCEPT ![t] = 1]
      /\ rc' = [rc EXCEPT ![t] = 0] /\ found' = [found EXCEPT ![t] = << >>]
      /\ UNCHANGED <<engine, db, stalls, staged, lent, stats>>
      BY DEF Call, Goto
<1>4. /\ pc'[t] = "engine" /\ at'[t] = 1 /\ rc'[t] = 0 /\ found'[t] = << >> /\ call'[t] = c
      /\ applied'[t] = [a \in 1 .. Len(c.keys) |-> 0]
      /\ stats'[t] = stats[t]
      BY <1>t, <1>1, <1>3 DEF TypeOK
<1>5. /\ NKeys(t)' = Len(c.keys) /\ (Reads(t)' <=> c.verb \in {"get", "mget"})
      /\ (Batched(t)' <=> c.verb \in {"mput", "mdel"} /\ HasBatch)
      BY <1>3, <1>4 DEF NKeys, Reads, Batched, HasBatch
<1>6. made[t] \in [calls : Nat, keys : Nat, lookups : Nat, absent : Nat]  BY <1>t DEF TypeOK
<1>7. /\ made'[t].calls = made[t].calls + 1 /\ made'[t].keys = made[t].keys + Len(c.keys)
      /\ made'[t].lookups = made[t].lookups + (IF c.verb \in {"get", "mget"} THEN Len(c.keys) ELSE 0)
      /\ made'[t].absent = made[t].absent
      /\ made'[t] \in [calls : Nat, keys : Nat, lookups : Nat, absent : Nat]
  <2>1. made'[t] =
           [calls |-> made[t].calls + 1, keys |-> made[t].keys + Len(c.keys), absent |-> made[t].absent,
            lookups |-> made[t].lookups + (IF c.verb \in {"get", "mget"} THEN Len(c.keys) ELSE 0)]
        BY <1>t, <1>1 DEF TypeOK
  <2> DEFINE new == made'[t]
             more == IF c.verb \in {"get", "mget"} THEN Len(c.keys) ELSE 0
  <2>2. made[t].calls \in Nat /\ made[t].keys \in Nat /\ made[t].lookups \in Nat /\ made[t].absent \in Nat
        BY <1>6
  <2>3. Len(c.keys) \in Nat /\ more \in Nat  BY <1>2
  <2>4. new = [calls |-> made[t].calls + 1, keys |-> made[t].keys + Len(c.keys),
               absent |-> made[t].absent, lookups |-> made[t].lookups + more]
        BY <2>1
  <2> HIDE DEF more, new
  <2>5. /\ new.calls = made[t].calls + 1 /\ new.keys = made[t].keys + Len(c.keys)
        /\ new.lookups = made[t].lookups + more /\ new.absent = made[t].absent
        BY <2>4
  <2>6. new \in [calls : Nat, keys : Nat, lookups : Nat, absent : Nat]  BY <2>2, <2>3, <2>4
  <2> QED BY <2>5, <2>6 DEF new, more
<1>8. \A u \in Threads : u # t => Untouched(u)
      BY <1>t, <1>1, <1>3 DEF TypeOK, Untouched
<1>9. TypeOK'
  <2>1. << >> \in Seq(Answers)  OBVIOUS
  <2>2. /\ pc' \in [Threads -> {"idle", "engine", "batch", "record"}]
        /\ call' \in [Threads -> Calls \cup {Idle}] /\ at' \in [Threads -> Nat]
        /\ rc' \in [Threads -> Answers] /\ found' \in [Threads -> Seq(Answers)]
        BY <1>t, <1>1, <1>3, <2>1 DEF TypeOK, Answers
  <2>3. DOMAIN applied' = Threads  BY <1>t, <1>1 DEF TypeOK
  <2>4. \A u \in Threads : applied'[u] \in [1 .. NKeys(u)' -> Nat]
    <3>1. \A u \in Threads : u # t => applied'[u] = applied[u] /\ NKeys(u)' = NKeys(u)
          BY <1>8 DEF Untouched, NKeys
    <3>2. \A u \in Threads : u # t => applied'[u] \in [1 .. NKeys(u)' -> Nat]
          BY <1>t, <3>1 DEF TypeOK
    <3>3. applied'[t] \in [1 .. NKeys(t)' -> Nat]  BY <1>2, <1>4, <1>5
    <3> QED BY <3>2, <3>3
  <2>5. made' \in [Threads -> [calls : Nat, keys : Nat, lookups : Nat, absent : Nat]]
    <3>1. made' = [made EXCEPT ![t] = made'[t]]  BY <1>t, <1>1 DEF TypeOK
    <3> QED BY <1>t, <1>7, <3>1 DEF TypeOK
  <2> QED BY <1>t, <1>3, <2>2, <2>3, <2>4, <2>5 DEF TypeOK
<1>10. Kept(t)'
  <2>1. Placed(t)'  BY <1>2, <1>4, <1>5 DEF Placed
  <2>2. Once(t)'
    <3>1. \A a \in 1 .. Len(c.keys) : applied'[t][a] = 0 /\ ~(a < 1)  BY <1>2, <1>4
    <3>2. \A a \in 1 .. NKeys(t)' : applied'[t][a] = 0 /\ ~(a < at'[t])  BY <3>1, <1>4, <1>5
    <3> QED BY <1>4, <3>2 DEF Once
  <2>3. Answered(t)'  BY <1>4, <1>5 DEF Answered
  <2>4. Tallied(t)'
    <3>1. call[t] = Idle /\ ~Reads(t)  BY <1>t, <1>3 DEF Placed, Reads, Idle
    <3>2. /\ stats[t].samples = made[t].calls /\ stats[t].prim = made[t].keys
          /\ stats[t].hits + stats[t].misses + stats[t].errors = made[t].lookups
          /\ stats[t].misses = made[t].absent
      <4>1. stats[t] \in [samples : Nat, prim : Nat, hits : Nat, misses : Nat, errors : Nat]
            BY <1>t DEF TypeOK
      <4> QED BY <1>t, <1>3, <1>6, <4>1 DEF Tallied
    <3>3. Times(t, 0)' = 0
      <4>1. Times(t, 0)' = Cardinality(Having(<< >>, 0))  BY <1>4 DEF Times, Having
      <4> QED BY <4>1, HavingNone
    <3>4. stats[t] \in [samples : Nat, prim : Nat, hits : Nat, misses : Nat, errors : Nat]
          BY <1>t DEF TypeOK
    <3>5. /\ stats'[t].samples + 1 = made'[t].calls
          /\ stats'[t].prim + NKeys(t)' = made'[t].keys
          /\ stats'[t].hits + stats'[t].misses + stats'[t].errors
                + (IF Reads(t)' THEN NKeys(t)' ELSE 0) = made'[t].lookups
          /\ stats'[t].misses + 0 = made'[t].absent
          BY <1>2, <1>4, <1>5, <1>6, <1>7, <3>2, <3>4
    <3> QED BY <1>4, <3>3, <3>5 DEF Tallied
  <2>5. InBatch(t)'  BY <1>b, <1>3, <1>4 DEF InBatch
  <2> QED BY <2>1, <2>2, <2>3, <2>4, <2>5 DEF Kept
<1> QED BY <1>3, <1>8, <1>9, <1>10, StepOfOne

\* A write leaves the lookups and the statistics alone.
LEMMA WriteOwes ==
    ASSUME NEW t \in Threads, UNCHANGED <<call, found, stats, made>>,
           Answered(t), Tallied(t), ~Reads(t),
           pc[t] \in {"engine", "batch"}, pc'[t] \in {"engine", "batch"}
    PROVE  Answered(t)' /\ Tallied(t)'
<1>1. ~Reads(t)' /\ NKeys(t)' = NKeys(t) /\ Times(t, 0)' = Times(t, 0)
      BY DEF Reads, NKeys, Times
<1>2. Answered(t)'  BY <1>1 DEF Answered
<1>3. Tallied(t)'  BY <1>1 DEF Tallied
<1> QED BY <1>2, <1>3

\* The loop goes on to the next key, or to the end of a batch.
LEMMA AdvanceFacts ==
    ASSUME IInv, NEW t \in Threads, Advance(t), UNCHANGED <<engine, call>>,
           pc[t] \in {"engine", "batch"}, pc'[t] = "engine", at[t] <= NKeys(t)
    PROVE  /\ at'[t] = IF Batched(t) THEN NKeys(t) + 1 ELSE at[t] + 1
           /\ at' \in [Threads -> Nat]
           /\ \A u \in Threads : u # t => at'[u] = at[u]
           /\ Placed(t)'
<1>t. TypeOK /\ Placed(t)  BY DEF IInv
<1>1. NKeys(t) \in Nat /\ at[t] \in Nat /\ at \in [Threads -> Nat]
      BY <1>t, VerbFacts DEF TypeOK
<1>2. at' = [at EXCEPT ![t] = IF Batched(t) THEN NKeys(t) + 1 ELSE at[t] + 1]
      BY <1>1 DEF Advance
<1>3. at'[t] = IF Batched(t) THEN NKeys(t) + 1 ELSE at[t] + 1  BY <1>1, <1>2
<1>4. at' \in [Threads -> Nat] /\ \A u \in Threads : u # t => at'[u] = at[u]
      BY <1>1, <1>2
<1>5. NKeys(t)' = NKeys(t) /\ (Batched(t)' <=> Batched(t))
      BY DEF NKeys, Batched, HasBatch
<1>6. call[t] # Idle  BY <1>t DEF Placed
<1>7. Placed(t)'  BY <1>t, <1>1, <1>3, <1>5, <1>6 DEF Placed
<1> QED BY <1>3, <1>4, <1>7

\* What the engine applies is the keys the loop is on.
LEMMA ApplyFacts ==
    ASSUME IInv, NEW t \in Threads, Apply(t, Chunk(t)), Advance(t), UNCHANGED <<engine, call>>,
           pc[t] \in {"engine", "batch"}, pc'[t] = "engine", at[t] <= NKeys(t),
           call[t].verb # "del" => rc'[t] = rc[t]
    PROVE  /\ db' \in [Keys -> Threads \cup {Absent}]
           /\ DOMAIN applied' = Threads
           /\ \A u \in Threads : u # t => applied'[u] = applied[u]
           /\ \A u \in Threads : applied'[u] \in [1 .. NKeys(u)' -> Nat]
           /\ Once(t)'
<1>t. TypeOK /\ Placed(t) /\ Once(t)  BY DEF IInv
<1>0. NKeys(t) \in Nat /\ at[t] \in 1 .. NKeys(t) + 1  BY <1>t, VerbFacts DEF Placed
<1>1. NKeys(t) \in Nat /\ at[t] \in 1 .. NKeys(t) /\ applied[t] \in [1 .. NKeys(t) -> Nat]
      BY <1>t, <1>0 DEF TypeOK
<1>2. at'[t] = IF Batched(t) THEN NKeys(t) + 1 ELSE at[t] + 1  BY AdvanceFacts
<1>3. db' \in [Keys -> Threads \cup {Absent}]  BY <1>t DEF Apply, TypeOK
<1> DEFINE more == [a \in 1 .. NKeys(t) |-> applied[t][a] + (IF a \in Chunk(t) THEN 1 ELSE 0)]
<1>4. applied' = [applied EXCEPT ![t] = more]  BY <1>t DEF Apply, TypeOK
<1>5. more \in [1 .. NKeys(t) -> Nat]  BY <1>1
<1>6. \A a \in 1 .. NKeys(t) : more[a] = applied[t][a] + (IF a \in Chunk(t) THEN 1 ELSE 0)
      OBVIOUS
<1> HIDE DEF more
<1>7. /\ DOMAIN applied' = Threads /\ applied'[t] = more
      /\ \A u \in Threads : u # t => applied'[u] = applied[u]
      BY <1>t, <1>4 DEF TypeOK
<1>8. \A u \in Threads : NKeys(u)' = NKeys(u)  BY DEF NKeys
<1>9. \A u \in Threads : applied'[u] \in [1 .. NKeys(u)' -> Nat]
      BY <1>t, <1>5, <1>7, <1>8 DEF TypeOK
<1>10. (Batched(t)' <=> Batched(t)) /\ call'[t] = call[t]
      BY DEF Batched, HasBatch
<1>11. \A a \in 1 .. NKeys(t) :
           /\ a \in Chunk(t) => applied[t][a] = 0 /\ more[a] = 1 /\ a < at'[t]
           /\ a \notin Chunk(t) => more[a] = applied[t][a] /\ (a < at'[t] <=> a < at[t])
  <2> SUFFICES ASSUME NEW a \in 1 .. NKeys(t)
               PROVE  /\ a \in Chunk(t) => applied[t][a] = 0 /\ more[a] = 1 /\ a < at'[t]
                      /\ a \notin Chunk(t) => more[a] = applied[t][a] /\ (a < at'[t] <=> a < at[t])
      OBVIOUS
  <2>0. applied[t][a] \in Nat  BY <1>1
  <2>1. CASE Batched(t)
    <3>1. at[t] = 1  BY <1>t, <1>1, <2>1 DEF Placed
    <3>2. a \in Chunk(t) /\ ~(a < at[t]) /\ a < at'[t]  BY <1>1, <1>2, <2>1, <3>1 DEF Chunk
    <3>3. applied[t][a] = 0  BY <1>t, <3>2 DEF Once
    <3> QED BY <1>6, <3>2, <3>3
  <2>2. CASE ~Batched(t)
    <3>1. a \in Chunk(t) <=> a = at[t]  BY <2>2 DEF Chunk
    <3>2. a = at[t] => applied[t][a] = 0 /\ a < at'[t]  BY <1>t, <1>1, <1>2, <2>2 DEF Once
    <3>3. a # at[t] => (a < at'[t] <=> a < at[t])  BY <1>1, <1>2, <2>2
    <3> QED BY <1>6, <2>0, <3>1, <3>2, <3>3
  <2> QED BY <2>1, <2>2
<1>12. Once(t)'
  <2>1. \A a \in 1 .. NKeys(t)' :
            IF a < at'[t] THEN applied'[t][a] <= 1 ELSE applied'[t][a] = 0
        BY <1>t, <1>7, <1>8, <1>11 DEF Once
  <2>2. (\A a \in 1 .. NKeys(t) : a < at'[t] => more[a] = 1)
            <=> (\A a \in 1 .. NKeys(t) : a < at[t] => applied[t][a] = 1)
    <3>1. \A a \in 1 .. NKeys(t) : a \in Chunk(t) => ~(a < at[t])
          BY <1>1 DEF Chunk
    <3> QED BY <1>11, <3>1
  <2>3. call[t].verb \in {"put", "mput", "mdel"} =>
            (rc'[t] = 0 <=> \A a \in 1 .. NKeys(t) : a < at'[t] => more[a] = 1)
        BY <1>t, <2>2 DEF Once
  <2>4. Batched(t) => \A a, b \in 1 .. NKeys(t) : more[a] = more[b]
    <3>1. Batched(t) => at[t] = 1 /\ \A a \in 1 .. NKeys(t) : a \in Chunk(t)
          BY <1>t, <1>1 DEF Placed, Chunk
    <3> QED BY <1>11, <3>1
  <2> QED BY <1>7, <1>8, <1>10, <2>1, <2>3, <2>4 DEF Once
<1> QED BY <1>3, <1>7, <1>9, <1>12

\* A worker that is back in its loop has nothing staged and nothing lent.
LEMMA GivenBackFacts ==
    ASSUME IInv, NEW t \in Threads, GivenBack(t) \/ (pc[t] = "engine" /\ UNCHANGED <<staged, lent>>),
           pc[t] \in {"engine", "batch"}, pc'[t] = "engine"
    PROVE  /\ staged' \in [Threads -> SUBSET Nat] /\ lent' \in [Threads -> Nat]
           /\ \A u \in Threads : u # t => staged'[u] = staged[u] /\ lent'[u] = lent[u]
           /\ InBatch(t)'
<1>1. staged \in [Threads -> SUBSET Nat] /\ lent \in [Threads -> Nat] /\ InBatch(t)
      BY DEF IInv, TypeOK
<1>2. CASE GivenBack(t)
  <2> DEFINE left == IF pc[t] = "batch" THEN lent[t] - 1 ELSE lent[t]
  <2>1. staged' = [staged EXCEPT ![t] = {}] /\ lent' = [lent EXCEPT ![t] = left]
        BY <1>1, <1>2 DEF GivenBack
  <2>2. left = 0  BY <1>1 DEF InBatch
  <2> HIDE DEF left
  <2>3. staged'[t] = {} /\ lent'[t] = 0  BY <1>1, <2>1, <2>2
  <2>4. InBatch(t)'  BY <2>3 DEF InBatch
  <2>5. \A u \in Threads : u # t => staged'[u] = staged[u] /\ lent'[u] = lent[u]  BY <1>1, <2>1
  <2>6. staged' \in [Threads -> SUBSET Nat] /\ lent' \in [Threads -> Nat]  BY <1>1, <2>1, <2>2
  <2> QED BY <2>4, <2>5, <2>6
<1>3. CASE pc[t] = "engine" /\ UNCHANGED <<staged, lent>>
      BY <1>1, <1>3 DEF InBatch
<1> QED BY <1>2, <1>3

\* A write applied, at once or by the commit of what is staged.
LEMMA WrittenKeeps ==
    ASSUME IInv, NEW t \in Threads, Apply(t, Chunk(t)), Advance(t), Replied(t),
           GivenBack(t) \/ (pc[t] = "engine" /\ UNCHANGED <<staged, lent>>),
           UNCHANGED <<engine, stalls, call, found, stats, made>>,
           pc[t] \in {"engine", "batch"}, pc' = [pc EXCEPT ![t] = "engine"],
           ~Reads(t), at[t] <= NKeys(t)
    PROVE  IInv'
<1>t. TypeOK /\ Kept(t)  BY DEF IInv, Kept
<1>1. pc'[t] = "engine" /\ pc' \in [Threads -> {"idle", "engine", "batch", "record"}]
      /\ \A u \in Threads : u # t => pc'[u] = pc[u]
      BY <1>t DEF TypeOK
<1>2. /\ rc' \in [Threads -> Answers] /\ \A u \in Threads : u # t => rc'[u] = rc[u]
      /\ call[t].verb # "del" => rc'[t] = rc[t]
  <2>1. DelReply(call[t].keys[1]) \in Answers  BY DEF DelReply, Answers
  <2> QED BY <1>t, <2>1 DEF TypeOK, Replied
<1>3. /\ at' \in [Threads -> Nat] /\ \A u \in Threads : u # t => at'[u] = at[u]
      /\ Placed(t)'
      BY <1>1, AdvanceFacts
<1>4. /\ db' \in [Keys -> Threads \cup {Absent}] /\ DOMAIN applied' = Threads
      /\ \A u \in Threads : u # t => applied'[u] = applied[u]
      /\ \A u \in Threads : applied'[u] \in [1 .. NKeys(u)' -> Nat]
      /\ Once(t)'
      BY <1>1, <1>2, ApplyFacts
<1>5. Answered(t)' /\ Tallied(t)'  BY <1>t, <1>1, WriteOwes DEF Kept
<1>6. /\ staged' \in [Threads -> SUBSET Nat] /\ lent' \in [Threads -> Nat]
      /\ \A u \in Threads : u # t => staged'[u] = staged[u] /\ lent'[u] = lent[u]
      /\ InBatch(t)'
      BY <1>1, GivenBackFacts
<1>7. TypeOK'  BY <1>t, <1>1, <1>2, <1>3, <1>4, <1>6 DEF TypeOK
<1>8. \A u \in Threads : u # t => Untouched(u)  BY <1>1, <1>2, <1>3, <1>4, <1>6 DEF Untouched
<1> QED BY <1>3, <1>4, <1>5, <1>6, <1>7, <1>8, StepOfOne DEF Kept

LEMMA WriteOkKeeps ==
    ASSUME IInv, NEW t \in Threads, WriteOk(t)
    PROVE  IInv'
<1>1. /\ Apply(t, Chunk(t)) /\ Advance(t) /\ Replied(t)
      /\ pc[t] = "engine" /\ ~Reads(t) /\ at[t] <= NKeys(t)
      /\ UNCHANGED <<engine, stalls, pc, call, staged, lent, found, stats, made>>
      BY DEF WriteOk, Writing
<1>2. pc' = [pc EXCEPT ![t] = "engine"]  BY <1>1 DEF IInv, TypeOK
<1> QED BY <1>1, <1>2, WrittenKeeps

\* What is committed is the whole chunk.
LEMMA CommitKeeps ==
    ASSUME IInv, NEW t \in Threads, Commit(t)
    PROVE  IInv'
<1>1. /\ Apply(t, staged[t]) /\ Advance(t) /\ Replied(t) /\ GivenBack(t)
      /\ pc[t] = "batch" /\ staged[t] = Chunk(t) /\ pc' = [pc EXCEPT ![t] = "engine"]
      /\ UNCHANGED <<engine, stalls, call, found, stats, made>>
      BY DEF Commit, Commits, Goto
<1>2. Apply(t, Chunk(t))  BY <1>1
<1>3. ~Reads(t) /\ at[t] <= NKeys(t)  BY <1>1 DEF IInv, Placed
<1> QED BY <1>1, <1>2, <1>3, WrittenKeeps

\* A step that only moves the worker into, within or out of a batch.
LEMMA MovedKeeps ==
    ASSUME IInv, NEW t \in Threads,
           UNCHANGED <<engine, db, call, at, rc, applied, found, stats, made>>, stalls' \in Nat,
           pc[t] \in {"engine", "batch"}, ~Reads(t), at[t] <= NKeys(t),
           NEW label \in {"engine", "batch"}, pc' = [pc EXCEPT ![t] = label],
           staged' \in [Threads -> SUBSET Nat], lent' \in [Threads -> Nat],
           \A u \in Threads : u # t => staged'[u] = staged[u] /\ lent'[u] = lent[u],
           InBatch(t)'
    PROVE  IInv'
<1>t. TypeOK /\ Kept(t)  BY DEF IInv, Kept
<1>1. pc'[t] = label /\ pc' \in [Threads -> {"idle", "engine", "batch", "record"}]
      /\ \A u \in Threads : u # t => pc'[u] = pc[u]
      BY <1>t DEF TypeOK
<1>2. \A u \in Threads : NKeys(u)' = NKeys(u)  BY DEF NKeys
<1>3. TypeOK'  BY <1>t, <1>1, <1>2 DEF TypeOK
<1>4. \A u \in Threads : u # t => Untouched(u)  BY <1>1 DEF Untouched
<1>5. (Batched(t)' <=> Batched(t)) /\ (Reads(t)' <=> Reads(t))
      BY DEF Batched, HasBatch, Reads
<1>6. Placed(t)'  BY <1>t, <1>1, <1>2, <1>5 DEF Kept, Placed
<1>7. Once(t)'  BY <1>t, <1>2, <1>5 DEF Kept, Once
<1>8. Answered(t)' /\ Tallied(t)'  BY <1>t, <1>1, WriteOwes DEF Kept
<1> QED BY <1>3, <1>4, <1>6, <1>7, <1>8, StepOfOne DEF Kept

LEMMA BeginKeeps ==
    ASSUME IInv, NEW t \in Threads, Begin(t)
    PROVE  IInv'
<1>1. /\ UNCHANGED <<engine, db, stalls, call, at, rc, staged, applied, found, stats, made>>
      /\ pc[t] = "engine" /\ ~Reads(t) /\ at[t] <= NKeys(t) /\ pc' = [pc EXCEPT ![t] = "batch"]
      /\ lent' = [lent EXCEPT ![t] = @ + 1]
      BY DEF Begin, Writing, Goto
<1>2. /\ stalls \in Nat /\ staged \in [Threads -> SUBSET Nat] /\ lent \in [Threads -> Nat]
      /\ pc \in [Threads -> {"idle", "engine", "batch", "record"}]
      /\ InBatch(t)
      BY DEF IInv, TypeOK
<1>3. staged[t] = {} /\ lent[t] = 0  BY <1>1, <1>2 DEF InBatch
<1>4. lent' \in [Threads -> Nat] /\ lent'[t] = 1 /\ \A u \in Threads : u # t => lent'[u] = lent[u]
      BY <1>1, <1>2, <1>3
<1>5. InBatch(t)'  BY <1>1, <1>2, <1>3, <1>4 DEF InBatch
<1> QED BY <1>1, <1>2, <1>4, <1>5, MovedKeeps

LEMMA StageKeeps ==
    ASSUME IInv, NEW t \in Threads, Stage(t)
    PROVE  IInv'
<1>1. /\ UNCHANGED <<engine, db, stalls, pc, call, at, rc, lent, applied, found, stats, made>>
      /\ pc[t] = "batch"
      BY DEF Stage
<1>2. PICK a \in Chunk(t) \ staged[t] : staged' = [staged EXCEPT ![t] = @ \cup {a}]  BY DEF Stage
<1>3. /\ stalls \in Nat /\ staged \in [Threads -> SUBSET Nat] /\ lent \in [Threads -> Nat]
      /\ pc \in [Threads -> {"idle", "engine", "batch", "record"}] /\ at \in [Threads -> Nat]
      /\ InBatch(t) /\ Placed(t)
      BY DEF IInv, TypeOK
<1>4. NKeys(t) \in Nat  BY VerbFacts DEF IInv
<1>5. a \in Nat  BY <1>2, <1>3, <1>4 DEF Chunk
<1>6. /\ staged' \in [Threads -> SUBSET Nat] /\ staged'[t] = staged[t] \cup {a}
      /\ \A u \in Threads : u # t => staged'[u] = staged[u]
      BY <1>2, <1>3, <1>5
<1>7. Chunk(t)' = Chunk(t)  BY <1>1 DEF Chunk, Batched, HasBatch, NKeys
<1>8. InBatch(t)'  BY <1>1, <1>2, <1>3, <1>6, <1>7 DEF InBatch
<1>9. ~Reads(t) /\ at[t] <= NKeys(t) /\ pc' = [pc EXCEPT ![t] = "batch"]
      BY <1>1, <1>3 DEF Placed
<1> QED BY <1>1, <1>3, <1>6, <1>8, <1>9, MovedKeeps

\* Where a write is that stalls or fails.
LEMMA WriteFacts ==
    ASSUME IInv, NEW t \in Threads, Stumbles(t)
    PROVE  pc[t] \in {"engine", "batch"} /\ ~Reads(t) /\ at[t] <= NKeys(t)
BY DEF IInv, Placed, Stumbles, Writing

LEMMA StallKeeps ==
    ASSUME IInv, NEW t \in Threads, Stall(t)
    PROVE  IInv'
<1>1. /\ UNCHANGED <<engine, db, call, at, rc, applied, found, stats, made>>
      /\ stalls > 0 /\ stalls' = stalls - 1 /\ pc' = [pc EXCEPT ![t] = "engine"] /\ GivenBack(t)
      BY DEF Stall, Retried, Goto
<1>2. pc[t] \in {"engine", "batch"} /\ ~Reads(t) /\ at[t] <= NKeys(t)  BY WriteFacts DEF Stall
<1>3. stalls' \in Nat  BY <1>1 DEF IInv, TypeOK
<1>4. pc'[t] = "engine"  BY <1>1 DEF IInv, TypeOK
<1>5. /\ staged' \in [Threads -> SUBSET Nat] /\ lent' \in [Threads -> Nat]
      /\ \A u \in Threads : u # t => staged'[u] = staged[u] /\ lent'[u] = lent[u]
      /\ InBatch(t)'
      BY <1>1, <1>2, <1>4, GivenBackFacts
<1> QED BY <1>1, <1>2, <1>3, <1>5, MovedKeeps

LEMMA WriteFailKeeps ==
    ASSUME IInv, NEW t \in Threads, WriteFail(t)
    PROVE  IInv'
<1>t. TypeOK /\ Kept(t)  BY DEF IInv, Kept
<1>1. /\ UNCHANGED <<engine, db, stalls, call, applied, found, stats, made>>
      /\ rc' = [rc EXCEPT ![t] = IF call[t].verb = "del" /\ HasBatch THEN 0 ELSE -1]
      /\ Advance(t) /\ GivenBack(t) /\ pc' = [pc EXCEPT ![t] = "engine"]
      BY DEF WriteFail, GivenUp, Goto
<1>2. pc[t] \in {"engine", "batch"} /\ ~Reads(t) /\ at[t] <= NKeys(t)
      BY WriteFacts DEF WriteFail
<1>3. pc'[t] = "engine" /\ pc' \in [Threads -> {"idle", "engine", "batch", "record"}]
      /\ \A u \in Threads : u # t => pc'[u] = pc[u]
      BY <1>t, <1>1 DEF TypeOK
<1>4. /\ rc' \in [Threads -> Answers] /\ \A u \in Threads : u # t => rc'[u] = rc[u]
      /\ call[t].verb # "del" => rc'[t] = -1
      BY <1>t, <1>1 DEF TypeOK, Answers
<1>5. /\ at'[t] = IF Batched(t) THEN NKeys(t) + 1 ELSE at[t] + 1
      /\ at' \in [Threads -> Nat] /\ \A u \in Threads : u # t => at'[u] = at[u]
      /\ Placed(t)'
      BY <1>1, <1>2, <1>3, AdvanceFacts
<1>6. \A u \in Threads : NKeys(u)' = NKeys(u)  BY <1>1 DEF NKeys
<1>b. /\ staged' \in [Threads -> SUBSET Nat] /\ lent' \in [Threads -> Nat]
      /\ \A u \in Threads : u # t => staged'[u] = staged[u] /\ lent'[u] = lent[u]
      /\ InBatch(t)'
      BY <1>1, <1>2, <1>3, GivenBackFacts
<1>7. TypeOK'  BY <1>t, <1>b, <1>1, <1>3, <1>4, <1>5, <1>6 DEF TypeOK
<1>8. \A u \in Threads : u # t => Untouched(u)  BY <1>b, <1>1, <1>3, <1>4, <1>5 DEF Untouched
<1>9. Once(t)'
  <2>1. NKeys(t) \in Nat /\ at[t] \in 1 .. NKeys(t)
        BY <1>t, <1>2, VerbFacts DEF Kept, Placed
  <2>2. at[t] < at'[t]  BY <1>5, <2>1
  <2>3. \A a \in 1 .. NKeys(t) : applied[t][a] <= 1 /\ (~(a < at'[t]) => applied[t][a] = 0)
    <3>1. \A a \in 1 .. NKeys(t) : a < at[t] => a < at'[t]  BY <2>1, <2>2, <1>5 DEF TypeOK
    <3> QED BY <1>t, <3>1 DEF Kept, Once
  <2>4. applied[t][at[t]] = 0  BY <1>t, <2>1 DEF Kept, Once
  <2>5. ~ \A a \in 1 .. NKeys(t) : a < at'[t] => applied[t][a] = 1  BY <2>1, <2>2, <2>4
  <2>6. Batched(t)' <=> Batched(t)  BY <1>1 DEF Batched, HasBatch
  <2>7. call[t].verb \in {"put", "mput", "mdel"} => rc'[t] # 0  BY <1>4
  <2> QED BY <1>t, <1>1, <1>6, <2>3, <2>5, <2>6, <2>7 DEF Kept, Once
<1>10. Answered(t)' /\ Tallied(t)'  BY <1>t, <1>1, <1>2, <1>3, WriteOwes DEF Kept
<1> QED BY <1>b, <1>1, <1>5, <1>7, <1>8, <1>9, <1>10, StepOfOne DEF Kept

LEMMA ReadKeeps ==
    ASSUME IInv, NEW t \in Threads, Read(t)
    PROVE  IInv'
<1>t. TypeOK /\ Kept(t)  BY DEF IInv, Kept
<1>1. /\ UNCHANGED <<engine, db, stalls, pc, call, rc, staged, lent, applied, stats>>
      /\ pc[t] = "engine" /\ Reads(t) /\ at[t] <= NKeys(t) /\ at' = [at EXCEPT ![t] = @ + 1]
      BY DEF Read
<1>2. PICK w \in Answers :
         /\ found' = [found EXCEPT ![t] = Append(found[t], w)]
         /\ made' = [made EXCEPT ![t].absent = IF w = 0 THEN @ + 1 ELSE @]
  <2> DEFINE there == db[call[t].keys[at[t]]] # Absent
  <2>0. found \in [Threads -> Seq(Answers)]  BY <1>t DEF TypeOK
  <2>1. CASE /\ found' = [found EXCEPT ![t] = Append(@, IF there THEN 1 ELSE 0)]
             /\ made' = [made EXCEPT ![t].absent = IF there THEN @ ELSE @ + 1]
    <3>1. CASE there  BY <2>0, <2>1, <3>1 DEF Answers
    <3>2. CASE ~there  BY <2>0, <2>1, <3>2 DEF Answers
    <3> QED BY <3>1, <3>2
  <2>2. CASE found' = [found EXCEPT ![t] = Append(@, -1)] /\ UNCHANGED made
    <3>1. made' = [made EXCEPT ![t].absent = IF -1 = 0 THEN @ + 1 ELSE @]
          BY <1>t, <2>2 DEF TypeOK
    <3>2. found' = [found EXCEPT ![t] = Append(found[t], -1)]  BY <2>0, <2>2
    <3>3. -1 \in Answers  BY DEF Answers
    <3> QED BY <3>1, <3>2, <3>3
  <2> QED BY <2>1, <2>2 DEF Read
<1>3. /\ found[t] \in Seq(Answers) /\ found'[t] = Append(found[t], w)
      /\ found' \in [Threads -> Seq(Answers)] /\ \A u \in Threads : u # t => found'[u] = found[u]
      BY <1>t, <1>2 DEF TypeOK
<1>4. made[t] \in [calls : Nat, keys : Nat, lookups : Nat, absent : Nat]  BY <1>t DEF TypeOK
<1>5. /\ made'[t] = [made[t] EXCEPT !.absent = IF w = 0 THEN made[t].absent + 1 ELSE made[t].absent]
      /\ made' = [made EXCEPT ![t] = made'[t]]
      /\ \A u \in Threads : u # t => made'[u] = made[u]
      BY <1>t, <1>2 DEF TypeOK
<1>6. /\ made'[t].calls = made[t].calls /\ made'[t].keys = made[t].keys
      /\ made'[t].lookups = made[t].lookups
      /\ made'[t].absent = IF w = 0 THEN made[t].absent + 1 ELSE made[t].absent
      /\ made'[t] \in [calls : Nat, keys : Nat, lookups : Nat, absent : Nat]
      BY <1>4, <1>5
<1>7. /\ NKeys(t) \in Nat /\ at[t] \in 1 .. NKeys(t) /\ at \in [Threads -> Nat]
  <2>1. NKeys(t) \in Nat /\ at \in [Threads -> Nat]  BY <1>t, VerbFacts DEF TypeOK
  <2>2. at[t] \in 1 .. NKeys(t) + 1  BY <1>t DEF Kept, Placed
  <2> QED BY <1>1, <2>1, <2>2
<1>8. /\ at'[t] = at[t] + 1 /\ at' \in [Threads -> Nat]
      /\ \A u \in Threads : u # t => at'[u] = at[u]
      BY <1>1, <1>7
<1>9. \A u \in Threads : NKeys(u)' = NKeys(u)  BY <1>1 DEF NKeys
<1>10. (Reads(t)' <=> Reads(t)) /\ (Batched(t)' <=> Batched(t)) /\ ~Batched(t)
       BY <1>1 DEF Reads, Batched, HasBatch
<1>11. TypeOK'
  <2>1. made' \in [Threads -> [calls : Nat, keys : Nat, lookups : Nat, absent : Nat]]
        BY <1>t, <1>5, <1>6 DEF TypeOK
  <2> QED BY <1>t, <1>1, <1>3, <1>8, <1>9, <2>1 DEF TypeOK
<1>12. \A u \in Threads : u # t => Untouched(u)
       BY <1>1, <1>3, <1>5, <1>8 DEF Untouched
<1>13. Kept(t)'
  <2>1. Placed(t)'
    <3>1. call[t] # Idle  BY <1>t, <1>1 DEF Kept, Placed
    <3>2. at'[t] \in 1 .. NKeys(t) + 1  BY <1>7, <1>8
    <3> QED BY <1>1, <1>9, <1>10, <3>1, <3>2 DEF Placed
  <2>2. Once(t)'
    <3>1. \A a \in 1 .. NKeys(t) : IF a < at'[t] THEN applied[t][a] <= 1 ELSE applied[t][a] = 0
      <4>1. \A a \in 1 .. NKeys(t) : ~(a < at'[t]) => ~(a < at[t])  BY <1>7, <1>8
      <4>2. \A a \in 1 .. NKeys(t) : applied[t][a] <= 1  BY <1>t DEF Kept, Once
      <4> QED BY <1>t, <4>1, <4>2 DEF Kept, Once
    <3>2. call'[t].verb \notin {"put", "mput", "mdel"}  BY <1>1 DEF Reads
    <3> QED BY <1>1, <1>9, <1>10, <3>1, <3>2 DEF Once
  <2>3. Answered(t)'
    <3>1. Len(found[t]) = at[t] - 1  BY <1>t, <1>1 DEF Kept, Answered
    <3>2. Len(found'[t]) = Len(found[t]) + 1  BY <1>3
    <3> QED BY <1>1, <1>7, <1>8, <1>10, <3>1, <3>2 DEF Answered
  <2>4. Tallied(t)'
    <3>1. Times(t, 0) = Cardinality(Having(found[t], 0))
          /\ Times(t, 0)' = Cardinality(Having(found'[t], 0))  BY DEF Times, Having
    <3>2. Times(t, 0) \in Nat /\ Times(t, 0)' = Times(t, 0) + (IF w = 0 THEN 1 ELSE 0)
          BY <1>3, <3>1, HavingMore, HavingIsFinite
    <3>3. stats[t] \in [samples : Nat, prim : Nat, hits : Nat, misses : Nat, errors : Nat]
          BY <1>t DEF TypeOK
    <3>4. /\ stats[t].samples + 1 = made[t].calls /\ stats[t].prim + NKeys(t) = made[t].keys
          /\ stats[t].hits + stats[t].misses + stats[t].errors + NKeys(t) = made[t].lookups
          /\ stats[t].misses + Times(t, 0) = made[t].absent
          BY <1>t, <1>1 DEF Kept, Tallied
    <3>5. stats'[t].misses + Times(t, 0)' = made'[t].absent
          BY <1>1, <1>4, <1>6, <3>2, <3>3, <3>4
    <3> QED BY <1>1, <1>6, <1>9, <1>10, <3>4, <3>5 DEF Tallied
  <2>5. InBatch(t)'  BY <1>t, <1>1 DEF Kept, InBatch
  <2> QED BY <2>1, <2>2, <2>3, <2>4, <2>5 DEF Kept
<1> QED BY <1>1, <1>11, <1>12, <1>13, StepOfOne

LEMMA RecordKeeps ==
    ASSUME IInv, NEW t \in Threads, Record(t)
    PROVE  IInv'
<1>t. TypeOK /\ Kept(t)  BY DEF IInv, Kept
<1> DEFINE new == [samples |-> stats[t].samples + 1, prim |-> stats[t].prim + NKeys(t),
                   hits |-> stats[t].hits + Times(t, 1), misses |-> stats[t].misses + Times(t, 0),
                   errors |-> stats[t].errors + Times(t, -1)]
<1>1. /\ UNCHANGED <<engine, db, stalls, call, at, rc, staged, lent, applied, found, made>>
      /\ pc[t] = "engine" /\ at[t] > NKeys(t) /\ pc' = [pc EXCEPT ![t] = "record"]
      /\ stats' = [stats EXCEPT ![t] = new]
      BY <1>t DEF Record, Goto, Misses, TypeOK
<1>2. /\ NKeys(t) \in Nat /\ found[t] \in Seq(Answers)
      /\ stats[t] \in [samples : Nat, prim : Nat, hits : Nat, misses : Nat, errors : Nat]
      /\ made[t] \in [calls : Nat, keys : Nat, lookups : Nat, absent : Nat]
      BY <1>t, VerbFacts DEF TypeOK
<1>3. at[t] = NKeys(t) + 1
  <2>1. at[t] \in 1 .. NKeys(t) + 1 /\ at[t] > NKeys(t)  BY <1>t, <1>1 DEF Kept, Placed
  <2>2. \A m \in Nat : \A a \in 1 .. m + 1 : a > m => a = m + 1  OBVIOUS
  <2> QED BY <1>2, <2>1, <2>2, Zenon
<1>4. /\ Times(t, 1) \in Nat /\ Times(t, 0) \in Nat /\ Times(t, -1) \in Nat
      /\ Times(t, 1) + Times(t, 0) + Times(t, -1) = IF Reads(t) THEN NKeys(t) ELSE 0
  <2>1. Len(found[t]) = IF Reads(t) THEN NKeys(t) ELSE 0
        BY <1>t, <1>2, <1>3 DEF Kept, Answered
  <2>2. \A v : Times(t, v) = Cardinality(Having(found[t], v))  BY DEF Times, Having
  <2> QED BY <1>2, <2>1, <2>2, HavingAll, HavingIsFinite
<1>5. /\ new.samples = stats[t].samples + 1 /\ new.prim = stats[t].prim + NKeys(t)
      /\ new.hits = stats[t].hits + Times(t, 1) /\ new.misses = stats[t].misses + Times(t, 0)
      /\ new.errors = stats[t].errors + Times(t, -1)
      OBVIOUS
<1>6. new \in [samples : Nat, prim : Nat, hits : Nat, misses : Nat, errors : Nat]
  <2>1. /\ stats[t].samples \in Nat /\ stats[t].prim \in Nat /\ stats[t].hits \in Nat
        /\ stats[t].misses \in Nat /\ stats[t].errors \in Nat
        BY <1>2
  <2>2. /\ stats[t].samples + 1 \in Nat /\ stats[t].prim + NKeys(t) \in Nat
        /\ stats[t].hits + Times(t, 1) \in Nat /\ stats[t].misses + Times(t, 0) \in Nat
        /\ stats[t].errors + Times(t, -1) \in Nat
    <3>1. \A x, y \in Nat : x + y \in Nat  OBVIOUS
    <3>2. 1 \in Nat  OBVIOUS
    <3> QED BY <1>2, <1>4, <2>1, <3>1, <3>2, Zenon
  <2> QED BY <2>2
<1> HIDE DEF new
<1>7. /\ pc'[t] = "record" /\ pc' \in [Threads -> {"idle", "engine", "batch", "record"}]
      /\ \A u \in Threads : u # t => pc'[u] = pc[u]
      /\ stats'[t] = new /\ \A u \in Threads : u # t => stats'[u] = stats[u]
      /\ stats' \in [Threads -> [samples : Nat, prim : Nat, hits : Nat, misses : Nat, errors : Nat]]
      BY <1>t, <1>1, <1>6 DEF TypeOK
<1>8. \A u \in Threads : NKeys(u)' = NKeys(u)  BY <1>1 DEF NKeys
<1>9. (Reads(t)' <=> Reads(t)) /\ (Batched(t)' <=> Batched(t))
      BY <1>1 DEF Reads, Batched, HasBatch
<1>10. TypeOK'  BY <1>t, <1>1, <1>7, <1>8 DEF TypeOK
<1>11. \A u \in Threads : u # t => Untouched(u)  BY <1>1, <1>7 DEF Untouched
<1>12. Kept(t)'
  <2>1. Placed(t)'  BY <1>t, <1>1, <1>3, <1>7, <1>8, <1>9 DEF Kept, Placed
  <2>2. Once(t)'  BY <1>t, <1>1, <1>8, <1>9 DEF Kept, Once
  <2>3. Answered(t)'  BY <1>t, <1>1, <1>9 DEF Kept, Answered
  <2>4. Tallied(t)'
    <3>1. /\ stats[t].samples + 1 = made[t].calls /\ stats[t].prim + NKeys(t) = made[t].keys
          /\ stats[t].hits + stats[t].misses + stats[t].errors
                + (IF Reads(t) THEN NKeys(t) ELSE 0) = made[t].lookups
          /\ stats[t].misses + Times(t, 0) = made[t].absent
          BY <1>t, <1>1 DEF Kept, Tallied
    <3>2. \A h, m, e, a, b, c \in Nat :
              (h + a) + (m + b) + (e + c) = (h + m + e) + (a + b + c)  OBVIOUS
    <3>3. /\ stats[t].hits \in Nat /\ stats[t].misses \in Nat /\ stats[t].errors \in Nat
          /\ stats[t].samples \in Nat /\ stats[t].prim \in Nat
          BY <1>2
    <3>4. new.hits + new.misses + new.errors = made[t].lookups
          BY <1>4, <1>5, <3>1, <3>2, <3>3
    <3>5. /\ new.samples + 0 = made[t].calls /\ new.prim + 0 = made[t].keys
          /\ new.misses + 0 = made[t].absent /\ new.hits + new.misses + new.errors + 0 = made[t].lookups
      <4>1. /\ made[t].calls \in Nat /\ made[t].keys \in Nat /\ made[t].absent \in Nat
            /\ made[t].lookups \in Nat
            BY <1>2
      <4>2. /\ new.samples = made[t].calls /\ new.prim = made[t].keys /\ new.misses = made[t].absent
            BY <1>5, <3>1
      <4> QED BY <3>4, <4>1, <4>2
    <3> QED BY <1>1, <1>7, <3>5 DEF Tallied
  <2>5. InBatch(t)'  BY <1>t, <1>1, <1>7 DEF Kept, InBatch
  <2> QED BY <2>1, <2>2, <2>3, <2>4, <2>5 DEF Kept
<1> QED BY <1>1, <1>10, <1>11, <1>12, StepOfOne

LEMMA ReturnKeeps ==
    ASSUME IInv, NEW t \in Threads, Return(t)
    PROVE  IInv'
<1>t. TypeOK /\ Kept(t)  BY DEF IInv, Kept
<1>1. /\ UNCHANGED <<engine, db, stalls, staged, lent, stats, made>> /\ pc[t] = "record"
      /\ call' = [call EXCEPT ![t] = Idle] /\ applied' = [applied EXCEPT ![t] = << >>]
      /\ found' = [found EXCEPT ![t] = << >>] /\ at' = [at EXCEPT ![t] = 1]
      /\ rc' = [rc EXCEPT ![t] = 0] /\ pc' = [pc EXCEPT ![t] = "idle"]
      BY DEF Return, Goto
<1>2. /\ pc'[t] = "idle" /\ call'[t] = Idle /\ applied'[t] = << >> /\ found'[t] = << >>
      /\ at'[t] = 1 /\ rc'[t] = 0
      BY <1>t, <1>1 DEF TypeOK
<1>3. NKeys(t)' = 0 /\ ~Reads(t)' /\ ~Batched(t)' /\ call'[t].verb = "none"
      BY <1>2 DEF NKeys, Reads, Batched, Idle
<1>4. \A u \in Threads : u # t => Untouched(u)  BY <1>t, <1>1 DEF TypeOK, Untouched
<1>5. TypeOK'
  <2>1. << >> \in Seq(Answers)  OBVIOUS
  <2>2. /\ pc' \in [Threads -> {"idle", "engine", "batch", "record"}]
        /\ call' \in [Threads -> Calls \cup {Idle}] /\ at' \in [Threads -> Nat]
        /\ rc' \in [Threads -> Answers] /\ found' \in [Threads -> Seq(Answers)]
        BY <1>t, <1>1, <2>1 DEF TypeOK, Answers
  <2>3. DOMAIN applied' = Threads  BY <1>t, <1>1 DEF TypeOK
  <2>4. \A u \in Threads : applied'[u] \in [1 .. NKeys(u)' -> Nat]
    <3>1. \A u \in Threads : u # t => applied'[u] = applied[u] /\ NKeys(u)' = NKeys(u)
          BY <1>4 DEF Untouched, NKeys
    <3>2. \A u \in Threads : u # t => applied'[u] \in [1 .. NKeys(u)' -> Nat]
          BY <1>t, <3>1 DEF TypeOK
    <3>3. applied'[t] \in [1 .. NKeys(t)' -> Nat]  BY <1>2, <1>3
    <3> QED BY <3>2, <3>3
  <2> QED BY <1>t, <1>1, <2>2, <2>3, <2>4 DEF TypeOK
<1>6. Kept(t)'
  <2>1. Placed(t)'  BY <1>2, <1>3 DEF Placed
  <2>2. Once(t)'  BY <1>3 DEF Once
  <2>3. Answered(t)'  BY <1>2, <1>3 DEF Answered
  <2>4. Tallied(t)'  BY <1>t, <1>1, <1>2 DEF Kept, Tallied
  <2>5. InBatch(t)'  BY <1>t, <1>1, <1>2 DEF Kept, InBatch
  <2> QED BY <2>1, <2>2, <2>3, <2>4, <2>5 DEF Kept
<1> QED BY <1>1, <1>4, <1>5, <1>6, StepOfOne

LEMMA StutterKeeps ==
    ASSUME IInv, UNCHANGED vars
    PROVE  IInv'
<1>1. UNCHANGED <<engine, db, stalls, pc, call, at, rc, staged, lent, applied, found, stats, made>>
      BY DEF vars
<1>2. TypeOK'  BY <1>1 DEF IInv, TypeOK, NKeys
<1>3. \A u \in Threads : Kept(u)'
  <2>1. \A u \in Threads : Untouched(u) /\ Kept(u)  BY <1>1 DEF IInv, Kept, Untouched
  <2> QED BY <1>1, <2>1, UntouchedIsKept
<1> QED BY <1>2, <1>3 DEF IInv, Kept

-----------------------------------------------------------------------------
(* The theorems                                                              *)

\* A verb on its way through the retry and batch loops: the keys behind the loop
\* were applied once or given up, those ahead not at all, a batch that is one
\* engine write is before it or behind it, and the statistics lack exactly what
\* the verb under way will add.
THEOREM VerbInvariant == Spec => []IInv
<1>1. ASSUME IInv, [Next]_vars PROVE IInv'
  <2>1. ASSUME NEW t \in Threads, Step(t) PROVE IInv'
        BY <1>1, <2>1, CallKeeps, WriteOkKeeps, BeginKeeps, StageKeeps, CommitKeeps, StallKeeps,
           WriteFailKeeps, ReadKeeps, RecordKeeps, ReturnKeeps DEF Step
  <2>2. CASE Done \/ UNCHANGED vars  BY <1>1, <2>2, StutterKeeps DEF Done
  <2> QED BY <1>1, <2>1, <2>2 DEF Next
<1> QED BY InitHolds, <1>1, PTL DEF Spec

\* Through any number of stalls, a write that returns success was applied to
\* every key exactly once, and one that returns failure missed some key; no key
\* was ever applied twice.
THEOREM WritesHappenOnce == Spec => []WrittenOnce
<1>1. IInv => WrittenOnce
  <2> SUFFICES ASSUME IInv, NEW t \in Threads, pc[t] = "record",
                      call[t].verb \in {"put", "mput", "mdel"}
               PROVE  /\ \A a \in 1 .. NKeys(t) : applied[t][a] <= 1
                      /\ rc[t] = 0 <=> \A a \in 1 .. NKeys(t) : applied[t][a] = 1
      BY DEF WrittenOnce
  <2>1. NKeys(t) \in Nat /\ at[t] = NKeys(t) + 1 /\ Once(t)
        BY VerbFacts DEF IInv, Placed
  <2>2. \A a \in 1 .. NKeys(t) : a < at[t]  BY <2>1
  <2> QED BY <2>1, <2>2 DEF Once
<1> QED BY <1>1, VerbInvariant, PTL

\* On RocksDB and TidesDB what is committed of an mput or mdel is all of it,
\* wherever the loop that stages it key by key stalled or failed before: no key is
\* applied oftener than another. And however often a write stalls, and wherever it
\* fails, its transaction or write batch is freed once. (That a commit takes effect
\* as a whole is the engine's, and the model's assumption.)
THEOREM BatchesAreOneWrite == Spec => []BatchIsOneWrite
<1>1. IInv => BatchIsOneWrite
  <2> SUFFICES ASSUME IInv, NEW t \in Threads
               PROVE  /\ HasBatch /\ call[t].verb \in {"mput", "mdel"} =>
                            \A a, b \in 1 .. NKeys(t) : applied[t][a] = applied[t][b]
                      /\ lent[t] = IF pc[t] = "batch" THEN 1 ELSE 0
      BY DEF BatchIsOneWrite
  <2>1. Once(t) /\ InBatch(t)  BY DEF IInv
  <2>2. lent[t] = IF pc[t] = "batch" THEN 1 ELSE 0  BY <2>1 DEF InBatch
  <2> QED BY <2>1, <2>2 DEF Once, Batched
<1> QED BY <1>1, VerbInvariant, PTL

\* Between verbs the statistics of a worker account for every verb, key and
\* lookup it made, and its misses are the keys that were not there.
THEOREM StatisticsAddUp == Spec => []StatsAddUp
<1>1. IInv => StatsAddUp
  <2> SUFFICES ASSUME IInv, NEW t \in Threads, pc[t] = "idle"
               PROVE  /\ stats[t].samples = made[t].calls
                      /\ stats[t].prim = made[t].keys
                      /\ stats[t].hits + stats[t].misses + stats[t].errors = made[t].lookups
                      /\ stats[t].misses = made[t].absent
      BY DEF StatsAddUp
  <2>1. Tallied(t) /\ stats[t] \in [samples : Nat, prim : Nat, hits : Nat, misses : Nat, errors : Nat]
        BY DEF IInv, TypeOK
  <2> QED BY <2>1 DEF Tallied
<1> QED BY <1>1, VerbInvariant, PTL

-----------------------------------------------------------------------------
(* Ranges and scans, for any database, query and callback.                   *)

\* What the engine may have out: a row only while it is looked at.
Lent ==
    /\ where = "open" => held = {}
    /\ where = "iter" => held = {"txn"}
    /\ where \in {"seek", "head", "row", "next", "close"} => held \subseteq {"lock", "iter", "txn"}
    /\ where = "visit" => held \subseteq {"lock", "iter", "txn", "row"}
    /\ where \in {"lua", "returned"} => held = {}
    /\ backend \in {"skiplist", "rocksdb", "tidesdb"}
    /\ where \in {"open", "iter", "seek", "head", "row", "visit", "next", "close", "lua", "returned"}

\* For any database, bounds and limit, and any callback: a range or scan gives
\* back all that the engine lent it, however it ends.
THEOREM ScansGiveBack == ScanSpec => []NothingHeld
<1>1. ScanInit => Lent  BY DEF ScanInit, Lent
<1>2. Lent /\ [ScanNext]_scanVars => Lent'
  <2> SUFFICES ASSUME Lent, [ScanNext]_scanVars PROVE Lent'  OBVIOUS
  <2>1. CASE Open  BY <2>1 DEF Open, Lent
  <2>2. CASE OpenIter  BY <2>2 DEF OpenIter, Lent
  <2>3. CASE Seek  BY <2>3 DEF Seek, Lent
  <2>4. CASE LoopHead  BY <2>4 DEF LoopHead, Lent
  <2>5. CASE Fetch  BY <2>5 DEF Fetch, Lent
  <2>6. CASE Visit
    <3>1. where = "visit" /\ where' \in {"close", "next"} /\ held' = held \ {"row"} /\ backend' = backend
          BY <2>6 DEF Visit, Freed
    <3> QED BY <3>1 DEF Lent
  <2>7. CASE Move  BY <2>7 DEF Move, Lent
  <2>8. CASE Close  BY <2>8 DEF Close, Lent
  <2>9. CASE Lua  BY <2>9 DEF Lua, Lent
  <2>10. CASE UNCHANGED scanVars  BY <2>10 DEF scanVars, Lent
  <2>11. CASE Returned  BY <2>10, <2>11 DEF Returned
  <2> QED BY <2>1, <2>2, <2>3, <2>4, <2>5, <2>6, <2>7, <2>8, <2>9, <2>10, <2>11 DEF ScanNext
<1>3. Lent => NothingHeld  BY DEF Lent, NothingHeld
<1> QED BY <1>1, <1>2, <1>3, PTL DEF ScanSpec

-----------------------------------------------------------------------------
(* The rows of a range or scan                                               *)

Span    == InRange
Ends(x) == x \in {q.stop, q.raise}

QueryTypes ==
    /\ present \subseteq ScanKeys
    /\ q.lo \in Nat /\ q.hi \in Nat /\ q.limit \in Int
    /\ where \in {"open", "iter", "seek", "head", "row", "visit", "next", "close", "lua", "returned"}
    /\ backend \in {"skiplist", "rocksdb", "tidesdb"}
    /\ pos \in present \cup {0} /\ n \in Nat /\ broken \in BOOLEAN

\* The rows rs so far: each in its place, with no gap before it, and none but
\* the last ends the walk.
InPlace(rs) ==
    /\ rs \in Seq(Span)
    /\ \A a \in 1 .. Len(rs) : Rank(Span, rs[a]) = a - 1
    /\ \A a \in 1 .. Len(rs) : \A x \in Span : x < rs[a] => \E b \in 1 .. a - 1 : rs[b] = x
    /\ \A a \in 1 .. Len(rs) - 1 : ~Ends(rs[a])

\* The keys the walk has behind it when it stands on pos.
Behind == {x \in Span : pos = 0 \/ x < pos}

Walking ==
    where \in {"open", "iter", "seek", "head", "row", "visit", "next"} =>
        /\ ~broken /\ n = Len(rows)
        /\ \A a \in 1 .. Len(rows) : ~Ends(rows[a])
        /\ q.limit > 0 => Len(rows) <= q.limit

Standing ==
    /\ where \in {"open", "iter", "seek"} => rows = << >>
    /\ where \in {"head", "row", "visit"} =>
         /\ \A x \in Behind : \E a \in 1 .. Len(rows) : rows[a] = x
         /\ Cardinality(Behind) = Len(rows)
         /\ pos # 0 => q.lo <= pos
    /\ where \in {"row", "visit"} => pos # 0 /\ (q.limit <= 0 \/ n < q.limit)
    /\ where = "next" => rows # << >> /\ pos = rows[Len(rows)]

\* How many rows there are to be.
Due ==
    IF q.limit > 0 /\ q.limit < Cardinality(Seen) THEN q.limit ELSE Cardinality(Seen)

Ended ==
    where \in {"close", "lua", "returned"} =>
        /\ Len(rows) <= Due
        /\ ~broken => Len(rows) = Due
        /\ n = IF backend = "skiplist" /\ rows # << >> /\ Ends(rows[Len(rows)])
               THEN Len(rows) - 1 ELSE Len(rows)

\* The range is finite whatever the database.
LEMMA RangeIsFinite ==
    ASSUME QueryTypes
    PROVE  /\ Span \subseteq Nat \ {0} /\ IsFiniteSet(Span) /\ Span \subseteq present
           /\ Seen \subseteq Span /\ IsFiniteSet(Seen) /\ Cardinality(Seen) \in Nat
           /\ Cardinality(Span) \in Nat
<1>1. /\ Span \subseteq Nat \ {0} /\ Span \subseteq present /\ Span \subseteq 0 .. q.hi - 1 /\ Seen \subseteq Span
  <2>1. present \subseteq Nat \ {0} /\ q.hi \in Nat  BY ScanAssumption DEF QueryTypes
  <2>2. \A x \in Span : x \in present /\ x < q.hi  BY DEF Span, InRange
  <2>3. \A x \in Nat : x < q.hi => x \in 0 .. q.hi - 1  BY <2>1
  <2>4. Span \subseteq present /\ Span \subseteq Nat \ {0} /\ Span \subseteq 0 .. q.hi - 1  BY <2>1, <2>2, <2>3
  <2>5. Seen \subseteq Span  BY DEF Span, Seen
  <2> QED BY <2>4, <2>5
<1>2. IsFiniteSet(0 .. q.hi - 1)
  <2>1. 0 \in Int /\ q.hi - 1 \in Int  BY DEF QueryTypes
  <2> QED BY <2>1, FS_Interval
<1>3. IsFiniteSet(Span)  BY <1>1, <1>2, FS_Subset
<1>4. IsFiniteSet(Seen)  BY <1>1, <1>3, FS_Subset
<1>5. Cardinality(Span) \in Nat /\ Cardinality(Seen) \in Nat  BY <1>3, <1>4, FS_CardinalityType
<1> QED BY <1>1, <1>3, <1>4, <1>5

\* The rows are of those the callback is to see, and in their places there.
LEMMA RowsAreSeen ==
    ASSUME QueryTypes, NEW rs, InPlace(rs)
    PROVE  /\ \A a \in 1 .. Len(rs) : rs[a] \in Seen /\ Rank(Seen, rs[a]) = a - 1
           /\ Len(rs) <= Cardinality(Seen)
<1>1. /\ Span \subseteq Nat \ {0} /\ Seen \subseteq Span /\ IsFiniteSet(Seen) /\ Cardinality(Seen) \in Nat
      BY RangeIsFinite
<1>2. rs \in Seq(Span) /\ Len(rs) \in Nat /\ \A a \in 1 .. Len(rs) : rs[a] \in Span  BY DEF InPlace
<1>3. ASSUME NEW a \in 1 .. Len(rs) PROVE rs[a] \in Seen
  <2>1. ASSUME NEW s \in Span, Ends(s), s < rs[a] PROVE FALSE
    <3>1. PICK b \in 1 .. a - 1 : rs[b] = s  BY <2>1 DEF InPlace
    <3>2. b \in 1 .. Len(rs) - 1  BY <1>2
    <3> QED BY <2>1, <3>1, <3>2 DEF InPlace
  <2>2. \A s \in Span : Ends(s) => rs[a] <= s
    <3>1. \A s \in Span : s \in Nat /\ rs[a] \in Nat  BY <1>1, <1>2
    <3> QED BY <2>1, <3>1
  <2> QED BY <1>2, <2>2 DEF Seen, Span, Ends
<1>4. ASSUME NEW a \in 1 .. Len(rs) PROVE Rank(Seen, rs[a]) = a - 1
  <2>1. {d \in Seen : d < rs[a]} = {d \in Span : d < rs[a]}
    <3>1. ASSUME NEW d \in Span, d < rs[a] PROVE d \in Seen
      <4>1. PICK b \in 1 .. a - 1 : rs[b] = d  BY <3>1 DEF InPlace
      <4>2. b \in 1 .. Len(rs)  BY <1>2
      <4> QED BY <1>3, <4>1, <4>2
    <3> QED BY <1>1, <3>1
  <2>2. Rank(Span, rs[a]) = a - 1  BY DEF InPlace
  <2> QED BY <2>1, <2>2 DEF Rank
<1>5. Len(rs) <= Cardinality(Seen)
  <2>1. CASE Len(rs) = 0  BY <1>1, <2>1
  <2>2. CASE Len(rs) # 0
    <3>1. Len(rs) \in 1 .. Len(rs)  BY <1>2, <2>2
    <3>2. PICK c \in Seen : Rank(Seen, c) = Len(rs) - 1  BY <1>3, <1>4, <3>1
    <3>3. Seen \subseteq Nat  BY <1>1
    <3>4. Rank(Seen, c) \in 0 .. Cardinality(Seen) - 1  BY <1>1, <3>3, RankInSet
    <3> QED BY <1>1, <1>2, <3>2, <3>4
  <2> QED BY <2>1, <2>2
<1> QED BY <1>3, <1>4, <1>5

\* What From finds.
LEMMA FromLeast ==
    ASSUME QueryTypes, NEW m \in Nat, NEW r, r = From(m)
    PROVE  \/ r = 0 /\ \A x \in present : x < m
           \/ r \in present /\ r # 0 /\ m <= r /\ \A x \in present : x >= m => r <= x
<1> DEFINE ge == {a \in present : a >= m}
<1>1. present \subseteq Nat \ {0}  BY ScanAssumption DEF QueryTypes
<1>2. CASE ge = {}
  <2>1. \A x \in present : ~(x >= m)  BY <1>2
  <2>2. r = 0  BY <1>2 DEF From, None
  <2> QED BY <1>1, <2>1, <2>2
<1>3. CASE ge # {}
  <2>1. r = Min(ge)  BY <1>3 DEF From
  <2>2. ge \subseteq Nat  BY <1>1
  <2>3. PICK x \in ge : \A y \in ge : x <= y
    <3> HIDE DEF ge
    <3> QED BY <1>3, <2>2, LeastNumber
  <2>4. r \in ge /\ \A y \in ge : r <= y  BY <2>1, <2>3 DEF Min
  <2> QED BY <1>1, <2>4
<1> QED BY <1>2, <1>3

\* No rows too many, and where the walk has met the whole range all there are.
LEMMA RowsDue ==
    ASSUME QueryTypes, NEW rs, InPlace(rs), q.limit > 0 => Len(rs) <= q.limit
    PROVE  /\ Len(rs) <= Due
           /\ Cardinality(Seen) <= Len(rs) => Len(rs) = Due
           /\ q.limit > 0 /\ Len(rs) = q.limit => Len(rs) = Due
<1>1. Len(rs) <= Cardinality(Seen) /\ Cardinality(Seen) \in Nat  BY RowsAreSeen, RangeIsFinite
<1>2. Len(rs) \in Nat /\ q.limit \in Int  BY DEF InPlace, QueryTypes
<1> QED BY <1>1, <1>2 DEF Due

LEMMA AllMet ==
    ASSUME QueryTypes, InPlace(rows), q.limit > 0 => Len(rows) <= q.limit,
           Cardinality(Behind) = Len(rows), Behind = Span
    PROVE  Len(rows) = Due
<1>1. Seen \subseteq Span /\ IsFiniteSet(Span)  BY RangeIsFinite
<1>2. Cardinality(Seen) <= Cardinality(Span)  BY <1>1, FS_Subset
<1> QED BY <1>2, RowsDue

Walk == QueryTypes /\ InPlace(rows) /\ Walking /\ Standing /\ Ended

\* The query and the database stand still.
LEMMA StandsStill ==
    ASSUME present' = present, q' = q
    PROVE  Span' = Span /\ Due' = Due /\ (\A x : Ends(x)' = Ends(x)) /\ (\A rs : InPlace(rs)' = InPlace(rs))
<1>1. InRange' = InRange  BY DEF InRange
<1>2. Span' = Span  BY <1>1 DEF Span
<1>3. Seen' = Seen  BY <1>1 DEF Seen
<1>4. Due' = Due  BY <1>3 DEF Due
<1>5. \A x : Ends(x)' = Ends(x)  BY DEF Ends
<1>6. \A rs : InPlace(rs)' = InPlace(rs)  BY <1>2, <1>5 DEF InPlace
<1> QED BY <1>2, <1>4, <1>5, <1>6

\* A step that gives no row.
LEMMA NoRow ==
    ASSUME Walk, UNCHANGED <<backend, present, q, n, rows>>,
           where' \in {"open", "iter", "seek", "head", "row", "visit", "next", "close", "lua", "returned"},
           pos' \in present \cup {0}, broken' \in BOOLEAN
    PROVE  /\ QueryTypes' /\ InPlace(rows)'
           /\ where \in {"open", "iter", "seek", "head", "row", "visit", "next"} /\ broken' = broken => Walking'
           /\ where \in {"open", "iter", "seek", "head", "row", "visit", "next"}
                /\ (~broken' => Len(rows) = Due) => Ended'
           /\ where \in {"close", "lua"} /\ broken' = broken => Ended'
<1>0. present' = present /\ q' = q /\ n' = n /\ rows' = rows /\ backend' = backend  OBVIOUS
<1>1. Span' = Span /\ Due' = Due /\ (\A x : Ends(x)' = Ends(x)) /\ (\A rs : InPlace(rs)' = InPlace(rs))
      BY <1>0, StandsStill
<1>2. QueryTypes'  BY <1>0, <1>1 DEF QueryTypes, Walk
<1>3. InPlace(rows)'  BY <1>0, <1>1 DEF Walk, InPlace
<1>4. ASSUME where \in {"open", "iter", "seek", "head", "row", "visit", "next"}, broken' = broken
      PROVE  Walking'
      BY <1>0, <1>1, <1>4 DEF Walk, Walking, Ends
<1>5. ASSUME where \in {"open", "iter", "seek", "head", "row", "visit", "next"}, ~broken' => Len(rows) = Due
      PROVE  Ended'
  <2>1. /\ n = Len(rows) /\ \A a \in 1 .. Len(rows) : ~Ends(rows[a])
        /\ q.limit > 0 => Len(rows) <= q.limit
        BY <1>5 DEF Walk, Walking
  <2>2. Len(rows) <= Due  BY <2>1, RowsDue DEF Walk
  <2>3. rows # << >> => Len(rows) \in 1 .. Len(rows)
    <3>1. rows \in Seq(Span)  BY DEF Walk, InPlace
    <3> QED BY <3>1
  <2>4. rows # << >> => ~Ends(rows[Len(rows)])  BY <2>1, <2>3
  <2>5. (rows # << >> => ~Ends(rows[Len(rows)]))'  BY <1>0, <1>1, <2>4 DEF Ends
  <2> QED BY <1>0, <1>1, <1>5, <2>1, <2>2, <2>5 DEF Ended
<1>6. ASSUME where \in {"close", "lua"}, broken' = broken PROVE Ended'
      BY <1>0, <1>1, <1>6 DEF Walk, Ended, Ends
<1> QED BY <1>2, <1>3, <1>4, <1>5, <1>6

LEMMA BeginSteps ==
    ASSUME Walk, Open \/ OpenIter \/ Seek
    PROVE  Walk'
<1>0. QueryTypes /\ InPlace(rows) /\ Walking /\ Standing /\ rows = << >> /\ Len(rows) = 0
      BY DEF Walk, Standing, Open, OpenIter, Seek
<1>1. CASE Open \/ OpenIter
  <2>1. /\ UNCHANGED <<backend, present, q, n, rows, pos>> /\ where \in {"open", "iter"}
        /\ \/ where' \in {"iter", "seek"} /\ broken' = broken
           \/ where' = "lua" /\ broken' = TRUE
        BY <1>1 DEF Open, OpenIter
  <2>2. pos' \in present \cup {0} /\ broken' \in BOOLEAN  BY <1>0, <2>1 DEF QueryTypes
  <2>3. QueryTypes' /\ InPlace(rows)'  BY <2>1, <2>2, NoRow
  <2>4. Standing'  BY <1>0, <2>1 DEF Standing
  <2>5. CASE where' = "lua" /\ broken' = TRUE
    <3>1. Ended'  BY <2>1, <2>2, <2>5, NoRow
    <3>2. Walking'  BY <2>5 DEF Walking
    <3> QED BY <2>3, <2>4, <3>1, <3>2 DEF Walk
  <2>6. CASE where' \in {"iter", "seek"} /\ broken' = broken
    <3>1. Walking'  BY <2>1, <2>2, <2>6, NoRow
    <3>2. Ended'  BY <2>6 DEF Ended
    <3> QED BY <2>3, <2>4, <3>1, <3>2 DEF Walk
  <2> QED BY <2>1, <2>5, <2>6
<1>2. CASE Seek
  <2>1. /\ UNCHANGED <<backend, present, q, n, rows, broken>> /\ where = "seek" /\ where' = "head"
        /\ pos' = From(q.lo)
        BY <1>2 DEF Seek
  <2>2. q.lo \in Nat /\ broken \in BOOLEAN  BY <1>0 DEF QueryTypes
  <2>3. \/ pos' = 0 /\ \A x \in present : x < q.lo
        \/ pos' \in present /\ pos' # 0 /\ q.lo <= pos' /\ \A x \in present : x >= q.lo => pos' <= x
        BY <1>0, <2>1, <2>2, FromLeast
  <2>4. QueryTypes' /\ InPlace(rows)' /\ Walking'
    <3>1. pos' \in present \cup {0} /\ broken' \in BOOLEAN  BY <2>1, <2>2, <2>3
    <3> QED BY <2>1, <3>1, NoRow
  <2>5. Behind' = {}
    <3>1. Span' = Span  BY <2>1, StandsStill
    <3>2. \A x \in Span : x \in present /\ x \in Nat /\ q.lo <= x
      <4>1. Span \subseteq Nat \ {0}  BY <1>0, RangeIsFinite
      <4> QED BY <4>1 DEF Span, InRange
    <3>3. pos' # 0 => pos' \in Nat
      <4>1. present \subseteq Nat  BY <1>0, ScanAssumption DEF QueryTypes
      <4> QED BY <2>3, <4>1
    <3>4. \A x \in Span : ~(pos' = 0 \/ x < pos')  BY <2>2, <2>3, <3>2, <3>3
    <3> QED BY <3>1, <3>4 DEF Behind
  <2>6. Standing'
    <3>1. Cardinality(Behind') = 0  BY <2>5, FS_EmptySet
    <3>2. Len(rows') = 0 /\ q' = q  BY <1>0, <2>1
    <3>3. pos' # 0 => q.lo <= pos'  BY <2>3
    <3> QED BY <2>1, <2>5, <3>1, <3>2, <3>3 DEF Standing
  <2>7. Ended'  BY <2>1 DEF Ended
  <2> QED BY <2>4, <2>6, <2>7 DEF Walk
<1> QED BY <1>1, <1>2

\* The loop goes on, or the walk has met all of the range or its limit.
LEMMA HeadStep ==
    ASSUME Walk, LoopHead
    PROVE  Walk'
<1>0. QueryTypes /\ InPlace(rows) /\ Walking /\ Standing  BY DEF Walk
<1>1. /\ UNCHANGED <<backend, present, q, n, rows, broken, pos>> /\ where = "head"
      /\ where' = IF pos # 0 /\ (q.limit <= 0 \/ n < q.limit) THEN "row" ELSE "close"
      BY DEF LoopHead, None
<1>2. /\ n = Len(rows) /\ (q.limit > 0 => Len(rows) <= q.limit) /\ q.limit \in Int /\ Len(rows) \in Nat
      /\ Cardinality(Behind) = Len(rows)
      BY <1>0, <1>1 DEF Walking, Standing, InPlace, QueryTypes
<1>3. pos' \in present \cup {0} /\ broken' \in BOOLEAN /\ where' \in {"row", "close"}
      BY <1>0, <1>1 DEF QueryTypes
<1>4. QueryTypes' /\ InPlace(rows)' /\ Walking'  BY <1>1, <1>3, NoRow
<1>5. Standing'
  <2>1. Behind' = Behind
    <3>1. Span' = Span  BY <1>1, StandsStill
    <3> QED BY <1>1, <3>1 DEF Behind
  <2> QED BY <1>0, <1>1, <2>1 DEF Standing
<1>6. Ended'
  <2>1. CASE where' = "row"  BY <2>1 DEF Ended
  <2>2. CASE where' = "close"
    <3>1. CASE pos = 0
      <4>1. Behind = Span  BY <3>1 DEF Behind
      <4>2. Len(rows) = Due  BY <1>0, <1>2, <4>1, AllMet
      <4> QED BY <1>1, <1>3, <4>2, NoRow
    <3>2. CASE pos # 0
      <4>1. q.limit > 0 /\ Len(rows) = q.limit  BY <1>1, <1>2, <2>2, <3>2
      <4>2. Len(rows) = Due  BY <1>0, <1>2, <4>1, RowsDue
      <4> QED BY <1>1, <1>3, <4>2, NoRow
    <3> QED BY <3>1, <3>2
  <2> QED BY <1>3, <2>1, <2>2
<1> QED BY <1>4, <1>5, <1>6 DEF Walk

LEMMA FetchStep ==
    ASSUME Walk, Fetch
    PROVE  Walk'
<1>0. QueryTypes /\ InPlace(rows) /\ Walking /\ Standing  BY DEF Walk
<1>1. /\ UNCHANGED <<backend, present, q, n, rows, pos>> /\ where = "row"
      /\ \/ where' = "visit" /\ broken' = broken
         \/ where' = "close" /\ broken' = TRUE
      BY DEF Fetch
<1>2. pos' \in present \cup {0} /\ broken' \in BOOLEAN  BY <1>0, <1>1 DEF QueryTypes
<1>3. QueryTypes' /\ InPlace(rows)'  BY <1>1, <1>2, NoRow
<1>4. Standing'
  <2>1. Behind' = Behind
    <3>1. Span' = Span  BY <1>1, StandsStill
    <3> QED BY <1>1, <3>1 DEF Behind
  <2> QED BY <1>0, <1>1, <2>1 DEF Standing
<1>5. CASE where' = "visit" /\ broken' = broken
  <2>1. Walking' /\ Ended'
    <3>1. Walking'  BY <1>1, <1>2, <1>5, NoRow
    <3> QED BY <1>5, <3>1 DEF Ended
  <2> QED BY <1>3, <1>4, <2>1 DEF Walk
<1>6. CASE where' = "close" /\ broken' = TRUE
  <2>1. Ended'  BY <1>1, <1>2, <1>6, NoRow
  <2>2. Walking'  BY <1>6 DEF Walking
  <2> QED BY <1>3, <1>4, <2>1, <2>2 DEF Walk
<1> QED BY <1>1, <1>5, <1>6

\* A row more: it is the next of the range.
LEMMA OneRowMore ==
    ASSUME QueryTypes, InPlace(rows), Standing, pos \in Span,
           \A a \in 1 .. Len(rows) : ~Ends(rows[a]), where = "visit"
    PROVE  InPlace(Append(rows, pos))
<1>1. PICK rs, m : rs = Append(rows, pos) /\ m = Len(rows)  OBVIOUS
<1>2. m \in Nat /\ rows \in Seq(Span)  BY <1>1 DEF InPlace
<1>3. /\ rs \in Seq(Span) /\ Len(rs) = m + 1 /\ rs[m + 1] = pos
      /\ \A a \in 1 .. m : rs[a] = rows[a]
      BY <1>1, <1>2
<1>4. Span \subseteq Nat \ {0}  BY RangeIsFinite
<1>5. pos # 0 /\ Behind = {x \in Span : x < pos}  BY <1>4 DEF Behind
<1>6. (\A x \in Behind : \E a \in 1 .. m : rows[a] = x) /\ Cardinality(Behind) = m
      BY <1>1 DEF Standing
<1>7. ASSUME NEW a \in 1 .. Len(rs) PROVE Rank(Span, rs[a]) = a - 1
  <2>1. CASE a = m + 1
    <3>1. Rank(Span, pos) = m  BY <1>5, <1>6 DEF Rank
    <3> QED BY <1>2, <1>3, <2>1, <3>1
  <2>2. CASE a # m + 1
    <3>1. a \in 1 .. m  BY <1>2, <1>3, <2>2
    <3> QED BY <1>1, <1>3, <3>1 DEF InPlace
  <2> QED BY <2>1, <2>2
<1>8. ASSUME NEW a \in 1 .. Len(rs), NEW x \in Span, x < rs[a] PROVE \E b \in 1 .. a - 1 : rs[b] = x
  <2>1. CASE a = m + 1
    <3>1. x \in Behind  BY <1>3, <1>5, <1>8, <2>1
    <3>2. PICK b \in 1 .. m : rows[b] = x  BY <1>6, <3>1
    <3>3. b \in 1 .. a - 1 /\ rs[b] = x  BY <1>2, <1>3, <2>1, <3>2
    <3> QED BY <3>3
  <2>2. CASE a # m + 1
    <3>1. a \in 1 .. m  BY <1>2, <1>3, <2>2
    <3>2. x < rows[a]  BY <1>3, <1>8, <3>1
    <3>3. PICK b \in 1 .. a - 1 : rows[b] = x  BY <1>1, <3>1, <3>2 DEF InPlace
    <3>4. b \in 1 .. m  BY <1>2, <3>1
    <3> QED BY <1>3, <3>3, <3>4
  <2> QED BY <2>1, <2>2
<1>9. \A a \in 1 .. Len(rs) - 1 : ~Ends(rs[a])
  <2>1. Len(rs) - 1 = m  BY <1>2, <1>3
  <2> QED BY <1>1, <1>3, <2>1
<1>10. InPlace(rs)  BY <1>3, <1>7, <1>8, <1>9 DEF InPlace
<1> QED BY <1>1, <1>10

\* Where the callback ends the walk the range it is to see ends too.
LEMMA SeenEnds ==
    ASSUME QueryTypes, Standing, where = "visit", pos \in Span, Ends(pos)
    PROVE  Cardinality(Seen) <= Len(rows) + 1
<1>1. Span \subseteq Nat \ {0} /\ IsFiniteSet(Span)  BY RangeIsFinite
<1>2. Behind \subseteq Span /\ Behind = {x \in Span : x < pos} /\ Cardinality(Behind) = Len(rows)
      BY <1>1 DEF Behind, Standing
<1>3. IsFiniteSet(Behind)  BY <1>1, <1>2, FS_Subset
<1>4. pos \notin Behind  BY <1>1, <1>2
<1>5. IsFiniteSet(Behind \cup {pos}) /\ Cardinality(Behind \cup {pos}) = Cardinality(Behind) + 1
  <2>1. IsFiniteSet(Behind \cup {pos})
        /\ Cardinality(Behind \cup {pos}) = IF pos \in Behind THEN Cardinality(Behind) ELSE Cardinality(Behind) + 1
        BY <1>3, FS_AddElement
  <2> QED BY <1>4, <2>1
<1>6. Seen \subseteq Behind \cup {pos}
  <2>1. \A x \in Seen : x \in Span /\ x <= pos  BY DEF Seen, Span, Ends
  <2>2. \A x \in Span : x <= pos => x < pos \/ x = pos  BY <1>1
  <2> QED BY <1>2, <2>1, <2>2
<1>7. Cardinality(Seen) <= Cardinality(Behind \cup {pos})  BY <1>5, <1>6, FS_Subset
<1> QED BY <1>2, <1>5, <1>7

LEMMA VisitStep ==
    ASSUME Walk, Visit
    PROVE  Walk'
<1>0. QueryTypes /\ InPlace(rows) /\ Walking /\ Standing  BY DEF Walk
<1>1. /\ UNCHANGED <<backend, present, q, broken, pos>> /\ where = "visit"
      /\ where' = IF PastHi \/ Stops THEN "close" ELSE "next"
      BY DEF Visit
<1>2. /\ n = Len(rows) /\ (q.limit > 0 => Len(rows) <= q.limit) /\ q.limit \in Int /\ Len(rows) \in Nat
      /\ \A a \in 1 .. Len(rows) : ~Ends(rows[a])
      /\ Cardinality(Behind) = Len(rows) /\ ~broken /\ broken \in BOOLEAN
      /\ pos \in present /\ pos # 0 /\ q.lo <= pos /\ (q.limit <= 0 \/ n < q.limit)
      BY <1>0, <1>1 DEF Walking, Standing, InPlace, QueryTypes
<1>3. present \subseteq Nat /\ q.hi \in Nat  BY <1>0, ScanAssumption DEF QueryTypes
<1>4. CASE PastHi
  <2>1. n' = n /\ rows' = rows /\ where' = "close"  BY <1>1, <1>4 DEF Visit
  <2>2. Behind = Span
    <3>1. \A x \in Span : x \in Nat /\ x < q.hi
      <4>1. Span \subseteq Nat \ {0}  BY <1>0, RangeIsFinite
      <4> QED BY <4>1 DEF Span, InRange
    <3>2. pos >= q.hi /\ pos \in Nat  BY <1>2, <1>3, <1>4 DEF PastHi
    <3>3. \A x \in Span : x < pos  BY <1>3, <3>1, <3>2
    <3> QED BY <3>3 DEF Behind
  <2>3. Len(rows) = Due  BY <1>0, <1>2, <2>2, AllMet
  <2>4. pos' \in present \cup {0} /\ broken' \in BOOLEAN  BY <1>1, <1>2
  <2>5. QueryTypes' /\ InPlace(rows)' /\ Ended'  BY <1>1, <2>1, <2>3, <2>4, NoRow
  <2>6. Walking' /\ Standing'  BY <2>1 DEF Walking, Standing
  <2> QED BY <2>5, <2>6 DEF Walk
<1>5. CASE ~PastHi
  <2>1. /\ rows' = Append(rows, pos)
        /\ n' = IF backend = "skiplist" /\ Stops THEN n ELSE n + 1
        /\ where' = IF Stops THEN "close" ELSE "next"
        BY <1>1, <1>5 DEF Visit
  <2>2. pos \in Span
    <3>1. pos < q.hi  BY <1>2, <1>3, <1>5 DEF PastHi
    <3> QED BY <1>2, <3>1 DEF Span, InRange
  <2>3. InPlace(rows')  BY <1>0, <1>1, <1>2, <2>1, <2>2, OneRowMore
  <2>4. Span' = Span /\ Due' = Due /\ (\A x : Ends(x)' = Ends(x)) /\ (\A rs : InPlace(rs)' = InPlace(rs))
        BY <1>1, StandsStill
  <2>5. /\ Len(rows') = Len(rows) + 1 /\ rows' # << >> /\ rows'[Len(rows')] = pos
        /\ \A a \in 1 .. Len(rows) : rows'[a] = rows[a]
    <3>1. rows \in Seq(Span)  BY <1>0 DEF InPlace
    <3> QED BY <2>1, <2>2, <3>1
  <2>6. QueryTypes'  BY <1>0, <1>1, <1>2, <2>1 DEF QueryTypes
  <2>7. InPlace(rows)'  BY <2>3, <2>4
  <2>8. Stops <=> Ends(pos)  BY DEF Stops, Ends
  <2>9. q.limit > 0 => Len(rows') <= q.limit  BY <1>2, <2>5
  <2>10. CASE Stops
    <3>1. Cardinality(Seen) <= Len(rows')  BY <1>0, <1>1, <2>2, <2>5, <2>8, <2>10, SeenEnds
    <3>2. Len(rows') = Due  BY <1>0, <2>3, <2>9, <3>1, RowsDue
    <3>3. n' = IF backend = "skiplist" THEN Len(rows') - 1 ELSE Len(rows')  BY <1>2, <2>1, <2>5, <2>10
    <3>4. Len(rows') <= Due  BY <1>0, <2>3, <2>9, RowsDue
    <3>5. Ends(rows[Len(rows)])'  BY <1>1, <2>4, <2>5, <2>8, <2>10 DEF Ends
    <3>6. Ended'  BY <1>1, <2>4, <2>5, <3>2, <3>3, <3>4, <3>5 DEF Ended
    <3>7. Walking' /\ Standing'  BY <2>1, <2>10 DEF Walking, Standing
    <3> QED BY <2>6, <2>7, <3>6, <3>7 DEF Walk
  <2>11. CASE ~Stops
    <3>1. where' = "next" /\ n' = Len(rows')  BY <1>2, <2>1, <2>5, <2>11
    <3>2. \A a \in 1 .. Len(rows') : ~(rows'[a] \in {q.stop, q.raise})
      <4>1. \A a \in 1 .. Len(rows') : a \in 1 .. Len(rows) \/ a = Len(rows')  BY <1>2, <2>5
      <4> QED BY <1>2, <2>5, <2>8, <2>11, <4>1 DEF Ends
    <3>3. Walking'  BY <1>1, <1>2, <2>9, <3>1, <3>2 DEF Walking, Ends
    <3>4. Standing' /\ Ended'  BY <1>1, <2>5, <3>1 DEF Standing, Ended
    <3> QED BY <2>6, <2>7, <3>3, <3>4 DEF Walk
  <2> QED BY <2>10, <2>11
<1> QED BY <1>4, <1>5

LEMMA MoveStep ==
    ASSUME Walk, Move
    PROVE  Walk'
<1>0. QueryTypes /\ InPlace(rows) /\ Walking /\ Standing  BY DEF Walk
<1>1. /\ UNCHANGED <<backend, present, q, n, rows>> /\ where = "next"
      /\ \/ where' = "head" /\ broken' = broken /\ pos' = From(pos + 1)
         \/ where' = "close" /\ broken' = TRUE /\ pos' = pos
      BY DEF Move
<1>2. /\ rows \in Seq(Span) /\ rows # << >> /\ pos = rows[Len(rows)] /\ broken \in BOOLEAN
      /\ pos \in present \cup {0}
      BY <1>0, <1>1 DEF Standing, InPlace, QueryTypes
<1>3. Len(rows) \in Nat /\ Len(rows) \in 1 .. Len(rows) /\ pos \in Span  BY <1>2
<1>4. Span \subseteq Nat \ {0} /\ IsFiniteSet(Span) /\ Span \subseteq present  BY <1>0, RangeIsFinite
<1>5. CASE where' = "close" /\ broken' = TRUE /\ pos' = pos
  <2>1. pos' \in present \cup {0} /\ broken' \in BOOLEAN  BY <1>2, <1>5
  <2>2. QueryTypes' /\ InPlace(rows)' /\ Ended'  BY <1>1, <1>5, <2>1, NoRow
  <2>3. Walking' /\ Standing'  BY <1>5 DEF Walking, Standing
  <2> QED BY <2>2, <2>3 DEF Walk
<1>6. CASE where' = "head" /\ broken' = broken /\ pos' = From(pos + 1)
  <2>1. pos + 1 \in Nat /\ pos \in Nat  BY <1>3, <1>4
  <2>2. \/ pos' = 0 /\ \A x \in present : x < pos + 1
        \/ pos' \in present /\ pos' # 0 /\ pos + 1 <= pos' /\ \A x \in present : x >= pos + 1 => pos' <= x
        BY <1>0, <1>6, <2>1, FromLeast
  <2>3. pos' \in present \cup {0} /\ broken' \in BOOLEAN  BY <1>2, <1>6, <2>2
  <2>4. QueryTypes' /\ InPlace(rows)' /\ Walking'  BY <1>1, <1>6, <2>3, NoRow
  <2>5. Behind' = {x \in Span : x < pos} \cup {pos}
    <3>1. Span' = Span  BY <1>1, StandsStill
    <3>2. pos' # 0 => pos' \in Nat
      <4>1. present \subseteq Nat  BY <1>0, ScanAssumption DEF QueryTypes
      <4> QED BY <2>2, <4>1
    <3>3. \A x \in Span : x \in present /\ x \in Nat  BY <1>4
    <3>4. \A x \in Span : (pos' = 0 \/ x < pos') <=> (x < pos \/ x = pos)  BY <2>1, <2>2, <3>2, <3>3
    <3> QED BY <1>3, <3>1, <3>4 DEF Behind
  <2>6. Cardinality(Behind') = Len(rows)
    <3>1. PICK T : T = {x \in Span : x < pos}  OBVIOUS
    <3>2. Cardinality(T) = Len(rows) - 1
      <4>1. Rank(Span, pos) = Len(rows) - 1  BY <1>0, <1>2, <1>3 DEF InPlace
      <4> QED BY <3>1, <4>1 DEF Rank
    <3>3. IsFiniteSet(T) /\ pos \notin T  BY <1>4, <2>1, <3>1, FS_Subset
    <3>4. Cardinality(T \cup {pos}) = IF pos \in T THEN Cardinality(T) ELSE Cardinality(T) + 1
          BY <3>3, FS_AddElement
    <3>5. Cardinality(T \cup {pos}) = Len(rows)  BY <1>3, <3>2, <3>3, <3>4
    <3> QED BY <2>5, <3>1, <3>5
  <2>7. \A x \in Behind' : \E a \in 1 .. Len(rows) : rows[a] = x
    <3>1. ASSUME NEW x \in Span, x < pos PROVE \E a \in 1 .. Len(rows) : rows[a] = x
      <4>1. PICK b \in 1 .. Len(rows) - 1 : rows[b] = x  BY <1>0, <1>2, <1>3, <3>1 DEF InPlace
      <4>2. b \in 1 .. Len(rows)  BY <1>3
      <4> QED BY <4>1, <4>2
    <3> QED BY <1>2, <1>3, <2>5, <3>1
  <2>8. pos' # 0 => q'.lo <= pos'
    <3>1. q.lo <= pos /\ q.lo \in Nat  BY <1>0, <1>3 DEF Span, InRange, QueryTypes
    <3>2. present \subseteq Nat  BY <1>0, ScanAssumption DEF QueryTypes
    <3>3. pos' # 0 => pos' \in Nat /\ pos + 1 <= pos'  BY <2>2, <3>2
    <3> QED BY <1>1, <2>1, <3>1, <3>3
  <2>9. Standing'  BY <1>1, <1>6, <2>6, <2>7, <2>8 DEF Standing
  <2>10. Ended'  BY <1>6 DEF Ended
  <2> QED BY <2>4, <2>9, <2>10 DEF Walk
<1> QED BY <1>1, <1>5, <1>6

LEMMA WalkHolds == ScanSpec => []Walk
<1>1. ScanInit => Walk
  <2> SUFFICES ASSUME ScanInit PROVE Walk  OBVIOUS
  <2>1. /\ where = "open" /\ pos = 0 /\ n = 0 /\ rows = << >> /\ broken = FALSE
        /\ present \subseteq ScanKeys /\ q \in Query /\ backend \in {"skiplist", "rocksdb", "tidesdb"}
        BY DEF ScanInit, None
  <2>2. q.lo \in Nat /\ q.hi \in Nat /\ q.limit \in Int
    <3>1. q.lo \in Bounds /\ q.hi \in Bounds /\ q.limit \in Limits  BY <2>1 DEF Query
    <3> QED BY <3>1, ScanAssumption
  <2>3. QueryTypes  BY <2>1, <2>2 DEF QueryTypes
  <2>4. rows \in Seq(Span) /\ Len(rows) = 0  BY <2>1
  <2>5. InPlace(rows)  BY <2>4 DEF InPlace
  <2>6. Walking  BY <2>1, <2>2, <2>4 DEF Walking
  <2>7. Standing /\ Ended  BY <2>1 DEF Standing, Ended
  <2> QED BY <2>3, <2>5, <2>6, <2>7 DEF Walk
<1>2. Walk /\ [ScanNext]_scanVars => Walk'
  <2> SUFFICES ASSUME Walk, [ScanNext]_scanVars PROVE Walk'  OBVIOUS
  <2>1. CASE Open \/ OpenIter \/ Seek  BY <2>1, BeginSteps
  <2>2. CASE LoopHead  BY <2>2, HeadStep
  <2>3. CASE Fetch  BY <2>3, FetchStep
  <2>4. CASE Visit  BY <2>4, VisitStep
  <2>5. CASE Move  BY <2>5, MoveStep
  <2>6. CASE Close \/ Lua
    <3>1. /\ UNCHANGED <<backend, present, q, n, rows, broken, pos>> /\ where \in {"close", "lua"}
          /\ where' \in {"lua", "returned"}
          BY <2>6 DEF Close, Lua
    <3>2. pos' \in present \cup {0} /\ broken' \in BOOLEAN  BY <3>1 DEF Walk, QueryTypes
    <3>3. QueryTypes' /\ InPlace(rows)' /\ Ended'  BY <3>1, <3>2, NoRow
    <3>4. Walking' /\ Standing'  BY <3>1 DEF Walking, Standing
    <3> QED BY <3>3, <3>4 DEF Walk
  <2>7. CASE UNCHANGED scanVars
    <3>1. UNCHANGED <<backend, present, q, where, n, rows, broken, pos>>  BY <2>7 DEF scanVars
    <3>2. /\ Span' = Span /\ Due' = Due /\ (\A x : Ends(x)' = Ends(x)) /\ (\A rs : InPlace(rs)' = InPlace(rs))
          /\ Behind' = Behind
      <4>1. Span' = Span /\ Due' = Due /\ (\A x : Ends(x)' = Ends(x)) /\ (\A rs : InPlace(rs)' = InPlace(rs))
            BY <3>1, StandsStill
      <4> QED BY <3>1, <4>1 DEF Behind
    <3>3. QueryTypes'  BY <3>1 DEF Walk, QueryTypes
    <3>4. InPlace(rows)'  BY <3>1, <3>2 DEF Walk, InPlace
    <3>5. Walking'  BY <3>1, <3>2 DEF Walk, Walking, Ends
    <3>6. Standing'  BY <3>1, <3>2 DEF Walk, Standing
    <3>7. Ended'  BY <3>1, <3>2 DEF Walk, Ended, Ends
    <3> QED BY <3>3, <3>4, <3>5, <3>6, <3>7 DEF Walk
  <2>8. CASE Returned  BY <2>7, <2>8 DEF Returned
  <2> QED BY <2>1, <2>2, <2>3, <2>4, <2>5, <2>6, <2>7, <2>8 DEF ScanNext
<1> QED BY <1>1, <1>2, PTL DEF ScanSpec

\* The beginning of a sequence.
LEMMA Beginning ==
    ASSUME NEW T, NEW s \in Seq(T), NEW t \in Seq(T), Len(s) <= Len(t),
           \A a \in 1 .. Len(s) : t[a] = s[a]
    PROVE  /\ SubSeq(t, 1, Len(s)) = s /\ SubSeq(s, 1, Len(s)) = s
           /\ Len(s) = Len(t) => t = s
<1>1. Len(s) \in Nat /\ Len(t) \in Nat  OBVIOUS
<1>2. SubSeq(t, 1, Len(s)) = [a \in 1 .. Len(s) |-> t[a]]  BY <1>1
<1>3. SubSeq(s, 1, Len(s)) = [a \in 1 .. Len(s) |-> s[a]]  BY <1>1
<1>4. s = [a \in 1 .. Len(s) |-> s[a]] /\ t = [a \in 1 .. Len(t) |-> t[a]]  OBVIOUS
<1> QED BY <1>2, <1>3, <1>4

\* For any database, bounds, limit and callback, each engine gives the rows the
\* set of keys calls for, in order, or with a failure a beginning of them.
THEOREM EnginesGiveSameRows == ScanSpec => []SameRows
<1>1. Walk => SameRows
  <2> SUFFICES ASSUME Walk, where = "returned"
               PROVE  /\ IF broken THEN IsPrefix(rows, Expected) ELSE rows = Expected
                      /\ n = IF backend = "skiplist" /\ rows # << >> /\ Last(rows) \in {q.stop, q.raise}
                             THEN Len(rows) - 1 ELSE Len(rows)
      BY DEF SameRows
  <2>0. QueryTypes /\ InPlace(rows) /\ Ended  BY DEF Walk
  <2> DEFINE c == Cardinality(Seen)
             keys == [a \in 1 .. c |-> CHOOSE k \in Seen : Cardinality({x \in Seen : x < k}) = a - 1]
             T == Nat \cup {keys[a] : a \in 1 .. c}
  <2>1. Expected = IF q.limit > 0 /\ q.limit < Len(keys) THEN SubSeq(keys, 1, q.limit) ELSE keys
        BY Zenon DEF Expected, Cardinality, Cardinality
  <2>2. \A a \in 1 .. c : keys[a] = CHOOSE k \in Seen : Rank(Seen, k) = a - 1  BY DEF Rank
  <2>3. Seen \subseteq Nat /\ IsFiniteSet(Seen) /\ c \in Nat
    <3>1. Seen \subseteq Span /\ Span \subseteq Nat \ {0} /\ IsFiniteSet(Seen) /\ Cardinality(Seen) \in Nat
          BY <2>0, RangeIsFinite
    <3> QED BY <3>1
  <2>4. keys \in [1 .. c -> T]  OBVIOUS
  <2>5. /\ Len(rows) <= Due /\ (~broken => Len(rows) = Due)
        /\ Due = IF q.limit > 0 /\ q.limit < c THEN q.limit ELSE c
        /\ q.limit \in Int /\ Len(rows) \in Nat
    <3>1. Due = IF q.limit > 0 /\ q.limit < c THEN q.limit ELSE c  BY DEF Due
    <3> HIDE DEF c
    <3> QED BY <2>0, <3>1 DEF Ended, QueryTypes, InPlace
  <2>6. rows \in Seq(T)
    <3>1. rows \in Seq(Span) /\ Span \subseteq T  BY <2>0, RangeIsFinite DEF InPlace
    <3> HIDE DEF T
    <3> QED BY <3>1
  <2> HIDE DEF keys, c, T
  <2>7. keys \in Seq(T) /\ Len(keys) = c  BY <2>3, <2>4
  <2>8. ASSUME NEW a \in 1 .. Len(rows) PROVE keys[a] = rows[a]
    <3>1. a \in 1 .. c  BY <2>3, <2>5
    <3>2. keys[a] = CHOOSE k \in Seen : Rank(Seen, k) = a - 1  BY <2>2, <3>1
    <3>3. rows[a] \in Seen /\ Rank(Seen, rows[a]) = a - 1  BY <2>0, RowsAreSeen
    <3>4. keys[a] \in Seen /\ Rank(Seen, keys[a]) = a - 1  BY <3>2, <3>3
    <3> QED BY <2>3, <3>3, <3>4, RankOrder
  <2>9. /\ SubSeq(keys, 1, Len(rows)) = rows /\ SubSeq(rows, 1, Len(rows)) = rows
        /\ Len(rows) = c => keys = rows
    <3>1. Len(rows) <= Len(keys)  BY <2>3, <2>5, <2>7
    <3> QED BY <2>6, <2>7, <2>8, <3>1, Beginning
  <2>10. ~broken => rows = Expected
    <3>1. CASE q.limit > 0 /\ q.limit < c  BY <2>1, <2>5, <2>7, <2>9, <3>1
    <3>2. CASE ~(q.limit > 0 /\ q.limit < c)  BY <2>1, <2>5, <2>7, <2>9, <3>2
    <3> QED BY <3>1, <3>2
  <2>11. IsPrefix(rows, Expected)
    <3>1. CASE q.limit > 0 /\ q.limit < c
      <4>1. Expected = SubSeq(keys, 1, q.limit) /\ Len(rows) <= q.limit  BY <2>1, <2>5, <2>7, <3>1
      <4>2. PICK e : e = Expected  OBVIOUS
      <4>3. e \in Seq(T) /\ Len(e) = q.limit /\ \A a \in 1 .. q.limit : e[a] = keys[a]
        <5>1. e = [a \in 1 .. q.limit |-> keys[a]]  BY <2>5, <2>7, <3>1, <4>1, <4>2
        <5>2. \A a \in 1 .. q.limit : keys[a] \in T  BY <2>3, <2>4, <2>5, <3>1
        <5> QED BY <2>5, <3>1, <5>1, <5>2
      <4>4. \A a \in 1 .. Len(rows) : e[a] = rows[a]
        <5>1. \A a \in 1 .. Len(rows) : a \in 1 .. q.limit  BY <2>5, <4>1
        <5>2. \A a \in 1 .. q.limit : e[a] = keys[a]  BY <4>3
        <5> QED BY <2>8, <5>1, <5>2, Zenon
      <4>5. SubSeq(e, 1, Len(rows)) = rows  BY <2>6, <4>1, <4>3, <4>4, Beginning
      <4> QED BY <2>9, <4>1, <4>2, <4>3, <4>5 DEF IsPrefix
    <3>2. CASE ~(q.limit > 0 /\ q.limit < c)
      <4>1. Expected = keys /\ Len(rows) <= c  BY <2>1, <2>5, <2>7, <3>2
      <4> QED BY <2>7, <2>9, <4>1 DEF IsPrefix
    <3> QED BY <3>1, <3>2
  <2>12. n = IF backend = "skiplist" /\ rows # << >> /\ Last(rows) \in {q.stop, q.raise}
             THEN Len(rows) - 1 ELSE Len(rows)
         BY <2>0 DEF Ended, Ends, Last
  <2> QED BY <2>10, <2>11, <2>12
<1> QED BY <1>1, WalkHolds, PTL
=============================================================================
