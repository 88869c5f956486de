------------------------------ MODULE EngineProofs ------------------------------
(***************************************************************************)
(* What Engine promises for any section, any tree of files and any limits  *)
(* of du_bytes, while files come and go under it; and, in the last part,   *)
(* what main makes of the rest of the configuration, RunConfig.            *)
(***************************************************************************)
EXTENDS Engine, RunConfig, CountingProofs, SequenceTheorems, TLAPS

WalkStates ==
    [at : {"idle", "loop", "dir", "done"}, pending : Seq(Dirs \cup {Root}), dir : Dirs \cup {Root},
     todo : SUBSET Entries, guard : Nat, counted : Seq(Entries \cup {Root})]

TypeOK ==
    /\ case \in Cases
    /\ pc \in {"dir", "options", "family", "live", "closed", "aborted"}
    /\ i \in Nat \ {0} /\ cur \in Nat
    /\ eff = [o \in Options |-> eff[o]]
    /\ used \subseteq Entries /\ fs \subseteq used \cup {Root}
    /\ walk \in WalkStates

\* Nothing is there before the engine is open, and its directory is a tree
\* while it is.
Tree ==
    /\ pc \in {"dir", "options", "family"} => fs \subseteq {Root} /\ used = {}
    /\ pc \in {"options", "family", "live"} => Root \in fs
    /\ pc = "live" => \A e \in fs \ {Root} : Parent[e] \in fs

\* RocksDB holds one set of options while it reads the section and while it is
\* open; TidesDB none.
Handles ==
    /\ pc = "dir" => i = 1 /\ cur = 0 /\ live = {}
    /\ pc \in {"options", "live"} /\ case.engine = "rocksdb" => live = {cur} /\ cur < i
    /\ pc = "closed" \/ case.engine = "tidesdb" => live = {}

Sizes == {"write_buffer_size", "compression"}
AllDefault == [o \in Options |-> Default]

\* The usable lines of an option before line m, and the value the last one gives.
GoodBefore(o, m) == {a \in Good(o) : a < m}
LastOf(S) == IF S = {} THEN Default ELSE section[Max(S)].val

\* The size TidesDB is given.
Buffer == kv_opt_int("memtable_write_buffer_size", kv_opt_int("write_buffer_size", Default))

\* The compression TidesDB ends with.
Codec ==
    LET s == kv_opt_str("compression", Default) IN IF s \in {Bad, Empty} THEN None ELSE s

\* The options are those of the lines read so far.
Chosen ==
    /\ pc = "dir" => eff = AllDefault
    /\ case.engine = "rocksdb" /\ pc \in {"options", "live"} =>
          \A o \in Sizes : eff[o] = LastOf(GoodBefore(o, i))
    /\ case.engine = "rocksdb" /\ pc = "live" => i > Len(section)
    /\ case.engine = "tidesdb" /\ pc = "options" => eff = AllDefault
    /\ case.engine = "tidesdb" /\ pc \in {"family", "live"} =>
          eff["memtable_write_buffer_size"] = Buffer
    /\ case.engine = "tidesdb" /\ pc = "family" => eff["compression"] = Default
    /\ case.engine = "tidesdb" /\ pc = "live" => eff["compression"] = Codec
    /\ pc \in {"options", "family", "live"} => base = Place

Met     == Range(walk.counted)
Waiting == Range(walk.pending)

\* The walk, at any moment of it: an entry is counted once, after its directory
\* and while that is being read; a directory waits once, with none of its
\* entries counted; and an entry that has been there all the time is counted,
\* is still to come in the directory being read, or is in one that waits.
Walked ==
    walk.at # "idle" =>
        /\ IsInjective(walk.counted) /\ Met \subseteq used \cup {Root}
        /\ IsInjective(walk.pending) /\ Waiting \subseteq Met
        /\ \A e \in Met \ {Root} : Parent[e] \in Met \ Waiting
        /\ walk.at = "dir" =>
              /\ walk.dir \in Met \ Waiting /\ walk.todo \cap Met = {} /\ walk.todo \subseteq used
              /\ \A e \in walk.todo : Parent[e] = walk.dir
        /\ walk.guard < DU_MAX_ENTRIES =>
              \A e \in there \ {Root} : Parent[e] \in Met \ missed =>
                  \/ e \in Met \/ Parent[e] \in Waiting
                  \/ walk.at = "dir" /\ e \in walk.todo
        /\ walk.at = "done" /\ walk.guard < DU_MAX_ENTRIES => walk.pending = << >>

\* It runs only while the engine is open.
Underfoot ==
    walk.at \in {"loop", "dir"} => pc = "live" /\ there \subseteq fs

IInv == TypeOK /\ Tree /\ Handles /\ Chosen /\ Walked /\ Underfoot

-----------------------------------------------------------------------------
(* Sequences and extremes                                                    *)

LEMMA Appended ==
    ASSUME NEW S, NEW s \in Seq(S), NEW e \in S
    PROVE  /\ Append(s, e) \in Seq(S) /\ Range(Append(s, e)) = Range(s) \cup {e}
           /\ IsInjective(s) /\ e \notin Range(s) => IsInjective(Append(s, e))
<1> DEFINE r == Append(s, e)
           m == Len(s)
<1>1. m \in Nat /\ DOMAIN s = 1 .. m /\ DOMAIN r = 1 .. m + 1 /\ r[m + 1] = e /\ r \in Seq(S)
      OBVIOUS
<1>2. \A a \in 1 .. m : r[a] = s[a]  OBVIOUS
<1>3. 1 .. m + 1 = (1 .. m) \cup {m + 1}  BY <1>1
<1> HIDE DEF r, m
<1>4. Range(r) = Range(s) \cup {e}  BY <1>1, <1>2, <1>3 DEF Range
<1>5. ASSUME IsInjective(s), e \notin Range(s) PROVE IsInjective(r)
  <2> SUFFICES ASSUME NEW a \in 1 .. m + 1, NEW b \in 1 .. m + 1, r[a] = r[b] PROVE a = b
      BY <1>1 DEF IsInjective
  <2>1. \A c \in 1 .. m : s[c] # e  BY <1>1, <1>5 DEF Range
  <2>2. CASE a \in 1 .. m /\ b \in 1 .. m  BY <1>1, <1>2, <1>5, <2>2 DEF IsInjective
  <2>3. CASE a = m + 1 /\ b \in 1 .. m  BY <1>1, <1>2, <2>1, <2>3
  <2>4. CASE a \in 1 .. m /\ b = m + 1  BY <1>1, <1>2, <2>1, <2>4
  <2> QED BY <1>3, <2>2, <2>3, <2>4
<1> QED BY <1>1, <1>4, <1>5 DEF r

LEMMA Shortened ==
    ASSUME NEW S, NEW s \in Seq(S), s # << >>
    PROVE  /\ Front(s) \in Seq(S) /\ Last(s) \in S
           /\ Range(s) = Range(Front(s)) \cup {Last(s)}
           /\ IsInjective(s) => IsInjective(Front(s)) /\ Last(s) \notin Range(Front(s))
<1> DEFINE r == Front(s)
           m == Len(s)
<1>1. m \in Nat \ {0} /\ DOMAIN s = 1 .. m /\ Last(s) = s[m] /\ s[m] \in S
      BY DEF Last
<1>2. r \in Seq(S) /\ DOMAIN r = 1 .. m - 1 /\ \A a \in 1 .. m - 1 : r[a] = s[a]
      BY <1>1 DEF Front
<1>3. 1 .. m = (1 .. m - 1) \cup {m} /\ m \notin 1 .. m - 1  BY <1>1
<1> HIDE DEF r, m
<1>4. Range(s) = Range(r) \cup {Last(s)}  BY <1>1, <1>2, <1>3 DEF Range
<1>5. ASSUME IsInjective(s) PROVE IsInjective(r) /\ Last(s) \notin Range(r)
      BY <1>1, <1>2, <1>3, <1>5 DEF IsInjective, Range
<1> QED BY <1>1, <1>2, <1>4, <1>5 DEF r

LEMMA MinIsThere ==
    ASSUME NEW S, S \subseteq Nat, S # {}
    PROVE  Min(S) \in S
<1>1. \E x \in S : \A y \in S : x <= y  BY LeastNumber
<1> QED BY <1>1 DEF Min

LEMMA MaxIs ==
    ASSUME NEW S, S \subseteq Nat, NEW m \in S, \A y \in S : y <= m
    PROVE  Max(S) = m
<1>1. m \in Nat /\ \A y \in S : m >= y  OBVIOUS
<1>2. Max(S) \in S /\ \A y \in S : Max(S) >= y  BY <1>1 DEF Max
<1>3. Max(S) >= m /\ m >= Max(S) /\ Max(S) \in Nat  BY <1>1, <1>2
<1> QED BY <1>1, <1>3

-----------------------------------------------------------------------------
(* What a step leaves alone                                                  *)

\* The section and what is looked up in it.
LEMMA SectionFacts ==
    ASSUME TypeOK
    PROVE  /\ case.engine \in {"rocksdb", "tidesdb"}
           /\ Len(section) \in Nat /\ DOMAIN section = 1 .. Len(section)
           /\ \A a \in 1 .. Len(section) : section[a].val # Default
           /\ case.files \subseteq Entries
           /\ \A e \in case.files : Parent[e] \in case.files \cup {Root}
<1>0. case \in Cases  BY DEF TypeOK
<1>1. /\ case.engine \in {"rocksdb", "tidesdb"}
      /\ section \in Seq([key : STRING, val : STRING \ {Default}])
      /\ case.files \subseteq Entries
      /\ \A e \in case.files : Parent[e] \in case.files \cup {Root}
      BY <1>0, CasesAssumption, Zenon DEF section
<1> DEFINE T == [key : STRING, val : STRING \ {Default}]
<1>2. section \in Seq(T)  BY <1>1
<1>3. \A l \in T : l.val # Default  OBVIOUS
<1> HIDE DEF T
<1>4. /\ Len(section) \in Nat /\ DOMAIN section = 1 .. Len(section)
      /\ \A a \in 1 .. Len(section) : section[a] \in T
      BY <1>2
<1>5. \A a \in 1 .. Len(section) : section[a].val # Default  BY <1>3, <1>4
<1> QED BY <1>1, <1>4, <1>5

LEMMA LookupFacts ==
    ASSUME TypeOK, NEW key
    PROVE  /\ Lines(key) \subseteq 1 .. Len(section) /\ Good(key) \subseteq Lines(key)
           /\ Lines(key) # {} => Min(Lines(key)) \in Lines(key)
<1>1. Lines(key) \subseteq 1 .. Len(section) /\ Good(key) \subseteq Lines(key)
      BY SectionFacts DEF Lines, Good
<1>2. Lines(key) # {} => Min(Lines(key)) \in Lines(key)
  <2>1. Lines(key) \subseteq Nat  BY <1>1
  <2> QED BY <2>1, MinIsThere
<1> QED BY <1>1, <1>2

\* The walk does not look at the options.
LEMMA WalkStays ==
    ASSUME TypeOK, Walked, UNCHANGED <<walk, there, missed>>, used \subseteq used'
    PROVE  Walked'
<1>1. Met' = Met /\ Waiting' = Waiting  BY DEF Met, Waiting
<1>2. Met \subseteq used \cup {Root} => Met \subseteq used' \cup {Root}  OBVIOUS
<1>3. walk.todo \subseteq used => walk.todo \subseteq used'  OBVIOUS
<1> QED BY <1>1, <1>2, <1>3 DEF Walked

\* The section is read only.
LEMMA LookupStays ==
    ASSUME case' = case
    PROVE  /\ section' = section /\ Buffer' = Buffer /\ Codec' = Codec /\ Place' = Place
           /\ \A o : Good(o)' = Good(o) /\ Lines(o)' = Lines(o)
           /\ \A o, m : GoodBefore(o, m)' = GoodBefore(o, m)
           /\ \A S : LastOf(S)' = LastOf(S)
<1>1. section' = section  BY DEF section
<1>2. \A o : Good(o)' = Good(o) /\ Lines(o)' = Lines(o)  BY <1>1 DEF Good, Lines
<1>3. \A o, d : kv_opt_str(o, d)' = kv_opt_str(o, d)  BY <1>1, <1>2 DEF kv_opt_str
<1>4. \A o, d : kv_opt_int(o, d)' = kv_opt_int(o, d)  BY <1>3 DEF kv_opt_int
<1>5. Buffer' = Buffer /\ Codec' = Codec /\ Place' = Place  BY <1>3, <1>4 DEF Buffer, Codec, Place
<1>6. \A o, m : GoodBefore(o, m)' = GoodBefore(o, m)  BY <1>2 DEF GoodBefore
<1>7. \A S : LastOf(S)' = LastOf(S)  BY <1>1 DEF LastOf
<1> QED BY <1>1, <1>2, <1>5, <1>6, <1>7

\* The options do not depend on the files.
LEMMA OptionsStay ==
    ASSUME Chosen, Handles, UNCHANGED <<case, pc, openVars>>
    PROVE  Chosen' /\ Handles'
<1>1. UNCHANGED <<case, pc, base, i, eff, cur, live>>  BY DEF openVars
<1>2. /\ section' = section /\ Buffer' = Buffer /\ Codec' = Codec /\ Place' = Place
      /\ \A o : LastOf(GoodBefore(o, i))' = LastOf(GoodBefore(o, i))
  <2>1. \A o : GoodBefore(o, i)' = GoodBefore(o, i)  BY <1>1, LookupStays DEF GoodBefore
  <2> QED BY <1>1, <2>1, LookupStays DEF LastOf
<1>3. Chosen'  BY <1>1, <1>2 DEF Chosen
<1>4. Handles'  BY <1>1 DEF Handles
<1> QED BY <1>3, <1>4

-----------------------------------------------------------------------------
(* Opening and closing                                                       *)

LEMMA InitHolds == Init => IInv
<1> SUFFICES ASSUME Init PROVE IInv  OBVIOUS
<1>1. walk = NoWalk /\ walk.at = "idle"  BY DEF Init, NoWalk
<1>2. TypeOK
  <2>1. walk \in WalkStates  BY <1>1 DEF NoWalk, WalkStates
  <2> QED BY <2>1 DEF Init, TypeOK
<1>3. Tree /\ Walked /\ Underfoot  BY <1>1 DEF Init, Tree, Walked, Underfoot
<1>4. Handles /\ Chosen  BY DEF Init, Handles, Chosen, AllDefault
<1> QED BY <1>2, <1>3, <1>4 DEF IInv

LEMMA AbortKeeps ==
    ASSUME IInv, Abort, pc \in {"dir", "options", "family"}
    PROVE  IInv'
<1>1. pc' = "aborted" /\ UNCHANGED <<case, base, i, eff, cur, live, fs, used, walk, n, there, missed>>
      BY DEF Abort, openVars, duVars
<1>2. TypeOK' /\ Tree'  BY <1>1 DEF IInv, TypeOK, Tree
<1>3. Handles' /\ Chosen'  BY <1>1 DEF IInv, Handles, Chosen
<1>4. Walked'  BY <1>1, WalkStays DEF IInv
<1>5. Underfoot'  BY <1>1 DEF IInv, Underfoot
<1> QED BY <1>2, <1>3, <1>4, <1>5 DEF IInv

LEMMA MakeDirKeeps ==
    ASSUME IInv, MakeDir
    PROVE  IInv'
<1>t. TypeOK /\ Tree /\ Handles /\ Chosen /\ Walked /\ Underfoot /\ pc = "dir"
      BY DEF IInv, MakeDir
<1>1. CASE Abort  BY <1>1, <1>t, AbortKeeps
<1>2. CASE /\ base' = Place /\ fs' = {Root} /\ pc' = "options"
           /\ live' = IF case.engine = "rocksdb" THEN {cur} ELSE {}
           /\ UNCHANGED <<case, i, eff, cur, used, duVars>>
  <2>1. UNCHANGED <<walk, n, there, missed>>  BY <1>2 DEF duVars
  <2>2. TypeOK' /\ Tree'  BY <1>t, <1>2, <2>1 DEF TypeOK, Tree
  <2>3. Handles'  BY <1>t, <1>2, SectionFacts DEF Handles
  <2>4. Chosen'
    <3>1. \A o : GoodBefore(o, 1) = {}
      <4>1. \A o : Good(o) \subseteq 1 .. Len(section)  BY <1>t, LookupFacts
      <4> QED BY <1>t, <4>1, SectionFacts DEF GoodBefore
    <3>2. eff = AllDefault /\ i = 1  BY <1>t DEF Chosen, Handles
    <3>3. \A o \in Sizes : eff'[o] = Default /\ LastOf(GoodBefore(o, i))' = Default
      <4>1. \A o : GoodBefore(o, i)' = {}
            BY <1>2, <3>1, <3>2, LookupStays DEF GoodBefore
      <4> QED BY <1>2, <3>2, <4>1 DEF LastOf, AllDefault, Sizes, Options
    <3>4. Place' = Place  BY <1>2, LookupStays
    <3> QED BY <1>2, <3>2, <3>3, <3>4 DEF Chosen
  <2>5. Walked'  BY <1>t, <1>2, <2>1, WalkStays
  <2>6. Underfoot'  BY <1>t, <1>2, <2>1 DEF Underfoot
  <2> QED BY <2>2, <2>3, <2>4, <2>5, <2>6 DEF IInv
<1> QED BY <1>1, <1>2 DEF MakeDir

LEMMA RdbOptionKeeps ==
    ASSUME IInv, RdbOption
    PROVE  IInv'
<1>t. TypeOK /\ Tree /\ Handles /\ Chosen /\ Walked /\ Underfoot  BY DEF IInv
<1>1. /\ case.engine = "rocksdb" /\ pc = "options" /\ i <= Len(section) /\ i' = i + 1
      /\ UNCHANGED <<case, pc, base, fs, used, walk, n, there, missed>>
      BY DEF RdbOption, duVars
<1> DEFINE l == section[i]
<1>2. l.key = "data_dir" => ~Accepted(l)  BY DEF Accepted, Options
<1>3. \/ ~Accepted(l) /\ UNCHANGED <<eff, cur, live>>
      \/ Accepted(l) /\ eff' = [eff EXCEPT ![l.key] = l.val] /\ cur' = i /\ live' = {i}
  <2>1. live = {cur} /\ cur # i  BY <1>t, <1>1 DEF Handles, TypeOK
  <2>2. CASE l.key = "data_dir"  BY <1>2, <2>2 DEF RdbOption
  <2>3. CASE l.key # "data_dir"
    <3>1. /\ eff' = Taken(l) /\ live' = (live \cup {i}) \ Destroyed(l)
          /\ cur' = IF Accepted(l) THEN i ELSE cur
          BY <2>3 DEF RdbOption
    <3>2. CASE Accepted(l)  BY <2>1, <3>1, <3>2 DEF Taken, Parsed, Destroyed
    <3>3. CASE ~Accepted(l)  BY <2>1, <3>1, <3>3 DEF Taken, Destroyed
    <3> QED BY <3>2, <3>3
  <2> QED BY <2>2, <2>3
<1>4. TypeOK'  BY <1>t, <1>1, <1>3 DEF TypeOK
<1>5. Handles'  BY <1>t, <1>1, <1>3 DEF Handles, TypeOK
<1>6. ASSUME NEW o \in Sizes PROVE eff'[o] = LastOf(GoodBefore(o, i))'
  <2>1. eff[o] = LastOf(GoodBefore(o, i))  BY <1>t, <1>1 DEF Chosen
  <2>2. LastOf(GoodBefore(o, i))' = LastOf(GoodBefore(o, i + 1))
    <3>1. GoodBefore(o, i)' = GoodBefore(o, i + 1)  BY <1>1, LookupStays DEF GoodBefore
    <3> QED BY <1>1, <3>1, LookupStays DEF LastOf
  <2>3. /\ Good(o) \subseteq Nat /\ i \in Nat
        /\ i \in Good(o) <=> l.key = o /\ l.val \notin {Bad, Empty}
    <3>1. Good(o) \subseteq 1 .. Len(section)  BY <1>t, LookupFacts
    <3>2. i \in DOMAIN section /\ Len(section) \in Nat  BY <1>t, <1>1, SectionFacts DEF TypeOK
    <3>3. i \in Good(o) <=> l.key = o /\ l.val \notin {Bad, Empty}  BY <3>2 DEF Good, Lines
    <3> QED BY <1>t, <3>1, <3>3 DEF TypeOK
  <2>4. i \in Good(o) <=> Accepted(l) /\ l.key = o  BY <2>3 DEF Accepted, Sizes, Options
  <2>5. CASE i \in Good(o)
    <3>1. GoodBefore(o, i + 1) \subseteq Nat /\ i \in GoodBefore(o, i + 1)
          /\ \A y \in GoodBefore(o, i + 1) : y <= i
          BY <2>3, <2>5 DEF GoodBefore
    <3>2. Max(GoodBefore(o, i + 1)) = i  BY <3>1, MaxIs
    <3>3. LastOf(GoodBefore(o, i + 1)) = l.val  BY <3>1, <3>2 DEF LastOf
    <3>4. eff'[o] = l.val
      <4>1. o \in DOMAIN eff  BY <1>t DEF TypeOK, Sizes, Options
      <4> QED BY <1>3, <2>4, <2>5, <4>1
    <3> QED BY <2>2, <3>3, <3>4
  <2>6. CASE i \notin Good(o)
    <3>1. GoodBefore(o, i + 1) = GoodBefore(o, i)
      <4>1. \A a \in Good(o) : a < i + 1 <=> a < i  BY <2>3, <2>6
      <4> QED BY <4>1 DEF GoodBefore
    <3>2. eff'[o] = eff[o]
      <4>1. o \in DOMAIN eff /\ eff = [p \in Options |-> eff[p]] /\ o \in Options
            BY <1>t DEF TypeOK, Sizes, Options
      <4>2. ~(Accepted(l) /\ l.key = o)  BY <2>4, <2>6
      <4> QED BY <1>3, <4>1, <4>2
    <3> QED BY <2>1, <2>2, <3>1, <3>2
  <2> QED BY <2>5, <2>6
<1>7. Chosen'
  <2>1. section' = section /\ Place' = Place  BY <1>1, LookupStays
  <2> QED BY <1>t, <1>1, <1>6, <2>1 DEF Chosen
<1>8. Tree' /\ Underfoot'  BY <1>t, <1>1 DEF Tree, Underfoot
<1>9. Walked'  BY <1>t, <1>1, WalkStays
<1> QED BY <1>4, <1>5, <1>7, <1>8, <1>9 DEF IInv

\* The files of the engine join its directory.
LEMMA OpenedKeeps ==
    ASSUME IInv, Opened, pc \in {"options", "family"}
    PROVE  Tree' /\ Walked' /\ Underfoot' /\ used' \subseteq Entries /\ fs' \subseteq used' \cup {Root}
<1>t. TypeOK /\ Tree /\ Walked /\ Underfoot  BY DEF IInv
<1>1. /\ pc' = "live" /\ fs' = fs \cup case.files /\ used' = used \cup case.files
      /\ UNCHANGED <<case, walk, n, there, missed>>
      BY DEF Opened, duVars
<1>2. fs = {Root} /\ used = {}  BY <1>t DEF Tree
<1>3. case.files \subseteq Entries /\ \A e \in case.files : Parent[e] \in case.files \cup {Root}
      BY <1>t, SectionFacts
<1>4. Tree'  BY <1>1, <1>2, <1>3 DEF Tree
<1>5. Walked'  BY <1>t, <1>1, WalkStays
<1>6. Underfoot'  BY <1>t, <1>1 DEF Underfoot
<1> QED BY <1>1, <1>2, <1>3, <1>4, <1>5, <1>6

LEMMA RdbOpenKeeps ==
    ASSUME IInv, RdbOpen
    PROVE  IInv'
<1>t. TypeOK /\ Handles /\ Chosen /\ pc = "options" /\ case.engine = "rocksdb" /\ i > Len(section)
      BY DEF IInv, RdbOpen
<1>1. CASE Abort  BY <1>1, <1>t, AbortKeeps
<1>2. CASE Opened /\ UNCHANGED eff
  <2>1. pc' = "live" /\ UNCHANGED <<case, base, i, cur, live, walk, eff>>
        BY <1>2 DEF Opened, duVars
  <2>2. Tree' /\ Walked' /\ Underfoot' /\ used' \subseteq Entries /\ fs' \subseteq used' \cup {Root}
        BY <1>t, <1>2, OpenedKeeps
  <2>3. TypeOK'  BY <1>t, <2>1, <2>2 DEF TypeOK
  <2>4. Handles'  BY <1>t, <2>1 DEF Handles
  <2>5. Chosen'
    <3>1. section' = section /\ Place' = Place  BY <2>1, LookupStays
    <3>2. \A o \in Sizes : eff'[o] = LastOf(GoodBefore(o, i))'
      <4>1. \A o : GoodBefore(o, i)' = GoodBefore(o, i)  BY <2>1, LookupStays DEF GoodBefore
      <4>2. \A o : LastOf(GoodBefore(o, i))' = LastOf(GoodBefore(o, i))
            BY <2>1, <4>1, LookupStays DEF LastOf
      <4> QED BY <1>t, <2>1, <4>2 DEF Chosen
    <3> QED BY <1>t, <2>1, <3>1, <3>2 DEF Chosen
  <2> QED BY <2>2, <2>3, <2>4, <2>5 DEF IInv
<1> QED BY <1>1, <1>2 DEF RdbOpen

LEMMA TdbOpenKeeps ==
    ASSUME IInv, TdbOpen
    PROVE  IInv'
<1>t. /\ TypeOK /\ Tree /\ Handles /\ Chosen /\ Walked /\ Underfoot
      /\ pc = "options" /\ case.engine = "tidesdb"
      BY DEF IInv, TdbOpen
<1>1. CASE Abort  BY <1>1, <1>t, AbortKeeps
<1>2. CASE /\ eff' = DbConfig /\ pc' = "family"
           /\ UNCHANGED <<case, base, i, cur, live, fs, used, duVars>>
  <2>1. UNCHANGED <<walk, n, there, missed>>  BY <1>2 DEF duVars
  <2>2. eff = AllDefault  BY <1>t DEF Chosen
  <2>3. eff' = [AllDefault EXCEPT !["memtable_write_buffer_size"] = Buffer]
        BY <1>2, <2>2 DEF DbConfig, Buffer, AllDefault, Options
  <2>4. /\ eff'["memtable_write_buffer_size"] = Buffer /\ eff'["compression"] = Default
        /\ eff' = [o \in Options |-> eff'[o]]
        BY <2>3 DEF AllDefault, Options
  <2>5. TypeOK' /\ Tree'  BY <1>t, <1>2, <2>1, <2>4 DEF TypeOK, Tree
  <2>6. Handles'  BY <1>t, <1>2 DEF Handles
  <2>7. Chosen'
    <3>1. Buffer' = Buffer /\ Codec' = Codec /\ Place' = Place  BY <1>2, LookupStays
    <3> QED BY <1>t, <1>2, <2>4, <3>1 DEF Chosen
  <2>8. Walked'  BY <1>t, <1>2, <2>1, WalkStays
  <2>9. Underfoot'  BY <1>t, <1>2, <2>1 DEF Underfoot
  <2> QED BY <2>5, <2>6, <2>7, <2>8, <2>9 DEF IInv
<1> QED BY <1>1, <1>2 DEF TdbOpen

LEMMA TdbFamilyKeeps ==
    ASSUME IInv, TdbFamily
    PROVE  IInv'
<1>t. TypeOK /\ Handles /\ Chosen /\ pc = "family" /\ case.engine = "tidesdb"
      BY DEF IInv, TdbFamily
<1>1. CASE Abort  BY <1>1, <1>t, AbortKeeps
<1>2. CASE eff' = CfConfig /\ Opened
  <2>1. pc' = "live" /\ UNCHANGED <<case, base, i, cur, live, walk>>
        BY <1>2 DEF Opened, duVars
  <2>2. Tree' /\ Walked' /\ Underfoot' /\ used' \subseteq Entries /\ fs' \subseteq used' \cup {Root}
        BY <1>t, <1>2, OpenedKeeps
  <2>3. /\ eff'["memtable_write_buffer_size"] = eff["memtable_write_buffer_size"]
        /\ eff'["compression"] = Codec /\ eff' = [o \in Options |-> eff'[o]]
    <3>1. eff' = [eff EXCEPT !["compression"] = Codec]  BY <1>t, <1>2 DEF CfConfig, Chosen, Codec
    <3>2. eff = [o \in Options |-> eff[o]]  BY <1>t DEF TypeOK
    <3> QED BY <3>1, <3>2 DEF Options
  <2>4. TypeOK'  BY <1>t, <2>1, <2>2, <2>3 DEF TypeOK
  <2>5. Handles'  BY <1>t, <2>1 DEF Handles
  <2>6. Chosen'
    <3>1. Buffer' = Buffer /\ Codec' = Codec /\ Place' = Place  BY <2>1, LookupStays
    <3> QED BY <1>t, <2>1, <2>3, <3>1 DEF Chosen
  <2> QED BY <2>2, <2>4, <2>5, <2>6 DEF IInv
<1> QED BY <1>1, <1>2 DEF TdbFamily

LEMMA CloseKeeps ==
    ASSUME IInv, RdbClose \/ TdbClose
    PROVE  IInv'
<1>t. TypeOK /\ Tree /\ Handles /\ Chosen /\ Walked /\ Underfoot  BY DEF IInv
<1>1. /\ pc = "live" /\ pc' = "closed" /\ fs' \in {{}, fs} /\ walk.at \in {"idle", "done"}
      /\ UNCHANGED <<case, base, i, eff, cur, used, walk, n, there, missed>>
      BY DEF RdbClose, TdbClose, duVars, openVars
<1>2. live' = {}
  <2>1. CASE RdbClose  BY <1>t, <1>1, <2>1 DEF RdbClose, Handles
  <2>2. CASE TdbClose  BY <1>t, <1>1, <2>2 DEF TdbClose, Handles, openVars
  <2> QED BY <2>1, <2>2
<1>3. TypeOK'  BY <1>t, <1>1 DEF TypeOK
<1>4. Tree' /\ Handles' /\ Chosen' /\ Underfoot'
      BY <1>1, <1>2 DEF Tree, Handles, Chosen, Underfoot
<1>5. Walked'  BY <1>t, <1>1, WalkStays
<1> QED BY <1>3, <1>4, <1>5 DEF IInv

-----------------------------------------------------------------------------
(* The files and the walk                                                    *)

LEMMA WalkFacts ==
    ASSUME TypeOK
    PROVE  /\ walk.pending \in Seq(Dirs \cup {Root}) /\ walk.dir \in Dirs \cup {Root}
           /\ walk.todo \subseteq Entries /\ walk.guard \in Nat
           /\ walk.counted \in Seq(Entries \cup {Root})
           /\ walk.at \in {"idle", "loop", "dir", "done"}
           /\ DOMAIN walk = {"at", "pending", "dir", "todo", "guard", "counted"}
BY DEF TypeOK, WalkStates

\* A step of the walk, with the engine open, is looked at for the walk only.
LEMMA WalkStep ==
    ASSUME IInv, UNCHANGED <<case, pc, openVars, fs, used>>, walk' \in WalkStates,
           Walked', Underfoot'
    PROVE  IInv'
<1>t. TypeOK /\ Tree /\ Handles /\ Chosen  BY DEF IInv
<1>1. TypeOK' /\ Tree'  BY <1>t DEF TypeOK, Tree, openVars
<1>2. Handles' /\ Chosen'  BY <1>t, OptionsStay
<1> QED BY <1>1, <1>2 DEF IInv

LEMMA CreateKeeps ==
    ASSUME IInv, NEW e \in Entries, Create(e)
    PROVE  IInv'
<1>t. TypeOK /\ Tree /\ Handles /\ Chosen /\ Walked /\ Underfoot  BY DEF IInv
<1>1. /\ pc = "live" /\ e \notin used /\ Parent[e] \in fs
      /\ fs' = fs \cup {e} /\ used' = used \cup {e}
      /\ UNCHANGED <<case, pc, openVars, there, missed>>
      BY DEF Create
<1>2. Handles' /\ Chosen'  BY <1>t, <1>1, OptionsStay
<1>3. Tree'  BY <1>t, <1>1 DEF Tree
<1>4. i' = i /\ cur' = cur /\ eff' = eff  BY <1>1 DEF openVars
<1>5. e # Root  BY TreeAssumption
<1>6. CASE UNCHANGED walk
  <2>1. TypeOK'  BY <1>t, <1>1, <1>4, <1>6 DEF TypeOK
  <2>2. Walked'  BY <1>t, <1>1, <1>6, WalkStays
  <2>3. Underfoot'  BY <1>t, <1>1, <1>6 DEF Underfoot
  <2> QED BY <1>2, <1>3, <2>1, <2>2, <2>3 DEF IInv
<1>7. CASE /\ walk.at = "dir" /\ walk.dir = Parent[e]
           /\ walk' = [walk EXCEPT !.todo = @ \cup {e}]
  <2>1. /\ walk'.at = walk.at /\ walk'.pending = walk.pending /\ walk'.dir = walk.dir
        /\ walk'.todo = walk.todo \cup {e} /\ walk'.guard = walk.guard
        /\ walk'.counted = walk.counted
        BY <1>t, <1>7, WalkFacts
  <2>2. walk' \in WalkStates  BY <1>t, <1>7 DEF TypeOK, WalkStates
  <2>3. TypeOK'  BY <1>t, <1>1, <1>4, <2>2 DEF TypeOK
  <2>4. Met' = Met /\ Waiting' = Waiting  BY <2>1 DEF Met, Waiting
  <2>5. e \notin Met  BY <1>t, <1>1, <1>5, <1>7 DEF Walked
  <2>6. Walked'  BY <1>t, <1>1, <1>7, <2>1, <2>4, <2>5 DEF Walked
  <2>7. Underfoot'  BY <1>t, <1>1, <2>1 DEF Underfoot
  <2> QED BY <1>2, <1>3, <2>3, <2>6, <2>7 DEF IInv
<1> QED BY <1>6, <1>7 DEF Create

LEMMA DeleteKeeps ==
    ASSUME IInv, NEW e \in Entries, Delete(e)
    PROVE  IInv'
<1>t. TypeOK /\ Tree /\ Handles /\ Chosen /\ Walked /\ Underfoot  BY DEF IInv
<1>1. /\ pc = "live" /\ e \in fs \ {Root} /\ \A c \in fs \ {Root} : Parent[c] # e
      /\ fs' = fs \ {e} /\ there' = there \ {e}
      /\ UNCHANGED <<case, pc, openVars, used, walk, missed>>
      BY DEF Delete
<1>2. Handles' /\ Chosen'  BY <1>t, <1>1, OptionsStay
<1>3. Tree'  BY <1>t, <1>1 DEF Tree
<1>4. TypeOK'  BY <1>t, <1>1 DEF TypeOK, openVars
<1>5. Underfoot'  BY <1>t, <1>1 DEF Underfoot
<1>6. Walked'
  <2>1. Met' = Met /\ Waiting' = Waiting  BY <1>1 DEF Met, Waiting
  <2> QED BY <1>t, <1>1, <2>1 DEF Walked
<1> QED BY <1>2, <1>3, <1>4, <1>5, <1>6 DEF IInv

LEMMA DuStartKeeps ==
    ASSUME IInv, DuStart
    PROVE  IInv'
<1>t. TypeOK /\ Tree  BY DEF IInv
<1>1. /\ pc = "live" /\ there' = fs /\ missed' = {}
      /\ walk' = [NoWalk EXCEPT !.at = "loop", !.pending = <<Root>>, !.counted = <<Root>>]
      /\ UNCHANGED <<case, pc, openVars, fs, used>>
      BY DEF DuStart
<1>2. /\ walk'.at = "loop" /\ walk'.pending = <<Root>> /\ walk'.counted = <<Root>>
      /\ walk' \in WalkStates
  <2>1. walk' = [at |-> "loop", pending |-> <<Root>>, dir |-> Root, todo |-> {}, guard |-> 0,
                 counted |-> <<Root>>]
        BY <1>1 DEF NoWalk
  <2>2. <<Root>> \in Seq(Dirs \cup {Root}) /\ <<Root>> \in Seq(Entries \cup {Root})  OBVIOUS
  <2> QED BY <2>1, <2>2 DEF WalkStates
<1>3. Range(<<Root>>) = {Root} /\ IsInjective(<<Root>>)  BY DEF Range, IsInjective
<1>4. Met' = {Root} /\ Waiting' = {Root}  BY <1>2, <1>3 DEF Met, Waiting
<1>5. Walked'  BY <1>1, <1>2, <1>3, <1>4 DEF Walked
<1>6. Underfoot'  BY <1>1 DEF Underfoot
<1> QED BY <1>1, <1>2, <1>5, <1>6, WalkStep

LEMMA DuOpendirKeeps ==
    ASSUME IInv, DuOpendir
    PROVE  IInv'
<1>t. TypeOK /\ Tree /\ Walked /\ Underfoot  BY DEF IInv
<1> DEFINE d == Last(walk.pending)
           kids == {e \in fs \ {Root} : Parent[e] = d}
<1>1. /\ walk.at = "loop" /\ walk.pending # << >> /\ walk.guard < DU_MAX_ENTRIES
      /\ UNCHANGED <<case, pc, openVars, fs, used, n, there, missed>>
      BY DEF DuOpendir
<1>2. walk' = IF d \in fs
              THEN [walk EXCEPT !.pending = Front(walk.pending), !.at = "dir", !.dir = d,
                                !.guard = walk.guard + 2, !.todo = kids]
              ELSE [walk EXCEPT !.pending = Front(walk.pending)]
      BY <1>t, WalkFacts DEF DuOpendir
<1>3. /\ Front(walk.pending) \in Seq(Dirs \cup {Root}) /\ d \in Dirs \cup {Root}
      /\ Waiting = Range(Front(walk.pending)) \cup {d}
      /\ IsInjective(Front(walk.pending)) /\ d \notin Range(Front(walk.pending))
  <2>1. walk.pending \in Seq(Dirs \cup {Root}) /\ IsInjective(walk.pending)
        BY <1>t, <1>1, WalkFacts DEF Walked
  <2> QED BY <1>1, <2>1, Shortened DEF Waiting
<1>4. /\ walk'.pending = Front(walk.pending) /\ walk'.counted = walk.counted
      /\ d \in fs => walk'.at = "dir" /\ walk'.dir = d /\ walk'.todo = kids
                     /\ walk'.guard = walk.guard + 2
      /\ d \notin fs => walk'.at = "loop" /\ walk'.guard = walk.guard
      BY <1>t, <1>1, <1>2, WalkFacts
<1>5. kids \subseteq used /\ kids \subseteq Entries  BY <1>t DEF TypeOK
<1>6. walk' \in WalkStates
  <2>1. walk.guard + 2 \in Nat  BY <1>t, WalkFacts
  <2>2. walk \in WalkStates  BY <1>t DEF TypeOK
  <2> HIDE DEF d, kids
  <2> QED BY <1>2, <1>3, <1>5, <2>1, <2>2 DEF WalkStates
<1>7. Met' = Met /\ Waiting' = Range(Front(walk.pending))  BY <1>4 DEF Met, Waiting
<1>8. d \in Met /\ Waiting' = Waiting \ {d} /\ d \notin Waiting'
      BY <1>t, <1>1, <1>3, <1>7 DEF Walked
<1>9. kids \cap Met = {}  BY <1>t, <1>1, <1>3 DEF Walked
<1>10. pc = "live" /\ there \subseteq fs  BY <1>t, <1>1 DEF Underfoot
<1>11. ASSUME NEW e \in there \ {Root}, Parent[e] = d PROVE d \in fs /\ e \in kids
  <2>1. e \in fs \ {Root}  BY <1>10, <1>11
  <2>2. Parent[e] \in fs  BY <1>t, <1>10, <2>1 DEF Tree
  <2> QED BY <1>11, <2>1, <2>2
<1> HIDE DEF kids
<1>12. \A e \in there' \ {Root} : Parent[e] \in Met' \ missed' =>
           \/ e \in Met' \/ Parent[e] \in Waiting'
           \/ walk'.at = "dir" /\ e \in walk'.todo
  <2>1. \A e \in there \ {Root} : Parent[e] \in Met \ missed => e \in Met \/ Parent[e] \in Waiting
        BY <1>t, <1>1 DEF Walked
  <2> QED BY <1>1, <1>4, <1>7, <1>8, <1>11, <2>1
<1>13. Walked'
  <2>1. /\ IsInjective(walk'.counted) /\ Met' \subseteq used' \cup {Root}
        /\ IsInjective(walk'.pending) /\ Waiting' \subseteq Met'
        /\ \A e \in Met' \ {Root} : Parent[e] \in Met' \ Waiting'
        BY <1>t, <1>1, <1>3, <1>4, <1>7, <1>8 DEF Walked
  <2>2. walk'.at = "dir" =>
              /\ walk'.dir \in Met' \ Waiting' /\ walk'.todo \cap Met' = {}
              /\ walk'.todo \subseteq used'
              /\ \A e \in walk'.todo : Parent[e] = walk'.dir
        BY <1>1, <1>4, <1>5, <1>7, <1>8, <1>9 DEF kids
  <2>3. walk'.at # "done"  BY <1>4
  <2> QED BY <1>12, <2>1, <2>2, <2>3 DEF Walked
<1>14. Underfoot'  BY <1>1, <1>10 DEF Underfoot
<1> QED BY <1>1, <1>6, <1>13, <1>14, WalkStep

LEMMA DuEntryKeeps ==
    ASSUME IInv, NEW e \in Entries, DuEntry(e)
    PROVE  IInv'
<1>t. TypeOK /\ Tree /\ Walked /\ Underfoot  BY DEF IInv
<1>1. /\ walk.at = "dir" /\ e \in walk.todo /\ walk.guard < DU_MAX_ENTRIES
      /\ missed' = IF e \in fs \cap Dirs /\ ~HasRoom THEN missed \cup {e} ELSE missed
      /\ UNCHANGED <<case, pc, openVars, fs, used, n, there>>
      BY DEF DuEntry
<1>2. /\ e \notin Met /\ e \in used /\ Parent[e] = walk.dir /\ walk.dir \in Met \ Waiting
      BY <1>t, <1>1 DEF Walked
<1>3. e # Root /\ \A c \in Entries : Parent[c] \in Dirs \cup {Root}  BY TreeAssumption
<1>4. /\ pc = "live" /\ there \subseteq fs  BY <1>t, <1>1 DEF Underfoot
<1>5. walk.todo \subseteq used /\ walk.todo \cap Met = {} /\ \A c \in walk.todo : Parent[c] = walk.dir
      BY <1>t, <1>1 DEF Walked
<1>6. \A c \in there \ {Root} : Parent[c] \in Met \ missed =>
          c \in Met \/ Parent[c] \in Waiting \/ c \in walk.todo
      BY <1>t, <1>1 DEF Walked
<1>7. walk \in WalkStates /\ walk.guard + 1 \in Nat  BY <1>t, WalkFacts DEF TypeOK
<1>8. Underfoot'  BY <1>1, <1>4 DEF Underfoot
<1>9. CASE e \notin fs
  <2>1. walk' = [walk EXCEPT !.todo = walk.todo \ {e}, !.guard = walk.guard + 1]
        BY <1>7, <1>9 DEF DuEntry, AfterGone, WalkStates
  <2>2. /\ walk'.at = "dir" /\ walk'.pending = walk.pending /\ walk'.dir = walk.dir
        /\ walk'.todo = walk.todo \ {e} /\ walk'.counted = walk.counted
        BY <1>1, <1>7, <2>1 DEF WalkStates
  <2>3. walk' \in WalkStates  BY <1>7, <2>1 DEF WalkStates
  <2>4. Met' = Met /\ Waiting' = Waiting /\ missed' = missed  BY <1>1, <1>9, <2>2 DEF Met, Waiting
  <2>5. e \notin there  BY <1>4, <1>9
  <2>6. \A c \in there' \ {Root} : Parent[c] \in Met' \ missed' =>
            c \in Met' \/ Parent[c] \in Waiting' \/ c \in walk'.todo
        BY <1>1, <1>6, <2>2, <2>4, <2>5
  <2>7. Walked'
    <3>1. /\ IsInjective(walk'.counted) /\ Met' \subseteq used' \cup {Root}
          /\ IsInjective(walk'.pending) /\ Waiting' \subseteq Met'
          /\ \A c \in Met' \ {Root} : Parent[c] \in Met' \ Waiting'
          BY <1>t, <1>1, <2>2, <2>4 DEF Walked
    <3>2. /\ walk'.dir \in Met' \ Waiting' /\ walk'.todo \cap Met' = {} /\ walk'.todo \subseteq used'
          /\ \A c \in walk'.todo : Parent[c] = walk'.dir
          BY <1>1, <1>2, <1>5, <2>2, <2>4
    <3> QED BY <2>2, <2>6, <3>1, <3>2 DEF Walked
  <2> QED BY <1>1, <1>8, <2>3, <2>7, WalkStep
<1>10. CASE e \in fs
  <2> DEFINE more == IF e \in Dirs /\ HasRoom THEN Append(walk.pending, e) ELSE walk.pending
             count == Append(walk.counted, e)
  <2>1. walk' = [walk EXCEPT !.todo = walk.todo \ {e}, !.guard = walk.guard + 1,
                             !.counted = count, !.pending = more]
        BY <1>7, <1>10 DEF DuEntry, WalkStates
  <2>2. count \in Seq(Entries \cup {Root}) /\ Range(count) = Met \cup {e} /\ IsInjective(count)
    <3>1. walk.counted \in Seq(Entries \cup {Root}) /\ IsInjective(walk.counted)
          BY <1>t, <1>1, WalkFacts DEF Walked
    <3> QED BY <1>2, <3>1, Appended DEF Met
  <2>3. /\ more \in Seq(Dirs \cup {Root}) /\ IsInjective(more)
        /\ Range(more) = IF e \in Dirs /\ HasRoom THEN Waiting \cup {e} ELSE Waiting
    <3>1. walk.pending \in Seq(Dirs \cup {Root}) /\ IsInjective(walk.pending) /\ e \notin Waiting
          BY <1>t, <1>1, <1>2, WalkFacts DEF Walked
    <3>2. CASE e \in Dirs /\ HasRoom
      <4>1. more = Append(walk.pending, e) /\ e \in Dirs \cup {Root}  BY <3>2
      <4> QED BY <3>1, <3>2, <4>1, Appended DEF Waiting
    <3>3. CASE ~(e \in Dirs /\ HasRoom)  BY <3>1, <3>3 DEF Waiting
    <3> QED BY <3>2, <3>3
  <2> HIDE DEF more, count
  <2>4. /\ walk'.at = "dir" /\ walk'.pending = more /\ walk'.dir = walk.dir
        /\ walk'.todo = walk.todo \ {e} /\ walk'.counted = count
        BY <1>1, <1>7, <2>1 DEF WalkStates
  <2>5. walk' \in WalkStates  BY <1>7, <2>1, <2>2, <2>3 DEF WalkStates
  <2>6. /\ Met' = Met \cup {e}
        /\ Waiting' = IF e \in Dirs /\ HasRoom THEN Waiting \cup {e} ELSE Waiting
        /\ missed' = IF e \in Dirs /\ ~HasRoom THEN missed \cup {e} ELSE missed
        BY <1>1, <1>10, <2>2, <2>3, <2>4 DEF Met, Waiting
  <2>7. \A c \in there' \ {Root} : Parent[c] \in Met' \ missed' =>
            c \in Met' \/ Parent[c] \in Waiting' \/ c \in walk'.todo
    <3> SUFFICES ASSUME NEW c \in there \ {Root}, Parent[c] \in Met' \ missed'
                 PROVE  c \in Met' \/ Parent[c] \in Waiting' \/ c \in walk'.todo
        BY <1>1
    <3>1. CASE Parent[c] \in Met
      <4>1. c \in Met \/ Parent[c] \in Waiting \/ c \in walk.todo  BY <1>6, <2>6, <3>1
      <4> QED BY <2>4, <2>6, <4>1
    <3>2. CASE Parent[c] = e
      <4>1. c \in Entries  BY <1>t, <1>4 DEF TypeOK
      <4>2. e \in Dirs  BY <1>3, <3>2, <4>1
      <4>3. HasRoom  BY <2>6, <3>2, <4>2
      <4> QED BY <2>6, <3>2, <4>2, <4>3
    <3> QED BY <2>6, <3>1, <3>2
  <2>8. Walked'
    <3>1. /\ Met \subseteq used \cup {Root} /\ Waiting \subseteq Met
          /\ \A c \in Met \ {Root} : Parent[c] \in Met \ Waiting
          BY <1>t, <1>1 DEF Walked
    <3>2. /\ IsInjective(walk'.counted) /\ Met' \subseteq used' \cup {Root}
          /\ IsInjective(walk'.pending) /\ Waiting' \subseteq Met'
          BY <1>1, <1>2, <2>2, <2>3, <2>4, <2>6, <3>1
    <3>3. \A c \in Met' \ {Root} : Parent[c] \in Met' \ Waiting'
          BY <1>2, <2>6, <3>1
    <3>4. /\ walk'.dir \in Met' \ Waiting' /\ walk'.todo \cap Met' = {} /\ walk'.todo \subseteq used'
          /\ \A c \in walk'.todo : Parent[c] = walk'.dir
          BY <1>1, <1>2, <1>5, <2>4, <2>6
    <3> QED BY <2>4, <2>7, <3>2, <3>3, <3>4 DEF Walked
  <2> QED BY <1>1, <1>8, <2>5, <2>8, WalkStep
<1> QED BY <1>9, <1>10

LEMMA DuClosedirKeeps ==
    ASSUME IInv, DuClosedir
    PROVE  IInv'
<1>t. TypeOK /\ Walked /\ Underfoot  BY DEF IInv
<1>1. /\ walk.at = "dir" /\ (walk.todo = {} \/ walk.guard >= DU_MAX_ENTRIES)
      /\ walk' = [walk EXCEPT !.at = "loop", !.todo = {}]
      /\ UNCHANGED <<case, pc, openVars, fs, used, n, there, missed>>
      BY DEF DuClosedir
<1>2. /\ walk'.at = "loop" /\ walk'.pending = walk.pending /\ walk'.counted = walk.counted
      /\ walk'.guard = walk.guard /\ walk' \in WalkStates
      BY <1>t, <1>1 DEF TypeOK, WalkStates
<1>3. Met' = Met /\ Waiting' = Waiting  BY <1>2 DEF Met, Waiting
<1>4. walk.guard < DU_MAX_ENTRIES => walk.todo = {}
      BY <1>t, <1>1, WalkFacts, LimitsAssumption
<1>5. Walked'  BY <1>t, <1>1, <1>2, <1>3, <1>4 DEF Walked
<1>6. Underfoot'  BY <1>t, <1>1, <1>2 DEF Underfoot
<1> QED BY <1>1, <1>2, <1>5, <1>6, WalkStep

LEMMA DuReturnKeeps ==
    ASSUME IInv, DuReturn
    PROVE  IInv'
<1>t. TypeOK /\ Walked /\ Underfoot  BY DEF IInv
<1>1. /\ walk.at = "loop" /\ (walk.pending = << >> \/ walk.guard >= DU_MAX_ENTRIES)
      /\ walk' = [walk EXCEPT !.at = "done"]
      /\ UNCHANGED <<case, pc, openVars, fs, used, n, there, missed>>
      BY DEF DuReturn
<1>2. /\ walk'.at = "done" /\ walk'.pending = walk.pending /\ walk'.counted = walk.counted
      /\ walk'.guard = walk.guard /\ walk' \in WalkStates
      BY <1>t, <1>1 DEF TypeOK, WalkStates
<1>3. Met' = Met /\ Waiting' = Waiting  BY <1>2 DEF Met, Waiting
<1>4. walk.guard < DU_MAX_ENTRIES => walk.pending = << >>
      BY <1>t, <1>1, WalkFacts, LimitsAssumption
<1>5. Walked'  BY <1>t, <1>1, <1>2, <1>3, <1>4 DEF Walked
<1>6. Underfoot'  BY <1>2 DEF Underfoot
<1> QED BY <1>1, <1>2, <1>5, <1>6, WalkStep

LEMMA StutterKeeps ==
    ASSUME IInv, UNCHANGED vars
    PROVE  IInv'
<1>1. UNCHANGED <<case, pc, openVars, fs, used, walk, n, there, missed>>
      BY DEF vars, duVars
<1>2. Walked'  BY <1>1, WalkStays DEF IInv
<1>3. Underfoot' /\ walk' \in WalkStates  BY <1>1 DEF IInv, Underfoot, TypeOK
<1> QED BY <1>1, <1>2, <1>3, WalkStep

-----------------------------------------------------------------------------
(* The theorems                                                              *)

\* An engine from open to close, and the walk over its directory: one set of
\* options is held, those of the lines read so far; an entry is counted once,
\* after its directory; and one that has been there all the time is counted,
\* to come, or in a directory that waits.
THEOREM EngineInvariant == Spec => []IInv
<1>1. ASSUME IInv, [Next]_vars PROVE IInv'
  <2>1. CASE MakeDir \/ RdbOption \/ RdbOpen \/ TdbOpen \/ TdbFamily \/ RdbClose \/ TdbClose
        BY <1>1, <2>1, MakeDirKeeps, RdbOptionKeeps, RdbOpenKeeps, TdbOpenKeeps, TdbFamilyKeeps,
           CloseKeeps
  <2>2. CASE \E e \in Entries : Create(e) \/ Delete(e) \/ DuEntry(e)
        BY <1>1, <2>2, CreateKeeps, DeleteKeeps, DuEntryKeeps
  <2>3. CASE DuStart \/ DuOpendir \/ DuClosedir \/ DuReturn
        BY <1>1, <2>3, DuStartKeeps, DuOpendirKeeps, DuClosedirKeeps, DuReturnKeeps
  <2>4. CASE Ended \/ UNCHANGED vars  BY <1>1, <2>4, StutterKeeps DEF Ended
  <2> QED BY <1>1, <2>1, <2>2, <2>3, <2>4 DEF Next
<1> QED BY InitHolds, <1>1, PTL DEF Spec

\* Whatever lines RocksDB refuses, the options it is opened with are still held,
\* no other handle is, and none once it is closed.
THEOREM HandlesAreReturned == Spec => []HandlesReturned
<1>1. IInv => HandlesReturned
      BY SectionFacts DEF IInv, Handles, HandlesReturned
<1> QED BY <1>1, EngineInvariant, PTL

\* Under any changes to the directory, du_bytes counts no entry twice and none
\* that never was, and misses none that was there throughout but those the two
\* limits account for.
THEOREM DiskUsageIsFaithful == Spec => []DuFaithful
<1>1. IInv => DuFaithful
  <2> SUFFICES ASSUME IInv, walk.at = "done"
               PROVE  /\ IsInjective(walk.counted) /\ Met \subseteq used \cup {Root}
                      /\ walk.guard < DU_MAX_ENTRIES =>
                            \A e \in there \ {Root} : Parent[e] \in Met \ missed => e \in Met
      BY DEF DuFaithful, Met
  <2>1. walk.guard < DU_MAX_ENTRIES => Waiting = {}
        BY DEF IInv, Walked, Waiting, Range
  <2> QED BY <2>1 DEF IInv, Walked
<1> QED BY <1>1, EngineInvariant, PTL

\* A size as TidesDB looks it up: that of the first line with its name, if it
\* is one.
LEMMA SizeFacts ==
    ASSUME TypeOK, NEW o, NEW d
    PROVE  /\ Lines(o) # {} /\ Min(Lines(o)) \in Good(o) =>
                 /\ kv_opt_int(o, d) = section[Min(Lines(o))].val
                 /\ section[Min(Lines(o))].val # Default
           /\ ~(Lines(o) # {} /\ Min(Lines(o)) \in Good(o)) => kv_opt_int(o, d) = d
<1>1. Lines(o) # {} => Min(Lines(o)) \in Lines(o) /\ section[Min(Lines(o))].val # Default
  <2>1. Lines(o) \subseteq 1 .. Len(section)  BY LookupFacts
  <2>2. Lines(o) # {} => Min(Lines(o)) \in Lines(o)  BY LookupFacts
  <2> QED BY <2>1, <2>2, SectionFacts
<1>2. Lines(o) # {} => (Min(Lines(o)) \in Good(o) <=> section[Min(Lines(o))].val \notin {Bad, Empty})
      BY <1>1 DEF Good
<1>3. kv_opt_str(o, Bad) = IF Lines(o) = {} THEN Bad ELSE section[Min(Lines(o))].val
      BY DEF kv_opt_str
<1> QED BY <1>1, <1>2, <1>3 DEF kv_opt_int

\* The first line of a name, by what it is good for.
LEMMA FirstFacts ==
    ASSUME TypeOK, NEW o
    PROVE  /\ Lines(o) # {} => Min(Lines(o)) \in Lines(o)
           /\ FirstGood(o) <=> Lines(o) # {} /\ section[Min(Lines(o))].val \notin {Bad, Empty}
<1>1. Lines(o) # {} => Min(Lines(o)) \in Lines(o)  BY LookupFacts
<1> QED BY <1>1 DEF FirstGood, Good

\* For any section, of any number of lines, an open engine has obeyed the last
\* usable line of each option with RocksDB and the first with TidesDB, where a
\* size that is none counts as not asked for and a compression not known as
\* none at all; and its directory is the one the section or --data-dir names,
\* or /tmp if it names none.
THEOREM OptionsAreEffective == Spec => []OptionsEffective
<1>1. ASSUME IInv, pc = "live", case.engine = "rocksdb", NEW o \in Sizes
      PROVE  eff[o] = IF Good(o) = {} THEN Default ELSE section[Max(Good(o))].val
  <2>1. TypeOK /\ Chosen  BY <1>1 DEF IInv
  <2>2. eff[o] = LastOf(GoodBefore(o, i)) /\ i > Len(section)  BY <1>1, <2>1 DEF Chosen
  <2>3. GoodBefore(o, i) = Good(o)
    <3>1. Good(o) \subseteq 1 .. Len(section)  BY <2>1, LookupFacts
    <3> QED BY <2>1, <2>2, <3>1, SectionFacts DEF GoodBefore, TypeOK
  <2> QED BY <2>2, <2>3 DEF LastOf
<1>2. ASSUME IInv, pc = "live", case.engine = "tidesdb"
      PROVE  LET asked == {o \in {"memtable_write_buffer_size", "write_buffer_size"} : FirstGood(o)}
                 size  == eff["memtable_write_buffer_size"]
             IN  /\ asked = {} <=> size = Default
                 /\ "memtable_write_buffer_size" \in asked =>
                       size = section[Min(Lines("memtable_write_buffer_size"))].val
                 /\ asked = {"write_buffer_size"} =>
                       size = section[Min(Lines("write_buffer_size"))].val
  <2> DEFINE new == "memtable_write_buffer_size"
             old == "write_buffer_size"
             Wanted(o) == Lines(o) # {} /\ Min(Lines(o)) \in Good(o)
             size == eff[new]
  <2>1. TypeOK /\ size = kv_opt_int(new, kv_opt_int(old, Default))
        BY <1>2 DEF IInv, Chosen, Buffer
  <2>2. new # old  OBVIOUS
  <2>3. /\ Wanted(new) => size = section[Min(Lines(new))].val /\ size # Default
        /\ ~Wanted(new) /\ Wanted(old) => size = section[Min(Lines(old))].val /\ size # Default
        /\ ~Wanted(new) /\ ~Wanted(old) => size = Default
        BY <2>1, SizeFacts
  <2> HIDE DEF new, old, Wanted, size
  <2>4. LET asked == {o \in {new, old} : Wanted(o)}
        IN  /\ asked = {} <=> size = Default
            /\ new \in asked => size = section[Min(Lines(new))].val
            /\ asked = {old} => size = section[Min(Lines(old))].val
        BY <2>2, <2>3
  <2> QED BY <2>4 DEF new, old, Wanted, size, FirstGood
<1>3. ASSUME IInv, pc = "live", case.engine = "tidesdb"
      PROVE  eff["compression"] =
                IF Lines("compression") = {} THEN Default
                ELSE IF FirstGood("compression") THEN section[Min(Lines("compression"))].val
                ELSE None
  <2>1. TypeOK /\ eff["compression"] = Codec  BY <1>3 DEF IInv, Chosen
  <2>2. Default \notin {Bad, Empty}  BY DEF Default, Bad, Empty
  <2> QED BY <2>1, <2>2, FirstFacts DEF Codec, kv_opt_str
<1>4. ASSUME IInv, pc = "live"
      PROVE  LET dir == IF Lines("data_dir") = {} THEN case.dataDir
                        ELSE section[Min(Lines("data_dir"))].val
             IN  base = IF dir = Empty THEN "/tmp" ELSE dir
      BY <1>4 DEF IInv, Chosen, Place, kv_opt_str
<1>5. IInv => OptionsEffective  BY <1>1, <1>2, <1>3, <1>4 DEF OptionsEffective, Sizes
<1> QED BY <1>5, EngineInvariant, PTL

-----------------------------------------------------------------------------
(* The configuration of a run, for any config file and command line.         *)

Flags == Given \cup {<<"bad", 0>>}
Vals  == [Knobs -> Nat]

RunTypes ==
    /\ gen \in {1, 2}
    /\ mpc \in {"load", "args", "report", "save", "start", "running", "refused", "failed"}
    /\ file.bench \in [Knobs -> Nat \cup {Unset}]
    /\ saved.bench \in [Knobs -> Nat \cup {Unset}]
    /\ file.tuning \in Int /\ saved.tuning \in Int
    /\ args \in Seq(Flags)
    /\ at \in Nat \ {0}
    /\ val \in Vals /\ run.val \in Vals /\ first.val \in Vals

\* The first of several settings is one of them.
LEMMA FoundOne ==
    ASSUME NEW m \in Nat, NEW s \in [1 .. m -> Given], NEW b, b \in Knobs
    PROVE  Found(s, b) \in Nat \cup {Unset}
<1> DEFINE own == {a \in DOMAIN s : s[a][1] = b}
<1>1. CASE own = {}  BY <1>1 DEF Found
<1>2. CASE own # {}
  <2>1. PICK x \in own : \A y \in own : x <= y
    <3>1. own \subseteq Nat  OBVIOUS
    <3>2. PICK z : z \in own  BY <1>2
    <3> HIDE DEF own
    <3> QED BY <3>1, <3>2, LeastNumber
  <2>2. Min(own) \in own  BY <2>1 DEF Min
  <2>3. s[Min(own)] \in Given  BY <2>2
  <2>4. \A g \in Given : g[2] \in Nat  BY GivenAssumption
  <2>5. Found(s, b) = s[Min(own)][2]  BY <1>2 DEF Found, Min, Min
  <2> QED BY <2>3, <2>4, <2>5
<1> QED BY <1>1, <1>2

LEMMA RunTypesHold == RunSpec => []RunTypes
<1>1. RunInit => RunTypes
  <2> SUFFICES ASSUME RunInit PROVE RunTypes  OBVIOUS
  <2>1. PICK f \in SeqOf(Given, MaxGiven), a \in SeqOf(Flags, MaxGiven),
             w \in {<< >>, <<1>>}, u \in {-1, 0, 1} :
           /\ file = [bench |-> [b \in Knobs |-> Found(f, b)], workloads |-> w, tuning |-> u]
           /\ args = a
        BY DEF RunInit, Flags
  <2>2. PICK m \in Nat : f \in [1 .. m -> Given]  BY GivenAssumption DEF SeqOf
  <2>3. PICK l \in Nat : a \in [1 .. l -> Flags]  BY GivenAssumption DEF SeqOf
  <2>4. file.bench \in [Knobs -> Nat \cup {Unset}]
    <3>1. \A b \in Knobs : Found(f, b) \in Nat \cup {Unset}  BY <2>2, FoundOne
    <3> QED BY <2>1, <3>1
  <2>5. args \in Seq(Flags)  BY <2>1, <2>3
  <2>6. Defaults \in Vals  BY DEF Defaults, Vals
  <2>7. saved.bench \in [Knobs -> Nat \cup {Unset}] /\ saved.tuning \in Int  BY DEF RunInit, NoFile
  <2>8. val \in Vals /\ run.val \in Vals /\ first.val \in Vals  BY <2>6 DEF RunInit, NoRun
  <2> QED BY <2>1, <2>4, <2>5, <2>7, <2>8 DEF RunInit, RunTypes
<1>2. RunTypes /\ [RunNext]_runVars => RunTypes'
  <2> SUFFICES ASSUME RunTypes, [RunNext]_runVars PROVE RunTypes'  OBVIOUS
  <2>a. \A b \in Knobs, d \in Nat : Opt(b, d) \in Nat  BY DEF RunTypes, Opt, Unset
  <2>b. /\ \A b \in Knobs : val[b] \in Nat
        /\ val \in Vals
        BY DEF RunTypes, Vals
  <2>1. CASE Refuse  BY <2>1 DEF Refuse, RunTypes
  <2>2. CASE IOFail  BY <2>2 DEF IOFail, RunTypes
  <2>3. CASE Load
    <3>1. CASE IOFail  BY <2>2, <3>1
    <3>2. ASSUME ~IOFail PROVE RunTypes'
      <4>1. val' = [b \in Knobs |-> IF b \in Applied THEN Opt(b, val[b]) ELSE val[b]]
            BY <2>3, <3>2 DEF Load
      <4>2. val' \in Vals  BY <2>a, <2>b, <4>1 DEF Vals
      <4> QED BY <2>3, <3>2, <4>2 DEF Load, RunTypes
    <3> QED BY <3>1, <3>2
  <2>4. CASE Arg
    <3>1. CASE args[at][1] = "bad"  BY <2>1, <2>4, <3>1 DEF Arg
    <3>2. CASE args[at][1] # "bad"
      <4>1. args[at] \in Given
        <5>1. args[at] \in Flags  BY <2>4 DEF Arg, RunTypes
        <5> QED BY <3>2, <5>1 DEF Flags
      <4>2. args[at][1] \in Knobs /\ args[at][2] \in Nat  BY <4>1, GivenAssumption
      <4>3. val' \in Vals  BY <2>4, <2>b, <3>2, <4>2 DEF Arg, Took, Vals
      <4> QED BY <2>4, <3>2, <4>3 DEF Arg, RunTypes
    <3> QED BY <3>1, <3>2
  <2>5. CASE Check
    <3>1. CASE Refuse  BY <2>1, <3>1
    <3>2. ASSUME ~Refuse PROVE RunTypes'
      <4>1. "auto_plot" \in Knobs /\ "report_dir" \in Knobs  BY DEF Knobs
      <4>2. Opt("auto_plot", 0) \in Nat /\ Opt("report_dir", 0) \in Nat  BY <2>a, <4>1
      <4>3. val' \in Vals  BY <2>5, <2>b, <3>2, <4>2 DEF Check, Skiplist, Vals
      <4> QED BY <2>5, <3>2, <4>3 DEF Check, RunTypes
    <3> QED BY <3>1, <3>2
  <2>6. CASE ReportDir
    <3>1. val' \in Vals
      <4>1. [val EXCEPT !["report"] = Bundle] \in Vals  BY <2>b DEF Vals, Bundle
      <4> QED BY <2>6, <2>b, <4>1 DEF ReportDir, IOFail
    <3> QED BY <2>6, <3>1 DEF ReportDir, IOFail, RunTypes
  <2>7. CASE Save
    <3>1. [b \in Knobs |-> IF Kept(b) THEN val[b] ELSE Unset] \in [Knobs -> Nat \cup {Unset}]
          BY <2>b
    <3>2. saved'.bench \in [Knobs -> Nat \cup {Unset}] /\ saved'.tuning \in Int  BY <2>7, <3>1 DEF Save, RunTypes
    <3> QED BY <2>7, <3>2 DEF Save, RunTypes
  <2>8. CASE Start
    <3>1. CASE IOFail  BY <2>2, <3>1
    <3>2. ASSUME ~IOFail PROVE RunTypes'
      <4>1. Opt("probe", 0) \in Nat  BY <2>a DEF Knobs
      <4>2. val' \in Vals /\ run'.val = val'  BY <2>8, <2>b, <3>2, <4>1 DEF Start, Vals
      <4> QED BY <2>8, <3>2, <4>2 DEF Start, RunTypes
    <3> QED BY <3>1, <3>2
  <2>9. CASE Replay
    <3>1. Defaults \in Vals  BY DEF Defaults, Vals
    <3>2. args' \in Seq(Flags)  BY <2>9 DEF Replay
    <3> QED BY <2>9, <3>1, <3>2 DEF Replay, RunTypes, NoRun
  <2>10. CASE UNCHANGED runVars  BY <2>10 DEF runVars, RunTypes
  <2>11. CASE Over  BY <2>10, <2>11 DEF Over
  <2> QED BY <2>3, <2>4, <2>5, <2>6, <2>7, <2>8, <2>9, <2>10, <2>11 DEF RunNext
<1> QED BY <1>1, <1>2, PTL DEF RunSpec

\* The knobs a replay file settles by itself.
Plain == WorkKnobs \ {"ops", "report", "report_dir"}

LEMMA KnobNames ==
    /\ WorkKnobs = Plain \cup {"ops", "report", "report_dir"} /\ WorkKnobs \subseteq Knobs
    /\ {"backend", "threads", "repeat", "secs", "items", "data_dir"} \subseteq Plain
    /\ Plain \subseteq Applied \ {"ops", "report", "report_dir", "probe", "auto_plot", "timeline"}
    /\ {"ops", "report"} \subseteq Applied /\ {"report_dir", "auto_plot", "probe"} \subseteq Knobs \ Applied
    /\ Applied \subseteq Knobs
BY DEF Plain, WorkKnobs, Knobs, Applied

\* What a setting comes to for one who does not say otherwise.
LEMMA DefaultKnobs ==
    /\ Defaults \in Vals
    /\ \A b \in Knobs : Defaults[b] = IF b \in {"ops", "items"} THEN 8 ELSE IF b = "repeat" THEN 1 ELSE 0
BY DEF Defaults, Knobs, Vals

\* The flag that counts among the first m arguments.
LEMMA LastFlagFacts ==
    ASSUME RunTypes, NEW b, b \in Knobs, NEW m \in Nat, m <= Len(args),
           \A a \in 1 .. m : args[a] \in Given
    PROVE  /\ m = 0 => LastFlag(b, m) = Unset
           /\ m > 0 => LastFlag(b, m) = IF args[m][1] = b THEN args[m][2] ELSE LastFlag(b, m - 1)
           /\ LastFlag(b, m) # Unset => \E a \in 1 .. m : args[a][1] = b /\ LastFlag(b, m) = args[a][2]
<1> DEFINE own(j) == {a \in 1 .. j : args[a][1] = b}
<1>1. \A j : LastFlag(b, j) = IF own(j) = {} THEN Unset ELSE args[Max(own(j))][2]
      BY DEF LastFlag, Max, Max
<1>2. m = 0 => LastFlag(b, m) = Unset
  <2>1. own(0) = {}  OBVIOUS
  <2> HIDE DEF own
  <2> QED BY <1>1, <2>1
<1>3. m > 0 => LastFlag(b, m) = IF args[m][1] = b THEN args[m][2] ELSE LastFlag(b, m - 1)
  <2> SUFFICES ASSUME m > 0
               PROVE  LastFlag(b, m) = IF args[m][1] = b THEN args[m][2] ELSE LastFlag(b, m - 1)
      OBVIOUS
  <2>1. CASE args[m][1] = b
    <3>1. own(m) \subseteq Nat /\ m \in own(m) /\ \A y \in own(m) : y <= m  BY <2>1
    <3> HIDE DEF own
    <3>2. Max(own(m)) = m  BY <3>1, MaxIs
    <3> QED BY <1>1, <2>1, <3>1, <3>2
  <2>2. CASE args[m][1] # b
    <3>1. own(m) = own(m - 1)  BY <2>2
    <3> HIDE DEF own
    <3> QED BY <1>1, <2>2, <3>1
  <2> QED BY <2>1, <2>2
<1>4. LastFlag(b, m) # Unset => \E a \in 1 .. m : args[a][1] = b /\ LastFlag(b, m) = args[a][2]
  <2> SUFFICES ASSUME own(m) # {}
               PROVE  \E a \in 1 .. m : args[a][1] = b /\ LastFlag(b, m) = args[a][2]
      BY <1>1
  <2>1. own(m) \subseteq 1 .. m  OBVIOUS
  <2>2. PICK x \in own(m) : \A y \in own(m) : y <= x
    <3> DEFINE back == {m - y : y \in own(m)}
    <3>1. back \subseteq Nat /\ back # {}  OBVIOUS
    <3>2. PICK z \in back : \A y \in back : z <= y
      <4> HIDE DEF back
      <4> QED BY <3>1, LeastNumber
    <3>3. PICK x \in own(m) : z = m - x  BY <3>2
    <3>4. \A y \in own(m) : m - x <= m - y  BY <3>2, <3>3
    <3>5. \A y \in own(m) : y <= x  BY <3>4
    <3> QED BY <3>5
  <2>3. Max(own(m)) = x
    <3>1. own(m) \subseteq Nat  BY <2>1
    <3> HIDE DEF own
    <3> QED BY <2>2, <3>1, MaxIs
  <2> QED BY <1>1, <2>2, <2>3
<1> QED BY <1>2, <1>3, <1>4

\* A knob after the first m flags.
Sofar(b, m) ==
    IF LastFlag(b, m) # Unset THEN LastFlag(b, m)
    ELSE IF b \in Applied THEN Opt(b, Defaults[b]) ELSE Defaults[b]

\* After the flags the knobs are settled but for the two main has not come to.
FlagsTaken ==
    /\ mpc = "load" => at = 1 /\ val = Defaults
    /\ mpc = "args" =>
         /\ at <= Len(args) + 1
         /\ \A a \in 1 .. at - 1 : args[a] \in Given
         /\ \A b \in Knobs : val[b] = Sofar(b, at - 1)
    /\ mpc \in {"report", "save", "start", "running"} =>
         /\ \A a \in 1 .. Len(args) : args[a] \in Given
         /\ \A b \in Knobs \ {"probe", "report"} : val[b] = InForce(b)
    /\ mpc = "report" => val["report"] = Asked("report")
    /\ mpc \in {"save", "start", "running"} => val["report"] = InForce("report")
    /\ mpc \in {"report", "save", "start"} => val["probe"] = Sofar("probe", Len(args))
    /\ mpc = "running" => val["probe"] = InForce("probe") /\ run.val = val

\* What is asked for of a knob that main looks up late, in the file.
LEMMA LateKnob ==
    ASSUME RunTypes, NEW b \in {"report_dir", "probe", "auto_plot"},
           \A a \in 1 .. Len(args) : args[a] \in Given
    PROVE  Asked(b) = IF Sofar(b, Len(args)) = 0 THEN Opt(b, 0) ELSE Sofar(b, Len(args))
<1>1. b \in Knobs /\ b \notin Applied /\ Defaults[b] = 0 /\ Len(args) \in Nat
      BY KnobNames, DefaultKnobs DEF RunTypes
<1>2. LastFlag(b, Len(args)) # Unset => LastFlag(b, Len(args)) > 0
  <2>1. LastFlag(b, Len(args)) # Unset =>
           \E a \in 1 .. Len(args) : args[a][1] = b /\ LastFlag(b, Len(args)) = args[a][2]
        BY <1>1, LastFlagFacts
  <2>2. \A g \in Given : g[1] = b => g[2] > 0  BY GivenAssumption
  <2> QED BY <2>1, <2>2
<1>3. CASE LastFlag(b, Len(args)) = Unset  BY <1>1, <1>3 DEF Asked, Flag, Sofar, Unset
<1>4. CASE LastFlag(b, Len(args)) # Unset
  <2>1. PICK v : v = LastFlag(b, Len(args))  OBVIOUS
  <2>2. v # Unset /\ v > 0 /\ Asked(b) = v /\ Sofar(b, Len(args)) = v
        BY <1>2, <1>4, <2>1 DEF Asked, Flag, Sofar
  <2>3. v # 0
    <3>1. v \in Nat
      <4>1. \E a \in 1 .. Len(args) : v = args[a][2]  BY <1>1, <1>4, <2>1, LastFlagFacts
      <4>2. \A g \in Given : g[2] \in Nat  BY GivenAssumption
      <4> QED BY <4>1, <4>2
    <3> QED BY <2>2, <3>1
  <2> QED BY <2>2, <2>3
<1> QED BY <1>3, <1>4

\* What is asked for stands as long as the file and the command line do.
LEMMA AskedStands ==
    ASSUME file' = file, args' = args
    PROVE  \A b : /\ Asked(b)' = Asked(b) /\ InForce(b)' = InForce(b)
                  /\ \A m : Sofar(b, m)' = Sofar(b, m)
<1>1. \A b, m : LastFlag(b, m)' = LastFlag(b, m)  BY DEF LastFlag
<1>2. \A b, d : Opt(b, d)' = Opt(b, d)  BY DEF Opt
<1>3. \A b : Asked(b)' = Asked(b)  BY <1>1, <1>2 DEF Asked, Flag
<1>4. \A b, m : Sofar(b, m)' = Sofar(b, m)  BY <1>1, <1>2 DEF Sofar
<1>5. \A b : InForce(b)' = InForce(b)  BY <1>3 DEF InForce
<1> QED BY <1>3, <1>4, <1>5

\* A knob that is neither replaced nor late.
LEMMA AppliedKnob ==
    ASSUME NEW b \in Applied
    PROVE  Asked(b) = Sofar(b, Len(args))
BY DEF Asked, Flag, Sofar

LEMMA FlagsTakenHolds == RunSpec => []FlagsTaken
<1>1. RunInit => FlagsTaken  BY DEF RunInit, FlagsTaken
<1>2. RunTypes /\ FlagsTaken /\ [RunNext]_runVars => FlagsTaken'
  <2> SUFFICES ASSUME RunTypes, FlagsTaken, [RunNext]_runVars PROVE FlagsTaken'  OBVIOUS
  <2>g. \A g \in Given : g[1] \in Knobs /\ g[2] \in Nat  BY GivenAssumption
  <2>v. val \in [Knobs -> Nat] /\ Len(args) \in Nat /\ at \in Nat \ {0}  BY DEF RunTypes, Vals
  <2>1. CASE Refuse  BY <2>1 DEF Refuse, FlagsTaken
  <2>2. CASE IOFail  BY <2>2 DEF IOFail, FlagsTaken
  <2>3. CASE Load
    <3>1. CASE IOFail  BY <2>2, <3>1
    <3>2. ASSUME ~IOFail PROVE FlagsTaken'
      <4>1. /\ mpc' = "args" /\ at' = 1 /\ args' = args /\ file' = file /\ val = Defaults
            /\ val' = [b \in Knobs |-> IF b \in Applied THEN Opt(b, val[b]) ELSE val[b]]
            BY <2>3, <3>2 DEF Load, FlagsTaken
      <4>2. ASSUME NEW b \in Knobs PROVE val'[b] = Sofar(b, 0)
        <5>1. LastFlag(b, 0) = Unset  BY <2>v, LastFlagFacts
        <5> QED BY <4>1, <5>1 DEF Sofar
      <4>3. \A b \in Knobs : val'[b] = Sofar(b, 0)'  BY <4>1, <4>2, AskedStands
      <4> QED BY <2>v, <4>1, <4>3 DEF FlagsTaken
    <3> QED BY <3>1, <3>2
  <2>4. CASE Arg
    <3>1. CASE args[at][1] = "bad"  BY <2>1, <2>4, <3>1 DEF Arg
    <3>2. CASE args[at][1] # "bad"
      <4>1. args[at] \in Given
        <5>1. args[at] \in Flags  BY <2>4 DEF Arg, RunTypes
        <5> QED BY <3>2, <5>1 DEF Flags
      <4>2. /\ val' = [val EXCEPT ![args[at][1]] = args[at][2]] /\ at' = at + 1 /\ args' = args
            /\ file' = file /\ mpc = "args" /\ mpc' = mpc /\ at <= Len(args)
            BY <2>4, <3>2 DEF Arg, Took
      <4>3. \A a \in 1 .. at : args[a] \in Given
        <5>1. \A a \in 1 .. at - 1 : args[a] \in Given  BY <4>2 DEF FlagsTaken
        <5>2. \A a \in 1 .. at : a = at \/ a \in 1 .. at - 1  BY <2>v
        <5> QED BY <4>1, <5>1, <5>2
      <4>4. ASSUME NEW b \in Knobs PROVE val'[b] = Sofar(b, at)
        <5>1. LastFlag(b, at) = IF args[at][1] = b THEN args[at][2] ELSE LastFlag(b, at - 1)
              BY <2>v, <4>2, <4>3, LastFlagFacts
        <5>2. val[b] = Sofar(b, at - 1)  BY <4>2 DEF FlagsTaken
        <5>3. CASE args[at][1] = b
          <6>1. val'[b] = args[at][2] /\ args[at][2] \in Nat  BY <2>g, <2>v, <4>1, <4>2, <5>3
          <6> QED BY <5>1, <5>3, <6>1 DEF Sofar, Unset
        <5>4. CASE args[at][1] # b
          <6>1. val'[b] = val[b]  BY <2>g, <2>v, <4>1, <4>2, <5>4
          <6> QED BY <5>1, <5>2, <5>4, <6>1 DEF Sofar
        <5> QED BY <5>3, <5>4
      <4>5. (at + 1) - 1 = at /\ at + 1 <= Len(args) + 1  BY <2>v, <4>2
      <4>6. \A b \in Knobs : val'[b] = (Sofar(b, at - 1))'
        <5>1. at' - 1 = at  BY <4>2, <4>5
        <5>2. \A b, j : LastFlag(b, j)' = LastFlag(b, j)  BY <4>2 DEF LastFlag
        <5>3. \A b, d : Opt(b, d)' = Opt(b, d)  BY <4>2 DEF Opt
        <5>4. \A b : (LastFlag(b, at - 1))' = LastFlag(b, at)  BY <4>2, <5>1 DEF LastFlag
        <5>5. \A b : (Sofar(b, at - 1))' = Sofar(b, at)  BY <5>3, <5>4 DEF Sofar
        <5> QED BY <4>4, <5>5
      <4> QED BY <4>2, <4>3, <4>5, <4>6 DEF FlagsTaken
    <3> QED BY <3>1, <3>2
  <2>5. CASE Check
    <3>1. CASE Refuse  BY <2>1, <3>1
    <3>2. ASSUME ~Refuse PROVE FlagsTaken'
      <4>1. mpc = "args" /\ at > Len(args) /\ mpc' = "report" /\ args' = args /\ file' = file
            BY <2>5, <3>2 DEF Check
      <4>2. at - 1 = Len(args)  BY <2>v, <4>1 DEF FlagsTaken
      <4>3. /\ \A a \in 1 .. Len(args) : args[a] \in Given
            /\ \A b \in Knobs : val[b] = Sofar(b, Len(args))
            BY <4>1, <4>2 DEF FlagsTaken
      <4>4. /\ \A b \in Knobs \ {"ops", "backend", "threads", "repeat", "auto_plot", "report_dir"} :
                 val'[b] = val[b]
            /\ val'["ops"] = IF val["secs"] > 0 THEN 0 ELSE val["ops"]
            /\ \A b \in {"backend", "threads"} : val'[b] = IF val[b] = 0 THEN 1 ELSE val[b]
            /\ val'["repeat"] = IF val["repeat"] < 1 THEN 1 ELSE val["repeat"]
            /\ \A b \in {"auto_plot", "report_dir"} : val'[b] = IF val[b] = 0 THEN Opt(b, 0) ELSE val[b]
        <5>1. /\ "backend" \in Knobs /\ "threads" \in Knobs /\ "auto_plot" \in Knobs
              /\ "report_dir" \in Knobs /\ "ops" \in Knobs /\ "repeat" \in Knobs
              BY DEF Knobs
        <5> QED BY <2>5, <2>v, <3>2, <5>1 DEF Check, Skiplist
      <4>5. \A b \in Applied : val[b] = Asked(b)  BY <4>3, KnobNames, AppliedKnob
      <4>6. \A b \in {"report_dir", "probe", "auto_plot"} :
               Asked(b) = IF val[b] = 0 THEN Opt(b, 0) ELSE val[b]
            BY <4>3, KnobNames, LateKnob
      <4>7. ASSUME NEW b \in Knobs \ {"probe", "report"} PROVE val'[b] = InForce(b)
        <5>1. CASE b = "ops"
          <6>1. "ops" \in Applied /\ "secs" \in Applied  BY KnobNames
          <6> QED BY <4>4, <4>5, <5>1, <6>1 DEF InForce
        <5>2. CASE b \in {"backend", "threads", "repeat"}
          <6>1. b \in Applied /\ val[b] \in Nat  BY <2>v, <5>2, KnobNames DEF Applied
          <6> QED BY <4>4, <4>5, <5>2, <6>1 DEF InForce
        <5>3. CASE b \in {"auto_plot", "report_dir"}  BY <4>4, <4>6, <5>3 DEF InForce
        <5>4. CASE b \notin {"ops", "backend", "threads", "repeat", "auto_plot", "report_dir"}
          <6>1. b \in Applied /\ val'[b] = val[b]  BY <4>4, <5>4 DEF Applied
          <6> QED BY <4>5, <5>4, <6>1 DEF InForce
        <5> QED BY <5>1, <5>2, <5>3, <5>4
      <4>8. val'["report"] = Asked("report") /\ val'["probe"] = Sofar("probe", Len(args))
        <5>1. "report" \in Applied /\ "report" \in Knobs /\ "probe" \in Knobs  BY KnobNames DEF Applied
        <5> QED BY <4>3, <4>4, <4>5, <5>1
      <4>9. /\ \A b : Asked(b)' = Asked(b) /\ InForce(b)' = InForce(b)
            /\ Sofar("probe", Len(args))' = Sofar("probe", Len(args))
        <5>1. PICK l : l = Len(args)  OBVIOUS
        <5>2. Sofar("probe", Len(args))' = Sofar("probe", Len(args))
              BY <4>1 DEF Sofar, LastFlag, Opt
        <5> QED BY <4>1, <5>2, AskedStands
      <4> QED BY <4>1, <4>3, <4>7, <4>8, <4>9 DEF FlagsTaken
    <3> QED BY <3>1, <3>2
  <2>6. CASE ReportDir
    <3>1. CASE IOFail  BY <2>2, <3>1
    <3>2. ASSUME ~IOFail PROVE FlagsTaken'
      <4>1. /\ mpc = "report" /\ mpc' = "save" /\ args' = args /\ file' = file
            /\ IF val["report_dir"] = 0 THEN val' = val ELSE val' = [val EXCEPT !["report"] = Bundle]
            BY <2>6, <3>2 DEF ReportDir
      <4>2. /\ \A b \in Knobs : b # "report" => val'[b] = val[b]
            /\ val'["report"] = IF val["report_dir"] = 0 THEN val["report"] ELSE Bundle
            /\ "report_dir" \in Knobs /\ val["report_dir"] \in Nat
            BY <2>v, <4>1 DEF Knobs
      <4>3. /\ \A a \in 1 .. Len(args) : args[a] \in Given
            /\ \A b \in Knobs \ {"probe", "report"} : val[b] = InForce(b)
            /\ val["report"] = Asked("report") /\ val["probe"] = Sofar("probe", Len(args))
            BY <4>1 DEF FlagsTaken
      <4>4. val["report_dir"] = Asked("report_dir")  BY <4>2, <4>3 DEF InForce
      <4>5. val'["report"] = InForce("report")  BY <4>2, <4>3, <4>4 DEF InForce
      <4>6. /\ \A b : InForce(b)' = InForce(b)
            /\ Sofar("probe", Len(args))' = Sofar("probe", Len(args))
        <5>1. Sofar("probe", Len(args))' = Sofar("probe", Len(args))
              BY <4>1 DEF Sofar, LastFlag, Opt
        <5> QED BY <4>1, <5>1, AskedStands
      <4>7. val'["probe"] = val["probe"]  BY <4>2, KnobNames
      <4> QED BY <4>1, <4>2, <4>3, <4>5, <4>6, <4>7 DEF FlagsTaken
    <3> QED BY <3>1, <3>2
  <2>7. CASE Save
    <3>1. mpc = "save" /\ mpc' = "start" /\ args' = args /\ val' = val /\ file' = file  BY <2>7 DEF Save
    <3>2. Sofar("probe", Len(args))' = Sofar("probe", Len(args))
          BY <3>1 DEF Sofar, LastFlag, Opt
    <3>3. \A b : InForce(b)' = InForce(b)  BY <3>1, AskedStands
    <3> QED BY <3>1, <3>2, <3>3 DEF FlagsTaken
  <2>8. CASE Start
    <3>1. CASE IOFail  BY <2>2, <3>1
    <3>2. ASSUME ~IOFail PROVE FlagsTaken'
      <4>1. /\ mpc = "start" /\ mpc' = "running" /\ args' = args /\ file' = file /\ run'.val = val'
            /\ val' = [val EXCEPT !["probe"] = IF @ = 0 THEN Opt("probe", 0) ELSE @]
            BY <2>8, <3>2 DEF Start
      <4>2. /\ \A b \in Knobs : b # "probe" => val'[b] = val[b]
            /\ val'["probe"] = IF val["probe"] = 0 THEN Opt("probe", 0) ELSE val["probe"]
        <5>1. "probe" \in Knobs  BY KnobNames
        <5> QED BY <2>v, <4>1, <5>1
      <4>3. /\ \A a \in 1 .. Len(args) : args[a] \in Given
            /\ \A b \in Knobs \ {"probe", "report"} : val[b] = InForce(b)
            /\ val["report"] = InForce("report") /\ val["probe"] = Sofar("probe", Len(args))
            BY <4>1 DEF FlagsTaken
      <4>4. val'["probe"] = InForce("probe")
        <5>1. val'["probe"] = Asked("probe")  BY <4>2, <4>3, LateKnob
        <5> QED BY <5>1 DEF InForce
      <4>5. \A b : InForce(b)' = InForce(b)  BY <4>1, AskedStands
      <4>6. val'["report"] = val["report"]
        <5>1. "report" \in Knobs  BY DEF Knobs
        <5> QED BY <4>2, <5>1
      <4> QED BY <4>1, <4>2, <4>3, <4>4, <4>5, <4>6 DEF FlagsTaken
    <3> QED BY <3>1, <3>2
  <2>9. CASE Replay
    <3>1. mpc' = "load" /\ at' = 1 /\ val' = Defaults  BY <2>9 DEF Replay
    <3> QED BY <3>1 DEF FlagsTaken
  <2>10. CASE UNCHANGED runVars
    <3>1. mpc' = mpc /\ at' = at /\ args' = args /\ file' = file /\ val' = val /\ run' = run
          BY <2>10 DEF runVars
    <3>2. \A b : LastFlag(b, at - 1)' = LastFlag(b, at - 1) /\ LastFlag(b, Len(args))' = LastFlag(b, Len(args))
          BY <3>1 DEF LastFlag
    <3>3. \A b, d : Opt(b, d)' = Opt(b, d)  BY <3>1 DEF Opt
    <3>4. \A b : Sofar(b, at - 1)' = Sofar(b, at - 1) /\ Sofar(b, Len(args))' = Sofar(b, Len(args))
          BY <3>2, <3>3 DEF Sofar
    <3>5. \A b : Asked(b)' = Asked(b) /\ InForce(b)' = InForce(b)  BY <3>1, AskedStands
    <3> QED BY <3>1, <3>4, <3>5 DEF FlagsTaken
  <2>11. CASE Over  BY <2>10, <2>11 DEF Over
  <2> QED BY <2>3, <2>4, <2>5, <2>6, <2>7, <2>8, <2>9, <2>10, <2>11 DEF RunNext
<1> QED BY <1>1, <1>2, RunTypesHold, PTL DEF RunSpec

\* For any config and any command line: the run has every knob as its last flag,
\* else the file, else the default has it, but for what a time and a report
\* directory take the place of, and for one engine, thread list and repeat at least.
THEOREM SettingsAreInForce == RunSpec => []SettingsInForce
<1>1. FlagsTaken => SettingsInForce
  <2> SUFFICES ASSUME FlagsTaken, mpc = "running", NEW b \in Knobs PROVE run.val[b] = InForce(b)
      BY DEF SettingsInForce
  <2> QED BY DEF FlagsTaken
<1> QED BY <1>1, FlagsTakenHolds, PTL

Tuning == IF HasFile THEN file.tuning ELSE 0

\* What the checks leave of the knobs, and what a report directory does.
Settled(v) ==
    /\ v["backend"] > 0 /\ v["threads"] > 0 /\ v["repeat"] > 0
    /\ v["secs"] > 0 => v["ops"] = 0
    /\ v["backend"] = Persistent => v["data_dir"] # 0
Directed(v) == v["report_dir"] > 0 => v["report"] = Bundle

\* What save_config writes of knobs v.
Told(v, b) ==
    CASE b = "items"  -> TRUE
      [] b = "ops"    -> v["secs"] = 0
      [] b = "report" -> v["report_dir"] = 0 /\ v["report"] > 0
      [] OTHER        -> v[b] > 0

\* A replay file f of a run of knobs v, workloads w and tuning u.
Copy(f, v, w, u) ==
    /\ f.workloads = w /\ w # << >> /\ f.tuning = u /\ u >= 0
    /\ Settled(v) /\ Directed(v)
    /\ \A b \in WorkKnobs : f.bench[b] = IF Told(v, b) THEN v[b] ELSE Unset

\* The settings of the replay come to those of the run as main goes on: ops and
\* report where they are written, report_dir with the checks.
Agrees(b) == val[b] = first.val[b]

Replayed ==
    /\ mpc \in {"report", "save", "start", "running"} => Settled(val) /\ Workloads # << >>
    /\ mpc \in {"save", "start", "running"} => Directed(val)
    /\ mpc = "running" => run = [val |-> val, workloads |-> Workloads, tuning |-> Tuning]
    /\ gen = 1 /\ mpc \in {"load", "args", "report", "save"} => saved = NoFile
    /\ gen = 1 /\ mpc \in {"start", "running"} /\ saved # NoFile =>
         Copy(saved, val, Workloads, Tuning)
    /\ gen = 2 =>
         /\ args = << >> /\ files = << >> /\ mpc # "refused"
         /\ Copy(file, first.val, first.workloads, first.tuning)
         /\ mpc = "load" => val = Defaults
         /\ mpc \in {"args", "report", "save", "start", "running"} => \A b \in Plain : Agrees(b)
         /\ mpc \in {"args", "report"} => (first.val["report_dir"] = 0 => Agrees("report"))
         /\ mpc = "args" => (first.val["secs"] = 0 => Agrees("ops")) /\ val["report_dir"] = 0
         /\ mpc \in {"report", "save", "start", "running"} => Agrees("ops") /\ Agrees("report_dir")
         /\ mpc \in {"save", "start", "running"} => Agrees("report")

LEMMA ReplayedHolds == RunSpec => []Replayed
<1>1. RunInit => Replayed  BY DEF RunInit, Replayed
<1>2. RunTypes /\ FlagsTaken /\ Replayed /\ [RunNext]_runVars => Replayed'
  <2> SUFFICES ASSUME RunTypes, FlagsTaken, Replayed, [RunNext]_runVars PROVE Replayed'  OBVIOUS
  <2>v. /\ val \in [Knobs -> Nat] /\ first.val \in [Knobs -> Nat] /\ at \in Nat
        /\ file.bench \in [Knobs -> Nat \cup {Unset}] /\ gen \in {1, 2}
        BY DEF RunTypes, Vals
  <2>1. ASSUME Refuse, gen = 1 PROVE Replayed'  BY <2>1 DEF Refuse, Replayed
  <2>2. CASE IOFail
    <3>1. mpc' = "failed" /\ UNCHANGED <<gen, file, args, files, first>>  BY <2>2 DEF IOFail
    <3> QED BY <3>1 DEF Replayed
  <2>3. CASE Load
    <3>1. CASE IOFail  BY <2>2, <3>1
    <3>2. ASSUME ~IOFail PROVE Replayed'
      <4>1. /\ mpc = "load" /\ mpc' = "args" /\ UNCHANGED <<gen, file, args, files, first, saved>>
            /\ val' = [b \in Knobs |-> IF b \in Applied THEN Opt(b, val[b]) ELSE val[b]]
            BY <2>3, <3>2 DEF Load
      <4>2. CASE gen = 1  BY <4>1, <4>2 DEF Replayed
      <4>3. CASE gen = 2
        <5>1. Copy(file, first.val, first.workloads, first.tuning) /\ val = Defaults
              BY <4>1, <4>3 DEF Replayed
        <5>2. PICK v : v = first.val  OBVIOUS
        <5>3. \A b \in WorkKnobs : file.bench[b] = IF Told(v, b) THEN v[b] ELSE Unset
              BY <5>1, <5>2 DEF Copy
        <5>4. v \in [Knobs -> Nat] /\ Settled(v)  BY <2>v, <5>1, <5>2 DEF Copy
        <5>5. \A b \in WorkKnobs \ {"report_dir"} :
                val'[b] = IF Told(v, b) THEN v[b] ELSE Defaults[b]
          <6>1. \A b \in WorkKnobs : v[b] # Unset  BY <5>4, KnobNames DEF Unset
          <6> QED BY <4>1, <5>1, <5>3, <6>1, KnobNames DEF Opt
        <5>6. \A b \in Plain : val'[b] = v[b]
          <6>1. \A b \in Plain : Told(v, b) <=> b = "items" \/ v[b] > 0  BY KnobNames DEF Told
          <6>2. \A b \in Plain : v[b] \in Nat  BY <5>4, KnobNames
          <6>3. \A b \in Plain : ~Told(v, b) => v[b] = 0 /\ b \notin {"ops", "items", "repeat"}
                BY <5>4, <6>1, <6>2, KnobNames DEF Settled
          <6>4. \A b \in Plain : ~Told(v, b) => v[b] = Defaults[b]  BY <6>3, DefaultKnobs, KnobNames
          <6> QED BY <5>5, <6>4, KnobNames
        <5>7. v["secs"] = 0 => val'["ops"] = v["ops"]  BY <5>5, KnobNames DEF Told
        <5>8. v["report_dir"] = 0 => val'["report"] = v["report"]
          <6>1. v["report"] \in Nat /\ Defaults["report"] = 0  BY <5>4, DefaultKnobs, KnobNames
          <6> QED BY <5>5, <6>1, KnobNames DEF Told
        <5>9. val'["report_dir"] = 0  BY <4>1, <5>1, DefaultKnobs, KnobNames
        <5> QED BY <4>1, <4>3, <5>1, <5>2, <5>6, <5>7, <5>8, <5>9 DEF Replayed, Agrees
      <4> QED BY <2>v, <4>2, <4>3
    <3> QED BY <3>1, <3>2
  <2>4. CASE Arg
    <3>1. gen = 1
      <4>1. gen = 2 => Len(args) = 0  BY DEF Replayed
      <4> QED BY <2>4, <2>v, <4>1 DEF Arg, RunTypes
    <3>2. CASE Refuse  BY <2>1, <3>1, <3>2
    <3>3. CASE mpc' = mpc /\ mpc = "args" /\ gen' = gen /\ saved' = saved  BY <3>1, <3>3 DEF Replayed
    <3> QED BY <2>4, <3>2, <3>3 DEF Arg
  <2>5. CASE Check
    <3>0. mpc = "args" /\ UNCHANGED <<gen, file, args, files, first, saved>>  BY <2>5 DEF Check, Refuse
    <3>1. ASSUME gen = 2
          PROVE  Workloads # << >> /\ ~(val["backend"] = Persistent /\ val["data_dir"] = 0)
      <4>1. /\ Copy(file, first.val, first.workloads, first.tuning) /\ files = << >>
            /\ \A b \in Plain : Agrees(b)
            BY <3>0, <3>1 DEF Replayed
      <4>2. Workloads # << >>  BY <4>1 DEF Copy, Workloads
      <4>3. val["backend"] = first.val["backend"] /\ val["data_dir"] = first.val["data_dir"]
            BY <4>1, KnobNames DEF Agrees
      <4> QED BY <4>1, <4>2, <4>3 DEF Copy, Settled
    <3>2. CASE Workloads = << >> \/ (val["backend"] = Persistent /\ val["data_dir"] = 0)
      <4>1. gen = 1  BY <2>v, <3>1, <3>2
      <4> QED BY <2>1, <2>5, <3>2, <4>1 DEF Check
    <3>3. CASE ~(Workloads = << >> \/ (val["backend"] = Persistent /\ val["data_dir"] = 0))
      <4>1. /\ mpc' = "report"
            /\ val' = [val EXCEPT
                  !["ops"] = IF val["secs"] > 0 THEN 0 ELSE @,
                  !["backend"] = IF @ = 0 THEN Skiplist ELSE @,
                  !["threads"] = IF @ = 0 THEN 1 ELSE @,
                  !["repeat"] = IF @ < 1 THEN 1 ELSE @,
                  !["auto_plot"] = IF @ = 0 THEN Opt("auto_plot", 0) ELSE @,
                  !["report_dir"] = IF @ = 0 THEN Opt("report_dir", 0) ELSE @]
            BY <2>5, <3>3 DEF Check
      <4>2. /\ \A b \in Knobs \ {"ops", "backend", "threads", "repeat", "auto_plot", "report_dir"} :
                 val'[b] = val[b]
            /\ val'["ops"] = IF val["secs"] > 0 THEN 0 ELSE val["ops"]
            /\ val'["backend"] = IF val["backend"] = 0 THEN 1 ELSE val["backend"]
            /\ val'["threads"] = IF val["threads"] = 0 THEN 1 ELSE val["threads"]
            /\ val'["repeat"] = IF val["repeat"] < 1 THEN 1 ELSE val["repeat"]
            /\ val'["report_dir"] = IF val["report_dir"] = 0 THEN Opt("report_dir", 0) ELSE val["report_dir"]
        <5>1. /\ "backend" \in Knobs /\ "threads" \in Knobs /\ "auto_plot" \in Knobs
              /\ "report_dir" \in Knobs /\ "ops" \in Knobs /\ "repeat" \in Knobs
              BY DEF Knobs
        <5> QED BY <2>v, <4>1, <5>1 DEF Skiplist
      <4>3. /\ val["secs"] \in Nat /\ val["backend"] \in Nat /\ val["threads"] \in Nat
            /\ val["repeat"] \in Nat /\ val'["secs"] = val["secs"] /\ val'["data_dir"] = val["data_dir"]
            BY <2>v, <4>2, KnobNames DEF Knobs
      <4>4. Settled(val') /\ Workloads' # << >>
        <5>1. Settled(val')  BY <3>3, <4>2, <4>3 DEF Settled, Persistent
        <5>2. Workloads' = Workloads  BY <3>0 DEF Workloads
        <5> QED BY <3>3, <5>1, <5>2
      <4>5. CASE gen = 1  BY <3>0, <4>1, <4>4, <4>5 DEF Replayed
      <4>6. CASE gen = 2
        <5>1. PICK v : v = first.val  OBVIOUS
        <5>2. /\ Copy(file, v, first.workloads, first.tuning)
              /\ \A b \in Plain : val[b] = v[b]
              /\ v["report_dir"] = 0 => val["report"] = v["report"]
              /\ v["secs"] = 0 => val["ops"] = v["ops"]
              /\ val["report_dir"] = 0
              BY <3>0, <4>6, <5>1 DEF Replayed, Agrees
        <5>3. v \in [Knobs -> Nat] /\ Settled(v)  BY <2>v, <5>1, <5>2 DEF Copy
        <5>4. \A b \in Plain : val'[b] = v[b]
          <6>1. v["backend"] # 0 /\ v["threads"] # 0 /\ ~(v["repeat"] < 1)
                BY <5>3, KnobNames DEF Settled
          <6> QED BY <4>2, <5>2, <6>1, KnobNames
        <5>5. val'["ops"] = v["ops"]
          <6>1. val["secs"] = v["secs"] /\ v["secs"] \in Nat  BY <5>2, <5>3, KnobNames
          <6> QED BY <4>2, <5>2, <5>3, <6>1 DEF Settled
        <5>6. val'["report_dir"] = v["report_dir"]
          <6>1. file.bench["report_dir"] = IF v["report_dir"] > 0 THEN v["report_dir"] ELSE Unset
                BY <5>2, KnobNames DEF Copy, Told
          <6>2. v["report_dir"] \in Nat  BY <5>3, KnobNames
          <6> QED BY <4>2, <5>2, <6>1, <6>2 DEF Opt, Unset
        <5>7. val'["report"] = val["report"]  BY <4>2, KnobNames
        <5>8. args = << >> /\ files = << >>  BY <4>6 DEF Replayed
        <5>9. /\ gen' = 2 /\ mpc' = "report" /\ args' = << >> /\ files' = << >> /\ file' = file
              /\ first'.val = v /\ first' = first
              BY <3>0, <4>1, <4>6, <5>1, <5>8
        <5>10. Copy(file', first'.val, first'.workloads, first'.tuning)  BY <5>2, <5>9
        <5>11. /\ \A b \in Plain : Agrees(b)'
               /\ first'.val["report_dir"] = 0 => Agrees("report")'
               /\ Agrees("ops")' /\ Agrees("report_dir")'
               BY <5>2, <5>4, <5>5, <5>6, <5>7, <5>9 DEF Agrees
        <5> QED BY <4>4, <5>9, <5>10, <5>11 DEF Replayed
      <4> QED BY <2>v, <4>5, <4>6
    <3> QED BY <3>2, <3>3
  <2>6. CASE ReportDir
    <3>1. CASE IOFail  BY <2>2, <3>1
    <3>2. ASSUME ~IOFail PROVE Replayed'
      <4>1. /\ mpc = "report" /\ mpc' = "save" /\ UNCHANGED <<gen, file, args, files, first, saved>>
            /\ \/ val["report_dir"] = 0 /\ val' = val
               \/ val["report_dir"] # 0 /\ val' = [val EXCEPT !["report"] = Bundle]
            BY <2>6, <3>2 DEF ReportDir
      <4>2. /\ \A b \in Knobs \ {"report"} : val'[b] = val[b]
            /\ val'["report"] = IF val["report_dir"] = 0 THEN val["report"] ELSE Bundle
            /\ val["report_dir"] \in Nat
            BY <2>v, <4>1, KnobNames
      <4>3. Settled(val') /\ Directed(val') /\ Workloads' # << >>
        <5>1. Settled(val) /\ Workloads # << >>  BY <4>1 DEF Replayed
        <5>2. Settled(val')  BY <4>2, <5>1, KnobNames DEF Settled
        <5>3. Directed(val')  BY <4>2, KnobNames DEF Directed
        <5>4. Workloads' = Workloads  BY <4>1 DEF Workloads
        <5> QED BY <5>1, <5>2, <5>3, <5>4
      <4>4. CASE gen = 1  BY <4>1, <4>3, <4>4 DEF Replayed
      <4>5. CASE gen = 2
        <5>1. PICK v : v = first.val  OBVIOUS
        <5>2. /\ Copy(file, v, first.workloads, first.tuning)
              /\ \A b \in Plain : val[b] = v[b]
              /\ v["report_dir"] = 0 => val["report"] = v["report"]
              /\ val["ops"] = v["ops"] /\ val["report_dir"] = v["report_dir"]
              BY <4>1, <4>5, <5>1 DEF Replayed, Agrees
        <5>3. \A b \in WorkKnobs : val'[b] = v[b]
          <6>1. v["report_dir"] > 0 => v["report"] = Bundle  BY <5>2 DEF Copy, Directed
          <6> QED BY <4>2, <5>2, <6>1, KnobNames
        <5> QED BY <4>1, <4>3, <4>5, <5>1, <5>2, <5>3, KnobNames DEF Replayed, Agrees
      <4> QED BY <2>v, <4>4, <4>5
    <3> QED BY <3>1, <3>2
  <2>7. CASE Save
    <3>1. mpc = "save" /\ mpc' = "start" /\ UNCHANGED <<gen, file, args, files, val, first>>  BY <2>7 DEF Save
    <3>2. Workloads' = Workloads /\ Tuning' = Tuning  BY <3>1 DEF Workloads, Tuning, HasFile
    <3>3. Settled(val) /\ Directed(val) /\ Workloads # << >>  BY <3>1 DEF Replayed
    <3>4. ASSUME gen = 1, saved' # NoFile
          PROVE  Copy(saved', val, Workloads, Tuning)
      <4>1. saved = NoFile  BY <3>1, <3>4 DEF Replayed
      <4>2. saved' = [bench |-> [b \in Knobs |-> IF Kept(b) THEN val[b] ELSE Unset],
                      workloads |-> Workloads, tuning |-> Tuning]
            BY <2>7, <3>4, <4>1 DEF Save, Tuning
      <4>3. \A b \in WorkKnobs : Kept(b) <=> Told(val, b)
            BY DEF Kept, Written, Told, WorkKnobs, Knobs
      <4>4. Tuning >= 0  BY DEF Tuning, HasFile, RunTypes
      <4> QED BY <3>3, <4>2, <4>3, <4>4, KnobNames DEF Copy
    <3>5. CASE gen = 1  BY <3>1, <3>2, <3>3, <3>4, <3>5 DEF Replayed
    <3>6. CASE gen = 2  BY <3>1, <3>2, <3>3, <3>6 DEF Replayed, Agrees
    <3> QED BY <2>v, <3>5, <3>6
  <2>8. CASE Start
    <3>1. CASE IOFail  BY <2>2, <3>1
    <3>2. ASSUME ~IOFail PROVE Replayed'
      <4>1. /\ mpc = "start" /\ mpc' = "running" /\ UNCHANGED <<gen, file, args, files, first, saved>>
            /\ val' = [val EXCEPT !["probe"] = IF @ = 0 THEN Opt("probe", 0) ELSE @]
            /\ run' = [val |-> val', workloads |-> Workloads, tuning |-> Tuning]
            BY <2>8, <3>2 DEF Start, Tuning
      <4>2. Workloads' = Workloads /\ Tuning' = Tuning  BY <4>1 DEF Workloads, Tuning, HasFile
      <4>3. \A b \in WorkKnobs : val'[b] = val[b]
        <5>1. "probe" \notin WorkKnobs  BY DEF WorkKnobs
        <5> QED BY <2>v, <4>1, <5>1, KnobNames
      <4>4. Settled(val) /\ Directed(val) /\ Workloads # << >>  BY <4>1 DEF Replayed
      <4>5. Settled(val') /\ Directed(val')  BY <4>3, <4>4, KnobNames DEF Settled, Directed
      <4>6. CASE gen = 1
        <5>1. ASSUME saved # NoFile PROVE Copy(saved, val', Workloads, Tuning)
          <6>1. Copy(saved, val, Workloads, Tuning)  BY <4>1, <4>6, <5>1 DEF Replayed
          <6>2. \A b \in WorkKnobs : Told(val', b) <=> Told(val, b)  BY <4>3, KnobNames DEF Told
          <6> QED BY <4>3, <4>5, <6>1, <6>2 DEF Copy
        <5> QED BY <4>1, <4>2, <4>4, <4>5, <4>6, <5>1 DEF Replayed
      <4>7. CASE gen = 2  BY <4>1, <4>2, <4>3, <4>4, <4>5, <4>7, KnobNames DEF Replayed, Agrees
      <4> QED BY <2>v, <4>6, <4>7
    <3> QED BY <3>1, <3>2
  <2>9. CASE Replay
    <3>1. /\ mpc = "running" /\ gen = 1 /\ saved # NoFile
          /\ gen' = 2 /\ mpc' = "load" /\ val' = Defaults
          /\ file' = saved /\ args' = << >> /\ files' = << >> /\ first' = run
          BY <2>9 DEF Replay
    <3>2. Copy(saved, run.val, run.workloads, run.tuning)
      <4>1. run = [val |-> val, workloads |-> Workloads, tuning |-> Tuning]
            /\ Copy(saved, val, Workloads, Tuning)
            BY <3>1 DEF Replayed
      <4> QED BY <4>1
    <3> QED BY <3>1, <3>2 DEF Replayed
  <2>10. CASE UNCHANGED runVars
    <3>1. UNCHANGED <<gen, mpc, file, args, files, save, at, val, run, first, saved>>  BY <2>10 DEF runVars
    <3>2. Workloads' = Workloads /\ Tuning' = Tuning  BY <3>1 DEF Workloads, Tuning, HasFile
    <3> QED BY <3>1, <3>2 DEF Replayed, Agrees
  <2>11. CASE Over  BY <2>10, <2>11 DEF Over
  <2> QED BY <2>3, <2>4, <2>5, <2>6, <2>7, <2>8, <2>9, <2>10, <2>11 DEF RunNext
<1> QED BY <1>1, <1>2, RunTypesHold, FlagsTakenHolds, PTL DEF RunSpec

\* For any mix of config and flags: the replay of the file a run writes is not
\* refused and does the same work.
THEOREM ReplaysDoTheSame == RunSpec => []ReplaySameWork
<1>1. Replayed => ReplaySameWork
  <2> SUFFICES ASSUME Replayed, gen = 2 PROVE ReplaySameWork  BY DEF ReplaySameWork
  <2>1. mpc # "refused"  BY DEF Replayed
  <2>2. ASSUME mpc = "running"
        PROVE  /\ \A b \in WorkKnobs : run.val[b] = first.val[b]
               /\ run.workloads = first.workloads /\ run.tuning = first.tuning
    <3>1. /\ run = [val |-> val, workloads |-> Workloads, tuning |-> Tuning] /\ files = << >>
          /\ Copy(file, first.val, first.workloads, first.tuning)
          /\ \A b \in WorkKnobs : Agrees(b)
          BY <2>2, KnobNames DEF Replayed
    <3>2. Workloads = first.workloads /\ Tuning = first.tuning
          BY <3>1 DEF Copy, Workloads, Tuning, HasFile
    <3> QED BY <3>1, <3>2 DEF Agrees
  <2> QED BY <2>1, <2>2 DEF ReplaySameWork
<1> QED BY <1>1, ReplayedHolds, PTL
=============================================================================
