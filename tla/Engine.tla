--------------------------------- MODULE Engine ---------------------------------
(***************************************************************************)
(* A persistent engine from open to close: rocksdb_backend_open and        *)
(* rdb_close of src/backends/rocksdb/rocksdb.c, tidesdb_backend_open and   *)
(* tdb_close of src/backends/tidesdb/tidesdb.c, with the options of its    *)
(* section of the config file (src/src/config.c), and du_bytes of          *)
(* src/src/main.c, which the sampler runs over the directory while the     *)
(* engine's own threads create and delete files in it.                     *)
(*                                                                         *)
(* The libraries are taken by what the code uses of them: an open that may *)
(* fail, an option that is accepted or not, files that come and go. Of the *)
(* many options there is one size with two names and the compression; the  *)
(* others are looked up in the same way. A file's size is left out: du     *)
(* adds it up once for each entry it counts.                               *)
(***************************************************************************)
EXTENDS Integers, Sequences, FiniteSets, FiniteSetsExt, SequencesExt

CONSTANTS Cases,    \* the engines opened, see case
          Parent,   \* the directory of each entry an engine may create
          Dirs,     \* those of them that are directories themselves
          DU_MAX_PENDING, DU_MAX_ENTRIES

Root == "root"
Entries == DOMAIN Parent

ASSUME TreeAssumption ==
    /\ Dirs \subseteq Entries /\ Root \notin Entries
    /\ \A e \in Entries : Parent[e] \in Dirs \cup {Root}
ASSUME LimitsAssumption == DU_MAX_PENDING \in Nat \ {0} /\ DU_MAX_ENTRIES \in Nat

\* The options, with the name the size has in TidesDB 10 and its older one.
Options == {"memtable_write_buffer_size", "write_buffer_size", "compression"}
Default == "default"
Bad     == "?"      \* a value that cannot be used
None    == "none"   \* no compression
Empty   == ""

\* A section is of lines of text, and what an engine makes on opening is a tree.
ASSUME CasesAssumption ==
    \A c \in Cases :
        /\ c.engine \in {"rocksdb", "tidesdb"}
        /\ c.section \in Seq([key : STRING, val : STRING \ {Default}])
        /\ c.files \subseteq Entries
        /\ \A e \in c.files : Parent[e] \in c.files \cup {Root}

VARIABLES
    case,   \* [engine, dataDir: --data-dir, section: its lines [key, val], files: those open
            \*  makes, churn: how many more, walks: the samples taken]
    pc,     \* "dir", "options", "family", "live", "closed" or "aborted"
    base,   \* where the directory is made
    i,      \* rocksdb: the index over the section
    eff,    \* the options in force
    cur,    \* rocksdb: r->opts, a handle
    live,   \* rocksdb: the handles not destroyed yet
    fs,     \* the entries there are, Root included
    used,   \* those there have been, no name being used twice
    walk,   \* du_bytes: [at: "idle", "loop", "dir" or "done", pending, dir, todo: the entries
            \*  of dir to come, guard, counted]
    n,      \* the walks begun
    there,  \* the entries there have been all through the walk (a history variable)
    missed  \* the directories it had no room for (a history variable)

openVars == <<base, i, eff, cur, live>>
duVars   == <<walk, n, there, missed>>
vars     == <<case, pc, openVars, fs, used, duVars>>

section == case.section
Lines(key) == {m \in DOMAIN section : section[m].key = key}

\* kv_opt_str: the first line with the key.
kv_opt_str(key, dflt) == IF Lines(key) = {} THEN dflt ELSE section[Min(Lines(key))].val

\* kv_opt_int: the same, unless it is no size.
kv_opt_int(key, dflt) ==
    IF kv_opt_str(key, Bad) \in {Bad, Empty} THEN dflt ELSE kv_opt_str(key, Bad)

NoWalk == [at |-> "idle", pending |-> << >>, dir |-> Root, todo |-> {}, guard |-> 0,
           counted |-> << >>]

Init ==
    /\ case \in Cases
    /\ pc = "dir" /\ base = Empty /\ i = 1
    /\ eff = [o \in Options |-> Default] /\ cur = 0 /\ live = {}
    /\ fs = {} /\ used = {}
    /\ walk = NoWalk /\ n = 0 /\ there = {} /\ missed = {}

-----------------------------------------------------------------------------
(* Opening                                                                   *)

Abort ==
    /\ pc' = "aborted"
    /\ UNCHANGED <<case, openVars, fs, used, duVars>>

\* The section's data_dir before --data-dir, and /tmp if that is nothing.
Place ==
    LET dir == kv_opt_str("data_dir", case.dataDir) IN IF dir = Empty THEN "/tmp" ELSE dir

\* mkdtemp, and for RocksDB the options it will fill.
MakeDir ==
    /\ pc = "dir"
    /\ \/ /\ base' = Place /\ fs' = {Root} /\ pc' = "options"
          /\ live' = IF case.engine = "rocksdb" THEN {cur} ELSE {}
          /\ UNCHANGED <<case, i, eff, cur, used, duVars>>
       \/ Abort

\* What RocksDB takes from a line: rocksdb_get_options_from_string sets one
\* option on a copy of those given, or fails and leaves the fresh ones.
Accepted(l) == l.key \in Options \ {"memtable_write_buffer_size"} /\ l.val \notin {Bad, Empty}
Parsed(l) == IF Accepted(l) THEN [eff EXCEPT ![l.key] = l.val] ELSE [o \in Options |-> Default]

\* Mutant: a line that failed is taken all the same.
Taken_Always(l) == Parsed(l)
Taken(l) == IF Accepted(l) THEN Parsed(l) ELSE eff

\* The handle that is not needed any more.
\* Mutant: that of a line that failed is forgotten.
Destroyed_OnSuccess(l) == IF Accepted(l) THEN {cur} ELSE {}
Destroyed(l) == IF Accepted(l) THEN {cur} ELSE {i}

RdbOption ==
    /\ case.engine = "rocksdb" /\ pc = "options" /\ i <= Len(section)
    /\ LET l == section[i] IN
       IF l.key = "data_dir" THEN UNCHANGED <<eff, cur, live>>
       ELSE /\ eff' = Taken(l)
            /\ live' = (live \cup {i}) \ Destroyed(l)
            /\ cur' = IF Accepted(l) THEN i ELSE cur
    /\ i' = i + 1
    /\ UNCHANGED <<case, pc, base, fs, used, duVars>>

Opened ==
    /\ pc' = "live"
    /\ fs' = fs \cup case.files /\ used' = used \cup case.files
    /\ UNCHANGED <<case, base, i, cur, live, duVars>>

RdbOpen ==
    /\ case.engine = "rocksdb" /\ pc = "options" /\ i > Len(section)
    /\ (Opened /\ UNCHANGED eff) \/ Abort

\* tdb_apply_db_config: the newer name of the size, or else the older.
DbConfig ==
    LET buffer == kv_opt_int("write_buffer_size", eff["memtable_write_buffer_size"])
    IN  [eff EXCEPT !["memtable_write_buffer_size"] = kv_opt_int("memtable_write_buffer_size", buffer)]

TdbOpen ==
    /\ case.engine = "tidesdb" /\ pc = "options"
    /\ \/ /\ eff' = DbConfig /\ pc' = "family"
          /\ UNCHANGED <<case, base, i, cur, live, fs, used, duVars>>
       \/ Abort

\* tdb_apply_cf_config with tdb_apply_encoding: a compression not known is none.
\* Mutant: it leaves the default.
CfConfig_Kept ==
    LET s == kv_opt_str("compression", eff["compression"])
    IN  [eff EXCEPT !["compression"] = IF s \in {Bad, Empty} THEN @ ELSE s]
CfConfig ==
    LET s == kv_opt_str("compression", eff["compression"])
    IN  [eff EXCEPT !["compression"] = IF s \in {Bad, Empty} THEN None ELSE s]

\* The column family is made and looked up, which may both fail.
TdbFamily ==
    /\ case.engine = "tidesdb" /\ pc = "family"
    /\ (eff' = CfConfig /\ Opened) \/ Abort

-----------------------------------------------------------------------------
(* The engine's files                                                        *)

\* A file that appears in the directory being read may or may not be seen.
Create(e) ==
    /\ pc = "live" /\ Cardinality(used \ case.files) < case.churn
    /\ e \notin used /\ Parent[e] \in fs
    /\ fs' = fs \cup {e} /\ used' = used \cup {e}
    /\ \/ UNCHANGED walk
       \/ walk.at = "dir" /\ walk.dir = Parent[e] /\ walk' = [walk EXCEPT !.todo = @ \cup {e}]
    /\ UNCHANGED <<case, pc, openVars, n, there, missed>>

Delete(e) ==
    /\ pc = "live" /\ case.churn > 0
    /\ e \in fs \ {Root} /\ \A c \in fs \ {Root} : Parent[c] # e
    /\ fs' = fs \ {e} /\ there' = there \ {e}
    /\ UNCHANGED <<case, pc, openVars, used, walk, n, missed>>

-----------------------------------------------------------------------------
(* du_bytes                                                                  *)

DuStart ==
    /\ pc = "live" /\ walk.at \in {"idle", "done"} /\ n < case.walks
    /\ walk' = [NoWalk EXCEPT !.at = "loop", !.pending = <<Root>>, !.counted = <<Root>>]
    /\ there' = fs /\ missed' = {} /\ n' = n + 1
    /\ UNCHANGED <<case, pc, openVars, fs, used>>

\* The directory last put by is read, unless it is gone; . and .. are taken
\* to come first.
DuOpendir ==
    /\ walk.at = "loop" /\ walk.pending # << >> /\ walk.guard < DU_MAX_ENTRIES
    /\ LET d    == Last(walk.pending)
           rest == [walk EXCEPT !.pending = Front(@)]
       IN  walk' = IF d \in fs
                   THEN [rest EXCEPT !.at = "dir", !.dir = d, !.guard = @ + 2,
                                     !.todo = {e \in fs \ {Root} : Parent[e] = d}]
                   ELSE rest
    /\ UNCHANGED <<case, pc, openVars, fs, used, n, there, missed>>

HasRoom == Len(walk.pending) < DU_MAX_PENDING

\* An entry that lstat does not find any more is passed over.
\* Mutant: it ends the directory.
AfterGone_Ends(todo) == {}
AfterGone(todo) == todo

DuEntry(e) ==
    /\ walk.at = "dir" /\ e \in walk.todo /\ walk.guard < DU_MAX_ENTRIES
    /\ LET next == [walk EXCEPT !.todo = @ \ {e}, !.guard = @ + 1] IN
       walk' = IF e \notin fs THEN [next EXCEPT !.todo = AfterGone(@)]
               ELSE [next EXCEPT !.counted = Append(@, e),
                                 !.pending = IF e \in Dirs /\ HasRoom THEN Append(@, e) ELSE @]
    /\ missed' = IF e \in fs \cap Dirs /\ ~HasRoom THEN missed \cup {e} ELSE missed
    /\ UNCHANGED <<case, pc, openVars, fs, used, n, there>>

DuClosedir ==
    /\ walk.at = "dir" /\ (walk.todo = {} \/ walk.guard >= DU_MAX_ENTRIES)
    /\ walk' = [walk EXCEPT !.at = "loop", !.todo = {}]
    /\ UNCHANGED <<case, pc, openVars, fs, used, n, there, missed>>

DuReturn ==
    /\ walk.at = "loop" /\ (walk.pending = << >> \/ walk.guard >= DU_MAX_ENTRIES)
    /\ walk' = [walk EXCEPT !.at = "done"]
    /\ UNCHANGED <<case, pc, openVars, fs, used, n, there, missed>>

-----------------------------------------------------------------------------
(* Closing, after the sampler is joined                                      *)

\* rocksdb_destroy_db removes the files, or fails; rmdir only an empty directory.
RdbClose ==
    /\ case.engine = "rocksdb" /\ pc = "live" /\ walk.at \in {"idle", "done"}
    /\ fs' \in {{}, fs}
    /\ live' = live \ {cur}
    /\ pc' = "closed"
    /\ UNCHANGED <<case, base, i, eff, cur, used, duVars>>

\* nftw removes what there is, children first.
TdbClose ==
    /\ case.engine = "tidesdb" /\ pc = "live" /\ walk.at \in {"idle", "done"}
    /\ fs' = {} /\ pc' = "closed"
    /\ UNCHANGED <<case, openVars, used, duVars>>

Ended == pc \in {"closed", "aborted"} /\ UNCHANGED vars

Next ==
    \/ MakeDir \/ RdbOption \/ RdbOpen \/ TdbOpen \/ TdbFamily
    \/ \E e \in Entries : Create(e) \/ Delete(e) \/ DuEntry(e)
    \/ DuStart \/ DuOpendir \/ DuClosedir \/ DuReturn
    \/ RdbClose \/ TdbClose \/ Ended

Spec == Init /\ [][Next]_vars

-----------------------------------------------------------------------------
(* Properties                                                                *)

\* The lines of the section with a usable value.
Good(key) == {m \in Lines(key) : section[m].val \notin {Bad, Empty}}

\* The first line of an option, the only one TidesDB looks at, can be used.
FirstGood(key) == Lines(key) # {} /\ Min(Lines(key)) \in Good(key)

\* The line of each option that an open engine has obeyed. With RocksDB it is
\* the last that can be used, and a line that cannot leaves what stood before.
\* With TidesDB only the first line of a name counts: when it is no size, the
\* older name of the option stands in, or else the default, and a later line of
\* the name is hidden, usable or not; when it is no known compression, nothing
\* is compressed. The directory is where the first data_dir of the section says,
\* where --data-dir does if there is none, and /tmp if that line is empty, though
\* src/README:664 says there is no default.
OptionsEffective ==
    pc = "live" =>
        /\ case.engine = "rocksdb" =>
              \A o \in {"write_buffer_size", "compression"} :
                 eff[o] = IF Good(o) = {} THEN Default ELSE section[Max(Good(o))].val
        /\ case.engine = "tidesdb" =>
              LET asked == {o \in {"memtable_write_buffer_size", "write_buffer_size"} : FirstGood(o)}
                  size  == eff["memtable_write_buffer_size"]
              IN  /\ asked = {} <=> size = Default
                  /\ "memtable_write_buffer_size" \in asked =>
                        size = section[Min(Lines("memtable_write_buffer_size"))].val
                  /\ asked = {"write_buffer_size"} =>
                        size = section[Min(Lines("write_buffer_size"))].val
                  /\ eff["compression"] =
                        IF Lines("compression") = {} THEN Default
                        ELSE IF FirstGood("compression") THEN section[Min(Lines("compression"))].val
                        ELSE None
        /\ LET dir == IF Lines("data_dir") = {} THEN case.dataDir
                      ELSE section[Min(Lines("data_dir"))].val
           IN  base = IF dir = Empty THEN "/tmp" ELSE dir

\* The disk usage of a sample counts no entry twice and none that never was,
\* and, though files come and go under it, every entry that was there all
\* the time, unless DU_MAX_ENTRIES were met or its directory was not counted
\* either, or was met when DU_MAX_PENDING others were waiting.
DuFaithful ==
    walk.at = "done" =>
        LET met == Range(walk.counted) IN
        /\ IsInjective(walk.counted) /\ met \subseteq used \cup {Root}
        /\ walk.guard < DU_MAX_ENTRIES =>
              \A e \in there \ {Root} : Parent[e] \in met \ missed => e \in met

\* Whatever lines RocksDB refuses, the options it is opened and destroyed
\* with have not been given back, no other handle is held by then, and none
\* once it is closed.
HandlesReturned ==
    /\ case.engine = "rocksdb" /\ pc \in {"options", "live"} => cur \in live
    /\ pc = "live" => live \subseteq {cur}
    /\ pc = "closed" => live = {}
=================================================================================
