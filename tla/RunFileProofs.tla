----------------------------- MODULE RunFileProofs -----------------------------
(***************************************************************************)
(* What holds of run_file for every number of engines, thread counts,      *)
(* swept values and repeats.                                               *)
(***************************************************************************)
EXTENDS RunFile, TLAPS

-----------------------------------------------------------------------------
(* The inductive invariant                                                   *)

Results == [0 .. cfg.repeat - 1 -> [cell : Cells \cup {NoCell}, ok : BOOLEAN]]

Types ==
    /\ cfg \in [nsw : SweepLens, seedOnce : BOOLEAN, perValue : BOOLEAN, repeat : Repeats]
    /\ pc \in {"setup", "timed", "row", "close", "done"}
    /\ ei \in 0 .. NEng - 1
    /\ ti \in 0 .. NThr - 1
    /\ si \in 0 .. NSteps - 1
    /\ r \in 0 .. cfg.repeat - 1
    /\ store \in [value : Int, runs : Int]
    /\ Rs \in Results
    /\ rows \in Seq([cell : Cells, from : Results])
    /\ blamed \subseteq Cells

\* Where in its loops run_file can be at each step. A store that several cells
\* share is set up at the first of them and closed at the last.
Position ==
    /\ pc = "setup" /\ Mode # "repeat" => ti = 0 /\ r = 0
    /\ pc = "setup" /\ Mode = "engine" => si = 0
    /\ pc = "row" => r = cfg.repeat - 1
    /\ pc = "close" => /\ Mode # "repeat"
                       /\ ti = NThr - 1
                       /\ Mode = "engine" => si = NSteps - 1

\* The open store, by step and branch.
Stores ==
    /\ pc \in {"setup", "done"} => store = NoStore
    /\ pc = "row" /\ Mode = "repeat" => store = NoStore
    /\ pc = "timed" /\ Mode = "repeat" => store = [value |-> si, runs |-> 0]
    /\ pc \in {"timed", "row", "close"} /\ Mode # "repeat" => store.value \in Nat
    /\ pc \in {"timed", "row"} /\ Mode = "value" => store.value = si

\* The repeats of the current cell that are over are ok and its own.
Repeated ==
    \A k \in 0 .. cfg.repeat - 1 :
        (pc \in {"setup", "timed"} /\ k < r) \/ pc = "row"
            => Rs[k] = [cell |-> Cell, ok |-> TRUE]

\* The cells the loops have left behind, in the order of the branch.
Earlier(c) ==
    \/ c[1] < ei
    \/ /\ c[1] = ei
       /\ IF Mode = "repeat" THEN c[2] < ti \/ (c[2] = ti /\ c[3] < si)
                             ELSE c[3] < si \/ (c[3] = si /\ c[2] < ti)
Passed(c) == pc = "done" \/ Earlier(c) \/ (pc = "close" /\ c = Cell)

HasRow(c) == \E a \in 1 .. Len(rows) : rows[a].cell = c

\* A cell is accounted for, by its row or its failure and never by both,
\* exactly when the loops have passed it.
Accounts ==
    \A c \in Cells : /\ Passed(c) <=> (c \in blamed \/ HasRow(c))
                     /\ ~(c \in blamed /\ HasRow(c))

IInv == Types /\ Position /\ Stores /\ Repeated /\ Accounts /\ RowsAreOwn

-----------------------------------------------------------------------------
(* The loops                                                                 *)

LEMMA Sizes ==
    ASSUME Types
    PROVE  /\ NSteps \in Nat \ {0} /\ cfg.repeat \in Nat \ {0}
           /\ NEng \in Nat \ {0} /\ NThr \in Nat \ {0}
           /\ Mode \in {"engine", "value", "repeat"}
           /\ Cell \in Cells
<1>1. cfg.nsw \in Nat /\ cfg.repeat \in Nat \ {0}
      BY SizesAssumption DEF Types
<1>2. NSteps \in Nat \ {0}  BY <1>1 DEF NSteps
<1>3. Mode \in {"engine", "value", "repeat"}  BY DEF Mode
<1>4. Cell \in Cells  BY DEF Types, Cell, Cells
<1> QED BY <1>1, <1>2, <1>3, <1>4, SizesAssumption

\* What the flags decide stays decided.
LEMMA Fixed ==
    ASSUME cfg' = cfg
    PROVE  NSteps' = NSteps /\ Mode' = Mode /\ Cells' = Cells /\ Results' = Results
BY DEF NSteps, Mode, Cells, Results

\* A cell is its three indices.
LEMMA CellIndices ==
    ASSUME NEW c \in Cells
    PROVE  /\ c[1] \in 0 .. NEng - 1 /\ c[2] \in 0 .. NThr - 1 /\ c[3] \in 0 .. NSteps - 1
           /\ c = Cell <=> c[1] = ei /\ c[2] = ti /\ c[3] = si
BY DEF Cells, Cell

\* What each way of going on may do to the indices.
LoopTypes ==
    /\ ei' \in 0 .. NEng - 1 /\ ti' \in 0 .. NThr - 1 /\ si' \in 0 .. NSteps - 1
    /\ r' \in 0 .. cfg.repeat - 1
    /\ pc' \in {"setup", "timed", "close", "done"}
    /\ pc' \in {"setup", "timed"} => r' = 0

\* Leaving a cell passes that cell and no other.
LEMMA LeavingACell ==
    ASSUME Types, Position, cfg' = cfg, NextCell,
           pc \in {"timed", "row"} \/ (pc = "setup" /\ Mode = "repeat")
    PROVE  /\ LoopTypes
           /\ Position'
           /\ Mode = "repeat" => pc' \in {"setup", "done"}
           /\ Mode # "repeat" => pc' \in {"timed", "close"}
           /\ Mode = "value" => si' = si
           /\ \A c \in Cells : Passed(c)' <=> (Passed(c) \/ c = Cell)
<1>1. /\ NSteps \in Nat \ {0} /\ cfg.repeat \in Nat \ {0}
      /\ NEng \in Nat \ {0} /\ NThr \in Nat \ {0}
      /\ Mode \in {"engine", "value", "repeat"}
      /\ ei \in 0 .. NEng - 1 /\ ti \in 0 .. NThr - 1 /\ si \in 0 .. NSteps - 1
      /\ r \in 0 .. cfg.repeat - 1
      BY Sizes DEF Types
<1>2. NSteps' = NSteps /\ Mode' = Mode  BY Fixed
<1>3. \/ /\ Mode = "repeat" /\ si + 1 < NSteps
         /\ si' = si + 1 /\ r' = 0 /\ pc' = "setup" /\ ei' = ei /\ ti' = ti
      \/ /\ Mode = "repeat" /\ si + 1 = NSteps /\ ti + 1 < NThr
         /\ ti' = ti + 1 /\ si' = 0 /\ r' = 0 /\ pc' = "setup" /\ ei' = ei
      \/ /\ Mode = "repeat" /\ si + 1 = NSteps /\ ti + 1 = NThr /\ NextEngine
      \/ /\ Mode # "repeat" /\ ti + 1 < NThr
         /\ ti' = ti + 1 /\ r' = 0 /\ pc' = "timed" /\ ei' = ei /\ si' = si
      \/ /\ Mode = "engine" /\ ti + 1 = NThr /\ si + 1 < NSteps
         /\ si' = si + 1 /\ ti' = 0 /\ r' = 0 /\ pc' = "timed" /\ ei' = ei
      \/ /\ Mode # "repeat" /\ ti + 1 = NThr /\ (Mode = "engine" => si + 1 = NSteps)
         /\ pc' = "close" /\ ei' = ei /\ ti' = ti /\ si' = si /\ r' = r
      BY <1>1 DEF NextCell
<1>4. /\ LoopTypes
      /\ Mode = "repeat" => pc' \in {"setup", "done"}
      /\ Mode # "repeat" => pc' \in {"timed", "close"}
      /\ Mode = "value" => si' = si
      BY <1>1, <1>3 DEF NextEngine, LoopTypes
<1>5. Position'
      BY <1>1, <1>2, <1>3 DEF NextEngine, Position
<1>6. ASSUME NEW c \in Cells
      PROVE  Passed(c)' <=> (Passed(c) \/ c = Cell)
  <2> DEFINE x == c[1]
             y == c[2]
             z == c[3]
  <2>1. /\ x \in 0 .. NEng - 1 /\ y \in 0 .. NThr - 1 /\ z \in 0 .. NSteps - 1
        /\ c = Cell <=> x = ei /\ y = ti /\ z = si
        BY CellIndices
  <2>2. (c = Cell)' <=> x = ei' /\ y = ti' /\ z = si'
        BY <2>1 DEF Cell, Cells
  <2>3. Passed(c) <=>
            \/ x < ei
            \/ x = ei /\ IF Mode = "repeat" THEN y < ti \/ (y = ti /\ z < si)
                                            ELSE z < si \/ (z = si /\ y < ti)
        BY DEF Passed, Earlier
  <2>4. Passed(c)' <=>
            \/ pc' = "done"
            \/ x < ei'
            \/ x = ei' /\ IF Mode = "repeat" THEN y < ti' \/ (y = ti' /\ z < si')
                                             ELSE z < si' \/ (z = si' /\ y < ti')
            \/ pc' = "close" /\ x = ei' /\ y = ti' /\ z = si'
        BY <1>2, <2>2 DEF Passed, Earlier
  <2> HIDE DEF x, y, z
  <2> QED BY <1>1, <1>3, <2>1, <2>3, <2>4 DEF NextEngine
<1> QED BY <1>4, <1>5, <1>6

\* Skipping a store that was not had passes its share; closing one passes nothing.
LEMMA LeavingAGroup ==
    ASSUME Types, Position, cfg' = cfg, NextGroup, Mode # "repeat", pc \in {"setup", "close"}
    PROVE  /\ LoopTypes
           /\ Position'
           /\ pc' \in {"setup", "done"}
           /\ \A c \in Cells :
                 Passed(c)' <=> (Passed(c) \/ (pc = "setup" /\ c \in Share))
<1>1. /\ NSteps \in Nat \ {0} /\ cfg.repeat \in Nat \ {0}
      /\ NEng \in Nat \ {0} /\ NThr \in Nat \ {0}
      /\ Mode \in {"engine", "value"}
      /\ ei \in 0 .. NEng - 1 /\ ti \in 0 .. NThr - 1 /\ si \in 0 .. NSteps - 1
      /\ r \in 0 .. cfg.repeat - 1
      BY Sizes DEF Types
<1>2. NSteps' = NSteps /\ Mode' = Mode  BY Fixed
<1>3. \/ /\ Mode = "value" /\ si + 1 < NSteps
         /\ si' = si + 1 /\ ti' = 0 /\ r' = 0 /\ pc' = "setup" /\ ei' = ei
      \/ /\ Mode = "value" => si + 1 = NSteps
         /\ ti' = 0 /\ si' = 0 /\ r' = 0
         /\ \/ ei + 1 < NEng /\ ei' = ei + 1 /\ pc' = "setup"
            \/ ei + 1 = NEng /\ ei' = ei /\ pc' = "done"
      BY <1>1 DEF NextGroup, NextEngine
<1>4. LoopTypes /\ pc' \in {"setup", "done"}
      BY <1>1, <1>3 DEF LoopTypes
<1>5. Position'
      BY <1>1, <1>2, <1>3 DEF Position
<1>6. ASSUME NEW c \in Cells
      PROVE  Passed(c)' <=> (Passed(c) \/ (pc = "setup" /\ c \in Share))
  <2> DEFINE x == c[1]
             y == c[2]
             z == c[3]
  <2>1. /\ x \in 0 .. NEng - 1 /\ y \in 0 .. NThr - 1 /\ z \in 0 .. NSteps - 1
        /\ c = Cell <=> x = ei /\ y = ti /\ z = si
        BY CellIndices
  <2>2. c \in Share <=> x = ei /\ (Mode = "value" => z = si)
        BY <1>1 DEF Share
  <2>3. Passed(c) <=>
            \/ x < ei
            \/ x = ei /\ (z < si \/ (z = si /\ y < ti))
            \/ pc = "close" /\ x = ei /\ y = ti /\ z = si
        BY <2>1 DEF Passed, Earlier
  <2>4. Passed(c)' <=>
            \/ pc' = "done"
            \/ x < ei'
            \/ x = ei' /\ (z < si' \/ (z = si' /\ y < ti'))
        BY <1>2, <1>4 DEF Passed, Earlier
  <2>5. /\ pc = "setup" => ti = 0 /\ (Mode = "engine" => si = 0)
        /\ pc = "close" => ti = NThr - 1 /\ (Mode = "engine" => si = NSteps - 1)
        BY DEF Position
  <2> HIDE DEF x, y, z
  <2> QED BY <1>1, <1>3, <2>1, <2>2, <2>3, <2>4, <2>5
<1> QED BY <1>4, <1>5, <1>6

-----------------------------------------------------------------------------
(* The accounts                                                              *)

\* A failure books its cells, a row its own, and what was passed before stays.
LEMMA Booking ==
    ASSUME Accounts, cfg' = cfg, NEW S, S \subseteq Cells,
           \A c \in S : ~Passed(c),
           \A c \in Cells : Passed(c)' <=> (Passed(c) \/ c \in S),
           \/ blamed' = blamed \cup S /\ rows' = rows
           \/ blamed' = blamed /\ \A c \in Cells : HasRow(c)' <=> (HasRow(c) \/ c \in S)
    PROVE  Accounts'
<1>1. Cells' = Cells  BY Fixed
<1>2. rows' = rows => \A c \in Cells : HasRow(c)' <=> HasRow(c)
      BY DEF HasRow
<1> QED BY <1>1, <1>2 DEF Accounts

LEMMA NewRow ==
    ASSUME Types, NEW x, rows' = Append(rows, x), NEW c
    PROVE  HasRow(c)' <=> (HasRow(c) \/ c = x.cell)
<1>1. /\ Len(rows) \in Nat /\ Len(rows') = Len(rows) + 1
      /\ \A a \in 1 .. Len(rows) : rows'[a] = rows[a]
      /\ rows'[Len(rows) + 1] = x
      BY DEF Types
<1> QED BY <1>1 DEF HasRow

\* The cell the loops are on is not passed before it is left, nor is any cell of
\* the share of a store that is still to be set up.
LEMMA NotYet ==
    ASSUME Types, Position, pc \in {"setup", "timed", "row"}
    PROVE  /\ ~Passed(Cell)
           /\ pc = "setup" => \A c \in Share : ~Passed(c)
<1>1. /\ NSteps \in Nat \ {0} /\ NThr \in Nat \ {0} /\ Cell \in Cells
      /\ Mode \in {"engine", "value", "repeat"}
      /\ ei \in Nat /\ ti \in Nat /\ si \in Nat
      BY Sizes DEF Types
<1>2. ~Passed(Cell)
      BY <1>1 DEF Passed, Earlier, Cell
<1>3. ASSUME pc = "setup", NEW c \in Share
      PROVE  ~Passed(c)
  <2>1. /\ c \in Cells /\ c[1] = ei
        /\ Mode # "engine" => c[3] = si
        /\ Mode = "repeat" => c[2] = ti
        BY DEF Share
  <2>2. c[1] \in Nat /\ c[2] \in Nat /\ c[3] \in Nat
        BY <2>1, CellIndices, SizesAssumption, <1>1
  <2> QED BY <1>1, <1>3, <2>1, <2>2 DEF Passed, Earlier, Position
<1> QED BY <1>2, <1>3

-----------------------------------------------------------------------------
(* The steps                                                                 *)

LEMMA StepTypes ==
    ASSUME Types, cfg' = cfg, LoopTypes \/ UNCHANGED <<ei, ti, si, r>>,
           pc' \in {"setup", "timed", "row", "close", "done"},
           store' \in [value : Int, runs : Int],
           Rs' \in Results, rows' \in Seq([cell : Cells, from : Results]),
           blamed' \subseteq Cells
    PROVE  Types'
<1>1. NSteps' = NSteps /\ Cells' = Cells /\ Results' = Results  BY Fixed
<1> QED BY <1>1 DEF Types, LoopTypes

LEMMA OneResult ==
    ASSUME Types, NEW b \in BOOLEAN, Rs' = [Rs EXCEPT ![r] = [cell |-> Cell, ok |-> b]]
    PROVE  /\ Rs' \in Results
           /\ \A k \in 0 .. cfg.repeat - 1 :
                 Rs'[k] = IF k = r THEN [cell |-> Cell, ok |-> b] ELSE Rs[k]
<1>1. [cell |-> Cell, ok |-> b] \in [cell : Cells \cup {NoCell}, ok : BOOLEAN]
      BY Sizes
<1>2. r \in 0 .. cfg.repeat - 1 /\ Rs \in Results  BY DEF Types
<1> QED BY <1>1, <1>2 DEF Results

LEMMA StoreAfterType ==
    ASSUME Types
    PROVE  /\ StoreAfter \in [value : Int, runs : Int]
           /\ Mode = "repeat" => StoreAfter = NoStore
           /\ Mode # "repeat" => StoreAfter.value = store.value
BY DEF Types, StoreAfter, NoStore

LEMMA SetupOkStep ==
    ASSUME IInv, SetupOk
    PROVE  IInv'
<1> USE DEF IInv, SetupOk
<1>1. Mode' = Mode  BY Fixed
<1>2. si \in Nat  BY Sizes DEF Types
<1>3. Types'
      BY <1>2, StepTypes DEF Types
<1>4. Position'  BY <1>1 DEF Position
<1>5. Stores'    BY <1>1, <1>2 DEF Stores
<1>6. Repeated'  BY DEF Repeated, Cell
<1>7. Accounts'
  <2>1. \A c \in Cells : Passed(c)' <=> Passed(c)
        BY <1>1 DEF Passed, Earlier
  <2>2. \A c \in Cells : HasRow(c)' <=> HasRow(c)  BY DEF HasRow
  <2>3. Cells' = Cells  BY Fixed
  <2> QED BY <2>1, <2>2, <2>3 DEF Accounts
<1>8. RowsAreOwn'  BY DEF RowsAreOwn
<1> QED BY <1>3, <1>4, <1>5, <1>6, <1>7, <1>8

LEMMA SetupNullStep ==
    ASSUME IInv, SetupNull
    PROVE  IInv'
<1> USE DEF IInv, SetupNull
<1>1. Mode' = Mode /\ Cells' = Cells  BY Fixed
<1>2. Share \subseteq Cells  BY DEF Share
<1>3. RowsAreOwn'  BY DEF RowsAreOwn
<1>4. CASE Mode = "repeat"
  <2>1. /\ LoopTypes /\ Position' /\ pc' \in {"setup", "done"}
        /\ \A c \in Cells : Passed(c)' <=> (Passed(c) \/ c = Cell)
        BY <1>4, LeavingACell
  <2>2. \A c \in Cells : c \in Share <=> c = Cell
        BY <1>4, CellIndices DEF Share
  <2>3. Types'  BY <1>4, <1>2, <2>1, StepTypes, OneResult DEF Types
  <2>4. Stores'  BY <1>1, <1>4, <2>1 DEF Stores
  <2>5. Repeated'
        BY <2>1, <2>3 DEF Repeated, LoopTypes, Types
  <2>6. Accounts'
        BY <1>2, <2>1, <2>2, NotYet, Booking
  <2> QED BY <1>3, <2>1, <2>3, <2>4, <2>5, <2>6
<1>5. CASE Mode # "repeat"
  <2>1. /\ LoopTypes /\ Position' /\ pc' \in {"setup", "done"}
        /\ \A c \in Cells : Passed(c)' <=> (Passed(c) \/ c \in Share)
        BY <1>5, LeavingAGroup
  <2>2. Types'  BY <1>5, <1>2, <2>1, StepTypes DEF Types
  <2>3. Stores'  BY <1>1, <1>5, <2>1 DEF Stores
  <2>4. Repeated'
        BY <2>1, <2>2 DEF Repeated, LoopTypes, Types
  <2>5. Accounts'
        BY <1>2, <2>1, NotYet, Booking
  <2> QED BY <1>3, <2>1, <2>2, <2>3, <2>4, <2>5
<1> QED BY <1>4, <1>5

LEMMA TimedOkStep ==
    ASSUME IInv, TimedOk
    PROVE  IInv'
<1> USE DEF IInv, TimedOk
<1>1. Mode' = Mode /\ Cells' = Cells  BY Fixed
<1>2. /\ r \in 0 .. cfg.repeat - 1 /\ cfg.repeat \in Nat
      BY Sizes DEF Types
<1>3. pc' \in {"setup", "timed", "row"} /\ r' \in 0 .. cfg.repeat - 1
      BY <1>2
<1>4. Types'
  <2>1. Rs' \in Results /\ store' \in [value : Int, runs : Int]
        BY OneResult, StoreAfterType
  <2>2. NSteps' = NSteps /\ Results' = Results  BY Fixed
  <2>3. UNCHANGED <<ei, ti, si, rows, blamed, cfg>>  OBVIOUS
  <2> QED BY <1>1, <1>3, <2>1, <2>2, <2>3 DEF Types
<1>5. Position'  BY <1>1, <1>2 DEF Position
<1>6. Stores'
      BY <1>1, StoreAfterType DEF Stores
<1>7. Repeated'
  <2>1. \A k \in 0 .. cfg.repeat - 1 :
            Rs'[k] = IF k = r THEN [cell |-> Cell, ok |-> TRUE] ELSE Rs[k]
        BY OneResult
  <2>2. Cell' = Cell  BY DEF Cell
  <2>3. /\ pc' \in {"setup", "timed"} => r' = r + 1
        /\ pc' = "row" => r = cfg.repeat - 1
        BY <1>2
  <2>4. \A k \in 0 .. cfg.repeat - 1 : k < r => Rs[k] = [cell |-> Cell, ok |-> TRUE]
        BY DEF Repeated
  <2>5. ASSUME NEW k \in 0 .. cfg.repeat - 1,
               (pc' \in {"setup", "timed"} /\ k < r') \/ pc' = "row"
        PROVE  Rs'[k] = [cell |-> Cell, ok |-> TRUE]
    <3>1. k = r \/ k < r  BY <1>2, <1>3, <2>3, <2>5
    <3> QED BY <2>1, <2>4, <3>1
  <2>6. cfg' = cfg  OBVIOUS
  <2> QED BY <2>2, <2>5, <2>6 DEF Repeated
<1>8. Accounts'
  <2>1. \A c \in Cells : Passed(c)' <=> Passed(c)
        BY <1>1, <1>3 DEF Passed, Earlier
  <2>2. \A c \in Cells : HasRow(c)' <=> HasRow(c)  BY DEF HasRow
  <2> QED BY <1>1, <2>1, <2>2 DEF Accounts
<1>9. RowsAreOwn'  BY DEF RowsAreOwn
<1> QED BY <1>4, <1>5, <1>6, <1>7, <1>8, <1>9

LEMMA TimedFailedStep ==
    ASSUME IInv, TimedFailed
    PROVE  IInv'
<1> USE DEF IInv, TimedFailed, AfterFailure
<1>1. Mode' = Mode /\ Cells' = Cells  BY Fixed
<1>2. /\ LoopTypes /\ Position'
      /\ Mode = "repeat" => pc' \in {"setup", "done"}
      /\ Mode # "repeat" => pc' \in {"timed", "close"}
      /\ Mode = "value" => si' = si
      /\ \A c \in Cells : Passed(c)' <=> (Passed(c) \/ c \in {Cell})
      BY LeavingACell
<1>3. {Cell} \subseteq Cells  BY Sizes
<1>4. Types'
      BY <1>2, <1>3, StepTypes, OneResult, StoreAfterType DEF Types, LoopTypes
<1>5. Stores'
      BY <1>1, <1>2, StoreAfterType DEF Stores
<1>6. Repeated'
      BY <1>2, <1>4 DEF Repeated, LoopTypes, Types
<1>7. Accounts'
      BY <1>2, <1>3, NotYet, Booking
<1>8. RowsAreOwn'  BY DEF RowsAreOwn
<1> QED BY <1>2, <1>4, <1>5, <1>6, <1>7, <1>8

LEMMA RowStep ==
    ASSUME IInv, Row
    PROVE  IInv'
<1> USE DEF IInv, Row
<1> DEFINE x == [cell |-> Cell, from |-> Rs]
<1>1. Mode' = Mode /\ Cells' = Cells  BY Fixed
<1>2. /\ LoopTypes /\ Position'
      /\ Mode = "repeat" => pc' \in {"setup", "done"}
      /\ Mode # "repeat" => pc' \in {"timed", "close"}
      /\ Mode = "value" => si' = si
      /\ \A c \in Cells : Passed(c)' <=> (Passed(c) \/ c \in {Cell})
      BY LeavingACell
<1>3. {Cell} \subseteq Cells  BY Sizes
<1>4. Types'
  <2>1. x \in [cell : Cells, from : Results]  BY <1>3 DEF Types
  <2>2. rows' \in Seq([cell : Cells, from : Results])  BY <2>1 DEF Types
  <2> QED BY <1>2, <2>2, StepTypes DEF Types, LoopTypes
<1>5. Stores'  BY <1>1, <1>2 DEF Stores
<1>6. Repeated'
      BY <1>2, <1>4 DEF Repeated, LoopTypes, Types
<1>7. \A c \in Cells : HasRow(c)' <=> (HasRow(c) \/ c \in {Cell})
      BY NewRow
<1>8. Accounts'
      BY <1>2, <1>3, <1>7, NotYet, Booking
<1>9. RowsAreOwn'
  <2>1. /\ Len(rows) \in Nat /\ Len(rows') = Len(rows) + 1
        /\ \A a \in 1 .. Len(rows) : rows'[a] = rows[a]
        /\ rows'[Len(rows) + 1] = x
        BY DEF Types
  <2>2. \A k \in 0 .. cfg.repeat - 1 : x.from[k] = [cell |-> x.cell, ok |-> TRUE]
        BY DEF Repeated
  <2>c. cfg' = cfg  OBVIOUS
  <2>3. \A a \in 1 .. Len(rows) : rows[a].cell # Cell
        BY <1>3, NotYet DEF Accounts, HasRow
  <2>4. x.cell = Cell  OBVIOUS
  <2> HIDE DEF x
  <2>5. \A a \in 1 .. Len(rows') : a \in 1 .. Len(rows) \/ a = Len(rows) + 1
        BY <2>1
  <2>6. \A a \in 1 .. Len(rows') : \A k \in 0 .. cfg.repeat - 1 :
            rows'[a].from[k] = [cell |-> rows'[a].cell, ok |-> TRUE]
    <3>1. \A a \in 1 .. Len(rows) : \A k \in 0 .. cfg.repeat - 1 :
              rows[a].from[k] = [cell |-> rows[a].cell, ok |-> TRUE]
          BY DEF RowsAreOwn
    <3> QED BY <2>1, <2>2, <2>5, <3>1
  <2>7. \A a, b \in 1 .. Len(rows') : a # b => rows'[a].cell # rows'[b].cell
    <3>1. \A a, b \in 1 .. Len(rows) : a # b => rows[a].cell # rows[b].cell
          BY DEF RowsAreOwn
    <3> QED BY <2>1, <2>3, <2>4, <2>5, <3>1
  <2> QED BY <2>c, <2>6, <2>7 DEF RowsAreOwn
<1> QED BY <1>2, <1>4, <1>5, <1>6, <1>8, <1>9

LEMMA CloseStep ==
    ASSUME IInv, Close
    PROVE  IInv'
<1> USE DEF IInv, Close
<1>1. Mode' = Mode /\ Cells' = Cells /\ Mode # "repeat"
      BY Fixed DEF Position
<1>2. /\ LoopTypes /\ Position' /\ pc' \in {"setup", "done"}
      /\ \A c \in Cells : Passed(c)' <=> Passed(c)
      BY <1>1, LeavingAGroup
<1>3. Types'
  <2>1. store' \in [value : Int, runs : Int]  BY DEF NoStore
  <2> QED BY <1>2, <2>1, StepTypes DEF Types
<1>4. Stores'  BY <1>2 DEF Stores
<1>5. Repeated'  BY <1>2, <1>3 DEF Repeated, LoopTypes, Types
<1>6. Accounts'
  <2>1. \A c \in Cells : HasRow(c)' <=> HasRow(c)  BY DEF HasRow
  <2> QED BY <1>1, <1>2, <2>1 DEF Accounts
<1>7. RowsAreOwn'  BY DEF RowsAreOwn
<1> QED BY <1>2, <1>3, <1>4, <1>5, <1>6, <1>7

\* The loops of run_file keep to their order, the store to its branch, and every
\* cell they have passed is accounted for.
THEOREM SweepInvariant == Spec => []IInv
<1>1. Init => IInv
  <2> SUFFICES ASSUME Init PROVE IInv  OBVIOUS
  <2> USE SizesAssumption DEF Init
  <2>1. cfg.nsw \in Nat /\ cfg.repeat \in Nat \ {0} /\ NSteps \in Nat \ {0}
    <3>1. cfg.nsw \in Nat /\ cfg.repeat \in Nat \ {0}  OBVIOUS
    <3> QED BY <3>1 DEF NSteps
  <2>2. Rs \in Results  BY DEF Results
  <2>3. Types  BY <2>1, <2>2 DEF Types, NoStore
  <2>4. Position /\ Stores /\ Repeated /\ RowsAreOwn
        BY <2>1 DEF Position, Stores, Repeated, RowsAreOwn
  <2>5. Accounts
    <3>1. \A c \in Cells : ~Passed(c)
      <4> SUFFICES ASSUME NEW c \in Cells PROVE ~Passed(c)  OBVIOUS
      <4>1. c[1] \in Nat /\ c[2] \in Nat /\ c[3] \in Nat  BY <2>1, CellIndices
      <4> QED BY <4>1 DEF Passed, Earlier
    <3>2. \A c \in Cells : ~HasRow(c)  BY DEF HasRow
    <3> QED BY <3>1, <3>2 DEF Accounts
  <2> QED BY <2>3, <2>4, <2>5 DEF IInv
<1>2. IInv /\ [Next]_vars => IInv'
  <2> SUFFICES ASSUME IInv, [Next]_vars PROVE IInv'  OBVIOUS
  <2>1. CASE UNCHANGED vars
        BY <2>1 DEF vars, IInv, Types, Position, Stores, Repeated, Accounts, RowsAreOwn,
                    Results, Cells, NSteps, Mode, Cell, Passed, Earlier, HasRow
  <2> QED BY <2>1, SetupOkStep, SetupNullStep, TimedOkStep, TimedFailedStep, RowStep, CloseStep
          DEF Next, Done
<1> QED BY <1>1, <1>2, PTL DEF Spec

\* A row is made of the ok results of its own cell alone, and no cell has two,
\* in each of the branches of run_file and however the measurements fail.
THEOREM RowsAreTheirOwn == Spec => []RowsAreOwn
BY SweepInvariant, PTL DEF IInv

\* No store is open when the next is set up or when the sweep ends.
THEOREM StoresAreClosed == Spec => []OneStore
<1>1. IInv => OneStore  BY DEF IInv, Stores, OneStore
<1> QED BY <1>1, SweepInvariant, PTL

\* A measurement runs on a store seeded for its swept value whenever that value
\* changes the data, and without --seed-once on one that is fresh.
THEOREM StoreFitsCell == Spec => []SeededForCell
<1>1. IInv => SeededForCell
  <2> SUFFICES ASSUME IInv, pc = "timed"
               PROVE  /\ store # NoStore
                      /\ cfg.nsw > 0 /\ cfg.perValue => store.value = si
                      /\ ~cfg.seedOnce => store.runs = 0
      BY DEF SeededForCell
  <2>1. store.value \in Nat  BY Sizes DEF IInv, Stores, Types
  <2>2. store # NoStore  BY <2>1 DEF NoStore
  <2>3. /\ cfg.perValue => Mode \in {"value", "repeat"}
        /\ ~cfg.seedOnce => Mode = "repeat"
        BY DEF Mode, IInv, Types
  <2> QED BY <2>2, <2>3 DEF IInv, Stores
<1> QED BY <1>1, SweepInvariant, PTL

\* When the sweep is over every cell has its row or was met by a failure, and
\* not both.
THEOREM CellsAreAccounted == Spec => []EveryCellAccounted
<1>1. IInv => EveryCellAccounted
      BY DEF IInv, Accounts, Passed, HasRow, EveryCellAccounted
<1> QED BY <1>1, SweepInvariant, PTL
=============================================================================
