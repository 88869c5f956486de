---------------------------- MODULE SeedPhaseProofs ----------------------------
(***************************************************************************)
(* What holds of measure_setup and its threads for every number of load    *)
(* workers and items, every batch size and every set of CPUs.              *)
(***************************************************************************)
EXTENDS SeedPhase, CountingProofs, TLAPS

-----------------------------------------------------------------------------
(* The types                                                                 *)

\* All of TypeOK but the placement, which has a section of its own.
Types ==
    /\ cfg \in [load : BOOLEAN, watch : BOOLEAN, place : Places]
    /\ mpc \in {"open", "probe", "spawn", "join", "joinProgress", "return"}
    /\ j \in 0 .. N /\ lerr \in BOOLEAN /\ seeded \in Nat
    /\ result \in {"none", "store", "null"}
    /\ store \in {"none", "open", "closed"} /\ lw \in {"none", "live", "freed"}
    /\ wpc \in [Workers -> {"off", "start", "load", "mput", "count", "exited"}]
    /\ nextItem \in [Workers -> Nat] /\ buf \in [Workers -> SUBSET (0 .. Items - 1)]
    /\ prim \in [Workers -> Nat] /\ err \in [Workers -> BOOLEAN]
    /\ written \in [0 .. Items - 1 -> Nat]
    /\ opc \in {"off", "wait", "sum"} /\ stop \in BOOLEAN
    /\ ot \in 0 .. N /\ cur \in Nat /\ prev \in Nat

LEMMA BufferSize ==
    ASSUME Types, NEW t \in Workers
    PROVE  IsFiniteSet(buf[t]) /\ Cardinality(buf[t]) \in Nat
<1>1. IsFiniteSet(0 .. Items - 1)  BY ItemsAssumption, FS_Interval
<1>2. buf[t] \in SUBSET (0 .. Items - 1)  BY DEF Types
<1> QED BY <1>1, <1>2, FS_Subset, FS_CardinalityType

LEMMA WorkerTypes ==
    ASSUME Types, NEW t \in Workers, Worker(t)
    PROVE  Types'
<1>1. CASE LStart(t)
  <2>1. /\ wpc' \in [Workers -> {"off", "start", "load", "mput", "count", "exited"}]
        /\ prim' \in [Workers -> Nat] /\ err' \in [Workers -> BOOLEAN]
        BY <1>1 DEF Types, LStart, WGoto
  <2>2. UNCHANGED <<cfg, mainVars, obsVars, nextItem, buf, written>>
        BY <1>1 DEF LStart
  <2> QED BY <2>1, <2>2 DEF Types, mainVars, obsVars
<1>2. CASE LItem(t)
  <2>1. nextItem[t] \in 0 .. Items - 1  BY <1>2, ItemsAssumption DEF Types, LItem, MoreItems
  <2>2. buf' \in [Workers -> SUBSET (0 .. Items - 1)]  BY <1>2, <2>1 DEF Types, LItem
  <2>3. nextItem' \in [Workers -> Nat]  BY <1>2, NAssumption DEF Types, LItem, Stride
  <2>4. wpc' \in [Workers -> {"off", "start", "load", "mput", "count", "exited"}]
        BY <1>2 DEF Types, LItem, WGoto
  <2> QED BY <1>2, <2>2, <2>3, <2>4 DEF Types, LItem, mainVars, obsVars
<1>3. CASE LTail(t)
  <2>1. wpc' \in [Workers -> {"off", "start", "load", "mput", "count", "exited"}]
        BY <1>3 DEF Types, LTail, WGoto
  <2> QED BY <1>3, <2>1 DEF Types, LTail, mainVars, obsVars
<1>4. CASE LPut(t)
  <2>1. written' \in [0 .. Items - 1 -> Nat]  BY <1>4 DEF Types, LPut
  <2> QED BY <1>4, <2>1 DEF Types, LPut, WGoto, mainVars, obsVars
<1>5. CASE LCount(t)
  <2>1. prim' \in [Workers -> Nat]  BY <1>5, BufferSize DEF Types, LCount
  <2> QED BY <1>5, <2>1 DEF Types, LCount, WGoto, mainVars, obsVars
<1>6. CASE LError(t)
      BY <1>6 DEF Types, LError, WGoto, mainVars, obsVars
<1> QED BY <1>1, <1>2, <1>3, <1>4, <1>5, <1>6 DEF Worker

LEMMA ProgressTypes ==
    ASSUME Types, Progress
    PROVE  Types'
<1> USE NAssumption DEF Types, mainVars, workerVars
<1>1. CASE PTick  BY <1>1 DEF PTick, FreshSum
<1>2. CASE PRead
  <2>1. ot \in Workers  BY <1>2 DEF PRead, Workers
  <2>2. cur' \in Nat /\ ot' \in 0 .. N  BY <1>2, <2>1 DEF PRead
  <2> QED BY <1>2, <2>2 DEF PRead
<1>3. CASE PEmit  BY <1>3 DEF PEmit
<1>4. CASE PExit  BY <1>4 DEF PExit
<1> QED BY <1>1, <1>2, <1>3, <1>4 DEF Progress

LEMMA MainTypes ==
    ASSUME Types, Main
    PROVE  Types'
<1>j. /\ j \in 0 .. N /\ 0 \in 0 .. N
      /\ j < N => j \in Workers /\ j + 1 \in 0 .. N
      BY NAssumption DEF Types, Workers
<1> USE DEF Types, workerVars, obsVars
<1>1. CASE MOpen   BY <1>1 DEF MOpen
<1>2. CASE MProbe  BY <1>2 DEF MProbe
<1>3. CASE MSpawn
  <2>1. j' \in 0 .. N /\ mpc' \in {"spawn", "join"} /\ opc' \in {"off", "wait", "sum"}
        BY <1>3, <1>j DEF MSpawn
  <2>2. wpc' \in [Workers -> {"off", "start", "load", "mput", "count", "exited"}]
        BY <1>3 DEF MSpawn, WGoto
  <2> QED BY <1>3, <2>1, <2>2 DEF MSpawn
<1>4. CASE MJoin
  <2>1. j' \in 0 .. N /\ mpc' \in {"join", "joinProgress"} /\ stop' \in BOOLEAN
        BY <1>4, <1>j DEF MJoin, StopSignal
  <2>2. seeded' \in Nat /\ lerr' \in BOOLEAN  BY <1>4, <1>j DEF MJoin
  <2> QED BY <1>4, <2>1, <2>2 DEF MJoin
<1>5. CASE MReturn  BY <1>5 DEF MReturn
<1> QED BY <1>1, <1>2, <1>3, <1>4, <1>5 DEF Main

LEMMA TypesHold == Spec => []Types
<1>1. Init => Types
  <2> SUFFICES ASSUME Init PROVE Types  OBVIOUS
  <2>1. 0 \in 0 .. N /\ \A t \in Workers : t \in Nat  BY NAssumption DEF Workers
  <2>2. /\ wpc \in [Workers -> {"off", "start", "load", "mput", "count", "exited"}]
        /\ nextItem \in [Workers -> Nat] /\ buf \in [Workers -> SUBSET (0 .. Items - 1)]
        /\ prim \in [Workers -> Nat] /\ err \in [Workers -> BOOLEAN]
        BY <2>1 DEF Init
  <2>3. written \in [0 .. Items - 1 -> Nat]  BY DEF Init
  <2> QED BY <2>1, <2>2, <2>3 DEF Init, Types
<1>2. Types /\ [Next]_vars => Types'
  <2> SUFFICES ASSUME Types, [Next]_vars PROVE Types'  OBVIOUS
  <2>1. CASE UNCHANGED vars
        BY <2>1 DEF Types, vars, mainVars, workerVars, obsVars
  <2> QED BY <2>1, MainTypes, WorkerTypes, ProgressTypes DEF Next, Returned
<1> QED BY <1>1, <1>2, PTL DEF Spec

-----------------------------------------------------------------------------
(* The lifetimes of the threads                                              *)

\* Where the main thread is tells which threads can still be there and what the
\* array, the store and the result are.
Lifetimes ==
    /\ mpc \in {"open", "probe"} => lw = "none" /\ \A t \in Workers : wpc[t] = "off"
    /\ mpc \in {"open", "probe", "spawn"} => opc = "off"
    /\ mpc \in {"open", "probe", "spawn"} => ~lerr /\ seeded = 0
    /\ mpc \in {"open", "probe"} => j = 0
    /\ mpc = "spawn" => \A t \in Workers : t >= j => wpc[t] = "off"
    /\ mpc \in {"spawn", "join", "joinProgress"} => lw = "live" /\ cfg.load
    /\ mpc \in {"probe", "spawn", "join", "joinProgress"} => store = "open"
    /\ mpc # "return" <=> result = "none"
    /\ mpc = "join" => \A t \in Workers : t < j => wpc[t] = "exited"
    /\ mpc = "joinProgress" => j = N /\ \A t \in Workers : wpc[t] = "exited"
    /\ mpc = "return" => /\ opc = "off" /\ lw # "live"
                         /\ \A t \in Workers : wpc[t] \in {"off", "exited"}
                         /\ result = "null" <=> store = "closed"
                         /\ result = "store" /\ cfg.load =>
                               \A t \in Workers : wpc[t] = "exited"

\* The errors main has met, and those there are: a worker has one only once it
\* has ended.
Errors ==
    /\ mpc \in {"join", "joinProgress"} =>
          (lerr <=> \E t \in Workers : t < j /\ err[t])
    /\ \A t \in Workers : err[t] => wpc[t] = "exited"
    /\ result = "store" => \A t \in Workers : ~err[t]

LEMMA WorkerLifetimes ==
    ASSUME Types, Lifetimes, Errors, NEW w \in Workers, Worker(w)
    PROVE  Lifetimes' /\ Errors'
<1>1. UNCHANGED <<cfg, mpc, j, lerr, seeded, result, store, lw, opc>>
      BY DEF Worker, LStart, LItem, LTail, LPut, LCount, LError, mainVars, obsVars
<1>2. wpc[w] \in {"start", "load", "mput", "count"}
      BY DEF Worker, LStart, LItem, LTail, LPut, LCount, LError
<1>3. \A t \in Workers : t # w => wpc'[t] = wpc[t] /\ err'[t] = err[t]
      BY DEF Types, Worker, LStart, LItem, LTail, LPut, LCount, LError, WGoto
<1>4. wpc'[w] # "off" /\ (err'[w] => wpc'[w] = "exited")
  <2> USE <1>2 DEF Types, Errors, WGoto
  <2>1. CASE LStart(w)  BY <2>1 DEF LStart
  <2>2. CASE LItem(w)   BY <2>2 DEF LItem
  <2>3. CASE LTail(w)   BY <2>3 DEF LTail
  <2>4. CASE LPut(w)    BY <2>4 DEF LPut
  <2>5. CASE LCount(w)  BY <2>5 DEF LCount
  <2>6. CASE LError(w)  BY <2>6 DEF LError
  <2> QED BY <2>1, <2>2, <2>3, <2>4, <2>5, <2>6 DEF Worker
<1>5. mpc \in {"spawn", "join"} /\ result = "none"
      BY <1>2 DEF Types, Lifetimes
<1>6. mpc = "spawn" => ~(w >= j)  BY <1>2 DEF Lifetimes
<1>7. mpc = "join" => ~(w < j)  BY <1>2 DEF Lifetimes
<1>8. Lifetimes'  BY <1>1, <1>3, <1>5, <1>6, <1>7 DEF Lifetimes
<1>9. Errors'  BY <1>1, <1>3, <1>4, <1>5, <1>7 DEF Errors
<1> QED BY <1>8, <1>9

LEMMA MainLifetimes ==
    ASSUME Types, Lifetimes, Errors, Main
    PROVE  Lifetimes' /\ Errors'
<1>j. /\ j \in 0 .. N /\ (j < N => j \in Workers) /\ (~(j < N) => j = N)
      /\ \A t \in Workers : /\ t < N /\ t >= 0 /\ ~(t < 0)
                            /\ t < j + 1 <=> t < j \/ t = j
                            /\ t >= j + 1 => t >= j /\ t # j
      BY NAssumption DEF Types, Workers
<1>n. \A t \in Workers : err[t] => wpc[t] = "exited"  BY DEF Errors
<1>1. CASE MOpen
  <2>1. UNCHANGED <<cfg, j, lerr, seeded, result, lw, wpc, err, opc>>
        BY <1>1 DEF MOpen, workerVars, obsVars
  <2> QED BY <1>1, <2>1 DEF MOpen, Lifetimes, Errors
<1>2. CASE MProbe
  <2>1. UNCHANGED <<cfg, j, lerr, seeded, wpc, err, opc>>
        BY <1>2 DEF MProbe, workerVars, obsVars
  <2>2. mpc = "probe" /\ \A t \in Workers : wpc[t] = "off" /\ ~err[t]
        BY <1>2, <1>n DEF MProbe, Lifetimes
  <2>3. \/ mpc' = "return" /\ store' = "closed" /\ result' = "null" /\ lw' = lw
        \/ mpc' = "return" /\ ~cfg.load /\ result' = "store" /\ store' = store /\ lw' = lw
        \/ mpc' = "spawn" /\ cfg.load /\ result' = result /\ store' = store /\ lw' = "live"
        BY <1>2 DEF MProbe
  <2>4. store = "open" /\ lw = "none" /\ opc = "off" /\ ~lerr /\ seeded = 0 /\ result = "none"
        BY <2>2 DEF Lifetimes
  <2>5. Lifetimes'  BY <2>1, <2>2, <2>3, <2>4 DEF Lifetimes
  <2>6. Errors'     BY <2>1, <2>2, <2>3 DEF Errors
  <2> QED BY <2>5, <2>6
<1>3. CASE MSpawn
  <2>1. /\ mpc = "spawn" /\ UNCHANGED <<cfg, lerr, seeded, result, store, lw, err>>
        BY <1>3 DEF MSpawn
  <2>2. CASE j < N
    <3>1. wpc' = [wpc EXCEPT ![j] = "start"] /\ j' = j + 1 /\ mpc' = mpc /\ opc' = opc
          BY <1>3, <2>2 DEF MSpawn, WGoto
    <3>2. \A t \in Workers : wpc'[t] = IF t = j THEN "start" ELSE wpc[t]
          BY <3>1 DEF Types
    <3>3. \A t \in Workers : t >= j' => wpc'[t] = "off"
          BY <1>j, <2>1, <3>1, <3>2 DEF Lifetimes
    <3>4. Lifetimes'  BY <2>1, <3>1, <3>3 DEF Lifetimes
    <3>5. ~err[j]  BY <1>j, <1>n, <2>1, <2>2 DEF Lifetimes
    <3>6. Errors'  BY <2>1, <3>1, <3>2, <3>5 DEF Errors
    <3> QED BY <3>4, <3>6
  <2>3. CASE ~(j < N)
    <3>1. wpc' = wpc /\ j' = 0 /\ mpc' = "join"  BY <1>3, <2>3 DEF MSpawn
    <3>2. Lifetimes'  BY <1>j, <2>1, <3>1 DEF Lifetimes
    <3>3. Errors'  BY <1>j, <2>1, <3>1 DEF Errors, Lifetimes
    <3> QED BY <3>2, <3>3
  <2> QED BY <2>2, <2>3
<1>4. CASE MJoin
  <2>1. mpc = "join" /\ UNCHANGED <<cfg, result, store, lw, wpc, err, opc>>
        BY <1>4 DEF MJoin, workerVars
  <2>2. CASE j < N
    <3>1. wpc[j] = "exited" /\ lerr' = (lerr \/ err[j]) /\ j' = j + 1 /\ mpc' = mpc
          BY <1>4, <2>2 DEF MJoin
    <3>2. Lifetimes'  BY <1>j, <2>1, <3>1 DEF Lifetimes
    <3>3. lerr' <=> \E t \in Workers : t < j + 1 /\ err[t]
          BY <1>j, <2>1, <2>2, <3>1 DEF Errors
    <3>4. Errors'  BY <2>1, <3>1, <3>3 DEF Errors
    <3> QED BY <3>2, <3>4
  <2>3. CASE ~(j < N)
    <3>1. mpc' = "joinProgress" /\ lerr' = lerr /\ j' = j /\ j = N
          BY <1>4, <1>j, <2>3 DEF MJoin
    <3>2. Lifetimes'  BY <1>j, <2>1, <3>1 DEF Lifetimes
    <3>3. Errors'  BY <2>1, <3>1 DEF Errors
    <3> QED BY <3>2, <3>3
  <2> QED BY <2>2, <2>3
<1>5. CASE MReturn
  <2>1. /\ mpc = "joinProgress" /\ mpc' = "return" /\ lw' = "freed" /\ opc = "off"
        /\ UNCHANGED <<cfg, j, lerr, seeded, wpc, err, opc>>
        /\ store' = IF lerr THEN "closed" ELSE "open"
        /\ result' = IF lerr THEN "null" ELSE "store"
        BY <1>5 DEF MReturn, ProgressJoined, workerVars, obsVars
  <2>2. j = N /\ \A t \in Workers : wpc[t] = "exited"  BY <2>1 DEF Lifetimes
  <2>3. lerr <=> \E t \in Workers : err[t]  BY <1>j, <2>1, <2>2 DEF Errors
  <2>4. Lifetimes'  BY <2>1, <2>2 DEF Lifetimes
  <2>5. Errors'  BY <1>n, <2>1, <2>2, <2>3 DEF Errors
  <2> QED BY <2>4, <2>5
<1> QED BY <1>1, <1>2, <1>3, <1>4, <1>5 DEF Main

LEMMA LifetimesHold == Spec => [](Lifetimes /\ Errors)
<1>1. Init => Lifetimes /\ Errors
      BY DEF Init, Lifetimes, Errors
<1>2. Types /\ Lifetimes /\ Errors /\ [Next]_vars => Lifetimes' /\ Errors'
  <2> SUFFICES ASSUME Types, Lifetimes, Errors, [Next]_vars PROVE Lifetimes' /\ Errors'
      OBVIOUS
  <2>1. CASE Progress
    <3>1. UNCHANGED <<cfg, mainVars, workerVars>> /\ opc # "off"
          BY <2>1 DEF Progress, PTick, PRead, PEmit, PExit
    <3>2. mpc \in {"join", "joinProgress"}  BY <3>1 DEF Types, Lifetimes
    <3> QED BY <3>1, <3>2 DEF Lifetimes, Errors, mainVars, workerVars
  <2>2. CASE UNCHANGED vars
        BY <2>2 DEF Lifetimes, Errors, vars, mainVars, workerVars, obsVars
  <2> QED BY <2>1, <2>2, MainLifetimes, WorkerLifetimes DEF Next, Returned
<1> QED BY <1>1, <1>2, TypesHold, PTL DEF Spec

\* measure_setup returns NULL with the store closed or a store that no worker
\* failed to load, and leaves no thread behind, for any number of workers.
THEOREM SetupIsSettled == Spec => []SetupSettles
<1>1. Types /\ Lifetimes /\ Errors => SetupSettles
      BY DEF Types, Lifetimes, Errors, SetupSettles
<1> QED BY <1>1, TypesHold, LifetimesHold, PTL

-----------------------------------------------------------------------------
(* The items                                                                 *)

\* The items the loop of worker t has been over.
Mine(t) == {i \in 0 .. Items - 1 : i % N = t /\ i < nextItem[t]}

\* Each worker keeps to its residue class; what it has been over is in its
\* buffer or in its counter.
Loaded(t) ==
    /\ nextItem[t] % N = t
    /\ buf[t] \subseteq Mine(t)
    /\ prim[t] = Cardinality(Mine(t) \ buf[t])
    /\ wpc[t] \in {"off", "start"} => nextItem[t] = t
    /\ wpc[t] = "exited" /\ ~err[t] => nextItem[t] >= Items /\ buf[t] = {}

\* An item has been given to the store once when its worker has been over it and
\* does not hold it back, and not at all before.
WrittenByTurn ==
    \A i \in 0 .. Items - 1 :
        written[i] = IF /\ i < nextItem[i % N]
                        /\ i \in buf[i % N] => wpc[i % N] = "count"
                     THEN 1 ELSE 0

Load == WrittenByTurn /\ \A t \in Workers : Loaded(t)

LEMMA ItemsHaveOwners ==
    /\ \A i \in 0 .. Items - 1 : i \in Nat /\ i % N \in Workers
    /\ \A t \in Workers : t \in Nat /\ t % N = t
    /\ \A x \in Nat : (x + N) % N = x % N
    /\ \A x, y \in Nat : x % N = y % N /\ x <= y /\ y < x + N => x = y
<1>1. \A i \in 0 .. Items - 1 : i \in Nat  BY ItemsAssumption
<1>2. /\ \A x \in Nat : x % N \in 0 .. N - 1
      /\ \A x \in 0 .. N - 1 : x % N = x
      /\ \A x \in Nat : (x + N) % N = x % N
      /\ \A x, y \in Nat : x % N = y % N /\ x <= y /\ y < x + N => x = y
      BY Residues, NAssumption
<1>3. \A t \in 0 .. N - 1 : t \in Nat  BY NAssumption
<1> QED BY <1>1, <1>2, <1>3 DEF Workers

LEMMA MineIsFinite ==
    ASSUME NEW t
    PROVE  /\ IsFiniteSet(Mine(t)) /\ Cardinality(Mine(t)) \in Nat
           /\ IsFiniteSet(Mine(t) \ buf[t]) /\ Cardinality(Mine(t) \ buf[t]) \in Nat
<1>1. IsFiniteSet(0 .. Items - 1)  BY ItemsAssumption, FS_Interval
<1>2. Mine(t) \in SUBSET (0 .. Items - 1) /\ Mine(t) \ buf[t] \in SUBSET (0 .. Items - 1)
      BY DEF Mine
<1> QED BY <1>1, <1>2, FS_Subset, FS_CardinalityType

LEMMA SameMine ==
    ASSUME NEW t, nextItem'[t] = nextItem[t]
    PROVE  Mine(t)' = Mine(t)
BY DEF Mine

\* A step of one worker leaves the others' items alone.
LEMMA OthersLoaded ==
    ASSUME Load, NEW w \in Workers,
           \A t \in Workers \ {w} : /\ nextItem'[t] = nextItem[t] /\ buf'[t] = buf[t]
                                    /\ prim'[t] = prim[t] /\ wpc'[t] = wpc[t]
                                    /\ err'[t] = err[t]
    PROVE  \A t \in Workers \ {w} : Loaded(t)'
<1> SUFFICES ASSUME NEW t \in Workers \ {w} PROVE Loaded(t)'  OBVIOUS
<1>1. Loaded(t)  BY DEF Load
<1>2. Mine(t)' = Mine(t)  BY SameMine
<1> QED BY <1>1, <1>2 DEF Loaded

LEMMA ItemStep ==
    ASSUME Types, Load, NEW w \in Workers, LItem(w)
    PROVE  Load' /\ prim' = prim
<1> DEFINE x == nextItem[w]
<1>1. /\ wpc[w] = "load" /\ x \in 0 .. Items - 1 /\ x \in Nat
      /\ UNCHANGED <<prim, err, written>>
      /\ \A t \in Workers : /\ buf'[t] = IF t = w THEN buf[t] \cup {x} ELSE buf[t]
                            /\ nextItem'[t] = IF t = w THEN x + N ELSE nextItem[t]
                            /\ t # w => wpc'[t] = wpc[t]
      /\ wpc'[w] \in {"load", "mput"}
  <2>1. x \in Nat /\ x < Items  BY DEF Types, LItem, MoreItems
  <2>2. x \in 0 .. Items - 1  BY <2>1, ItemsAssumption
  <2>3. wpc[w] = "load" /\ UNCHANGED <<prim, err, written>>  BY DEF LItem
  <2>4. \A t \in Workers : nextItem'[t] = IF t = w THEN x + N ELSE nextItem[t]
        BY DEF Types, LItem, Stride
  <2>6. \A t \in Workers : buf'[t] = IF t = w THEN buf[t] \cup {x} ELSE buf[t]
    <3>1. buf' = [buf EXCEPT ![w] = buf[w] \cup {x}] /\ DOMAIN buf = Workers
          BY DEF Types, LItem
    <3> HIDE DEF x
    <3> QED BY <3>1
  <2>5. /\ \A t \in Workers : t # w => wpc'[t] = wpc[t]
        /\ wpc'[w] \in {"load", "mput"}
        BY DEF Types, LItem, WGoto
  <2> HIDE DEF x
  <2> QED BY <2>1, <2>2, <2>3, <2>4, <2>5, <2>6
<1>2. x % N = w /\ buf[w] \subseteq Mine(w) /\ prim[w] = Cardinality(Mine(w) \ buf[w])
      BY DEF Load, Loaded
<1> HIDE DEF x
<1>3. \A i \in 0 .. Items - 1 : i % N = w => (i < x + N <=> i < x \/ i = x)
  <2> SUFFICES ASSUME NEW i \in 0 .. Items - 1, i % N = w
               PROVE  i < x + N <=> i < x \/ i = x
      OBVIOUS
  <2>1. i \in Nat /\ (x <= i /\ i < x + N => x = i)  BY <1>1, <1>2, ItemsHaveOwners
  <2> QED BY <1>1, <2>1, NAssumption
<1>4. Mine(w)' = Mine(w) \cup {x} /\ x \notin Mine(w)
  <2>1. Mine(w)' = {i \in 0 .. Items - 1 : i % N = w /\ i < x + N}  BY <1>1 DEF Mine
  <2>2. Mine(w) = {i \in 0 .. Items - 1 : i % N = w /\ i < x}  BY DEF Mine, x
  <2> QED BY <1>1, <1>2, <1>3, <2>1, <2>2
<1>5. Mine(w)' \ buf'[w] = Mine(w) \ buf[w] /\ buf'[w] \subseteq Mine(w)'
      BY <1>1, <1>2, <1>4
<1>6. nextItem'[w] % N = w  BY <1>1, <1>2, ItemsHaveOwners
<1>7. Loaded(w)'
      BY <1>1, <1>2, <1>5, <1>6 DEF Loaded
<1>8. \A t \in Workers \ {w} : Loaded(t)'
      BY <1>1, OthersLoaded
<1>9. WrittenByTurn'
  <2> SUFFICES ASSUME NEW i \in 0 .. Items - 1
               PROVE  written'[i] = IF /\ i < nextItem'[i % N]
                                       /\ i \in buf'[i % N] => wpc'[i % N] = "count"
                                    THEN 1 ELSE 0
      BY DEF WrittenByTurn
  <2>1. i % N \in Workers  BY ItemsHaveOwners
  <2>2. written'[i] = IF /\ i < nextItem[i % N]
                         /\ i \in buf[i % N] => wpc[i % N] = "count"
                      THEN 1 ELSE 0
        BY <1>1 DEF Load, WrittenByTurn
  <2>3. CASE i % N # w  BY <1>1, <2>1, <2>2, <2>3
  <2>4. CASE i % N = w
    <3>1. CASE i = x
      <4>1. ~(x < x)  BY <1>1
      <4> QED BY <1>1, <2>1, <2>2, <2>4, <3>1, <4>1 DEF x
    <3>2. CASE i # x
      <4>1. i < x + N <=> i < x  BY <1>3, <2>4, <3>2
      <4> QED BY <1>1, <2>1, <2>2, <2>4, <3>2, <4>1 DEF x
    <3> QED BY <3>1, <3>2
  <2> QED BY <2>3, <2>4
<1> QED BY <1>1, <1>7, <1>8, <1>9 DEF Load

LEMMA PutStep ==
    ASSUME Types, Load, NEW w \in Workers, LPut(w)
    PROVE  Load' /\ prim' = prim
<1>1. /\ wpc[w] = "mput" /\ UNCHANGED <<prim, err, nextItem, buf>>
      /\ \A t \in Workers : wpc'[t] = IF t = w THEN "count" ELSE wpc[t]
      /\ \A i \in 0 .. Items - 1 : written'[i] = written[i] + (IF i \in buf[w] THEN 1 ELSE 0)
      BY DEF Types, LPut, WGoto
<1>2. \A t \in Workers : Loaded(t)'
  <2> SUFFICES ASSUME NEW t \in Workers PROVE Loaded(t)'  OBVIOUS
  <2>1. Loaded(t) /\ Mine(t)' = Mine(t)  BY <1>1, SameMine DEF Load
  <2> QED BY <1>1, <2>1 DEF Loaded
<1>3. WrittenByTurn'
  <2> SUFFICES ASSUME NEW i \in 0 .. Items - 1
               PROVE  written'[i] = IF /\ i < nextItem[i % N]
                                       /\ i \in buf[i % N] => wpc'[i % N] = "count"
                                    THEN 1 ELSE 0
      BY <1>1 DEF WrittenByTurn
  <2>1. i % N \in Workers  BY ItemsHaveOwners
  <2>2. written[i] = IF /\ i < nextItem[i % N]
                        /\ i \in buf[i % N] => wpc[i % N] = "count"
                     THEN 1 ELSE 0
        BY DEF Load, WrittenByTurn
  <2>3. i \in buf[w] => i % N = w /\ i < nextItem[w]  BY DEF Load, Loaded, Mine
  <2> QED BY <1>1, <2>1, <2>2, <2>3
<1> QED BY <1>1, <1>2, <1>3 DEF Load

LEMMA CountStep ==
    ASSUME Types, Load, NEW w \in Workers, LCount(w)
    PROVE  Load' /\ \A t \in Workers : prim[t] <= prim'[t]
<1>1. /\ wpc[w] = "count" /\ UNCHANGED <<err, nextItem, written>>
      /\ \A t \in Workers : /\ wpc'[t] = IF t = w THEN "load" ELSE wpc[t]
                            /\ buf'[t] = IF t = w THEN {} ELSE buf[t]
                            /\ prim'[t] = IF t = w THEN prim[t] + Cardinality(buf[t])
                                                   ELSE prim[t]
      BY DEF Types, LCount, WGoto
<1>2. nextItem[w] % N = w /\ buf[w] \subseteq Mine(w) /\ prim[w] = Cardinality(Mine(w) \ buf[w])
      BY DEF Load, Loaded
<1>3. Cardinality(Mine(w)) = prim[w] + Cardinality(buf[w])
  <2>1. /\ (Mine(w) \ buf[w]) \cup buf[w] = Mine(w)
        /\ (Mine(w) \ buf[w]) \cap buf[w] = {}
        BY <1>2
  <2> QED BY <1>2, <2>1, MineIsFinite, BufferSize, DisjointUnion
<1>4. Loaded(w)'
  <2>1. Mine(w)' = Mine(w) /\ Mine(w) \ {} = Mine(w)  BY <1>1 DEF Mine
  <2> QED BY <1>1, <1>2, <1>3, <2>1 DEF Loaded
<1>5. \A t \in Workers \ {w} : Loaded(t)'  BY <1>1, OthersLoaded
<1>6. WrittenByTurn'
      BY <1>1, ItemsHaveOwners DEF Load, WrittenByTurn
<1>7. \A t \in Workers : prim[t] <= prim'[t]
  <2> SUFFICES ASSUME NEW t \in Workers PROVE prim[t] <= prim'[t]  OBVIOUS
  <2>1. prim[t] \in Nat /\ Cardinality(buf[t]) \in Nat  BY BufferSize DEF Types
  <2> QED BY <1>1, <2>1
<1> QED BY <1>4, <1>5, <1>6, <1>7 DEF Load

LEMMA OtherSteps ==
    ASSUME Types, Load, NEW w \in Workers, LStart(w) \/ LTail(w) \/ LError(w)
    PROVE  Load' /\ prim' = prim
<1>1. /\ UNCHANGED <<nextItem, buf, written>>
      /\ wpc[w] \in {"start", "load"} /\ wpc'[w] \in {"load", "mput", "exited"}
      /\ \A t \in Workers \ {w} : /\ wpc'[t] = wpc[t] /\ err'[t] = err[t]
                                  /\ prim'[t] = prim[t]
      BY DEF Types, LStart, LTail, LError, WGoto
<1>2. wpc'[w] = "exited" /\ ~err'[w] => nextItem[w] >= Items /\ buf[w] = {}
  <2>1. CASE LStart(w)  BY <2>1 DEF LStart, Types, WGoto
  <2>2. CASE LTail(w)
    <3>1. nextItem[w] >= Items  BY <2>2, ItemsAssumption DEF LTail, MoreItems, Types
    <3> QED BY <2>2, <3>1 DEF LTail, Types, WGoto
  <2>3. CASE LError(w)  BY <2>3 DEF LError, Types, WGoto
  <2> QED BY <2>1, <2>2, <2>3
<1>3. prim' = prim
  <2>1. CASE LStart(w)
    <3>1. Loaded(w) /\ wpc[w] = "start"  BY <2>1 DEF LStart, Load
    <3>2. Mine(w) = {}
      <4> SUFFICES ASSUME NEW i \in Mine(w) PROVE FALSE  OBVIOUS
      <4>1. i \in 0 .. Items - 1 /\ i % N = w /\ i < w
            BY <3>1 DEF Mine, Loaded
      <4>2. i \in 0 .. N - 1  BY <4>1, ItemsHaveOwners, NAssumption DEF Workers
      <4>3. i % N = i  BY <4>2, ItemsHaveOwners DEF Workers
      <4> QED BY <4>1, <4>2, <4>3
    <3>3. prim[w] = 0  BY <3>1, <3>2, FS_EmptySet DEF Loaded
    <3> QED BY <2>1, <3>3 DEF LStart, Types
  <2>2. CASE LTail(w) \/ LError(w)  BY <2>2 DEF LTail, LError
  <2> QED BY <2>1, <2>2
<1>4. Loaded(w)'
      BY <1>1, <1>2, <1>3 DEF Load, Loaded, Mine
<1>5. \A t \in Workers \ {w} : Loaded(t)'  BY <1>1, OthersLoaded
<1>6. WrittenByTurn'
      BY <1>1, ItemsHaveOwners DEF Load, WrittenByTurn
<1> QED BY <1>3, <1>4, <1>5, <1>6 DEF Load

LEMMA WorkerLoads ==
    ASSUME Types, Load, NEW w \in Workers, Worker(w)
    PROVE  /\ Load' /\ \A t \in Workers : prim[t] <= prim'[t]
           /\ \A t \in Workers \ {w} : prim'[t] = prim[t]
<1>1. Load' /\ (prim' = prim \/ \A t \in Workers : prim[t] <= prim'[t])
      BY ItemStep, PutStep, CountStep, OtherSteps DEF Worker
<1>2. \A t \in Workers \ {w} : prim'[t] = prim[t]
      BY DEF Types, Worker, LStart, LItem, LTail, LPut, LCount, LError
<1>3. \A t \in Workers : prim[t] \in Nat  BY DEF Types
<1>4. \A t \in Workers : prim[t] <= prim[t]  BY <1>3
<1> QED BY <1>1, <1>2, <1>4

LEMMA LoadHolds == Spec => []Load
<1>1. Init => Load
  <2> SUFFICES ASSUME Init PROVE Load  OBVIOUS
  <2>1. /\ \A t \in Workers : nextItem[t] = t /\ buf[t] = {} /\ wpc[t] = "off" /\ prim[t] = 0
        /\ \A i \in 0 .. Items - 1 : written[i] = 0
        BY DEF Init
  <2>2. \A t \in Workers : Mine(t) = {}
    <3> SUFFICES ASSUME NEW t \in Workers, NEW i \in Mine(t) PROVE FALSE  OBVIOUS
    <3>1. i \in 0 .. Items - 1 /\ i % N = t /\ i < t  BY <2>1 DEF Mine
    <3>2. i \in Workers  BY <3>1, ItemsHaveOwners, NAssumption DEF Workers
    <3>3. i % N = i /\ i \in Nat  BY <3>2, ItemsHaveOwners
    <3> QED BY <3>1, <3>3
  <2>3. \A t \in Workers : Loaded(t)
    <3>1. \A t \in Workers : Mine(t) \ buf[t] = {}  BY <2>1, <2>2
    <3> QED BY <2>1, <2>2, <3>1, ItemsHaveOwners, FS_EmptySet DEF Loaded
  <2>4. WrittenByTurn
    <3> SUFFICES ASSUME NEW i \in 0 .. Items - 1
                 PROVE  ~(i < nextItem[i % N]) /\ written[i] = 0
        BY DEF WrittenByTurn
    <3>1. i % N \in Workers /\ i \in Nat  BY ItemsHaveOwners
    <3>2. i \notin Mine(i % N)  BY <2>2, <3>1
    <3> QED BY <2>1, <3>1, <3>2 DEF Mine
  <2> QED BY <2>3, <2>4 DEF Load
<1>2. Types /\ Lifetimes /\ Load /\ [Next]_vars => Load'
  <2> SUFFICES ASSUME Types, Lifetimes, Load, [Next]_vars PROVE Load'  OBVIOUS
  <2>1. CASE \E w \in Workers : Worker(w)  BY <2>1, WorkerLoads
  <2>2. ASSUME UNCHANGED <<nextItem, buf, prim, err, written>>,
               \A t \in Workers : wpc'[t] = wpc[t] \/ (wpc[t] = "off" /\ wpc'[t] = "start")
        PROVE  Load'
    <3>1. \A t \in Workers : Mine(t)' = Mine(t)  BY <2>2, SameMine
    <3>2. \A t \in Workers : Loaded(t)'  BY <2>2, <3>1 DEF Load, Loaded
    <3>3. \A i \in 0 .. Items - 1 : wpc'[i % N] = "count" <=> wpc[i % N] = "count"
          BY <2>2, ItemsHaveOwners
    <3>4. WrittenByTurn'  BY <2>2, <3>3 DEF Load, WrittenByTurn
    <3> QED BY <3>2, <3>4 DEF Load
  <2>3. CASE MSpawn
    <3>1. UNCHANGED <<nextItem, buf, prim, err, written>>  BY <2>3 DEF MSpawn
    <3>2. CASE j < N
      <4>1. mpc = "spawn" /\ wpc' = [wpc EXCEPT ![j] = "start"]
            BY <2>3, <3>2 DEF MSpawn, WGoto
      <4>2. j \in Workers /\ j >= j  BY <3>2, NAssumption DEF Types, Workers
      <4>3. wpc[j] = "off"  BY <4>1, <4>2 DEF Lifetimes
      <4> QED BY <2>2, <3>1, <4>1, <4>2, <4>3 DEF Types
    <3>3. CASE ~(j < N)  BY <2>2, <2>3, <3>1, <3>3 DEF MSpawn
    <3> QED BY <3>2, <3>3
  <2>4. ASSUME UNCHANGED workerVars PROVE Load'  BY <2>2, <2>4 DEF workerVars
  <2>5. CASE MOpen \/ MProbe \/ MJoin \/ MReturn
        BY <2>4, <2>5 DEF MOpen, MProbe, MJoin, MReturn
  <2>6. CASE Progress  BY <2>4, <2>6 DEF Progress, PTick, PRead, PEmit, PExit
  <2>7. CASE UNCHANGED vars  BY <2>4, <2>7 DEF vars
  <2> QED BY <2>1, <2>3, <2>5, <2>6, <2>7 DEF Next, Main, Returned
<1> QED BY <1>1, <1>2, TypesHold, LifetimesHold, PTL DEF Spec

\* The items the store was given that are counted too.
Counted == UNION {Mine(t) \ buf[t] : t \in Workers}

\* What all the workers have counted is the number of items the store has been
\* given and that they have counted, no two of them the same.
LEMMA CountedItems ==
    ASSUME Types, Load
    PROVE  /\ IsFiniteSet(Counted)
           /\ PrefixSum(prim, N)[N] = Cardinality(Counted)
<1> DEFINE S == [t \in Workers |-> Mine(t) \ buf[t]]
<1>1. \A t \in Workers : IsFiniteSet(S[t]) /\ prim[t] = Cardinality(S[t])
      BY MineIsFinite DEF Load, Loaded
<1>2. \A t, u \in Workers : t # u => S[t] \cap S[u] = {}  BY DEF Mine
<1>3. Counted = Joint(S, N)  BY DEF Counted, Joint, Workers
<1>4. N \in Nat /\ prim \in [0 .. N - 1 -> Nat] /\ Workers = 0 .. N - 1
      BY NAssumption DEF Types, Workers
<1> HIDE DEF S
<1>5. IsFiniteSet(Joint(S, N)) /\ PrefixSum(prim, N)[N] = Cardinality(Joint(S, N))
      BY <1>1, <1>2, <1>4, SumOfSizes
<1> QED BY <1>3, <1>5

-----------------------------------------------------------------------------
(* The count of the seed line                                                *)

\* The join loop has added up the counters of the workers below j.
Tally ==
    /\ mpc \in {"join", "joinProgress"} => seeded = PrefixSum(prim, N)[j]
    /\ result = "store" /\ cfg.load => seeded = PrefixSum(prim, N)[N]

LEMMA SumsOverWorkers ==
    ASSUME NEW f \in [Workers -> Nat]
    PROVE  /\ PrefixSum(f, N) \in [0 .. N -> Nat]
           /\ PrefixSum(f, N)[0] = 0
           /\ \A k \in Workers : PrefixSum(f, N)[k + 1] = PrefixSum(f, N)[k] + f[k]
BY SumUnfolds, NAssumption DEF Workers

LEMMA WorkerTally ==
    ASSUME Types, Types', Lifetimes, Load, Tally, NEW w \in Workers, Worker(w)
    PROVE  Tally'
<1>1. UNCHANGED <<cfg, mpc, j, seeded, result>>
      BY DEF Worker, LStart, LItem, LTail, LPut, LCount, LError, mainVars
<1>2. wpc[w] \in {"start", "load", "mput", "count"}
      BY DEF Worker, LStart, LItem, LTail, LPut, LCount, LError
<1>3. mpc \in {"spawn", "join"} /\ result = "none" /\ (mpc = "join" => ~(w < j))
      BY <1>2 DEF Types, Lifetimes
<1>4. CASE mpc = "join"
  <2>1. /\ N \in Nat /\ j \in 0 .. N
        /\ prim \in [0 .. N - 1 -> Nat] /\ prim' \in [0 .. N - 1 -> Nat]
        BY NAssumption DEF Types, Workers
  <2>2. \A k \in 0 .. j - 1 : k \in Workers /\ k < j
        BY <2>1 DEF Workers
  <2>3. \A k \in 0 .. j - 1 : prim[k] = prim'[k]
        BY <1>3, <1>4, <2>2, WorkerLoads
  <2>4. PrefixSum(prim, N)[j] = PrefixSum(prim', N)[j]
        BY <2>1, <2>3, SumAgrees
  <2> QED BY <1>1, <1>3, <1>4, <2>4 DEF Tally, PrefixSum
<1>5. CASE mpc = "spawn"  BY <1>1, <1>3, <1>5 DEF Tally
<1> QED BY <1>3, <1>4, <1>5

LEMMA MainTally ==
    ASSUME Types, Lifetimes, Tally, Main
    PROVE  Tally'
<1>p. prim \in [Workers -> Nat]  BY DEF Types
<1>1. CASE MOpen
  <2>1. mpc' = "probe" /\ result' = "none"  BY <1>1 DEF MOpen, Lifetimes
  <2> QED BY <2>1 DEF Tally
<1>2. CASE MProbe
  <2>1. mpc = "probe" /\ cfg' = cfg  BY <1>2 DEF MProbe
  <2>2. mpc' \in {"return", "spawn"}  BY <1>2 DEF MProbe
  <2>3. result = "none"  BY <2>1 DEF Lifetimes
  <2>4. result' = "store" => ~cfg.load  BY <1>2, <2>3 DEF MProbe
  <2> QED BY <2>1, <2>2, <2>4 DEF Tally
<1>3. CASE MSpawn
  <2>1. mpc = "spawn" /\ UNCHANGED <<cfg, seeded, result, prim>>  BY <1>3 DEF MSpawn
  <2>2. seeded = 0 /\ result = "none"  BY <2>1 DEF Lifetimes
  <2>3. mpc' \in {"join", "joinProgress"} => j' = 0  BY <1>3, <2>1 DEF MSpawn
  <2> QED BY <1>p, <2>1, <2>2, <2>3, SumsOverWorkers DEF Tally
<1>4. CASE MJoin
  <2>1. mpc = "join" /\ UNCHANGED <<cfg, result, prim>>  BY <1>4 DEF MJoin, workerVars
  <2>2. seeded = PrefixSum(prim, N)[j] /\ result = "none"  BY <2>1 DEF Tally, Lifetimes
  <2>3. CASE j < N
    <3>1. j \in Workers  BY <2>3, NAssumption DEF Types, Workers
    <3>2. seeded' = seeded + prim[j] /\ j' = j + 1  BY <1>4, <2>3 DEF MJoin
    <3>3. seeded' = PrefixSum(prim, N)[j']  BY <1>p, <2>2, <3>1, <3>2, SumsOverWorkers
    <3> QED BY <2>1, <2>2, <3>3 DEF Tally
  <2>4. CASE ~(j < N)
    <3>1. UNCHANGED <<seeded, j>>  BY <1>4, <2>4 DEF MJoin
    <3> QED BY <2>1, <2>2, <3>1 DEF Tally
  <2> QED BY <2>3, <2>4
<1>5. CASE MReturn
  <2>1. mpc = "joinProgress" /\ mpc' = "return" /\ UNCHANGED <<seeded, prim>>
        BY <1>5 DEF MReturn, workerVars
  <2>2. j = N  BY <2>1 DEF Lifetimes
  <2> QED BY <2>1, <2>2 DEF Tally
<1> QED BY <1>1, <1>2, <1>3, <1>4, <1>5 DEF Main

LEMMA TallyHolds == Spec => []Tally
<1>1. Init => Tally  BY DEF Init, Tally
<1>2. Types /\ Types' /\ Lifetimes /\ Load /\ Tally /\ [Next]_vars => Tally'
  <2> SUFFICES ASSUME Types, Types', Lifetimes, Load, Tally, [Next]_vars PROVE Tally'
      OBVIOUS
  <2>1. ASSUME UNCHANGED <<cfg, mainVars, workerVars>> PROVE Tally'
        BY <2>1 DEF Tally, mainVars, workerVars
  <2>2. CASE Progress  BY <2>1, <2>2 DEF Progress, PTick, PRead, PEmit, PExit
  <2>3. CASE UNCHANGED vars  BY <2>1, <2>3 DEF vars
  <2> QED BY <2>2, <2>3, MainTally, WorkerTally DEF Next, Returned
<1> QED BY <1>1, <1>2, TypesHold, LifetimesHold, LoadHolds, PTL DEF Spec

\* A store that measure_setup hands back after a load() was given every item
\* exactly once and the seed line counts them all, for any number of items and
\* workers, whether or not they divide and whatever the size of a batch.
THEOREM EveryItemIsSeededOnce == Spec => []SeededOnce
<1>1. Types /\ Lifetimes /\ Errors /\ Load /\ Tally => SeededOnce
  <2> SUFFICES ASSUME Types, Lifetimes, Errors, Load, Tally, result = "store", cfg.load
               PROVE  (\A i \in 0 .. Items - 1 : written[i] = 1) /\ seeded = Items
      BY DEF SeededOnce
  <2>1. \A t \in Workers : nextItem[t] >= Items /\ buf[t] = {} /\ nextItem[t] \in Nat
    <3>1. mpc = "return"  BY DEF Lifetimes
    <3>2. \A t \in Workers : wpc[t] = "exited" /\ ~err[t]  BY <3>1 DEF Lifetimes, Errors
    <3> QED BY <3>2 DEF Load, Loaded, Types
  <2>2. \A i \in 0 .. Items - 1 : i < nextItem[i % N] /\ i \notin buf[i % N]
    <3> SUFFICES ASSUME NEW i \in 0 .. Items - 1
                 PROVE  i < nextItem[i % N] /\ i \notin buf[i % N]
        OBVIOUS
    <3>1. i % N \in Workers /\ i < Items /\ i \in Nat  BY ItemsHaveOwners, ItemsAssumption
    <3> QED BY <2>1, <3>1, ItemsAssumption
  <2>3. \A i \in 0 .. Items - 1 : written[i] = 1
        BY <2>2 DEF Load, WrittenByTurn
  <2>4. Counted = 0 .. Items - 1
    <3>1. ASSUME NEW i \in 0 .. Items - 1 PROVE i \in Counted
      <4>1. i % N \in Workers  BY ItemsHaveOwners
      <4>2. i \in Mine(i % N) \ buf[i % N]  BY <2>2 DEF Mine
      <4> QED BY <4>1, <4>2 DEF Counted
    <3>2. Counted \subseteq 0 .. Items - 1  BY DEF Counted, Mine
    <3> QED BY <3>1, <3>2
  <2>5. Cardinality(0 .. Items - 1) = Items
        BY FS_Interval, ItemsAssumption
  <2>6. seeded = Items  BY <2>4, <2>5, CountedItems DEF Tally
  <2> QED BY <2>3, <2>6
<1> QED BY <1>1, TypesHold, LifetimesHold, LoadHolds, TallyHolds, PTL

-----------------------------------------------------------------------------
(* The samples                                                               *)

Samples ==
    /\ opc = "off" => prev = 0
    /\ opc # "off" => prev <= PrefixSum(prim, N)[N]
    /\ opc = "sum" => Underway(prim, N, prev, cur, ot)

LEMMA SamplesHold == Spec => []Samples
<1>1. Init => Samples  BY DEF Init, Samples
<1>2. Types /\ Types' /\ Lifetimes /\ Load /\ Samples /\ [Next]_vars => Samples'
  <2> SUFFICES ASSUME Types, Types', Lifetimes, Load, Samples, [Next]_vars PROVE Samples'
      OBVIOUS
  <2>t. /\ N \in Nat /\ Workers = 0 .. N - 1
        /\ prim \in [0 .. N - 1 -> Nat] /\ prim' \in [0 .. N - 1 -> Nat]
        /\ prev \in Nat /\ cur \in Nat /\ ot \in 0 .. N
        BY NAssumption DEF Types, Workers
  <2>1. ASSUME NEW w \in Workers, Worker(w) PROVE Samples'
    <3>1. UNCHANGED <<opc, ot, cur, prev>>
          BY <2>1 DEF Worker, LStart, LItem, LTail, LPut, LCount, LError, obsVars
    <3>2. \A t \in 0 .. N - 1 : prim[t] <= prim'[t]  BY <2>1, <2>t, WorkerLoads
    <3>3. /\ prev <= PrefixSum(prim, N)[N] => prev <= PrefixSum(prim', N)[N]
          /\ Underway(prim, N, prev, cur, ot) => Underway(prim', N, prev, cur, ot)
          BY <2>t, <3>2, Undisturbed
    <3> QED BY <3>1, <3>3 DEF Samples, Underway, PrefixSum
  <2>2. CASE PTick
    <3>1. opc = "wait" /\ opc' = "sum" /\ ot' = 0 /\ cur' = 0 /\ UNCHANGED <<prim, prev>>
          BY <2>2 DEF PTick, FreshSum, workerVars
    <3>2. prev <= PrefixSum(prim, N)[N] /\ Underway(prim, N, prev, 0, 0)
          BY <2>t, <3>1, Reading DEF Samples
    <3> QED BY <3>1, <3>2 DEF Samples, Underway
  <2>3. CASE PRead
    <3>1. /\ opc = "sum" /\ ot \in 0 .. N - 1 /\ ot' = ot + 1 /\ cur' = cur + prim[ot]
          /\ UNCHANGED <<opc, prim, prev>>
          BY <2>3, <2>t DEF PRead, workerVars
    <3>2. Underway(prim, N, prev, cur + prim[ot], ot + 1)
          BY <2>t, <3>1, Reading DEF Samples
    <3> QED BY <3>1, <3>2 DEF Samples, Underway
  <2>4. CASE PEmit
    <3>1. opc = "sum" /\ ot = N /\ prev' = cur /\ opc' = "wait" /\ UNCHANGED prim
          BY <2>4 DEF PEmit, workerVars
    <3>2. cur <= PrefixSum(prim, N)[N]  BY <2>t, <3>1, Reading DEF Samples
    <3> QED BY <3>1, <3>2 DEF Samples
  <2>5. CASE PExit  BY <2>5 DEF PExit, Samples
  <2>6. CASE MSpawn
    <3>1. UNCHANGED <<prim, ot, cur, prev>> /\ opc = "off" /\ opc' # "sum"
          BY <2>6 DEF MSpawn, Lifetimes
    <3>2. prev = 0  BY <3>1 DEF Samples
    <3>3. 0 <= PrefixSum(prim, N)[N]  BY <2>t, SumsOverWorkers
    <3> QED BY <3>1, <3>2, <3>3 DEF Samples
  <2>7. ASSUME UNCHANGED <<prim, opc, ot, cur, prev>> PROVE Samples'
        BY <2>7 DEF Samples, Underway
  <2>8. CASE MOpen \/ MProbe \/ MJoin \/ MReturn \/ UNCHANGED vars
        BY <2>7, <2>8 DEF MOpen, MProbe, MJoin, MReturn, vars, workerVars, obsVars
  <2> QED BY <2>1, <2>2, <2>3, <2>4, <2>5, <2>6, <2>8
          DEF Next, Main, Progress, Returned
<1> QED BY <1>1, <1>2, TypesHold, LifetimesHold, LoadHolds, PTL DEF Spec

\* The progress of a seeding never falls from tick to tick and never runs ahead
\* of the items the store was given, however the ticks and the workers
\* interleave.
THEOREM SeedProgressIsTrue == Spec => []SeedSamplesInOrder
<1>1. Types /\ Load /\ Samples => SeedSamplesInOrder
  <2> DEFINE W == {i \in 0 .. Items - 1 : written[i] > 0}
  <2> SUFFICES ASSUME Types, Load, Samples, opc = "sum", ot = N
               PROVE  prev <= cur /\ cur <= Cardinality(W)
      BY DEF SeedSamplesInOrder
  <2>t. /\ N \in Nat /\ prim \in [0 .. N - 1 -> Nat] /\ prev \in Nat /\ cur \in Nat
        BY NAssumption DEF Types, Workers
  <2>1. Underway(prim, N, prev, cur, N)  BY DEF Samples
  <2>2. prev <= cur /\ cur <= PrefixSum(prim, N)[N]  BY <2>t, <2>1, Reading
  <2>3. Counted \subseteq W
    <3> SUFFICES ASSUME NEW t \in Workers, NEW i \in Mine(t) \ buf[t]
                 PROVE  i \in W
        BY DEF Counted
    <3>1. /\ i \in 0 .. Items - 1 /\ i % N = t /\ i < nextItem[t] /\ i \notin buf[t]
          BY DEF Mine
    <3>2. written[i] = 1  BY <3>1 DEF Load, WrittenByTurn
    <3> QED BY <3>1, <3>2
  <2>4. IsFiniteSet(W)
    <3>1. IsFiniteSet(0 .. Items - 1)  BY FS_Interval, ItemsAssumption
    <3>2. W \in SUBSET (0 .. Items - 1)  OBVIOUS
    <3> HIDE DEF W
    <3> QED BY <3>1, <3>2, FS_Subset
  <2>5. Cardinality(Counted) <= Cardinality(W) /\ Cardinality(W) \in Nat
        BY <2>3, <2>4, FS_Subset, FS_CardinalityType
  <2>6. PrefixSum(prim, N)[N] = Cardinality(Counted) /\ Cardinality(Counted) \in Nat
        BY CountedItems, FS_CardinalityType
  <2> QED BY <2>t, <2>2, <2>5, <2>6
<1> QED BY <1>1, TypesHold, LoadHolds, SamplesHold, PTL

-----------------------------------------------------------------------------
(* The placement                                                             *)

\* kb_cpus lists the set, each CPU once.
LEMMA Enumerated ==
    ASSUME NEW S, S \subseteq Nat, IsFiniteSet(S), NEW e, NEW L, L = Cardinality(S),
           NEW q, q = kb_affinity_init(S, e).cpus
    PROVE  /\ L \in Nat /\ q \in [1 .. L -> S]
           /\ \A n, m \in 1 .. L : q[n] = q[m] => n = m
           /\ \A c \in S : \E n \in 1 .. L : q[n] = c
<1> DEFINE rank == [c \in S |-> Rank(S, c)]
<1>1. L \in Nat  BY FS_CardinalityType
<1>2. \A c \in S : Rank(S, c) \in 0 .. L - 1  BY RankInSet
<1>3. \A c, d \in S : Rank(S, c) = Rank(S, d) => c = d  BY RankOrder
<1>4. q = [n \in 1 .. L |-> CHOOSE c \in S : Cardinality({d \in S : d < c}) = n - 1]  BY DEF kb_affinity_init
<1>5. rank \in [S -> 0 .. L - 1] /\ \A c \in S : rank[c] = Rank(S, c)  BY <1>2
<1> HIDE DEF rank
<1>6. \A c, d \in S : rank[c] = rank[d] => c = d  BY <1>3, <1>5
<1>7. \A x \in 0 .. L - 1 : \E c \in S : rank[c] = x
  <2>1. rank \in Injection(S, 0 .. L - 1)  BY <1>5, <1>6 DEF Injection, IsInjective
  <2>2. 0 \in Int /\ L - 1 \in Int  BY <1>1
  <2>3. IsFiniteSet(0 .. L - 1) /\ Cardinality(0 .. L - 1) = IF 0 > L - 1 THEN 0 ELSE L - 1 - 0 + 1
        BY <2>2, FS_Interval
  <2>4. Cardinality(0 .. L - 1) = L  BY <1>1, <2>3
  <2>5. rank \in Surjection(S, 0 .. L - 1)  BY <2>1, <2>3, <2>4, FS_Injection
  <2> QED BY <2>5 DEF Surjection
<1>8. \A n \in 1 .. L : q[n] \in S /\ rank[q[n]] = n - 1
  <2> SUFFICES ASSUME NEW n \in 1 .. L PROVE q[n] \in S /\ rank[q[n]] = n - 1  OBVIOUS
  <2>1. n - 1 \in 0 .. L - 1  BY <1>1
  <2>2. \E c \in S : Rank(S, c) = n - 1  BY <1>5, <1>7, <2>1
  <2>3. q[n] = CHOOSE c \in S : Rank(S, c) = n - 1  BY <1>4 DEF Rank
  <2>4. q[n] \in S /\ Rank(S, q[n]) = n - 1  BY <2>2, <2>3
  <2> QED BY <1>5, <2>4
<1>9. q \in [1 .. L -> S]
  <2>1. DOMAIN q = 1 .. L /\ q = [n \in 1 .. L |-> q[n]]  BY <1>4
  <2> QED BY <1>8, <2>1
<1>10. \A n, m \in 1 .. L : q[n] = q[m] => n = m
  <2> SUFFICES ASSUME NEW n \in 1 .. L, NEW m \in 1 .. L, q[n] = q[m] PROVE n = m  OBVIOUS
  <2>1. n - 1 = m - 1  BY <1>8
  <2> QED BY <1>1, <2>1
<1>11. \A c \in S : \E n \in 1 .. L : q[n] = c
  <2> SUFFICES ASSUME NEW c \in S PROVE \E n \in 1 .. L : q[n] = c  OBVIOUS
  <2>1. PICK x \in 0 .. L - 1 : x = rank[c]  BY <1>5
  <2>2. x + 1 \in 1 .. L /\ (x + 1) - 1 = x  BY <1>1
  <2>3. q[x + 1] \in S /\ rank[q[x + 1]] = x  BY <1>8, <2>2
  <2> QED BY <1>6, <2>1, <2>2, <2>3
<1> QED BY <1>1, <1>9, <1>10, <1>11

\* The workers of a residue, and of another: their numbers differ by one at most.
Class(L, i) == {t \in Workers : t % L = i}

LEMMA EvenClasses ==
    ASSUME NEW L \in Nat \ {0}, NEW i \in 0 .. L - 1, NEW m \in 0 .. L - 1
    PROVE  Cardinality(Class(L, i)) <= Cardinality(Class(L, m)) + 1
<1> DEFINE C == Class(L, i)
           E == Class(L, m)
           D == C \ {i}
           f == [t \in D |-> t - L - i + m]
<1>1. IsFiniteSet(Workers)  BY NAssumption, FS_Interval DEF Workers
<1>2. IsFiniteSet(C) /\ IsFiniteSet(E)
  <2>1. C \in SUBSET Workers /\ E \in SUBSET Workers  BY DEF Class
  <2> HIDE DEF C, E
  <2> QED BY <1>1, <2>1, FS_Subset
<1>3. Cardinality(C) \in Nat /\ Cardinality(E) \in Nat  BY <1>2, FS_CardinalityType
<1>4. Cardinality(C) <= Cardinality(D) + 1
  <2> HIDE DEF C
  <2>1. Cardinality(C \ {i}) = IF i \in C THEN Cardinality(C) - 1 ELSE Cardinality(C)
        BY <1>2, FS_RemoveElement
  <2> QED BY <1>3, <2>1
<1>5. ASSUME NEW t \in D
      PROVE  f[t] \in E
  <2>1. t \in Workers /\ t \in Nat /\ t < N /\ t % L = i /\ t # i  BY NAssumption DEF Class, Workers
  <2>2. PICK x \in Nat : t = L * x + i
    <3>1. t \div L \in Nat /\ t = L * (t \div L) + (t % L)  BY <2>1, DivMod
    <3> QED BY <2>1, <3>1
  <2>3. x # 0
    <3>1. x = 0 => L * x + i = i  OBVIOUS
    <3> QED BY <2>1, <2>2, <3>1
  <2>4. PICK y \in Nat : x = y + 1
    <3>1. x - 1 \in Nat /\ x = (x - 1) + 1  BY <2>3
    <3> QED BY <3>1
  <2>5. L * x = L * y + L /\ L * y \in Nat  BY <2>4
  <2>6. f[t] = L * y + m
    <3>1. f[t] = t - L - i + m  OBVIOUS
    <3>2. t = L * y + L + i  BY <2>2, <2>5
    <3> HIDE DEF f
    <3> QED BY <2>5, <3>1, <3>2
  <2>7. L * y + m \in Nat /\ L * y + m < t  BY <2>2, <2>5
  <2>8. (L * y + m) % L = m
    <3>1. PICK z : z = L * y + m  OBVIOUS
    <3>2. z \in Nat  BY <2>7, <3>1
    <3>3. PICK v \in Nat, w \in 0 .. L - 1 : w = z % L /\ z = L * v + w
      <4>1. z \div L \in Nat /\ z % L \in 0 .. L - 1 /\ z = L * (z \div L) + (z % L)  BY <3>2, DivMod
      <4> QED BY <4>1
    <3>4. L * v + w = L * y + m  BY <3>1, <3>3
    <3>5. w = m  BY <3>4, DivModUnique
    <3> QED BY <3>1, <3>3, <3>5
  <2>9. L * y + m \in Workers  BY <2>1, <2>7, NAssumption DEF Workers
  <2> HIDE DEF f
  <2> QED BY <2>6, <2>8, <2>9 DEF Class
<1>6. f \in Injection(D, E)
  <2>1. f \in [D -> E]
    <3>1. DOMAIN f = D /\ f = [t \in D |-> f[t]]  OBVIOUS
    <3> HIDE DEF f, D, E
    <3> QED BY <1>5, <3>1
  <2>2. \A t, u \in D : f[t] = f[u] => t = u
    <3>1. \A t \in D : t \in Nat  BY NAssumption DEF Class, Workers
    <3> HIDE DEF D
    <3> QED BY <3>1
  <2> HIDE DEF f, D, E
  <2> QED BY <2>1, <2>2 DEF Injection, IsInjective
<1>7. Cardinality(D) <= Cardinality(E) /\ Cardinality(D) \in Nat
  <2> HIDE DEF f, D, E
  <2>1. IsFiniteSet(D) /\ Cardinality(D) <= Cardinality(E)  BY <1>2, <1>6, FS_Injection
  <2> QED BY <2>1, FS_CardinalityType
<1> HIDE DEF C, D, E
<1>8. Cardinality(C) <= Cardinality(E) + 1  BY <1>3, <1>4, <1>7
<1> QED BY <1>8 DEF C, E

\* The list is made at startup, and a worker is bound by it or not at all.
Placed ==
    /\ aff = kb_affinity_init(cfg.place.mask, cfg.place.pin)
    /\ DOMAIN cpu = Workers
    /\ \A t \in Workers : cpu[t] = Unpinned \/ (cfg.place.pin /\ aff.enabled /\ cpu[t] = Target(aff, t))

LEMMA PlacedHolds == Spec => []Placed
<1>1. Init => Placed  BY DEF Init, Placed
<1>2. Placed /\ [Next]_vars => Placed'
  <2> SUFFICES ASSUME Placed, [Next]_vars PROVE Placed'  OBVIOUS
  <2>1. ASSUME UNCHANGED <<cfg, aff, cpu>> PROVE Placed'
        BY <2>1 DEF Placed, Target
  <2>2. ASSUME NEW t \in Workers, LStart(t) PROVE Placed'
    <3>1. cfg' = cfg /\ aff' = aff  BY <2>2 DEF LStart
    <3>2. /\ DOMAIN cpu' = Workers /\ \A u \in Workers : u # t => cpu'[u] = cpu[u]
          /\ cpu'[t] = IF cfg.place.pin THEN kb_pin_self(aff, t, cfg.place.gone) ELSE cpu[t]
          BY <2>2 DEF LStart, Placed
    <3>3. \/ kb_pin_self(aff, t, cfg.place.gone) = Unpinned
          \/ aff.enabled /\ kb_pin_self(aff, t, cfg.place.gone) = Target(aff, t)
          BY DEF kb_pin_self
    <3>4. \A u \in Workers : Target(aff, u)' = Target(aff, u)  BY <3>1 DEF Target
    <3> QED BY <3>1, <3>2, <3>3, <3>4 DEF Placed
  <2>3. CASE Main  BY <2>1, <2>3 DEF Main, MOpen, MProbe, MSpawn, MJoin, MReturn, workerVars
  <2>4. ASSUME NEW t \in Workers, LItem(t) \/ LTail(t) \/ LPut(t) \/ LCount(t) \/ LError(t) PROVE Placed'
        BY <2>1, <2>4 DEF LItem, LTail, LPut, LCount, LError
  <2>5. CASE Progress  BY <2>1, <2>5 DEF Progress, PTick, PRead, PEmit, PExit, workerVars
  <2>6. CASE UNCHANGED vars  BY <2>1, <2>6 DEF vars, workerVars
  <2> QED BY <2>2, <2>3, <2>4, <2>5, <2>6 DEF Next, Worker, Returned
<1> QED BY <1>1, <1>2, PTL DEF Spec

\* For any set of CPUs and any number of workers: --pin keeps to the CPUs the
\* process was given, and no CPU has two workers more than another.
THEOREM PlacementIsEven == Spec => []EvenPlacement
<1>1. Types /\ Placed => EvenPlacement
  <2> SUFFICES ASSUME Types, Placed PROVE EvenPlacement  OBVIOUS
  <2>1. PICK S, L, q : S = cfg.place.mask /\ L = Cardinality(S) /\ q = aff.cpus  OBVIOUS
  <2>2. S \subseteq Nat /\ IsFiniteSet(S)
    <3>1. cfg.place \in Places  BY DEF Types
    <3> QED BY <2>1, <3>1, PlacesAssumption
  <2>3. /\ L \in Nat /\ q \in [1 .. L -> S]
        /\ \A n, m \in 1 .. L : q[n] = q[m] => n = m
        /\ \A c \in S : \E n \in 1 .. L : q[n] = c
        BY <2>1, <2>2, Enumerated DEF Placed
  <2>4. Len(q) = L
    <3>1. q \in Seq(S)  BY <2>3
    <3> QED BY <2>3, <3>1
  <2>5. aff.enabled => S # {} /\ L # 0
    <3>1. aff.enabled => S # {}  BY <2>1 DEF Placed, kb_affinity_init
    <3> QED BY <2>1, <2>2, <3>1, FS_EmptySet
  <2>6. ASSUME NEW t \in Workers, cpu[t] # Unpinned
        PROVE  /\ cfg.place.pin /\ L \in Nat \ {0} /\ t % L \in 0 .. L - 1
               /\ cpu[t] = q[(t % L) + 1] /\ cpu[t] \in S
    <3>1. cfg.place.pin /\ L \in Nat \ {0} /\ cpu[t] = Target(aff, t)  BY <2>3, <2>5, <2>6 DEF Placed
    <3>2. t \in Nat  BY NAssumption DEF Workers
    <3>3. t % L \in 0 .. L - 1  BY <3>1, <3>2, DivMod
    <3>4. cpu[t] = q[(t % L) + 1]  BY <2>1, <2>4, <3>1 DEF Target
    <3>5. (t % L) + 1 \in 1 .. L  BY <3>1, <3>3
    <3>6. cpu[t] \in S  BY <2>3, <3>4, <3>5
    <3> QED BY <3>1, <3>3, <3>4, <3>6
  <2>7. ASSUME On(Unpinned) = {}, NEW c \in S, NEW d \in S
        PROVE  Cardinality(On(c)) <= Cardinality(On(d)) + 1
    <3>1. \A t \in Workers : cpu[t] # Unpinned  BY <2>7 DEF On
    <3>2. L \in Nat \ {0}
      <4>1. 0 \in Workers  BY NAssumption DEF Workers
      <4> QED BY <2>6, <3>1, <4>1
    <3>3. ASSUME NEW x \in S
          PROVE  \E i \in 0 .. L - 1 : On(x) = Class(L, i)
      <4>1. PICK n \in 1 .. L : q[n] = x  BY <2>3
      <4>2. PICK i \in 0 .. L - 1 : n = i + 1
        <5>1. n - 1 \in 0 .. L - 1 /\ n = (n - 1) + 1  BY <3>2
        <5> QED BY <5>1
      <4>3. \A t \in Workers : cpu[t] = x <=> t % L = i
        <5> SUFFICES ASSUME NEW t \in Workers PROVE cpu[t] = x <=> t % L = i  OBVIOUS
        <5>1. PICK z \in 0 .. L - 1 : z = t % L /\ cpu[t] = q[z + 1]  BY <2>6, <3>1
        <5>2. z + 1 \in 1 .. L /\ i + 1 \in 1 .. L  BY <3>2
        <5>3. q[z + 1] = q[i + 1] <=> z + 1 = i + 1  BY <2>3, <5>2
        <5>4. z + 1 = i + 1 <=> z = i  OBVIOUS
        <5> QED BY <4>1, <4>2, <5>1, <5>3, <5>4
      <4> QED BY <4>3 DEF On, Class
    <3>4. PICK i \in 0 .. L - 1 : On(c) = Class(L, i)  BY <2>7, <3>3
    <3>5. PICK m \in 0 .. L - 1 : On(d) = Class(L, m)  BY <2>7, <3>3
    <3> QED BY <3>2, <3>4, <3>5, EvenClasses
  <2> QED BY <2>1, <2>6, <2>7 DEF EvenPlacement
<1> QED BY <1>1, TypesHold, PlacedHolds, PTL
=============================================================================
