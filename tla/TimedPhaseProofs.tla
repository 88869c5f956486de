--------------------------- MODULE TimedPhaseProofs ---------------------------
(***************************************************************************)
(* What holds of measure_timed and its threads for every number of         *)
(* threads, repeats and operations; and, in the last parts, of the         *)
(* latency histograms its workers fill and main merges, Hist.              *)
(***************************************************************************)
EXTENDS TimedPhase, Hist, CountingProofs, TLAPS

-----------------------------------------------------------------------------
(* The types                                                                 *)

LEMMA WorkerType ==
    ASSUME TypeOK, NEW t \in Workers, Worker(t) \/ Deadline(t)
    PROVE  TypeOK'
<1> USE BoundsAssumption DEF TypeOK, mainVars, obsVars
<1>1. CASE WStart(t)  BY <1>1 DEF WStart
<1>2. CASE WBreak(t)  BY <1>2 DEF WBreak
<1>3. CASE WCall(t)   BY <1>3 DEF WCall
<1>4. CASE WVerb(t)   BY <1>4 DEF WVerb
<1>5. CASE WUnit(t)   BY <1>5 DEF WUnit
<1>6. CASE WError(t)  BY <1>6 DEF WError
<1>7. CASE WLast(t)   BY <1>7 DEF WLast
<1>8. CASE Deadline(t) BY <1>8 DEF Deadline
<1> QED BY <1>1, <1>2, <1>3, <1>4, <1>5, <1>6, <1>7, <1>8 DEF Worker

LEMMA ObserverType ==
    ASSUME TypeOK, NEW o \in Observers, Observer(o)
    PROVE  TypeOK'
<1> USE NAssumption DEF TypeOK, mainVars, workerVars, Zero
<1>1. CASE OTick(o)  BY <1>1 DEF OTick
<1>2. CASE OExit(o)  BY <1>2 DEF OExit
<1>3. CASE ORead(o)
  <2> DEFINE c == [units |-> cur[o].units + units[ot[o]],
                   prim  |-> IF o = "sampler" THEN cur[o].prim + prim[ot[o]] ELSE 0]
  <2>1. ot[o] \in Workers  BY <1>3 DEF ORead, Workers
  <2>2. c \in [units : Nat, prim : Nat]  BY <2>1
  <2>3. cur' = [cur EXCEPT ![o] = c]  BY <1>3 DEF ORead
  <2>4. cur' \in [Observers -> [units : Nat, prim : Nat]]  BY <2>2, <2>3
  <2>5. ot' \in [Observers -> 0 .. N]  BY <1>3 DEF ORead
  <2> QED BY <1>3, <2>4, <2>5 DEF ORead
<1>4. CASE OEmit(o)  BY <1>4 DEF OEmit
<1> QED BY <1>1, <1>2, <1>3, <1>4 DEF Observer

LEMMA MainType ==
    ASSUME TypeOK, Main
    PROVE  TypeOK'
<1>j. /\ j \in 0 .. N /\ mpc \in MainPcs
      /\ j < N => j \in Workers /\ j + 1 \in 0 .. N
      /\ 0 \in 0 .. N
      BY NAssumption DEF TypeOK, Workers
<1>s. ASSUME MSpawn PROVE j' \in 0 .. N /\ mpc' \in MainPcs
      BY <1>j, <1>s DEF MSpawn, MainPcs
<1> USE NAssumption DEF TypeOK, MainPcs, workerVars, obsVars
<1>1. CASE MBegin
  <2>1. /\ wpc' \in [Workers -> {"off", "start", "loop", "run", "last", "exited"}]
        /\ verbs' \in [Workers -> 0 .. MaxVerbs]
        /\ err' \in [Workers -> BOOLEAN]
        BY <1>1, BoundsAssumption DEF MBegin
  <2>2. /\ n' \in [Workers -> Nat] /\ units' \in [Workers -> Nat]
        /\ prim' \in [Workers -> Nat]
        BY <1>1 DEF MBegin, Zeroed
  <2>3. R' \in [units : Nat, prim : Nat, ok : BOOLEAN] /\ j' \in 0 .. N
        BY <1>1 DEF MBegin
  <2> QED BY <1>1, <2>1, <2>2, <2>3 DEF MBegin
<1>2. CASE MSpawn
  <2>1. j' \in 0 .. N /\ mpc' \in MainPcs  BY <1>2, <1>s
  <2>2. wpc' \in [Workers -> {"off", "start", "loop", "run", "last", "exited"}]
        BY <1>2 DEF MSpawn
  <2> QED BY <1>2, <2>1, <2>2 DEF MSpawn
<1>3. CASE MWatch
  <2>1. /\ opc' \in [Observers -> {"off", "wait", "sum"}]
        /\ stop' \in [Observers -> BOOLEAN]
        BY <1>3 DEF MWatch
  <2>2. /\ ot' \in [Observers -> 0 .. N]
        /\ cur' \in [Observers -> [units : Nat, prim : Nat]]
        /\ prev' \in [Observers -> [units : Nat, prim : Nat]]
        BY <1>3 DEF MWatch, Zero
  <2> QED BY <1>3, <2>1, <2>2 DEF MWatch
<1>4. CASE MJoin
  <2>1. j' \in 0 .. N /\ mpc' \in MainPcs  BY <1>4, <1>j DEF MJoin
  <2> QED BY <1>4, <2>1 DEF MJoin
<1>5. CASE MStop("sampler", "stop sampler", "join sampler")  BY <1>5 DEF MStop
<1>6. CASE MStop("progress", "stop progress", "join progress")  BY <1>6 DEF MStop
<1>7. CASE MJoinObserver("sampler", "join sampler", "stop progress")
      BY <1>7 DEF MJoinObserver
<1>8. CASE MJoinObserver("progress", "join progress", "merge")
      BY <1>8 DEF MJoinObserver
<1>9. CASE MMerge
  <2>1. CASE j < N
    <3>1. j \in Workers  BY <1>j, <2>1
    <3>2. OkSoFar(j) \in BOOLEAN  BY DEF OkSoFar
    <3>3. R' \in [units : Nat, prim : Nat, ok : BOOLEAN]
          BY <1>9, <2>1, <3>1, <3>2 DEF MMerge
    <3> QED BY <1>9, <2>1, <3>3 DEF MMerge
  <2>2. CASE ~(j < N)  BY <1>9, <2>2 DEF MMerge
  <2> QED BY <2>1, <2>2
<1>10. CASE MRepeat  BY <1>10, RepeatAssumption DEF MRepeat, MoreRepeats
<1>11. CASE MReport  BY <1>11 DEF MReport
<1>12. CASE MClose   BY <1>12 DEF MClose
<1> QED BY <1>1, <1>2, <1>3, <1>4, <1>5, <1>6, <1>7, <1>8, <1>9, <1>10, <1>11, <1>12
        DEF Main

\* The counters, flags and indices of measure_timed and of its threads keep
\* their types and bounds, whatever N, Repeat and the bounds are.
THEOREM TypeCorrect == Spec => []TypeOK
<1>1. Init => TypeOK
      BY NAssumption, RepeatAssumption, BoundsAssumption
      DEF Init, TypeOK, MainPcs, Zero
<1>2. TypeOK /\ [Next]_vars => TypeOK'
  <2> SUFFICES ASSUME TypeOK, [Next]_vars PROVE TypeOK'  OBVIOUS
  <2>1. CASE Main  BY <2>1, MainType
  <2>2. CASE \E t \in Workers : Worker(t) \/ Deadline(t)  BY <2>2, WorkerType
  <2>3. CASE \E o \in Observers : Observer(o)  BY <2>3, ObserverType
  <2>4. CASE UNCHANGED vars
        BY <2>4 DEF TypeOK, vars, mainVars, workerVars, obsVars
  <2> QED BY <2>1, <2>2, <2>3, <2>4 DEF Next, Ended
<1> QED BY <1>1, <1>2, PTL DEF Spec

-----------------------------------------------------------------------------
(* The lifetimes of the threads                                              *)

\* Main has joined the workers, and then the observers too.
Joined1 == {"stop sampler", "join sampler", "stop progress", "join progress"}
Joined2 == {"merge", "after", "reported", "end"}

\* Where the main thread is tells which threads can still be there: none before
\* the spawns, no worker below j in the join loop, none at all after the last
\* join; and what the array and the store are.
Lifetimes ==
    /\ mpc = "begin" => \A t \in Workers : ~Running(t)
    /\ mpc = "watch" => j = 0
    /\ mpc = "join" => \A t \in Workers : t < j => wpc[t] = "exited"
    /\ mpc \in Joined1 \cup Joined2 => \A t \in Workers : wpc[t] = "exited"
    /\ mpc \in {"begin", "spawn", "watch"} => \A o \in Observers : opc[o] = "off"
    /\ mpc \in {"stop progress", "join progress"} \cup Joined2 => opc["sampler"] = "off"
    /\ mpc \in Joined2 => opc["progress"] = "off"
    /\ mpc \notin {"begin", "after", "reported", "end"} => ws = "live"
    /\ store = "closed" => mpc = "end"

LEMMA WorkerLifetimes ==
    ASSUME TypeOK, Lifetimes, NEW w \in Workers, Worker(w) \/ Deadline(w)
    PROVE  Lifetimes'
<1>1. UNCHANGED <<mpc, j, store, ws, opc>>
      BY DEF Worker, WStart, WBreak, WCall, WVerb, WUnit, WError, WLast, Deadline,
             mainVars, obsVars
<1>2. /\ mpc # "begin"
      /\ wpc[w] # "exited" /\ wpc[w] \in {"start", "loop", "run", "last"}
      BY DEF Worker, WStart, WBreak, WCall, WVerb, WUnit, WError, WLast, Deadline,
             Lifetimes, Running
<1>3. \A t \in Workers : t # w => wpc'[t] = wpc[t]
      BY DEF TypeOK, Worker, WStart, WBreak, WCall, WVerb, WUnit, WError, WLast, Deadline
<1> QED BY <1>1, <1>2, <1>3 DEF Lifetimes

LEMMA ObserverLifetimes ==
    ASSUME TypeOK, Lifetimes, NEW w \in Observers, Observer(w)
    PROVE  Lifetimes'
<1>1. UNCHANGED <<mpc, j, store, ws, wpc>>
      BY DEF Observer, OTick, OExit, ORead, OEmit, mainVars, workerVars
<1>2. opc[w] # "off"
      BY DEF Observer, OTick, OExit, ORead, OEmit
<1>3. \A o \in Observers : o # w => opc'[o] = opc[o]
      BY DEF TypeOK, Observer, OTick, OExit, ORead, OEmit
<1>4. \A o \in Observers : opc[o] = "off" => opc'[o] = "off"
      BY <1>2, <1>3
<1>5. "sampler" \in Observers /\ "progress" \in Observers
      BY DEF Observers
<1> QED BY <1>1, <1>4, <1>5 DEF Lifetimes, Running

LEMMA MainLifetimes ==
    ASSUME TypeOK, Lifetimes, Main
    PROVE  Lifetimes'
<1>j. /\ \A t \in Workers : t < N /\ ~(t < 0) /\ (t < j + 1 => t < j \/ t = j)
      /\ ~(j < N) => j = N
      BY NAssumption DEF TypeOK, Workers
<1> USE DEF Lifetimes, Running, Joined1, Joined2, workerVars, obsVars
<1>1. CASE MBegin   BY <1>1 DEF MBegin
<1>2. CASE MSpawn
  <2>1. mpc' \in {"spawn", "watch"}  BY <1>2 DEF MSpawn
  <2> QED BY <1>2, <2>1 DEF MSpawn
<1>3. CASE MWatch   BY <1>3, <1>j DEF MWatch
<1>4. CASE MJoin
  <2>1. CASE j < N
    <3>1. \A t \in Workers : t < j' => wpc'[t] = "exited"
          BY <1>4, <1>j, <2>1 DEF MJoin
    <3> QED BY <1>4, <2>1, <3>1 DEF MJoin
  <2>2. CASE ~(j < N)  BY <1>4, <1>j, <2>2 DEF MJoin
  <2> QED BY <2>1, <2>2
<1>5. CASE MStop("sampler", "stop sampler", "join sampler")  BY <1>5 DEF MStop
<1>6. CASE MStop("progress", "stop progress", "join progress")  BY <1>6 DEF MStop
<1>7. CASE MJoinObserver("sampler", "join sampler", "stop progress")
      BY <1>7 DEF MJoinObserver, Joined
<1>8. CASE MJoinObserver("progress", "join progress", "merge")
      BY <1>8 DEF MJoinObserver, Joined
<1>9. CASE MMerge    BY <1>9 DEF MMerge
<1>10. CASE MRepeat
  <2>1. \A o \in Observers : opc[o] = "off"  BY <1>10 DEF MRepeat, Observers
  <2> QED BY <1>10, <2>1 DEF MRepeat
<1>11. CASE MReport  BY <1>11 DEF MReport
<1>12. CASE MClose   BY <1>12 DEF MClose
<1> QED BY <1>1, <1>2, <1>3, <1>4, <1>5, <1>6, <1>7, <1>8, <1>9, <1>10, <1>11, <1>12
        DEF Main

LEMMA LifetimesHold == Spec => []Lifetimes
<1>1. Init => Lifetimes
      BY DEF Init, Lifetimes, Running, Joined1, Joined2
<1>2. TypeOK /\ Lifetimes /\ [Next]_vars => Lifetimes'
  <2> SUFFICES ASSUME TypeOK, Lifetimes, [Next]_vars PROVE Lifetimes'  OBVIOUS
  <2>1. CASE Main  BY <2>1, MainLifetimes
  <2>2. CASE \E t \in Workers : Worker(t) \/ Deadline(t)  BY <2>2, WorkerLifetimes
  <2>3. CASE \E o \in Observers : Observer(o)  BY <2>3, ObserverLifetimes
  <2>4. CASE UNCHANGED vars
        BY <2>4 DEF Lifetimes, Running, vars, mainVars, workerVars, obsVars
  <2> QED BY <2>1, <2>2, <2>3, <2>4 DEF Next, Ended
<1> QED BY <1>1, <1>2, TypeCorrect, PTL DEF Spec

\* No worker, sampler or progress thread touches the worker array after the
\* free, the stop flag in measure_timed's frame after its return, or the store
\* after store_close: for any number of threads and repeats, main has joined
\* every one of them by then.
THEOREM ThreadsAreJoined == Spec => []NoThreadOutlives
<1>1. Lifetimes /\ TypeOK => NoThreadOutlives
  <2> SUFFICES ASSUME Lifetimes, TypeOK PROVE NoThreadOutlives  OBVIOUS
  <2>1. ASSUME NEW t \in Workers, Running(t)
        PROVE  mpc \in {"spawn", "watch", "join"}
        BY <2>1 DEF Lifetimes, Running, TypeOK, MainPcs, Joined1, Joined2
  <2>2. ASSUME NEW o \in Observers, Watching(o)
        PROVE  mpc \in {"join"} \cup Joined1
        BY <2>2 DEF Lifetimes, Watching, TypeOK, MainPcs, Joined1, Joined2, Observers
  <2>3. mpc \in {"spawn", "watch", "join"} \cup Joined1 =>
           /\ ws = "live" /\ store = "open"
           /\ mpc \notin {"begin", "merge", "after", "reported", "end"}
        BY DEF Lifetimes, TypeOK, Joined1
  <2> QED BY <2>1, <2>2, <2>3 DEF NoThreadOutlives
<1> QED BY <1>1, LifetimesHold, TypeCorrect, PTL

-----------------------------------------------------------------------------
(* The budget                                                                *)

\* What the first i workers are given, without a sum.
Share(i) == i * (cfg.ops \div N) + (IF i < cfg.ops % N THEN i ELSE cfg.ops % N)

\* A worker without an error leaves its loop with its quota done.
WorkerLedger ==
    \A t \in Workers :
        /\ wpc[t] \in {"off", "start"} => n[t] = 0
        /\ wpc[t] = "loop" => n[t] <= Quota(t)
        /\ wpc[t] = "run" => n[t] < Quota(t)
        /\ wpc[t] = "last" /\ ~err[t] => n[t] = Quota(t)
        /\ wpc[t] = "exited" /\ ~err[t] => units[t] = Quota(t)

\* The merge loop has added up the shares of the workers below j.
MainLedger ==
    /\ mpc = "spawn" => \A t \in Workers : t >= j => wpc[t] = "off"
    /\ mpc \in {"spawn", "watch", "join"} \cup Joined1 => R.units = 0
    /\ mpc \in Joined1 => j = 0
    /\ mpc = "merge" /\ (j = 0 \/ R.ok) => R.units = Share(j)
    /\ mpc \in {"after", "reported"} /\ R.ok => R.units = cfg.ops

Ledger == ~cfg.timed => WorkerLedger /\ MainLedger

\* The shares add up the quotas, and to the whole budget: no unit is dropped
\* and none is given twice by the division with remainder.
LEMMA SharesAddUp ==
    ASSUME cfg \in Config
    PROVE  /\ Share(0) = 0
           /\ \A i \in Workers : Quota(i) \in Nat /\ Share(i + 1) = Share(i) + Quota(i)
           /\ Share(N) = cfg.ops
<1> DEFINE q == cfg.ops \div N
           r == cfg.ops % N
<1>1. cfg.ops \in OpsGiven \/ cfg.ops = 0  BY DEF Config
<1>2. q \in Nat /\ r \in 0 .. N - 1 /\ cfg.ops = N * q + r
      BY <1>1, BoundsAssumption, DivMod, NAssumption
<1> HIDE DEF q, r
<1>3. \A i : Share(i) = i * q + (IF i < r THEN i ELSE r)  BY DEF Share, q, r
<1>4. \A i : Quota(i) = q + (IF i < r THEN 1 ELSE 0)  BY DEF Quota, q, r
<1>5. Share(0) = 0  BY <1>2, <1>3, NAssumption
<1>6. ASSUME NEW i \in Workers
      PROVE  Quota(i) \in Nat /\ Share(i + 1) = Share(i) + Quota(i)
  <2>1. i \in Nat  BY NAssumption DEF Workers
  <2>2. (i + 1) * q = i * q + q /\ i * q \in Nat  BY <1>2, <2>1
  <2>3. r \in Nat  BY <1>2, NAssumption
  <2>4. Share(i) = i * q + (IF i < r THEN i ELSE r)  BY <1>3
  <2>5. Share(i + 1) = i * q + q + (IF i + 1 < r THEN i + 1 ELSE r)  BY <1>3, <2>2
  <2>6. Quota(i) = q + (IF i < r THEN 1 ELSE 0)  BY <1>4
  <2> DEFINE p == i * q
  <2> HIDE DEF p
  <2>7. p \in Nat /\ p = i * q  BY <2>2 DEF p
  <2>8. Quota(i) \in Nat  BY <1>2, <2>6
  <2>9. Share(i + 1) = Share(i) + Quota(i)
    <3>1. CASE i < r
          BY <1>2, <2>1, <2>3, <2>4, <2>5, <2>6, <2>7, <3>1
    <3>2. CASE ~(i < r)
          BY <1>2, <2>1, <2>3, <2>4, <2>5, <2>6, <2>7, <3>2
    <3> QED BY <3>1, <3>2
  <2> QED BY <2>8, <2>9
<1>7. Share(N) = cfg.ops  BY <1>2, <1>3, NAssumption
<1> QED BY <1>5, <1>6, <1>7

LEMMA WorkerStepLedger ==
    ASSUME TypeOK, WorkerLedger, MainLedger, ~cfg.timed,
           NEW w \in Workers, Worker(w) \/ Deadline(w)
    PROVE  WorkerLedger' /\ MainLedger'
<1>0. \A a, b \in Nat : a >= b /\ a <= b => a = b  OBVIOUS
<1>1. UNCHANGED <<cfg, mpc, j, R>>
      BY DEF Worker, WStart, WBreak, WCall, WVerb, WUnit, WError, WLast, Deadline, mainVars
<1>2. \A t \in Workers : Quota(t) \in Nat  BY SharesAddUp DEF TypeOK
<1>3. \A t \in Workers : Quota(t)' = Quota(t)  BY <1>1 DEF Quota
<1>4. \A i : Share(i)' = Share(i)  BY <1>1 DEF Share
<1>5. /\ wpc[w] # "off"
      /\ \A t \in Workers : t # w => /\ wpc'[t] = wpc[t] /\ n'[t] = n[t]
                                     /\ units'[t] = units[t] /\ err'[t] = err[t]
      BY DEF TypeOK, Worker, WStart, WBreak, WCall, WVerb, WUnit, WError, WLast, Deadline
<1>6. \A t \in Workers : wpc[t] = "off" => wpc'[t] = "off"  BY <1>5
<1>7. MainLedger'
      BY <1>1, <1>4, <1>6 DEF MainLedger
<1>8. /\ wpc'[w] \in {"off", "start"} => n'[w] = 0
      /\ wpc'[w] = "loop" => n'[w] <= Quota(w)
      /\ wpc'[w] = "run" => n'[w] < Quota(w)
      /\ wpc'[w] = "last" /\ ~err'[w] => n'[w] = Quota(w)
      /\ wpc'[w] = "exited" /\ ~err'[w] => units'[w] = Quota(w)
  <2> USE <1>2 DEF TypeOK, WorkerLedger
  <2>1. CASE WStart(w)  BY <2>1 DEF WStart
  <2>2. CASE WBreak(w)
    <3>1. n[w] \in Nat /\ n[w] >= Quota(w) /\ n[w] <= Quota(w)
          BY <2>2 DEF WBreak, OutOfBudget
    <3>2. n[w] = Quota(w)  BY <1>0, <1>2, <3>1
    <3> QED BY <2>2, <3>2 DEF WBreak
  <2>3. CASE WCall(w)   BY <2>3 DEF WCall, OutOfBudget
  <2>4. CASE WVerb(w)   BY <2>4 DEF WVerb
  <2>5. CASE WUnit(w)   BY <2>5 DEF WUnit
  <2>6. CASE WError(w)  BY <2>6 DEF WError
  <2>7. CASE WLast(w)   BY <2>7 DEF WLast
  <2>8. CASE Deadline(w)  BY <2>8 DEF Deadline
  <2> QED BY <2>1, <2>2, <2>3, <2>4, <2>5, <2>6, <2>7, <2>8 DEF Worker
<1>9. WorkerLedger'
      BY <1>3, <1>5, <1>8 DEF WorkerLedger
<1> QED BY <1>7, <1>9

LEMMA MainStepLedger ==
    ASSUME TypeOK, Lifetimes, WorkerLedger, MainLedger, ~cfg.timed, Main
    PROVE  WorkerLedger' /\ MainLedger'
<1>c. cfg' = cfg
      BY DEF Main, MBegin, MSpawn, MWatch, MJoin, MStop, MJoinObserver, MMerge,
             MRepeat, MReport, MClose
<1>q. \A t \in Workers : Quota(t)' = Quota(t)  BY <1>c DEF Quota
<1>s. \A i : Share(i)' = Share(i)  BY <1>c DEF Share
<1>n. /\ j \in 0 .. N /\ R.units \in Nat
      /\ j < N => j \in Workers
      /\ ~(j < N) => j = N /\ j # 0
      /\ \A t \in Workers : t >= 0 /\ (t >= j + 1 => t >= j /\ t # j)
      BY NAssumption DEF TypeOK, Workers
<1>1. CASE MBegin
  <2>1. WorkerLedger'  BY <1>1 DEF MBegin, WorkerLedger
  <2>2. MainLedger'  BY <1>1 DEF MBegin, MainLedger, Joined1
  <2> QED BY <2>1, <2>2
<1>2. CASE MSpawn
  <2>1. CASE j < N
    <3>1. /\ wpc' = [wpc EXCEPT ![j] = "start"] /\ j' = j + 1 /\ mpc' = "spawn"
          /\ mpc = "spawn" /\ UNCHANGED <<n, units, err, R>>
          BY <1>2, <2>1 DEF MSpawn
    <3>2. wpc[j] = "off"  BY <1>n, <2>1, <3>1 DEF MainLedger, TypeOK
    <3>3. WorkerLedger'  BY <1>q, <1>n, <2>1, <3>1, <3>2 DEF WorkerLedger, TypeOK
    <3>4. \A t \in Workers : t >= j' => wpc'[t] = "off"
          BY <1>n, <3>1 DEF MainLedger, TypeOK
    <3>5. MainLedger'  BY <3>1, <3>4 DEF MainLedger, Joined1
    <3> QED BY <3>3, <3>5
  <2>2. CASE ~(j < N)
    <3>1. mpc' = "watch" /\ mpc = "spawn" /\ UNCHANGED <<wpc, n, units, err, R>>
          BY <1>2, <2>2 DEF MSpawn
    <3> QED BY <1>q, <3>1 DEF WorkerLedger, MainLedger, Joined1
  <2> QED BY <2>1, <2>2
<1>3. CASE MMerge
  <2>1. WorkerLedger'  BY <1>3, <1>q DEF MMerge, WorkerLedger, workerVars
  <2>2. CASE j < N
    <3>1. /\ R' = [units |-> R.units + units[j], prim |-> R.prim + prim[j],
                   ok |-> OkSoFar(j)]
          /\ j' = j + 1 /\ mpc' = "merge" /\ mpc = "merge"
          BY <1>3, <2>2 DEF MMerge
    <3>2. wpc[j] = "exited"  BY <1>n, <2>2, <3>1 DEF Lifetimes, Joined2
    <3>3. ASSUME R'.ok PROVE R'.units = Share(j')
      <4>1. (j = 0 \/ R.ok) /\ ~err[j]  BY <3>1, <3>3 DEF OkSoFar
      <4>2. R.units = Share(j)  BY <3>1, <4>1 DEF MainLedger
      <4>3. units[j] = Quota(j)  BY <1>n, <2>2, <3>2, <4>1 DEF WorkerLedger
      <4>4. Share(j + 1) = Share(j) + Quota(j)  BY <1>n, <2>2, SharesAddUp DEF TypeOK
      <4> QED BY <3>1, <4>2, <4>3, <4>4
    <3>4. j' # 0  BY <1>n, <3>1
    <3>5. MainLedger'  BY <1>s, <3>1, <3>3, <3>4 DEF MainLedger, Joined1
    <3> QED BY <2>1, <3>5
  <2>3. CASE ~(j < N)
    <3>1. mpc' = "after" /\ mpc = "merge" /\ R' = R  BY <1>3, <2>3 DEF MMerge
    <3>2. R.ok => R.units = cfg.ops
          BY <1>n, <2>3, <3>1, SharesAddUp DEF MainLedger, TypeOK
    <3>3. MainLedger'  BY <1>c, <3>1, <3>2 DEF MainLedger, Joined1
    <3> QED BY <2>1, <3>3
  <2> QED BY <2>2, <2>3
<1>4. CASE MJoinObserver("progress", "join progress", "merge")
  <2>1. /\ mpc = "join progress" /\ mpc' = "merge"
        /\ UNCHANGED <<j, R, wpc, n, units, err>>
        BY <1>4 DEF MJoinObserver, workerVars
  <2>2. R.units = Share(0) /\ j = 0
        BY <2>1, SharesAddUp DEF MainLedger, Joined1, TypeOK
  <2>3. MainLedger'  BY <1>s, <2>1, <2>2 DEF MainLedger, Joined1
  <2> QED BY <1>q, <2>1, <2>3 DEF WorkerLedger
<1>5. ASSUME UNCHANGED <<R, workerVars>>, mpc' \notin {"spawn", "merge"},
             mpc' \in Joined1 => j' = 0,
             mpc' \in {"watch", "join"} \cup Joined1 => mpc \in {"watch", "join"} \cup Joined1,
             mpc' \in {"after", "reported"} => mpc \in {"after", "reported"}
      PROVE  WorkerLedger' /\ MainLedger'
      BY <1>5, <1>c, <1>q DEF WorkerLedger, MainLedger, workerVars
<1>6. CASE \/ MWatch \/ MJoin \/ MRepeat \/ MReport \/ MClose
           \/ MStop("sampler", "stop sampler", "join sampler")
           \/ MStop("progress", "stop progress", "join progress")
           \/ MJoinObserver("sampler", "join sampler", "stop progress")
      BY <1>5, <1>6 DEF MWatch, MJoin, MRepeat, MReport, MClose, MStop, MJoinObserver,
                        MainLedger, Joined1
<1> QED BY <1>1, <1>2, <1>3, <1>4, <1>6 DEF Main

LEMMA LedgerHolds == Spec => []Ledger
<1>1. Init => Ledger
      BY DEF Init, Ledger, WorkerLedger, MainLedger, Joined1
<1>2. TypeOK /\ Lifetimes /\ Ledger /\ [Next]_vars => Ledger'
  <2> SUFFICES ASSUME TypeOK, Lifetimes, Ledger, [Next]_vars, ~cfg'.timed
               PROVE  WorkerLedger' /\ MainLedger'
      BY DEF Ledger
  <2>1. cfg' = cfg
        BY DEF Next, Main, MBegin, MSpawn, MWatch, MJoin, MStop, MJoinObserver, MMerge,
               MRepeat, MReport, MClose, Worker, WStart, WBreak, WCall, WVerb, WUnit,
               WError, WLast, Deadline, Observer, OTick, OExit, ORead, OEmit, Ended, vars
  <2>2. ~cfg.timed /\ WorkerLedger /\ MainLedger  BY <2>1 DEF Ledger
  <2>3. CASE Main  BY <2>2, <2>3, MainStepLedger
  <2>4. CASE \E t \in Workers : Worker(t) \/ Deadline(t)
        BY <2>2, <2>4, WorkerStepLedger
  <2>5. ASSUME UNCHANGED <<cfg, mainVars, workerVars>> PROVE WorkerLedger' /\ MainLedger'
        BY <2>2, <2>5 DEF WorkerLedger, MainLedger, Quota, Share, mainVars, workerVars
  <2>6. CASE \E o \in Observers : Observer(o)
        BY <2>5, <2>6 DEF Observer, OTick, OExit, ORead, OEmit
  <2>7. CASE UNCHANGED vars  BY <2>5, <2>7 DEF vars
  <2> QED BY <2>3, <2>4, <2>6, <2>7 DEF Next, Ended
<1> QED BY <1>1, <1>2, TypeCorrect, LifetimesHold, PTL DEF Spec

\* A repeat with --ops that ends without an error ran run() exactly that many
\* times, for any number of threads and whatever the remainder of the division:
\* the ops/s of the report is over the work that was asked for.
THEOREM BudgetIsSpent == Spec => []BudgetSpent
<1>1. Ledger => BudgetSpent  BY DEF Ledger, MainLedger, BudgetSpent
<1> QED BY <1>1, LedgerHolds, PTL

-----------------------------------------------------------------------------
(* The counters                                                              *)

\* What a worker publishes is what it has done, and a worker that has not begun
\* has nothing left over from the repeat before.
Counters ==
    /\ units = n
    /\ \A t \in Workers : wpc[t] \in {"off", "start"} => prim[t] = 0
    /\ mpc = "spawn" => \A t \in Workers : t >= j => wpc[t] = "off"

LEMMA CountersGrow ==
    ASSUME TypeOK, Counters, NEW w \in Workers, Worker(w) \/ Deadline(w)
    PROVE  /\ Counters'
           /\ \A t \in Workers : units[t] <= units'[t] /\ prim[t] <= prim'[t]
<1>1. /\ UNCHANGED <<mpc, j>>
      /\ wpc[w] # "off"
      /\ \A t \in Workers : t # w => wpc'[t] = wpc[t] /\ prim'[t] = prim[t]
      BY DEF TypeOK, Worker, WStart, WBreak, WCall, WVerb, WUnit, WError, WLast, Deadline,
             mainVars
<1>2. /\ wpc'[w] \in {"off", "start"} => wpc[w] = wpc'[w] /\ prim'[w] = prim[w]
      /\ prim[w] <= prim'[w]
  <2> USE DEF TypeOK, Counters
  <2>1. CASE WStart(w)  BY <2>1 DEF WStart
  <2>2. CASE WBreak(w)  BY <2>2 DEF WBreak
  <2>3. CASE WCall(w)   BY <2>3 DEF WCall
  <2>4. CASE WVerb(w)   BY <2>4 DEF WVerb
  <2>5. CASE WUnit(w)   BY <2>5 DEF WUnit
  <2>6. CASE WError(w)  BY <2>6 DEF WError
  <2>7. CASE WLast(w)   BY <2>7 DEF WLast
  <2>8. CASE Deadline(w)  BY <2>8 DEF Deadline
  <2> QED BY <2>1, <2>2, <2>3, <2>4, <2>5, <2>6, <2>7, <2>8 DEF Worker
<1>3. /\ units' = n'
      /\ \A t \in Workers : units[t] <= units'[t]
  <2> USE DEF TypeOK, Counters
  <2>1. CASE WStart(w)  BY <2>1 DEF WStart
  <2>2. CASE WBreak(w)  BY <2>2 DEF WBreak
  <2>3. CASE WCall(w)   BY <2>3 DEF WCall
  <2>4. CASE WVerb(w)   BY <2>4 DEF WVerb
  <2>5. CASE WUnit(w)   BY <2>5 DEF WUnit
  <2>6. CASE WError(w)  BY <2>6 DEF WError
  <2>7. CASE WLast(w)   BY <2>7 DEF WLast
  <2>8. CASE Deadline(w)  BY <2>8 DEF Deadline
  <2> QED BY <2>1, <2>2, <2>3, <2>4, <2>5, <2>6, <2>7, <2>8 DEF Worker
<1>4. \A t \in Workers : prim[t] <= prim'[t]  BY <1>1, <1>2 DEF TypeOK
<1>5. Counters'  BY <1>1, <1>2, <1>3 DEF Counters
<1> QED BY <1>3, <1>4, <1>5

LEMMA MainCounters ==
    ASSUME TypeOK, Counters, Main
    PROVE  Counters'
<1>j. /\ \A t \in Workers : t >= 0 /\ (t >= j + 1 => t >= j /\ t # j)
      BY NAssumption DEF TypeOK, Workers
<1>1. CASE MBegin  BY <1>1 DEF MBegin, Zeroed, Counters
<1>2. CASE MSpawn
  <2>1. CASE j < N
    <3>1. /\ wpc' = [wpc EXCEPT ![j] = "start"] /\ j' = j + 1 /\ mpc' = "spawn"
          /\ mpc = "spawn" /\ UNCHANGED <<n, units, prim>>
          BY <1>2, <2>1 DEF MSpawn
    <3>2. j \in Workers  BY <2>1, NAssumption DEF TypeOK, Workers
    <3>3. wpc[j] = "off"  BY <3>1, <3>2, NAssumption DEF Counters, Workers
    <3>4. \A t \in Workers : t >= j' => wpc'[t] = "off"
          BY <1>j, <3>1 DEF Counters, TypeOK
    <3>5. \A t \in Workers : wpc'[t] \in {"off", "start"} => prim'[t] = 0
          BY <3>1, <3>2, <3>3 DEF Counters, TypeOK
    <3> QED BY <3>1, <3>4, <3>5 DEF Counters
  <2>2. CASE ~(j < N)  BY <1>2, <2>2 DEF MSpawn, Counters
  <2> QED BY <2>1, <2>2
<1>3. ASSUME UNCHANGED workerVars, mpc' # "spawn"
      PROVE  Counters'
      BY <1>3 DEF Counters, workerVars
<1> QED BY <1>1, <1>2, <1>3 DEF Main, MWatch, MJoin, MStop, MJoinObserver, MMerge, MRepeat,
                                MReport, MClose

LEMMA CountersHold == Spec => []Counters
<1>1. Init => Counters  BY DEF Init, Counters
<1>2. TypeOK /\ Counters /\ [Next]_vars => Counters'
  <2> SUFFICES ASSUME TypeOK, Counters, [Next]_vars PROVE Counters'  OBVIOUS
  <2>1. CASE Main  BY <2>1, MainCounters
  <2>2. CASE \E t \in Workers : Worker(t) \/ Deadline(t)  BY <2>2, CountersGrow
  <2>3. ASSUME UNCHANGED <<mainVars, workerVars>> PROVE Counters'
        BY <2>3 DEF Counters, mainVars, workerVars
  <2>4. CASE \E o \in Observers : Observer(o)
        BY <2>3, <2>4 DEF Observer, OTick, OExit, ORead, OEmit
  <2>5. CASE UNCHANGED vars  BY <2>3, <2>5 DEF vars
  <2> QED BY <2>1, <2>2, <2>4, <2>5 DEF Next, Ended
<1> QED BY <1>1, <1>2, TypeCorrect, PTL DEF Spec

-----------------------------------------------------------------------------
(* The result                                                                *)

\* The merge loop holds the sums over the workers below j and whether any of
\* those failed.
Merged(i) ==
    /\ R.units = PrefixSum(units, N)[i]
    /\ R.prim = PrefixSum(prim, N)[i]
    /\ i > 0 => (R.ok <=> \A t \in Workers : t < i => ~err[t])

Result ==
    /\ mpc \in {"spawn", "watch", "join"} \cup Joined1 => R.units = 0 /\ R.prim = 0
    /\ mpc \in Joined1 => j = 0
    /\ mpc = "merge" => Merged(j)
    /\ mpc = "after" => Merged(N)

LEMMA TotalsUnfold ==
    ASSUME NEW f \in [Workers -> Nat]
    PROVE  /\ PrefixSum(f, N) \in [0 .. N -> Nat]
           /\ PrefixSum(f, N)[0] = 0
           /\ \A k \in Workers : PrefixSum(f, N)[k + 1] = PrefixSum(f, N)[k] + f[k]
BY SumUnfolds, NAssumption DEF Workers

LEMMA MainResult ==
    ASSUME TypeOK, Result, Main
    PROVE  Result'
<1>j. /\ j \in 0 .. N /\ (j < N => j \in Workers) /\ (~(j < N) => j = N)
      /\ \A t \in Workers : (t < j + 1 <=> t < j \/ t = j) /\ ~(t < 0)
      /\ ~(0 > 0) /\ j + 1 > 0 /\ (j > 0 \/ j = 0)
      BY NAssumption DEF TypeOK, Workers
<1>1. CASE MBegin  BY <1>1 DEF MBegin, Result, Joined1
<1>2. CASE MSpawn  BY <1>2 DEF MSpawn, Result, Joined1
<1>3. CASE MJoinObserver("progress", "join progress", "merge")
  <2>1. /\ mpc = "join progress" /\ mpc' = "merge"
        /\ UNCHANGED <<j, R, units, prim, err>>
        BY <1>3 DEF MJoinObserver, workerVars
  <2>2. R.units = 0 /\ R.prim = 0 /\ j = 0  BY <2>1 DEF Result, Joined1
  <2>3. PrefixSum(units, N)[0] = 0 /\ PrefixSum(prim, N)[0] = 0
        BY TotalsUnfold DEF TypeOK
  <2>4. Merged(j)'  BY <1>j, <2>1, <2>2, <2>3 DEF Merged
  <2> QED BY <2>1, <2>4 DEF Result, Joined1
<1>4. CASE MMerge
  <2>1. mpc = "merge" /\ UNCHANGED <<units, prim, err>>  BY <1>4 DEF MMerge, workerVars
  <2>2. Merged(j)  BY <2>1 DEF Result
  <2>3. CASE j < N
    <3>1. /\ R' = [units |-> R.units + units[j], prim |-> R.prim + prim[j],
                   ok |-> OkSoFar(j)]
          /\ j' = j + 1 /\ mpc' = "merge"
          BY <1>4, <2>3 DEF MMerge
    <3>2. /\ PrefixSum(units, N)[j + 1] = PrefixSum(units, N)[j] + units[j]
          /\ PrefixSum(prim, N)[j + 1] = PrefixSum(prim, N)[j] + prim[j]
          BY <1>j, <2>3, TotalsUnfold DEF TypeOK
    <3>3. R'.ok <=> \A t \in Workers : t < j + 1 => ~err[t]
      <4>1. R'.ok <=> (j = 0 \/ R.ok) /\ ~err[j]  BY <3>1 DEF OkSoFar
      <4> QED BY <1>j, <2>2, <2>3, <4>1 DEF Merged
    <3>4. Merged(j)'  BY <2>1, <2>2, <3>1, <3>2, <3>3 DEF Merged
    <3> QED BY <3>1, <3>4 DEF Result, Joined1
  <2>4. CASE ~(j < N)
    <3>1. mpc' = "after" /\ UNCHANGED <<R, j>>  BY <1>4, <2>4 DEF MMerge
    <3>2. Merged(N)'  BY <1>j, <2>1, <2>2, <2>4, <3>1 DEF Merged
    <3> QED BY <3>1, <3>2 DEF Result, Joined1
  <2> QED BY <2>3, <2>4
<1>5. ASSUME UNCHANGED <<R, workerVars>>, mpc' \notin {"merge", "after"},
             mpc' \in Joined1 => j' = 0,
             mpc' \in {"spawn", "watch", "join"} \cup Joined1
                 => mpc \in {"spawn", "watch", "join"} \cup Joined1
      PROVE  Result'
      BY <1>5 DEF Result, workerVars
<1>6. CASE \/ MWatch \/ MJoin \/ MRepeat \/ MReport \/ MClose
           \/ MStop("sampler", "stop sampler", "join sampler")
           \/ MStop("progress", "stop progress", "join progress")
           \/ MJoinObserver("sampler", "join sampler", "stop progress")
      BY <1>5, <1>6 DEF MWatch, MJoin, MRepeat, MReport, MClose, MStop, MJoinObserver,
                        Result, Joined1
<1> QED BY <1>1, <1>2, <1>3, <1>4, <1>6 DEF Main

LEMMA ResultHolds == Spec => []Result
<1>1. Init => Result  BY DEF Init, Result, Joined1
<1>2. TypeOK /\ Lifetimes /\ Result /\ [Next]_vars => Result'
  <2> SUFFICES ASSUME TypeOK, Lifetimes, Result, [Next]_vars PROVE Result'  OBVIOUS
  <2>1. CASE Main  BY <2>1, MainResult
  <2>2. ASSUME NEW w \in Workers, Worker(w) \/ Deadline(w) PROVE Result'
    <3>1. UNCHANGED <<mpc, j, R>> /\ wpc[w] # "exited"
          BY <2>2 DEF Worker, WStart, WBreak, WCall, WVerb, WUnit, WError, WLast, Deadline,
                      mainVars
    <3>2. mpc \notin {"merge", "after"}  BY <3>1 DEF Lifetimes, Joined2
    <3> QED BY <3>1, <3>2 DEF Result
  <2>3. ASSUME UNCHANGED <<mainVars, workerVars>> PROVE Result'
        BY <2>3 DEF Result, Merged, mainVars, workerVars
  <2>4. CASE \E o \in Observers : Observer(o)
        BY <2>3, <2>4 DEF Observer, OTick, OExit, ORead, OEmit
  <2>5. CASE UNCHANGED vars  BY <2>3, <2>5 DEF vars
  <2> QED BY <2>1, <2>2, <2>4, <2>5 DEF Next, Ended
<1> QED BY <1>1, <1>2, TypeCorrect, LifetimesHold, PTL DEF Spec

\* What measure_timed returns is the work of this repeat, added up over all its
\* workers whatever their number, and it is ok exactly when none of them failed.
THEOREM ResultsAreTrue == Spec => []ResultIsTrue
<1>1. Result /\ Counters => ResultIsTrue
  <2> SUFFICES ASSUME Result, Counters, mpc = "after"
               PROVE  /\ R.ok <=> \A t \in Workers : ~err[t]
                      /\ R.units = Total(n) /\ R.prim = Total(prim)
      BY DEF ResultIsTrue
  <2>1. Merged(N) /\ units = n  BY DEF Result, Counters
  <2>2. N > 0 /\ \A t \in Workers : t < N  BY NAssumption DEF Workers
  <2> QED BY <2>1, <2>2 DEF Merged, Total
<1> QED BY <1>1, ResultHolds, CountersHold, PTL

-----------------------------------------------------------------------------
(* The samples                                                               *)

Samples ==
    /\ \A o \in Observers :
          /\ opc[o] # "off" => prev[o].units <= Total(units)
          /\ opc[o] = "sum" => Underway(units, N, prev[o].units, cur[o].units, ot[o])
    /\ opc["sampler"] # "off" => prev["sampler"].prim <= Total(prim)
    /\ opc["sampler"] = "sum" =>
          Underway(prim, N, prev["sampler"].prim, cur["sampler"].prim, ot["sampler"])
    /\ prev["progress"].prim = 0 /\ cur["progress"].prim = 0

LEMMA WorkersCountOn ==
    ASSUME NEW f \in [Workers -> Nat], NEW g \in [Workers -> Nat],
           \A t \in Workers : f[t] <= g[t],
           NEW p \in Nat, NEW c \in Nat, NEW k \in 0 .. N
    PROVE  /\ p <= Total(f) => p <= Total(g)
           /\ Underway(f, N, p, c, k) => Underway(g, N, p, c, k)
<1>1. N \in Nat  BY NAssumption
<1> QED BY <1>1, Undisturbed DEF Workers, Total

LEMMA ReadingWorkers ==
    ASSUME NEW f \in [Workers -> Nat], NEW p \in Nat, NEW c \in Nat
    PROVE  /\ p <= Total(f) => Underway(f, N, p, 0, 0)
           /\ \A k \in Workers : Underway(f, N, p, c, k) => Underway(f, N, p, c + f[k], k + 1)
           /\ Underway(f, N, p, c, N) => p <= c /\ c <= Total(f)
<1>1. N \in Nat  BY NAssumption
<1> QED BY <1>1, Reading DEF Workers, Total

LEMMA WorkerSamples ==
    ASSUME TypeOK, Counters, Samples, NEW w \in Workers, Worker(w) \/ Deadline(w), TypeOK'
    PROVE  Samples'
<1>1. UNCHANGED <<opc, ot, cur, prev>>
      BY DEF Worker, WStart, WBreak, WCall, WVerb, WUnit, WError, WLast, Deadline, obsVars
<1>2. \A t \in Workers : units[t] <= units'[t] /\ prim[t] <= prim'[t]
      BY CountersGrow
<1>3. /\ units \in [Workers -> Nat] /\ units' \in [Workers -> Nat]
      /\ prim \in [Workers -> Nat] /\ prim' \in [Workers -> Nat]
      /\ \A o \in Observers : /\ prev[o].units \in Nat /\ prev[o].prim \in Nat
                              /\ cur[o].units \in Nat /\ cur[o].prim \in Nat
                              /\ ot[o] \in 0 .. N
      BY DEF TypeOK
<1>4. ASSUME NEW p \in Nat, NEW c \in Nat, NEW k \in 0 .. N
      PROVE  /\ p <= Total(units) => p <= Total(units')
             /\ Underway(units, N, p, c, k) => Underway(units', N, p, c, k)
             /\ p <= Total(prim) => p <= Total(prim')
             /\ Underway(prim, N, p, c, k) => Underway(prim', N, p, c, k)
      BY <1>2, <1>3, WorkersCountOn
<1>5. "sampler" \in Observers  BY DEF Observers
<1>6. \A o \in Observers :
          /\ opc[o] # "off" => prev[o].units <= Total(units')
          /\ opc[o] = "sum" => Underway(units', N, prev[o].units, cur[o].units, ot[o])
      BY <1>3, <1>4 DEF Samples
<1>7. /\ opc["sampler"] # "off" => prev["sampler"].prim <= Total(prim')
      /\ opc["sampler"] = "sum" =>
            Underway(prim', N, prev["sampler"].prim, cur["sampler"].prim, ot["sampler"])
      BY <1>3, <1>4, <1>5 DEF Samples
<1> QED BY <1>1, <1>6, <1>7 DEF Samples, Underway, Total

LEMMA ObserverSamples ==
    ASSUME TypeOK, Samples, NEW w \in Observers, Observer(w)
    PROVE  Samples'
<1>1. UNCHANGED <<units, prim>>
      BY DEF Observer, OTick, OExit, ORead, OEmit, workerVars
<1>2. \A o \in Observers : o # w => /\ opc'[o] = opc[o] /\ ot'[o] = ot[o]
                                    /\ cur'[o] = cur[o] /\ prev'[o] = prev[o]
      BY DEF TypeOK, Observer, OTick, OExit, ORead, OEmit
<1>3. /\ units \in [Workers -> Nat] /\ prim \in [Workers -> Nat]
      /\ prev[w].units \in Nat /\ prev[w].prim \in Nat
      /\ cur[w].units \in Nat /\ cur[w].prim \in Nat /\ ot[w] \in 0 .. N
      /\ opc[w] \in {"off", "wait", "sum"}
      BY DEF TypeOK
<1> DEFINE OnUnits == /\ opc'[w] # "off" => prev'[w].units <= Total(units)
                      /\ opc'[w] = "sum" =>
                            Underway(units, N, prev'[w].units, cur'[w].units, ot'[w])
           OnPrim == /\ opc'[w] # "off" => prev'[w].prim <= Total(prim)
                     /\ opc'[w] = "sum" =>
                           Underway(prim, N, prev'[w].prim, cur'[w].prim, ot'[w])
           Idle == prev'[w].prim = 0 /\ cur'[w].prim = 0
<1>4. OnUnits /\ (w = "sampler" => OnPrim) /\ (w = "progress" => Idle)
  <2>s. /\ opc[w] # "off" => prev[w].units <= Total(units)
        /\ opc[w] = "sum" => Underway(units, N, prev[w].units, cur[w].units, ot[w])
        /\ w = "sampler" =>
              /\ opc[w] # "off" => prev[w].prim <= Total(prim)
              /\ opc[w] = "sum" => Underway(prim, N, prev[w].prim, cur[w].prim, ot[w])
        /\ w = "progress" => prev[w].prim = 0 /\ cur[w].prim = 0
        BY DEF Samples
  <2>1. CASE OTick(w)
    <3>1. /\ opc[w] = "wait" /\ opc'[w] = "sum" /\ ot'[w] = 0
          /\ cur'[w].units = 0 /\ cur'[w].prim = 0 /\ prev'[w] = prev[w]
          BY <2>1 DEF OTick, TypeOK, Zero
    <3> QED BY <1>3, <2>s, <3>1, ReadingWorkers
  <2>2. CASE OExit(w)
    <3>1. opc'[w] = "off" /\ cur'[w].prim = 0 /\ prev'[w].prim = 0
          BY <2>2 DEF OExit, TypeOK, Zero
    <3> QED BY <3>1
  <2>3. CASE ORead(w)
    <3>1. ot[w] \in Workers  BY <1>3, <2>3, NAssumption DEF ORead, Workers
    <3>2. /\ opc[w] = "sum" /\ opc'[w] = "sum" /\ ot'[w] = ot[w] + 1
          /\ cur'[w].units = cur[w].units + units[ot[w]]
          /\ cur'[w].prim = IF w = "sampler" THEN cur[w].prim + prim[ot[w]] ELSE 0
          /\ prev'[w] = prev[w]
          BY <2>3 DEF ORead, TypeOK
    <3> QED BY <1>3, <2>s, <3>1, <3>2, ReadingWorkers
  <2>4. CASE OEmit(w)
    <3>1. /\ opc[w] = "sum" /\ opc'[w] = "wait" /\ ot[w] = N
          /\ prev'[w] = cur[w] /\ cur'[w] = cur[w]
          BY <2>4 DEF OEmit, TypeOK
    <3> QED BY <1>3, <2>s, <3>1, ReadingWorkers
  <2> QED BY <2>1, <2>2, <2>3, <2>4 DEF Observer
<1> HIDE DEF OnUnits, OnPrim, Idle
<1>5. \A o \in Observers :
          /\ opc'[o] # "off" => prev'[o].units <= Total(units)
          /\ opc'[o] = "sum" => Underway(units, N, prev'[o].units, cur'[o].units, ot'[o])
      BY <1>2, <1>4 DEF Samples, OnUnits
<1>6. /\ opc'["sampler"] # "off" => prev'["sampler"].prim <= Total(prim)
      /\ opc'["sampler"] = "sum" =>
            Underway(prim, N, prev'["sampler"].prim, cur'["sampler"].prim, ot'["sampler"])
  <2>1. CASE w = "sampler"  BY <1>4, <2>1 DEF OnPrim
  <2>2. CASE w # "sampler"  BY <1>2, <2>2 DEF Samples, Observers
  <2> QED BY <2>1, <2>2
<1>7. prev'["progress"].prim = 0 /\ cur'["progress"].prim = 0
  <2>1. CASE w = "progress"  BY <1>4, <2>1 DEF Idle
  <2>2. CASE w # "progress"  BY <1>2, <2>2 DEF Samples, Observers
  <2> QED BY <2>1, <2>2
<1> QED BY <1>1, <1>5, <1>6, <1>7 DEF Samples, Underway, Total

LEMMA MainSamples ==
    ASSUME TypeOK, Lifetimes, Samples, Main
    PROVE  Samples'
<1>1. CASE MBegin
  <2>1. UNCHANGED <<opc, ot, cur, prev>>  BY <1>1 DEF MBegin, obsVars
  <2>2. \A o \in Observers : opc[o] = "off"  BY <1>1 DEF MBegin, Lifetimes
  <2>3. "sampler" \in Observers  BY DEF Observers
  <2> QED BY <2>1, <2>2, <2>3 DEF Samples
<1>2. CASE MWatch
  <2>1. /\ UNCHANGED <<units, prim>>
        /\ \A o \in Observers : /\ opc'[o] \in {"wait", "off"}
                                /\ prev'[o] = Zero /\ cur'[o] = Zero
        BY <1>2 DEF MWatch, workerVars
  <2>2. Total(units) \in Nat /\ Total(prim) \in Nat
    <3>1. units \in [Workers -> Nat] /\ prim \in [Workers -> Nat] /\ N \in 0 .. N
          BY NAssumption DEF TypeOK
    <3> QED BY <3>1, TotalsUnfold DEF Total
  <2>3. Zero.units = 0 /\ Zero.prim = 0 /\ 0 <= Total(units) /\ 0 <= Total(prim)
        BY <2>2 DEF Zero
  <2>4. "sampler" \in Observers /\ "progress" \in Observers  BY DEF Observers
  <2>5. \A o \in Observers : opc'[o] # "sum"  BY <2>1
  <2>6. \A o \in Observers : prev'[o].units <= Total(units) /\ prev'[o].prim <= Total(prim)
        BY <2>1, <2>3
  <2>7. UNCHANGED <<Total(units), Total(prim)>>  BY <2>1 DEF Total
  <2> QED BY <2>1, <2>3, <2>4, <2>5, <2>6, <2>7 DEF Samples
<1>3. ASSUME UNCHANGED <<units, prim, opc, ot, cur, prev>> PROVE Samples'
      BY <1>3 DEF Samples, Underway, Total
<1> QED BY <1>1, <1>2, <1>3 DEF Main, MSpawn, MJoin, MStop, MJoinObserver, MMerge, MRepeat,
                                MReport, MClose, workerVars, obsVars

LEMMA SamplesHold == Spec => []Samples
<1>1. Init => Samples
      BY DEF Init, Samples, Observers, Zero
<1>2. TypeOK /\ TypeOK' /\ Lifetimes /\ Counters /\ Samples /\ [Next]_vars => Samples'
  <2> SUFFICES ASSUME TypeOK, TypeOK', Lifetimes, Counters, Samples, [Next]_vars
               PROVE  Samples'
      OBVIOUS
  <2>1. CASE Main  BY <2>1, MainSamples
  <2>2. CASE \E t \in Workers : Worker(t) \/ Deadline(t)  BY <2>2, WorkerSamples
  <2>3. CASE \E o \in Observers : Observer(o)  BY <2>3, ObserverSamples
  <2>4. CASE UNCHANGED vars
        BY <2>4 DEF Samples, Underway, Total, vars, workerVars, obsVars
  <2> QED BY <2>1, <2>2, <2>3, <2>4 DEF Next, Ended
<1> QED BY <1>1, <1>2, TypeCorrect, LifetimesHold, CountersHold, PTL DEF Spec

\* A tick of the sampler or of the progress thread, taken one worker at a time
\* while any number of them count on, is never below the tick before it, so the
\* unsigned difference in sampler_main does not wrap, and never ahead of the work.
THEOREM TicksAreInOrder == Spec => []SamplesInOrder
<1>1. TypeOK /\ Samples => SamplesInOrder
  <2> SUFFICES ASSUME TypeOK, Samples, NEW o \in Observers, opc[o] = "sum", ot[o] = N
               PROVE  /\ prev[o].units <= cur[o].units /\ cur[o].units <= Total(units)
                      /\ prev[o].prim <= cur[o].prim /\ cur[o].prim <= Total(prim)
      BY DEF SamplesInOrder
  <2>1. /\ units \in [Workers -> Nat] /\ prim \in [Workers -> Nat]
        /\ prev[o].units \in Nat /\ prev[o].prim \in Nat
        /\ cur[o].units \in Nat /\ cur[o].prim \in Nat
        BY DEF TypeOK
  <2>2. prev[o].units <= cur[o].units /\ cur[o].units <= Total(units)
        BY <2>1, ReadingWorkers DEF Samples
  <2>3. prev[o].prim <= cur[o].prim /\ cur[o].prim <= Total(prim)
    <3>1. CASE o = "sampler"  BY <2>1, <3>1, ReadingWorkers DEF Samples
    <3>2. CASE o = "progress"
      <4>1. Total(prim) \in Nat  BY <2>1, TotalsUnfold, NAssumption DEF Total
      <4> QED BY <3>2, <4>1 DEF Samples
    <3> QED BY <3>1, <3>2 DEF Observers
  <2> QED BY <2>2, <2>3
<1> QED BY <1>1, TypeCorrect, SamplesHold, PTL

-----------------------------------------------------------------------------
(* Powers of two                                                             *)

\* The recursive function Pow2 is what its definition says.
LEMMA PowUnfolds ==
    /\ Pow2 \in [0 .. Width -> Nat \ {0}]
    /\ Pow2[0] = 1
    /\ \A k \in 0 .. Width - 1 : Pow2[k + 1] = 2 * Pow2[k]
<1> DEFINE Doubles(g, m) == /\ g \in [0 .. m -> Nat \ {0}] /\ g[0] = 1
                            /\ \A k \in 0 .. m - 1 : g[k + 1] = 2 * g[k]
           S == {m \in 0 .. Width : \E g : Doubles(g, m)}
<1>w. Width \in Nat  BY HistAssumption
<1>1. 0 \in S
  <2>1. Doubles([k \in 0 .. 0 |-> 1], 0)  OBVIOUS
  <2>2. 0 \in 0 .. Width  BY <1>w
  <2> HIDE DEF Doubles
  <2> QED BY <2>1, <2>2
<1>2. ASSUME NEW m \in 0 .. Width - 1, m \in S
      PROVE  m + 1 \in S
  <2>1. PICK g : Doubles(g, m)  BY <1>2
  <2>m. m \in Nat  BY <1>w
  <2> DEFINE f == [k \in 0 .. m + 1 |-> IF k = m + 1 THEN 2 * g[m] ELSE g[k]]
  <2>2. 2 * g[m] \in Nat \ {0}
    <3>1. g[m] \in Nat \ {0}  BY <2>1, <2>m
    <3> QED BY <3>1
  <2>3. f \in [0 .. m + 1 -> Nat \ {0}]  BY <2>1, <2>2, <2>m
  <2>4. f[0] = 1  BY <2>1, <2>m
  <2>5. \A k \in 0 .. m : f[k + 1] = 2 * f[k]
    <3> SUFFICES ASSUME NEW k \in 0 .. m PROVE f[k + 1] = 2 * f[k]  OBVIOUS
    <3>1. k + 1 \in 0 .. m + 1 /\ k \in 0 .. m + 1 /\ k # m + 1  BY <2>m
    <3>2. CASE k = m  BY <3>1, <3>2
    <3>3. CASE k # m
      <4>1. k \in 0 .. m - 1 /\ k + 1 # m + 1  BY <3>3, <2>m
      <4>2. f[k + 1] = g[k + 1] /\ f[k] = g[k]  BY <3>1, <4>1
      <4> QED BY <2>1, <4>1, <4>2
    <3> QED BY <3>2, <3>3
  <2>6. (m + 1) - 1 = m /\ m + 1 \in 0 .. Width  BY <1>w, <2>m
  <2> HIDE DEF f
  <2>7. Doubles(f, m + 1)  BY <2>3, <2>4, <2>5, <2>6
  <2> HIDE DEF Doubles
  <2> QED BY <2>6, <2>7
<1>3. Width \in S
  <2> HIDE DEF S
  <2>1. 0 .. Width \subseteq S  BY <1>1, <1>2, <1>w, Induction
  <2> QED BY <2>1, <1>w
<1>4. PICK g : Doubles(g, Width)  BY <1>3
<1>5. g = [k \in 0 .. Width |-> IF k = 0 THEN 1 ELSE 2 * g[k - 1]]
  <2>1. \A k \in 0 .. Width : g[k] = IF k = 0 THEN 1 ELSE 2 * g[k - 1]
    <3> SUFFICES ASSUME NEW k \in 0 .. Width, k # 0 PROVE g[k] = 2 * g[k - 1]
        BY <1>4
    <3>1. k - 1 \in 0 .. Width - 1 /\ (k - 1) + 1 = k  BY <1>w
    <3> QED BY <1>4, <3>1
  <2> QED BY <1>4, <2>1
<1>6. Pow2 = [k \in 0 .. Width |-> IF k = 0 THEN 1 ELSE 2 * Pow2[k - 1]]
      BY <1>5 DEF Pow2
<1>7. Pow2[0] = 1  BY <1>6, <1>w
<1>8. \A k \in 0 .. Width - 1 : Pow2[k + 1] = 2 * Pow2[k]
  <2> SUFFICES ASSUME NEW k \in 0 .. Width - 1 PROVE Pow2[k + 1] = 2 * Pow2[k]  OBVIOUS
  <2>1. k + 1 \in 0 .. Width /\ k + 1 # 0 /\ (k + 1) - 1 = k  BY <1>w
  <2> QED BY <1>6, <2>1
<1>9. Pow2 \in [0 .. Width -> Nat \ {0}]
  <2> DEFINE T == {k \in 0 .. Width : Pow2[k] \in Nat \ {0}}
  <2>1. 0 \in T  BY <1>7, <1>w
  <2>2. \A k \in 0 .. Width - 1 : k \in T => k + 1 \in T
    <3> SUFFICES ASSUME NEW k \in 0 .. Width - 1, k \in T PROVE k + 1 \in T  OBVIOUS
    <3>1. Pow2[k + 1] = 2 * Pow2[k] /\ Pow2[k] \in Nat \ {0}  BY <1>8
    <3>2. k + 1 \in 0 .. Width  BY <1>w
    <3> QED BY <3>1, <3>2
  <2>3. 0 .. Width \subseteq T
    <3> HIDE DEF T
    <3> QED BY <2>1, <2>2, <1>w, Induction
  <2> QED BY <1>6, <2>3
<1> QED BY <1>7, <1>8, <1>9

\* Powers grow with the exponent.
LEMMA PowGrows == \A a, b \in 0 .. Width : a <= b => Pow2[a] <= Pow2[b]
<1>w. Width \in Nat  BY HistAssumption
<1> SUFFICES ASSUME NEW a \in 0 .. Width
             PROVE  \A b \in 0 .. Width : a <= b => Pow2[a] <= Pow2[b]
    OBVIOUS
<1> DEFINE T == {b \in 0 .. Width : a <= b => Pow2[a] <= Pow2[b]}
<1>p. \A k \in 0 .. Width : Pow2[k] \in Nat \ {0}  BY PowUnfolds
<1>1. 0 \in T  BY <1>p, <1>w
<1>2. ASSUME NEW k \in 0 .. Width - 1, k \in T PROVE k + 1 \in T
  <2>1. Pow2[k + 1] = 2 * Pow2[k]  BY PowUnfolds
  <2>2. k \in 0 .. Width /\ k + 1 \in 0 .. Width  BY <1>w
  <2>3. Pow2[a] \in Nat \ {0} /\ Pow2[k] \in Nat \ {0} /\ Pow2[k + 1] \in Nat \ {0}  BY <1>p, <2>2
  <2>4. CASE a = k + 1  BY <2>2, <2>3, <2>4
  <2>5. CASE a # k + 1
    <3>1. a <= k + 1 => a <= k  BY <2>5, <1>w
    <3>2. a <= k => Pow2[a] <= Pow2[k]  BY <1>2
    <3>3. \A x, y \in Nat : x <= y => x <= 2 * y  OBVIOUS
    <3>4. a <= k + 1 => Pow2[a] <= Pow2[k + 1]  BY <2>1, <2>3, <3>1, <3>2, <3>3
    <3> QED BY <2>2, <3>4
  <2> QED BY <2>4, <2>5
<1>3. 0 .. Width \subseteq T
  <2> HIDE DEF T
  <2> QED BY <1>1, <1>2, <1>w, Induction
<1> QED BY <1>3

\* The power of a sum is the product of the powers.
LEMMA PowAdds ==
    ASSUME NEW s \in 0 .. Width, NEW a \in 0 .. Width - s
    PROVE  Pow2[s + a] = Pow2[s] * Pow2[a]
<1>w. Width \in Nat /\ Width - s \in Nat  BY HistAssumption
<1> DEFINE T == {b \in 0 .. Width - s : Pow2[s + b] = Pow2[s] * Pow2[b]}
<1>p. \A k \in 0 .. Width : Pow2[k] \in Nat \ {0}  BY PowUnfolds
<1>1. 0 \in T
  <2>1. Pow2[0] = 1 /\ s + 0 = s /\ Pow2[s] \in Nat  BY PowUnfolds, <1>p
  <2> QED BY <2>1, <1>w
<1>2. ASSUME NEW k \in 0 .. (Width - s) - 1, k \in T PROVE k + 1 \in T
  <2>1. /\ k \in 0 .. Width - 1 /\ s + k \in 0 .. Width - 1 /\ s + (k + 1) = (s + k) + 1
        /\ k \in 0 .. Width /\ k + 1 \in 0 .. Width - s
        BY <1>w
  <2>2. Pow2[k + 1] = 2 * Pow2[k] /\ Pow2[(s + k) + 1] = 2 * Pow2[s + k]  BY <2>1, PowUnfolds
  <2>3. Pow2[s + k] = Pow2[s] * Pow2[k]  BY <1>2
  <2>4. \A x, y \in Nat : 2 * (x * y) = x * (2 * y)  OBVIOUS
  <2>5. Pow2[s] \in Nat /\ Pow2[k] \in Nat  BY <1>p, <2>1
  <2>6. Pow2[s + (k + 1)] = Pow2[s] * Pow2[k + 1]  BY <2>1, <2>2, <2>3, <2>4, <2>5
  <2> QED BY <2>1, <2>6
<1>3. 0 .. Width - s \subseteq T
  <2> HIDE DEF T
  <2> QED BY <1>1, <1>2, <1>w, Induction
<1> QED BY <1>3

\* Every value but 0 has a highest bit.
LEMMA HighBitFacts ==
    ASSUME NEW v \in 1 .. Greatest
    PROVE  /\ HighBit(v) \in 0 .. Width - 1
           /\ Pow2[HighBit(v)] <= v /\ v < Pow2[HighBit(v) + 1]
<1>w. Width \in Nat \ {0}  BY HistAssumption
<1>p. \A k \in 0 .. Width : Pow2[k] \in Nat \ {0}  BY PowUnfolds
<1> DEFINE T == {k \in 0 .. Width : v < Pow2[k]}
<1>1. Width \in T
  <2>1. Pow2[Width] \in Nat  BY <1>p, <1>w
  <2> QED BY <1>w, <2>1 DEF Greatest
<1>2. PICK b \in T : \A c \in T : b <= c
  <2>1. T \subseteq Nat /\ T # {}  BY <1>1
  <2> HIDE DEF T
  <2> QED BY <2>1, LeastNumber
<1>3. v \in Nat /\ v >= 1
  <2>1. Pow2[Width] \in Nat  BY <1>p, <1>w
  <2> QED BY <2>1 DEF Greatest
<1>4. b # 0  BY <1>2, <1>3, PowUnfolds
<1>5. b - 1 \in 0 .. Width - 1 /\ (b - 1) + 1 = b /\ b - 1 < b /\ b - 1 \in 0 .. Width /\ b \in 0 .. Width
      BY <1>2, <1>4, <1>w
<1>6. Pow2[b - 1] <= v
  <2>1. b - 1 \notin T  BY <1>2, <1>5
  <2>2. Pow2[b - 1] \in Nat /\ ~(v < Pow2[b - 1])  BY <2>1, <1>5, <1>p
  <2> QED BY <2>2, <1>3
<1>7. v < Pow2[(b - 1) + 1]  BY <1>2, <1>5
<1>8. \E o \in 0 .. Width - 1 : Pow2[o] <= v /\ v < Pow2[o + 1]  BY <1>5, <1>6, <1>7
<1> QED BY <1>8 DEF HighBit

-----------------------------------------------------------------------------
(* Buckets                                                                   *)

\* The constants and what they bound.
LEMMA Sizes ==
    /\ Width \in Nat \ {0} /\ Sub \in Nat \ {0} /\ Oct \in Nat \ {0} /\ NWorkers \in Nat \ {0}
    /\ Pow2[Width] \in Nat \ {0} /\ Greatest \in Nat /\ Greatest + 1 = Pow2[Width]
    /\ Oct \in 0 .. Width /\ Pow2[Oct] \in Nat \ {0} /\ Pow2[Oct] <= Pow2[Width]
    /\ Sub * Oct \in Nat /\ Indices \subseteq Nat
    /\ Latencies \subseteq 0 .. Greatest /\ Latencies \subseteq Nat
<1>1. Width \in Nat \ {0} /\ Oct \in Nat \ {0} /\ NWorkers \in Nat \ {0} /\ Oct \in 0 .. Width
      BY HistAssumption
<1>2. \A k \in 0 .. Width : Pow2[k] \in Nat \ {0}  BY PowUnfolds
<1>3. Width \in 0 .. Width  BY <1>1
<1>4. Sub \in Nat \ {0}  BY <1>2, HistAssumption
<1>5. Pow2[Oct] <= Pow2[Width]  BY <1>1, <1>3, PowGrows
<1>6. Pow2[Width] \in Nat \ {0} /\ Pow2[Oct] \in Nat \ {0}  BY <1>1, <1>2, <1>3
<1>7. Greatest \in Nat /\ Greatest + 1 = Pow2[Width]  BY <1>6 DEF Greatest
<1>8. Sub * Oct \in Nat  BY <1>1, <1>4
<1>9. Indices \subseteq Nat  BY DEF Indices
<1>10. Latencies \subseteq 0 .. Greatest  BY HistAssumption
<1> QED BY <1>1, <1>4, <1>5, <1>6, <1>7, <1>8, <1>9, <1>10

\* A multiple of b makes no difference modulo b.
LEMMA ModShift ==
    ASSUME NEW b \in Nat \ {0}, NEW a \in Nat, NEW z \in Nat
    PROVE  (b * a + z) % b = z % b
<1> DEFINE x == b * a + z
           zd == z \div b
           zm == z % b
           xd == x \div b
           xm == x % b
<1>1. x \in Nat  OBVIOUS
<1>2. zd \in Nat /\ zm \in 0 .. b - 1 /\ z = b * zd + zm  BY DivMod
<1>3. xd \in Nat /\ xm \in 0 .. b - 1 /\ x = b * xd + xm
  <2> HIDE DEF x
  <2> QED BY <1>1, DivMod
<1>4. x = b * a + z  OBVIOUS
<1> HIDE DEF x, zd, zm, xd, xm
<1>5. \A c, d \in Nat : b * c + b * d = b * (c + d)  OBVIOUS
<1>6. a + zd \in Nat /\ b * (a + zd) \in Nat /\ b * a \in Nat /\ b * zd \in Nat  BY <1>2
<1>7. b * a + b * zd = b * (a + zd)  BY <1>2, <1>5
<1>8. b * (a + zd) + zm = b * xd + xm  BY <1>2, <1>3, <1>4, <1>6, <1>7
<1>9. zm = xm  BY <1>2, <1>3, <1>6, <1>8, DivModUnique
<1> QED BY <1>9 DEF x, zm, xm

\* Unsigned arithmetic: an overflow on the way does not matter to a sum.
LEMMA WrapFacts ==
    /\ \A x \in Nat : Wrap(x) \in Nat
    /\ \A x \in 0 .. Greatest : Wrap(x) = x
    /\ \A x, y \in Nat : Wrap(Wrap(x) + y) = Wrap(x + y)
    /\ \A x, y \in Nat : Wrap(Wrap(x) + Wrap(y)) = Wrap(x + y)
<1> DEFINE b == Pow2[Width]
<1>b. b \in Nat \ {0} /\ Greatest = b - 1  BY Sizes
<1> HIDE DEF b
<1>w. \A x : Wrap(x) = x % b  BY DEF Wrap, b
<1>1. \A x \in Nat : x % b \in 0 .. b - 1  BY <1>b, Residues
<1>2. \A x \in 0 .. b - 1 : x % b = x  BY <1>b, Residues
<1>3. ASSUME NEW x \in Nat, NEW y \in Nat PROVE ((x % b) + y) % b = (x + y) % b
  <2> DEFINE d == x \div b
             m == x % b
  <2>1. d \in Nat /\ m \in 0 .. b - 1 /\ x = b * d + m  BY <1>b, DivMod
  <2> HIDE DEF d, m
  <2>2. m + y \in Nat /\ m \in Nat /\ b * d \in Nat  BY <1>b, <2>1
  <2>3. x + y = b * d + (m + y)  BY <1>b, <2>1, <2>2
  <2>4. (b * d + (m + y)) % b = (m + y) % b  BY <1>b, <2>1, <2>2, ModShift
  <2> QED BY <2>3, <2>4 DEF m
<1>4. ASSUME NEW x \in Nat, NEW y \in Nat PROVE ((x % b) + (y % b)) % b = (x + y) % b
  <2>1. x % b \in Nat /\ y % b \in Nat  BY <1>1, <1>b
  <2>2. ((x % b) + (y % b)) % b = (x + (y % b)) % b  BY <2>1, <1>3
  <2>3. ((y % b) + x) % b = (y + x) % b  BY <1>3
  <2>4. \A c \in Nat : c + x = x + c  OBVIOUS
  <2> QED BY <2>1, <2>2, <2>3, <2>4
<1>5. \A x \in 0 .. b - 1 : x \in Nat  OBVIOUS
<1> QED BY <1>w, <1>b, <1>1, <1>2, <1>3, <1>4, <1>5

\* What is clipped is in range, and kept if it was.
LEMMA ClipFacts ==
    ASSUME NEW x \in Nat, NEW m \in Nat \ {0}
    PROVE  Clip(x, m) \in 0 .. m - 1 /\ (x < m => Clip(x, m) = x)
BY DEF Clip

\* A value has its bucket, whatever its size.
LEMMA IndexInRange ==
    ASSUME NEW v \in 0 .. Greatest
    PROVE  hist_index(v) \in Indices
<1> DEFINE o == Clip(HighBit(v), Oct)
           slot == Clip(Wrap((v - Pow2[o]) * Sub) \div Pow2[o], Sub)
<1>1. Sub \in Nat \ {0} /\ Oct \in Nat \ {0} /\ v \in Nat /\ Oct \in 0 .. Width /\ Width \in Nat \ {0}
      BY Sizes
<1>2. CASE v = 0
  <2>1. \A a, b \in Nat \ {0} : 0 \in 0 .. a * b - 1  OBVIOUS
  <2> QED BY <1>1, <1>2, <2>1 DEF hist_index, Indices
<1>3. CASE v # 0
  <2>1. HighBit(v) \in 0 .. Width - 1 /\ Pow2[HighBit(v)] <= v
        BY <1>1, <1>3, Sizes, HighBitFacts
  <2>2. o \in 0 .. Oct - 1 /\ o <= HighBit(v) /\ o \in 0 .. Width
    <3>1. HighBit(v) \in Nat  BY <2>1
    <3>2. o \in 0 .. Oct - 1 /\ o <= HighBit(v)  BY <1>1, <3>1 DEF Clip
    <3> HIDE DEF o
    <3> QED BY <1>1, <3>2
  <2>3. Pow2[o] \in Nat \ {0} /\ Pow2[o] <= v
    <3>1. HighBit(v) \in 0 .. Width  BY <2>1, <1>1
    <3>2. Pow2[o] \in Nat \ {0} /\ Pow2[HighBit(v)] \in Nat  BY <2>2, <3>1, PowUnfolds
    <3>3. Pow2[o] <= Pow2[HighBit(v)]  BY <2>2, <3>1, PowGrows
    <3> HIDE DEF o
    <3> QED BY <1>1, <2>1, <3>2, <3>3
  <2> DEFINE z == Wrap((v - Pow2[o]) * Sub)
  <2>4. z \in Nat
    <3>1. \A a, b, c \in Nat : b <= a => (a - b) * c \in Nat  OBVIOUS
    <3>2. (v - Pow2[o]) * Sub \in Nat  BY <1>1, <2>3, <3>1
    <3> QED BY <3>2, WrapFacts
  <2>5. z \div Pow2[o] \in Nat
    <3> HIDE DEF z, o
    <3> QED BY <2>3, <2>4, DivMod
  <2>6. slot \in 0 .. Sub - 1
    <3>1. slot = Clip(z \div Pow2[o], Sub)  OBVIOUS
    <3> HIDE DEF z, o, slot
    <3> QED BY <1>1, <2>5, <3>1, ClipFacts
  <2>7. hist_index(v) = o * Sub + slot  BY <1>3 DEF hist_index
  <2> HIDE DEF o, slot
  <2>8. \A a, b \in Nat \ {0} : \A x \in 0 .. b - 1, y \in 0 .. a - 1 : x * a + y \in 0 .. a * b - 1
    <3> SUFFICES ASSUME NEW a \in Nat \ {0}, NEW b \in Nat \ {0}, NEW x \in 0 .. b - 1, NEW y \in 0 .. a - 1
                 PROVE  x * a + y \in 0 .. a * b - 1
        OBVIOUS
    <3>1. PICK d \in Nat : b = x + 1 + d
      <4>1. b - x - 1 \in Nat /\ b = x + 1 + (b - x - 1)  OBVIOUS
      <4> QED BY <4>1
    <3>2. a * b = x * a + a + a * d  BY <3>1
    <3>3. a * d \in Nat /\ x * a \in Nat  BY <3>1
    <3> QED BY <3>2, <3>3
  <2> QED BY <1>1, <2>2, <2>6, <2>7, <2>8 DEF Indices
<1> QED BY <1>2, <1>3

\* Where a value that the buckets resolve is: octave o, slot s of it, w wide.
In(v, o, s, w) ==
    /\ o \in 0 .. Oct - 1 /\ s \in 0 .. Sub - 1 /\ w \in Nat \ {0}
    /\ Pow2[o] = Sub * w
    /\ Pow2[o] + s * w <= v /\ v < Pow2[o] + s * w + w
    /\ v < Pow2[o + 1]
    /\ hist_index(v) = o * Sub + s
    /\ hist_value_at(hist_index(v)) = Pow2[o] + s * w + w \div 2

\* Each value from Sub to 2^Oct is in such a place: no step overflows, and the
\* slots of an octave divide it evenly.
LEMMA ResolvedIn ==
    ASSUME NEW v \in Nat, v >= Sub, v < Pow2[Oct]
    PROVE  \E o, s, w \in Nat : In(v, o, s, w)
<1> DEFINE o == HighBit(v)
<1>1. /\ Width \in Nat \ {0} /\ Sub \in Nat \ {0} /\ Oct \in Nat \ {0} /\ Oct \in 0 .. Width
      /\ Greatest \in Nat /\ Greatest + 1 = Pow2[Width] /\ Pow2[Width] \in Nat
      /\ Pow2[Oct] \in Nat /\ Pow2[Oct] <= Pow2[Width]
      BY Sizes
<1>p. \A k \in 0 .. Width : Pow2[k] \in Nat \ {0}  BY PowUnfolds
<1>2. v \in 1 .. Greatest  BY <1>1
<1>3. o \in 0 .. Width - 1 /\ Pow2[o] <= v /\ v < Pow2[o + 1]  BY <1>2, HighBitFacts
<1> HIDE DEF o
<1>4. o \in 0 .. Width /\ o + 1 \in 0 .. Width /\ o \in Nat  BY <1>1, <1>3
<1>5. Pow2[o] \in Nat \ {0} /\ Pow2[o + 1] \in Nat  BY <1>4, <1>p
<1>6. o < Oct
  <2> SUFFICES ASSUME Oct <= o PROVE FALSE  BY <1>1, <1>4
  <2>1. Pow2[Oct] <= Pow2[o]  BY <1>1, <1>4, PowGrows
  <2> QED BY <1>1, <1>3, <1>5, <2>1
<1>7. PICK e \in 0 .. Width : Sub = Pow2[e] /\ Oct - 1 + e <= Width  BY HistAssumption
<1>8. e <= o
  <2> SUFFICES ASSUME o + 1 <= e PROVE FALSE  BY <1>4, <1>7, <1>1
  <2>1. Pow2[o + 1] <= Pow2[e]  BY <1>4, <1>7, PowGrows
  <2> QED BY <1>1, <1>3, <1>5, <1>7, <2>1
<1> DEFINE w == Pow2[o - e]
<1>9. w \in Nat \ {0} /\ Pow2[o] = Sub * w
  <2>1. o - e \in 0 .. Width - e /\ o - e \in 0 .. Width /\ e + (o - e) = o  BY <1>1, <1>4, <1>7, <1>8
  <2>2. Pow2[e + (o - e)] = Pow2[e] * Pow2[o - e]  BY <1>7, <2>1, PowAdds
  <2> QED BY <2>1, <2>2, <1>p, <1>7
<1> HIDE DEF w
<1> DEFINE base == Pow2[o]
           d == v - base
           s == d \div w
<1>10. base \in Nat \ {0} /\ base = Sub * w /\ d \in Nat /\ d < base /\ v = base + d
  <2>1. Pow2[o + 1] = 2 * Pow2[o]  BY <1>3, PowUnfolds
  <2> QED BY <2>1, <1>3, <1>5, <1>9
<1> HIDE DEF base, d
<1>11. s \in Nat /\ w * s <= d /\ d < w * s + w
  <2> DEFINE m == d % w
  <2>1. s \in Nat /\ m \in 0 .. w - 1 /\ d = w * s + m  BY <1>9, <1>10, DivMod
  <2> HIDE DEF s, m
  <2> QED BY <1>9, <2>1
<1> HIDE DEF s
<1>12. s < Sub /\ s * w = w * s
  <2> SUFFICES ASSUME Sub <= s PROVE FALSE  BY <1>1, <1>9, <1>11
  <2>1. \A x, y, z \in Nat : x <= y => x * z <= z * y  OBVIOUS
  <2>2. Sub * w <= w * s  BY <2>1, <1>1, <1>9, <1>11
  <2> QED BY <2>2, <1>10, <1>11, <1>9, <1>1
<1>13. Wrap(d * Sub) = d * Sub /\ d * Sub \in Nat
  <2>1. Pow2[o + e] = base * Sub
    <3>1. e \in 0 .. Width - o  BY <1>1, <1>4, <1>6, <1>7
    <3>2. Pow2[o + e] = Pow2[o] * Pow2[e]  BY <1>4, <3>1, PowAdds
    <3> QED BY <3>2, <1>7 DEF base
  <2>2. Pow2[o + e] <= Pow2[Width]
    <3>1. o + e \in 0 .. Width /\ Width \in 0 .. Width /\ o + e <= Width  BY <1>1, <1>4, <1>6, <1>7
    <3> QED BY <3>1, PowGrows
  <2>3. \A x, y, z \in Nat : x < y /\ z > 0 => x * z < y * z /\ x * z \in Nat /\ y * z \in Nat
    <3> SUFFICES ASSUME NEW x \in Nat, NEW y \in Nat, NEW z \in Nat, x < y, z > 0
                 PROVE  x * z < y * z /\ x * z \in Nat /\ y * z \in Nat
        OBVIOUS
    <3>1. PICK c \in Nat : y = x + 1 + c
      <4>1. y - x - 1 \in Nat /\ y = x + 1 + (y - x - 1)  OBVIOUS
      <4> QED BY <4>1
    <3>2. y * z = x * z + z + c * z /\ c * z \in Nat /\ x * z \in Nat  BY <3>1
    <3> QED BY <3>2
  <2>4. d * Sub < base * Sub /\ d * Sub \in Nat /\ base * Sub \in Nat  BY <2>3, <1>1, <1>10
  <2>5. d * Sub \in 0 .. Greatest  BY <2>1, <2>2, <2>4, <1>1
  <2> QED BY <2>4, <2>5, WrapFacts
<1>14. (d * Sub) \div base = s
  <2> DEFINE r == d - w * s
             q == (d * Sub) \div base
             m == (d * Sub) % base
  <2>1. r \in Nat /\ r < w /\ d = w * s + r  BY <1>9, <1>10, <1>11
  <2> HIDE DEF r
  <2>2. d * Sub = base * s + Sub * r
    <3>1. \A x, y, z, c \in Nat : (x * y + z) * c = (c * x) * y + c * z  OBVIOUS
    <3> QED BY <3>1, <2>1, <1>1, <1>9, <1>10, <1>11
  <2>3. Sub * r \in 0 .. base - 1
    <3>1. PICK c \in Nat : w = r + 1 + c
      <4>1. w - r - 1 \in Nat /\ w = r + 1 + (w - r - 1)  BY <2>1, <1>9
      <4> QED BY <4>1
    <3>2. Sub * w = Sub * r + Sub + Sub * c /\ Sub * c \in Nat /\ Sub * r \in Nat  BY <3>1, <1>1, <2>1
    <3> QED BY <3>2, <1>1, <1>10
  <2>4. q \in Nat /\ m \in 0 .. base - 1 /\ d * Sub = base * q + m  BY <1>10, <1>13, DivMod
  <2> HIDE DEF q, m
  <2>5. base * s + Sub * r = base * q + m  BY <2>2, <2>4
  <2>6. q = s  BY <1>10, <1>11, <2>3, <2>4, <2>5, DivModUnique
  <2> QED BY <2>6 DEF q
<1>15. hist_index(v) = o * Sub + s
  <2>1. Clip(HighBit(v), Oct) = o
    <3>1. HighBit(v) = o  BY DEF o
    <3> QED BY <3>1, <1>1, <1>4, <1>6 DEF Clip
  <2>2. Clip(s, Sub) = s  BY <1>11, <1>12, <1>1 DEF Clip
  <2>3. Wrap((v - Pow2[o]) * Sub) \div Pow2[o] = s  BY <1>13, <1>14 DEF d, base
  <2>4. v # 0  BY <1>2
  <2> QED BY <2>1, <2>2, <2>3, <2>4 DEF hist_index
<1>16. hist_value_at(hist_index(v)) = base + s * w + w \div 2
  <2> DEFINE i == hist_index(v)
             id == i \div Sub
             im == i % Sub
  <2>1. i = Sub * o + s /\ i \in Nat
    <3>1. \A x, y \in Nat : x * y = y * x /\ x * y \in Nat  OBVIOUS
    <3>2. o * Sub = Sub * o /\ Sub * o \in Nat  BY <3>1, <1>1, <1>4
    <3> QED BY <3>2, <1>15, <1>11
  <2> HIDE DEF i
  <2>2. id \in Nat /\ im \in 0 .. Sub - 1 /\ i = Sub * id + im  BY <2>1, <1>1, DivMod
  <2> HIDE DEF id, im
  <2>3. s \in 0 .. Sub - 1  BY <1>11, <1>12, <1>1
  <2>4. id = o /\ im = s
    <3>1. Sub * o + s = Sub * id + im  BY <2>1, <2>2
    <3> QED BY <1>1, <1>4, <2>2, <2>3, <3>1, DivModUnique
  <2>5. ~(base < Sub) /\ base \div Sub = w
    <3>1. \A x, y \in Nat \ {0} : ~(x * y < x)  OBVIOUS
    <3>2. ~(base < Sub)  BY <3>1, <1>1, <1>9, <1>10
    <3> DEFINE q == base \div Sub
               m == base % Sub
    <3>3. q \in Nat /\ m \in 0 .. Sub - 1 /\ base = Sub * q + m  BY <1>1, <1>10, DivMod
    <3> HIDE DEF q, m
    <3>4. 0 \in 0 .. Sub - 1 /\ Sub * w + 0 = Sub * q + m  BY <1>1, <1>9, <1>10, <3>3
    <3>5. q = w  BY <1>1, <1>9, <3>3, <3>4, DivModUnique
    <3> QED BY <3>2, <3>5 DEF q
  <2>6. i \div Sub = o /\ i % Sub = s  BY <2>4 DEF id, im
  <2>7. hist_value_at(i) = base + s * w + w \div 2
        BY <2>5, <2>6 DEF hist_value_at, base
  <2> QED BY <2>7 DEF i
<1>17. In(v, o, s, w)
  <2>1. o \in 0 .. Oct - 1 /\ s \in 0 .. Sub - 1  BY <1>1, <1>4, <1>6, <1>11, <1>12
  <2>2. base + s * w <= v /\ v < base + s * w + w
    <3>1. w * s \in Nat  BY <1>9, <1>11
    <3> QED BY <3>1, <1>9, <1>10, <1>11, <1>12
  <2> QED BY <2>1, <2>2, <1>3, <1>9, <1>15, <1>16 DEF In, base
<1> QED BY <1>4, <1>9, <1>11, <1>17

\* The middle of a bucket is in the bucket, and within one part in Sub of all of it.
LEMMA MiddleIsNear ==
    ASSUME NEW v \in Nat, NEW o \in Nat, NEW s \in Nat, NEW w \in Nat, In(v, o, s, w),
           NEW at, at = hist_value_at(hist_index(v))
    PROVE  /\ at \in Nat
           /\ Pow2[o] + s * w <= at /\ at < Pow2[o] + s * w + w
           /\ Sub * (at - v) <= v /\ Sub * (v - at) <= v
<1> DEFINE half == w \div 2
           lo == Pow2[o] + s * w
<1>1. Sub \in Nat \ {0} /\ w \in Nat \ {0} /\ Pow2[o] \in Nat /\ s * w \in Nat
  <2>1. Sub \in Nat \ {0}  BY Sizes
  <2>2. w \in Nat \ {0} /\ Pow2[o] = Sub * w  BY DEF In
  <2>3. \A x, y \in Nat : x * y \in Nat  OBVIOUS
  <2> QED BY <2>1, <2>2, <2>3
<1>2. half \in Nat /\ half < w  BY <1>1
<1>3. at = lo + half  BY DEF In
<1>4. lo <= v /\ v < lo + w /\ Sub * w <= lo /\ lo \in Nat  BY <1>1 DEF In
<1> HIDE DEF half, lo
<1>5. at \in Nat /\ lo <= at /\ at < lo + w  BY <1>1, <1>2, <1>3, <1>4
<1>6. \A c \in Int : c <= w => Sub * c <= Sub * w
  <2> SUFFICES ASSUME NEW c \in Int, c <= w PROVE Sub * c <= Sub * w  OBVIOUS
  <2>1. w - c \in Nat  BY <1>1
  <2>2. Sub * (w - c) \in Nat  BY <1>1, <2>1
  <2>3. Sub * (w - c) = Sub * w - Sub * c  BY <1>1
  <2> QED BY <1>1, <2>2, <2>3
<1>7. at - v \in Int /\ at - v <= w /\ v - at \in Int /\ v - at <= w  BY <1>1, <1>4, <1>5
<1>8. Sub * (at - v) <= Sub * w /\ Sub * (v - at) <= Sub * w  BY <1>6, <1>7
<1>9. Sub * (at - v) \in Int /\ Sub * (v - at) \in Int /\ Sub * w \in Int  BY <1>1, <1>7
<1>10. Sub * (at - v) <= v /\ Sub * (v - at) <= v  BY <1>4, <1>8, <1>9
<1> QED BY <1>5, <1>10 DEF lo

\* The buckets are in the order of their values, and so are their middles.
LEMMA BucketsInOrder ==
    ASSUME NEW u \in Nat, NEW a \in Nat, NEW s \in Nat, NEW x \in Nat, In(u, a, s, x),
           NEW v \in Nat, NEW b \in Nat, NEW t \in Nat, NEW y \in Nat, In(v, b, t, y),
           u <= v
    PROVE  /\ hist_index(u) <= hist_index(v)
           /\ hist_value_at(hist_index(u)) <= hist_value_at(hist_index(v))
<1> DEFINE uat == hist_value_at(hist_index(u))
           vat == hist_value_at(hist_index(v))
<1>1. /\ Sub \in Nat \ {0} /\ x \in Nat \ {0} /\ y \in Nat \ {0}
      /\ Pow2[a] = Sub * x /\ Pow2[b] = Sub * y
      /\ Pow2[a] \in Nat /\ Pow2[b] \in Nat /\ s * x \in Nat /\ t * y \in Nat
      /\ a * Sub \in Nat /\ b * Sub \in Nat
  <2>1. Sub \in Nat \ {0}  BY Sizes
  <2>2. x \in Nat \ {0} /\ y \in Nat \ {0} /\ Pow2[a] = Sub * x /\ Pow2[b] = Sub * y  BY DEF In
  <2>3. \A c, d \in Nat : c * d \in Nat  OBVIOUS
  <2> QED BY <2>1, <2>2, <2>3
<1>2. /\ s < Sub /\ t < Sub /\ a < Oct /\ b < Oct
      /\ hist_index(u) = a * Sub + s /\ hist_index(v) = b * Sub + t
      /\ Pow2[a] + s * x <= u /\ v < Pow2[b] + t * y + y /\ v < Pow2[b + 1]
      BY <1>1, Sizes DEF In
<1>3. /\ uat \in Nat /\ Pow2[a] + s * x <= uat /\ uat < Pow2[a] + s * x + x
      /\ vat \in Nat /\ Pow2[b] + t * y <= vat /\ vat < Pow2[b] + t * y + y
      BY MiddleIsNear
<1> HIDE DEF uat, vat
<1>o. /\ a \in 0 .. Width /\ b \in 0 .. Width /\ a + 1 \in 0 .. Width /\ b + 1 \in 0 .. Width
      /\ a \in 0 .. Width - 1
  <2>1. Oct \in 0 .. Width /\ Width \in Nat  BY Sizes
  <2> QED BY <1>2, <2>1
<1>p. Pow2[a + 1] \in Nat /\ Pow2[b + 1] \in Nat  BY <1>o, PowUnfolds
<1>m. \A c, d, z \in Nat : c < d => c * z + z <= d * z
  <2> SUFFICES ASSUME NEW c \in Nat, NEW d \in Nat, NEW z \in Nat, c < d
               PROVE  c * z + z <= d * z
      OBVIOUS
  <2>1. PICK e \in Nat : d = c + 1 + e
    <3>1. d - c - 1 \in Nat /\ d = c + 1 + (d - c - 1)  OBVIOUS
    <3> QED BY <3>1
  <2>2. d * z = c * z + z + e * z /\ e * z \in Nat /\ c * z \in Nat  BY <2>1
  <2> QED BY <2>2
<1>4. CASE a = b
  <2>1. x = y
    <3>1. Sub * x = Sub * y  BY <1>1, <1>4
    <3>2. x * Sub = Sub * x /\ y * Sub = Sub * y  BY <1>1
    <3>3. ~(x < y)
      <4> SUFFICES ASSUME x < y PROVE FALSE  OBVIOUS
      <4>1. x * Sub + Sub <= y * Sub  BY <1>m, <1>1
      <4>2. Sub * x \in Nat /\ Sub * y \in Nat  BY <1>1
      <4> QED BY <3>1, <3>2, <4>1, <4>2, <1>1
    <3>4. ~(y < x)
      <4> SUFFICES ASSUME y < x PROVE FALSE  OBVIOUS
      <4>1. y * Sub + Sub <= x * Sub  BY <1>m, <1>1
      <4>2. Sub * x \in Nat /\ Sub * y \in Nat  BY <1>1
      <4> QED BY <3>1, <3>2, <4>1, <4>2, <1>1
    <3> QED BY <3>3, <3>4, <1>1
  <2>2. s <= t
    <3> SUFFICES ASSUME t < s PROVE FALSE  OBVIOUS
    <3>1. t * x + x <= s * x  BY <1>m, <1>1
    <3>2. Pow2[a] + s * x <= u /\ v < Pow2[a] + t * x + x /\ s * x \in Nat /\ t * x \in Nat
          BY <1>1, <1>2, <1>4, <2>1
    <3> QED BY <3>1, <3>2, <1>1
  <2>3. hist_index(u) <= hist_index(v)
    <3>1. a * Sub = b * Sub  BY <1>4
    <3> QED BY <1>1, <1>2, <2>2, <3>1
  <2>4. uat <= vat
    <3>1. CASE s = t
      <4>1. hist_index(u) = hist_index(v)  BY <1>2, <1>4, <3>1
      <4> QED BY <4>1, <1>3 DEF uat, vat
    <3>2. CASE s < t
      <4>1. s * x + x <= t * x  BY <1>m, <1>1, <3>2
      <4>2. uat < Pow2[a] + s * x + x /\ Pow2[a] + t * x <= vat /\ t * x \in Nat
            BY <1>1, <1>3, <1>4, <2>1
      <4> QED BY <4>1, <4>2, <1>1, <1>3
    <3> QED BY <2>2, <3>1, <3>2
  <2> QED BY <2>3, <2>4 DEF uat, vat
<1>5. CASE a < b
  <2>1. hist_index(u) <= hist_index(v)
    <3>1. a * Sub + Sub <= b * Sub  BY <1>m, <1>1, <1>5
    <3> QED BY <3>1, <1>1, <1>2
  <2>2. uat <= vat
    <3>1. Pow2[a + 1] <= Pow2[b]
      <4>1. a + 1 <= b  BY <1>5
      <4> QED BY <4>1, <1>o, PowGrows
    <3>2. Pow2[a + 1] = 2 * Pow2[a]  BY <1>o, PowUnfolds
    <3>3. s * x + x <= Sub * x  BY <1>m, <1>1, <1>2
    <3> QED BY <3>1, <3>2, <3>3, <1>1, <1>3, <1>p
  <2> QED BY <2>1, <2>2 DEF uat, vat
<1>6. CASE b < a
  <2>1. Pow2[b + 1] <= Pow2[a]
    <3>1. b + 1 <= a  BY <1>6
    <3> QED BY <3>1, <1>o, PowGrows
  <2>2. FALSE  BY <2>1, <1>1, <1>2, <1>p
  <2> QED BY <2>2
<1> QED BY <1>4, <1>5, <1>6

-----------------------------------------------------------------------------
(* Histograms as sets of events                                              *)

\* A finite set of events whose values a uint64_t holds.
Well(E) == IsFiniteSet(E) /\ \A e \in E : e[2] \in 0 .. Greatest

\* A set of bounded values has a least and a greatest.
LEMMA Extremes ==
    ASSUME NEW S, S \subseteq 0 .. Greatest, S # {}
    PROVE  /\ Min(S) \in S /\ Max(S) \in S /\ Min(S) \in Nat /\ Max(S) \in Nat
           /\ \A y \in S : Min(S) <= y /\ y <= Max(S)
           /\ \A x \in S : (\A y \in S : x <= y) => x = Min(S)
           /\ \A x \in S : (\A y \in S : y <= x) => x = Max(S)
<1>1. Greatest \in Nat /\ S \subseteq Nat  BY Sizes
<1>2. PICK x \in S : \A y \in S : x <= y  BY <1>1, LeastNumber
<1> DEFINE T == {Greatest - y : y \in S}
<1>3. T \subseteq Nat /\ T # {}
  <2>1. \A y \in S : Greatest - y \in Nat  BY <1>1
  <2> QED BY <2>1
<1>4. PICK c \in T : \A d \in T : c <= d
  <2> HIDE DEF T
  <2> QED BY <1>3, LeastNumber
<1>5. PICK z \in S : c = Greatest - z  BY <1>4
<1>6. \A y \in S : y <= z
  <2> SUFFICES ASSUME NEW y \in S PROVE y <= z  OBVIOUS
  <2>1. c <= Greatest - y  BY <1>4
  <2> QED BY <1>1, <1>5, <2>1
<1>7. Min(S) \in S /\ \A y \in S : Min(S) <= y  BY <1>2 DEF Min
<1>8. Max(S) \in S /\ \A y \in S : Max(S) >= y  BY <1>6, <1>1 DEF Max
<1>9. Min(S) \in Nat /\ Max(S) \in Nat  BY <1>1, <1>7, <1>8
<1> HIDE DEF T
<1>10. \A y \in S : y <= Max(S)  BY <1>1, <1>8, <1>9
<1>11. \A y \in S : (\A q \in S : y <= q) => y = Min(S)  BY <1>1, <1>7, <1>9
<1>12. \A y \in S : (\A q \in S : q <= y) => y = Max(S)  BY <1>1, <1>8, <1>9
<1> QED BY <1>7, <1>8, <1>9, <1>10, <1>11, <1>12

\* Finitely many events have finitely many units.
LEMMA UnitsFinite ==
    ASSUME NEW E, IsFiniteSet(E)
    PROVE  IsFiniteSet(Units(E)) /\ Cardinality(Units(E)) \in Nat
<1>1. IsFiniteSet(0 .. Greatest)  BY Sizes, FS_Interval
<1>2. IsFiniteSet(E \X (0 .. Greatest))  BY <1>1, FS_Product
<1>3. Units(E) \in SUBSET (E \X (0 .. Greatest))  BY DEF Units
<1> QED BY <1>2, <1>3, FS_Subset, FS_CardinalityType

\* An event has as many units as its value.
LEMMA UnitsOfOne ==
    ASSUME NEW e, NEW v \in 0 .. Greatest, e[2] = v
    PROVE  Cardinality(Units({e})) = v
<1> DEFINE S == 0 .. v - 1
           f == [x \in S |-> <<e, x>>]
           U == Units({e})
<1>1. v \in Nat /\ Greatest \in Nat  BY Sizes
<1>2. IsFiniteSet(S) /\ Cardinality(S) = v
  <2>1. IsFiniteSet(S) /\ Cardinality(S) = IF 0 > v - 1 THEN 0 ELSE (v - 1) - 0 + 1  BY <1>1, FS_Interval
  <2> HIDE DEF S
  <2> QED BY <1>1, <2>1
<1>3. \A x \in S : <<e, x>> \in U
  <2> SUFFICES ASSUME NEW x \in S PROVE <<e, x>> \in U  OBVIOUS
  <2>1. x \in 0 .. Greatest /\ x < v  BY <1>1
  <2> QED BY <2>1 DEF Units
<1>4. \A u \in U : u[2] \in S /\ u = <<e, u[2]>>
  <2> SUFFICES ASSUME NEW u \in U PROVE u[2] \in S /\ u = <<e, u[2]>>  OBVIOUS
  <2>1. u \in {e} \X (0 .. Greatest) /\ u[2] < u[1][2]  BY DEF Units
  <2>2. u[1] = e /\ u[2] \in 0 .. Greatest /\ u = <<u[1], u[2]>>  BY <2>1
  <2> QED BY <1>1, <2>1, <2>2
<1> HIDE DEF S, U
<1>5. f \in [S -> U]  BY <1>3
<1>6. \A x, y \in S : f[x] = f[y] => x = y  OBVIOUS
<1>7. \A u \in U : \E x \in S : f[x] = u
  <2> SUFFICES ASSUME NEW u \in U PROVE \E x \in S : f[x] = u  OBVIOUS
  <2>1. u[2] \in S /\ f[u[2]] = u  BY <1>4
  <2> QED BY <2>1
<1> HIDE DEF f
<1>8. f \in Bijection(S, U)
  <2>1. f \in Injection(S, U)  BY <1>5, <1>6 DEF Injection, IsInjective
  <2>2. f \in Surjection(S, U)  BY <1>5, <1>7 DEF Surjection
  <2> QED BY <2>1, <2>2 DEF Bijection
<1>9. ExistsBijection(S, U)  BY <1>8 DEF ExistsBijection
<1>10. Cardinality(U) = Cardinality(S)  BY <1>2, <1>9, FS_Bijection
<1> QED BY <1>2, <1>10 DEF U

\* The units of disjoint sets add up.
LEMMA UnitsAdd ==
    ASSUME NEW D, NEW E, IsFiniteSet(D), IsFiniteSet(E), D \cap E = {}
    PROVE  Cardinality(Units(D \cup E)) = Cardinality(Units(D)) + Cardinality(Units(E))
<1>1. Units(D \cup E) = Units(D) \cup Units(E)  BY DEF Units
<1>2. Units(D) \cap Units(E) = {}
  <2> SUFFICES ASSUME NEW u, u \in Units(D), u \in Units(E) PROVE FALSE  OBVIOUS
  <2>1. u[1] \in D /\ u[1] \in E  BY DEF Units
  <2> QED BY <2>1
<1>3. IsFiniteSet(Units(D)) /\ IsFiniteSet(Units(E))  BY UnitsFinite
<1> QED BY <1>1, <1>2, <1>3, DisjointUnion

\* A histogram that was reset is the tally of no event.
LEMMA TallyOfNone == Tally({}) = Empty
<1>1. Cardinality({}) = 0  BY FS_EmptySet
<1>2. Units({}) = {}
  <2> SUFFICES ASSUME NEW u \in Units({}) PROVE FALSE  OBVIOUS
  <2>1. u \in {} \X (0 .. Greatest)  BY DEF Units
  <2>2. u[1] \in {}  BY <2>1
  <2> QED BY <2>2
<1>3. [i \in Indices |-> Cardinality({e \in {} : hist_index(e[2]) = i})] = [i \in Indices |-> 0]
  <2>1. \A i \in Indices : {e \in {} : hist_index(e[2]) = i} = {}  OBVIOUS
  <2> QED BY <1>1, <2>1
<1>4. Wrap(0) = 0  BY Sizes, WrapFacts
<1> QED BY <1>1, <1>2, <1>3, <1>4 DEF Tally, Empty

\* The types of a tally.
LEMMA TallyTypes ==
    ASSUME NEW E, Well(E)
    PROVE  /\ Tally(E).buckets \in [Indices -> Nat]
           /\ Tally(E).count \in Nat /\ Tally(E).sum \in Nat
           /\ Tally(E).min \in 0 .. Greatest /\ Tally(E).max \in 0 .. Greatest
           /\ Values(E) \subseteq 0 .. Greatest
           /\ \A e \in E : Tally(E).min <= e[2] /\ e[2] <= Tally(E).max
<1>1. Values(E) \subseteq 0 .. Greatest /\ \A e \in E : e[2] \in Values(E)  BY DEF Well, Values
<1>2. IsFiniteSet(E) /\ Cardinality(E) \in Nat  BY FS_CardinalityType DEF Well
<1>3. \A i \in Indices : Cardinality({e \in E : hist_index(e[2]) = i}) \in Nat
  <2> SUFFICES ASSUME NEW i \in Indices PROVE Cardinality({e \in E : hist_index(e[2]) = i}) \in Nat
      OBVIOUS
  <2> DEFINE B == {e \in E : hist_index(e[2]) = i}
  <2>1. B \in SUBSET E  OBVIOUS
  <2> HIDE DEF B
  <2>2. Cardinality(B) \in Nat  BY <1>2, <2>1, FS_Subset, FS_CardinalityType
  <2> QED BY <2>2 DEF B
<1>4. Wrap(Cardinality(Units(E))) \in Nat  BY <1>2, UnitsFinite, WrapFacts
<1>5. Greatest \in Nat  BY Sizes
<1>6. Tally(E).buckets \in [Indices -> Nat]  BY <1>3 DEF Tally
<1>7. Tally(E).count \in Nat /\ Tally(E).sum \in Nat  BY <1>2, <1>4 DEF Tally
<1>8. CASE E = {}
  <2>1. Tally(E).min = Greatest /\ Tally(E).max = 0  BY <1>8 DEF Tally
  <2> QED BY <1>1, <1>5, <1>6, <1>7, <1>8, <2>1
<1>9. CASE E # {}
  <2>1. Tally(E).min = Min(Values(E)) /\ Tally(E).max = Max(Values(E))  BY <1>9 DEF Tally
  <2>2. Values(E) # {}  BY <1>9, <1>1
  <2>3. /\ Min(Values(E)) \in Values(E) /\ Max(Values(E)) \in Values(E)
        /\ \A y \in Values(E) : Min(Values(E)) <= y /\ y <= Max(Values(E))
        BY <1>1, <2>2, Extremes
  <2> QED BY <1>1, <1>6, <1>7, <2>1, <2>3
<1> QED BY <1>8, <1>9

\* The extremes of a union are the lesser and the greater of the extremes.
LEMMA ExtremesOfUnion ==
    ASSUME NEW D, NEW E, Well(D), Well(E)
    PROVE  /\ Tally(D \cup E).min = IF Tally(E).min < Tally(D).min THEN Tally(E).min ELSE Tally(D).min
           /\ Tally(D \cup E).max = IF Tally(E).max > Tally(D).max THEN Tally(E).max ELSE Tally(D).max
<1> DEFINE lo(S) == IF S = {} THEN Greatest ELSE Min(Values(S))
           hi(S) == IF S = {} THEN 0 ELSE Max(Values(S))
<1>t. \A S : Tally(S).min = lo(S) /\ Tally(S).max = hi(S)  BY DEF Tally
<1>g. Greatest \in Nat  BY Sizes
<1>v. /\ Values(D) \subseteq 0 .. Greatest /\ Values(E) \subseteq 0 .. Greatest
      /\ Values(D \cup E) = Values(D) \cup Values(E)
      BY DEF Well, Values
<1>n. \A S : S # {} => Values(S) # {}  BY DEF Values
<1>b. /\ lo(D) \in 0 .. Greatest /\ hi(D) \in 0 .. Greatest
      /\ lo(E) \in 0 .. Greatest /\ hi(E) \in 0 .. Greatest
      BY <1>t, TallyTypes
<1>1. CASE D = {}
  <2>1. lo(D) = Greatest /\ hi(D) = 0 /\ D \cup E = E  BY <1>1
  <2> HIDE DEF lo, hi
  <2>2. /\ lo(E) = IF lo(E) < lo(D) THEN lo(E) ELSE lo(D)
        /\ hi(E) = IF hi(E) > hi(D) THEN hi(E) ELSE hi(D)
        BY <1>b, <1>g, <2>1
  <2> QED BY <1>t, <2>1, <2>2
<1>2. CASE E = {}
  <2>1. lo(E) = Greatest /\ hi(E) = 0 /\ D \cup E = D  BY <1>2
  <2> HIDE DEF lo, hi
  <2>2. /\ lo(D) = IF lo(E) < lo(D) THEN lo(E) ELSE lo(D)
        /\ hi(D) = IF hi(E) > hi(D) THEN hi(E) ELSE hi(D)
        BY <1>b, <1>g, <2>1
  <2> QED BY <1>t, <2>1, <2>2
<1>3. CASE D # {} /\ E # {}
  <2> DEFINE A == Values(D)
             B == Values(E)
             C == Values(D \cup E)
             a == Min(A)
             b == Min(B)
             c == Max(A)
             d == Max(B)
  <2>1. /\ lo(D) = a /\ lo(E) = b /\ lo(D \cup E) = Min(C)
        /\ hi(D) = c /\ hi(E) = d /\ hi(D \cup E) = Max(C)
        BY <1>3
  <2>2. A # {} /\ B # {} /\ C # {} /\ A \subseteq 0 .. Greatest /\ B \subseteq 0 .. Greatest
        /\ C = A \cup B /\ C \subseteq 0 .. Greatest
        BY <1>3, <1>n, <1>v
  <2> HIDE DEF A, B, C
  <2>3. /\ a \in A /\ c \in A /\ a \in Nat /\ c \in Nat /\ \A y \in A : a <= y /\ y <= c
        /\ b \in B /\ d \in B /\ b \in Nat /\ d \in Nat /\ \A y \in B : b <= y /\ y <= d
        BY <2>2, Extremes
  <2>4. /\ \A x \in C : (\A y \in C : x <= y) => x = Min(C)
        /\ \A x \in C : (\A y \in C : y <= x) => x = Max(C)
        BY <2>2, Extremes
  <2> HIDE DEF a, b, c, d, lo, hi
  <2> DEFINE m == IF b < a THEN b ELSE a
             g == IF d > c THEN d ELSE c
  <2>5. m \in C /\ \A y \in C : m <= y
    <3>1. m \in C /\ m <= a /\ m <= b /\ m \in Nat  BY <2>2, <2>3
    <3>2. \A y \in C : y \in Nat  BY <2>2
    <3> HIDE DEF m
    <3> QED BY <2>2, <2>3, <3>1, <3>2
  <2>6. g \in C /\ \A y \in C : y <= g
    <3>1. g \in C /\ c <= g /\ d <= g /\ g \in Nat  BY <2>2, <2>3
    <3>2. \A y \in C : y \in Nat  BY <2>2
    <3> HIDE DEF g
    <3> QED BY <2>2, <2>3, <3>1, <3>2
  <2>7. m = Min(C) /\ g = Max(C)
    <3> HIDE DEF m, g
    <3> QED BY <2>4, <2>5, <2>6
  <2> QED BY <1>t, <2>1, <2>7
<1> QED BY <1>1, <1>2, <1>3

\* Merging two histograms is the histogram of both sets of events.
LEMMA TallyMerges ==
    ASSUME NEW D, NEW E, Well(D), Well(E), D \cap E = {}
    PROVE  hist_merge(Tally(D), Tally(E)) = Tally(D \cup E) /\ Well(D \cup E)
<1>f. IsFiniteSet(D) /\ IsFiniteSet(E)  BY DEF Well
<1>1. /\ IsFiniteSet(D \cup E) /\ Cardinality(D \cup E) = Cardinality(D) + Cardinality(E)
      BY <1>f, DisjointUnion
<1>2. Well(D \cup E)  BY <1>1 DEF Well
<1> DEFINE Bucket(S, i) == {e \in S : hist_index(e[2]) = i}
<1>3. ASSUME NEW i \in Indices
      PROVE  Cardinality(Bucket(D \cup E, i)) = Cardinality(Bucket(D, i)) + Cardinality(Bucket(E, i))
  <2>1. /\ Bucket(D \cup E, i) = Bucket(D, i) \cup Bucket(E, i)
        /\ Bucket(D, i) \cap Bucket(E, i) = {}
        /\ Bucket(D, i) \in SUBSET D /\ Bucket(E, i) \in SUBSET E
        OBVIOUS
  <2> HIDE DEF Bucket
  <2>2. IsFiniteSet(Bucket(D, i)) /\ IsFiniteSet(Bucket(E, i))  BY <1>f, <2>1, FS_Subset
  <2> QED BY <2>1, <2>2, DisjointUnion
<1>4. [i \in Indices |-> Tally(D).buckets[i] + Tally(E).buckets[i]] = Tally(D \cup E).buckets
  <2>1. \A S : Tally(S).buckets = [i \in Indices |-> Cardinality(Bucket(S, i))]  BY DEF Tally
  <2> DEFINE d == Tally(D).buckets
             f == Tally(E).buckets
             g == Tally(D \cup E).buckets
  <2>2. \A i \in Indices : d[i] + f[i] = g[i]
    <3> SUFFICES ASSUME NEW i \in Indices PROVE d[i] + f[i] = g[i]  OBVIOUS
    <3>1. /\ d[i] = Cardinality(Bucket(D, i)) /\ f[i] = Cardinality(Bucket(E, i))
          /\ g[i] = Cardinality(Bucket(D \cup E, i))
          BY <2>1
    <3> HIDE DEF Bucket, d, f, g
    <3> QED BY <3>1, <1>3
  <2>3. g = [i \in Indices |-> g[i]]  BY <2>1
  <2> HIDE DEF d, f, g
  <2>4. [i \in Indices |-> d[i] + f[i]] = g  BY <2>2, <2>3
  <2> QED BY <2>4 DEF d, f, g
<1>5. Tally(D).count + Tally(E).count = Tally(D \cup E).count  BY <1>1 DEF Tally
<1>6. Wrap(Tally(D).sum + Tally(E).sum) = Tally(D \cup E).sum
  <2> DEFINE x == Cardinality(Units(D))
             y == Cardinality(Units(E))
  <2>1. x \in Nat /\ y \in Nat /\ Cardinality(Units(D \cup E)) = x + y  BY <1>f, UnitsFinite, UnitsAdd
  <2>2. Tally(D).sum = Wrap(x) /\ Tally(E).sum = Wrap(y) /\ Tally(D \cup E).sum = Wrap(Cardinality(Units(D \cup E)))
        BY DEF Tally
  <2> HIDE DEF x, y
  <2>3. Wrap(Wrap(x) + Wrap(y)) = Wrap(x + y)  BY <2>1, WrapFacts
  <2> QED BY <2>1, <2>2, <2>3, Zenon
<1>7. \A S : Tally(S) = [buckets |-> Tally(S).buckets, count |-> Tally(S).count, sum |-> Tally(S).sum,
                         min |-> Tally(S).min, max |-> Tally(S).max]
      BY DEF Tally
<1> QED BY <1>2, <1>4, <1>5, <1>6, <1>7, ExtremesOfUnion DEF hist_merge

\* Recording a value is merging the histogram of its event.
LEMMA TallyRecords ==
    ASSUME NEW E, Well(E), NEW e, e \notin E, NEW v \in 0 .. Greatest, e[2] = v
    PROVE  hist_record(Tally(E), v) = Tally(E \cup {e}) /\ Well(E \cup {e})
<1> DEFINE O == {e}
           one == Tally(O)
           i0 == hist_index(v)
<1>1. Well(O) /\ O \cap E = {} /\ E \cap O = {}
  <2>1. IsFiniteSet(O)  BY FS_Singleton
  <2> QED BY <2>1 DEF Well
<1>2. hist_merge(Tally(E), one) = Tally(E \cup O) /\ Well(E \cup O)  BY <1>1, TallyMerges
<1>3. i0 \in Indices  BY IndexInRange
<1>4. one.count = 1  BY FS_Singleton DEF Tally
<1>5. one.sum = v
  <2>1. one.sum = Wrap(Cardinality(Units(O)))  BY DEF Tally
  <2>2. Cardinality(Units(O)) = v  BY UnitsOfOne
  <2> QED BY <2>1, <2>2, WrapFacts
<1>6. one.min = v /\ one.max = v
  <2>1. Values(O) = {v} /\ O # {}  BY DEF Values
  <2>2. Min({v}) = v /\ Max({v}) = v
    <3>1. {v} \subseteq 0 .. Greatest /\ {v} # {}  OBVIOUS
    <3> QED BY <3>1, Extremes
  <2> QED BY <2>1, <2>2 DEF Tally
<1>7. \A i \in Indices : one.buckets[i] = IF i = i0 THEN 1 ELSE 0
  <2> SUFFICES ASSUME NEW i \in Indices PROVE one.buckets[i] = IF i = i0 THEN 1 ELSE 0  OBVIOUS
  <2>1. one.buckets[i] = Cardinality({x \in O : hist_index(x[2]) = i})  BY DEF Tally
  <2>2. CASE i = i0
    <3>1. {x \in O : hist_index(x[2]) = i} = O  BY <2>2
    <3> QED BY <2>1, <2>2, <3>1, FS_Singleton
  <2>3. CASE i # i0
    <3>1. {x \in O : hist_index(x[2]) = i} = {}  BY <2>3
    <3> QED BY <2>1, <2>3, <3>1, FS_EmptySet
  <2> QED BY <2>2, <2>3
<1> DEFINE t == Tally(E)
<1>8. t.buckets \in [Indices -> Nat] /\ t.min \in Nat /\ t.max \in Nat  BY TallyTypes
<1> HIDE DEF one, i0, t
<1>9. [i \in Indices |-> t.buckets[i] + one.buckets[i]] = [t.buckets EXCEPT ![i0] = @ + 1]
  <2>1. \A i \in Indices : t.buckets[i] + one.buckets[i] = IF i = i0 THEN t.buckets[i] + 1 ELSE t.buckets[i]
        BY <1>7, <1>8
  <2> QED BY <1>3, <1>8, <2>1
<1>10. hist_merge(t, one) = hist_record(t, v)
       BY <1>4, <1>5, <1>6, <1>9 DEF hist_merge, hist_record, i0
<1> QED BY <1>2, <1>10 DEF t, one

-----------------------------------------------------------------------------
(* Recording and merging                                                     *)

\* What the workers below k recorded.
Before(k) == {e \in Events : e[1] < k}

\* The inductive invariant: every histogram is the tally of what it stands for.
Gathered ==
    /\ merged \in -1 .. NWorkers
    /\ seen \in [Recorders -> [Latencies -> Nat]]
    /\ hist = [w \in Recorders |-> Tally(Of(w))]
    /\ \A w \in Recorders : Well(Of(w)) /\ \A v \in Latencies : seen[w][v] <= Cardinality(Of(w))
    /\ IF merged = -1 THEN point = Empty
       ELSE Well(Before(merged)) /\ point = Tally(Before(merged))

\* The events of the worker that records grow by the one recorded.
LEMMA RecordGathers ==
    ASSUME Gathered, NEW w \in Recorders, Record(w)
    PROVE  Gathered'
<1>1. PICK v \in Latencies :
         /\ hist' = [hist EXCEPT ![w] = hist_record(@, v)]
         /\ seen' = [seen EXCEPT ![w][v] = @ + 1]
      BY DEF Record
<1>2. merged = -1 /\ merged' = -1 /\ point' = point /\ Cardinality(Of(w)) < MaxRecords  BY DEF Record
<1>3. /\ seen \in [Recorders -> [Latencies -> Nat]] /\ seen[w][v] \in Nat
      /\ hist = [u \in Recorders |-> Tally(Of(u))] /\ Well(Of(w))
      /\ \A u \in Recorders : Well(Of(u)) /\ \A x \in Latencies : seen[u][x] <= Cardinality(Of(u))
      BY DEF Gathered
<1>4. MaxRecords \in Nat /\ v \in 0 .. Greatest  BY HistAssumption
<1>5. Cardinality(Of(w)) \in Nat  BY <1>3, FS_CardinalityType DEF Well
<1> DEFINE k == seen[w][v] + 1
           e0 == <<w, v, k>>
<1>6. k \in 1 .. MaxRecords  BY <1>2, <1>3, <1>4, <1>5
<1>7. \A u \in Recorders, x \in Latencies :
         seen'[u][x] = IF u = w /\ x = v THEN k ELSE seen[u][x]
      BY <1>1, <1>3
<1> HIDE DEF k
<1>8. e0 \notin Of(w) /\ e0[1] = w /\ e0[2] = v
  <2>1. e0[3] = k /\ k > seen[w][v]  BY <1>3 DEF k
  <2> QED BY <1>3, <1>6, <2>1 DEF Of, Events
<1>9. \A e : e \in Events' <=> e \in Events \/ e = e0
  <2> SUFFICES ASSUME NEW e \in Recorders \X Latencies \X (1 .. MaxRecords)
               PROVE  e[3] <= seen'[e[1]][e[2]] <=> e[3] <= seen[e[1]][e[2]] \/ e = e0
    <3>1. e0 \in Recorders \X Latencies \X (1 .. MaxRecords)  BY <1>6
    <3>2. e0[3] <= seen'[e0[1]][e0[2]]
      <4>1. seen'[w][v] = k /\ k \in Nat  BY <1>6, <1>7
      <4> QED BY <4>1
    <3> HIDE DEF e0
    <3> QED BY <3>1, <3>2 DEF Events
  <2>1. PICK u \in Recorders, x \in Latencies, c \in 1 .. MaxRecords : e = <<u, x, c>>  OBVIOUS
  <2>2. CASE u = w /\ x = v
    <3>1. e[3] = c /\ seen'[e[1]][e[2]] = k /\ seen[e[1]][e[2]] = seen[w][v] /\ (e = e0 <=> c = k)
          BY <1>7, <2>1, <2>2
    <3>2. k = seen[w][v] + 1 /\ c \in Nat  BY DEF k
    <3> QED BY <1>3, <3>1, <3>2
  <2>3. CASE ~(u = w /\ x = v)
    <3>1. seen'[e[1]][e[2]] = seen[e[1]][e[2]] /\ e # e0  BY <1>7, <2>1, <2>3
    <3> QED BY <3>1
  <2> QED BY <2>2, <2>3
<1> HIDE DEF e0
<1>10. Of(w)' = Of(w) \cup {e0}  BY <1>8, <1>9 DEF Of
<1>11. \A u \in Recorders : u # w => Of(u)' = Of(u)  BY <1>8, <1>9 DEF Of
<1>12. hist_record(Tally(Of(w)), v) = Tally(Of(w) \cup {e0}) /\ Well(Of(w) \cup {e0})
       BY <1>3, <1>4, <1>8, TallyRecords
<1>13. Cardinality(Of(w) \cup {e0}) = Cardinality(Of(w)) + 1
  <2>1. IsFiniteSet(Of(w))  BY <1>3 DEF Well
  <2> QED BY <1>8, <2>1, FS_AddElement
<1>14. hist' = [u \in Recorders |-> Tally(Of(u)')]
  <2>1. hist' = [u \in Recorders |-> IF u = w THEN hist_record(Tally(Of(w)), v) ELSE Tally(Of(u))]
        BY <1>1, <1>3
  <2> QED BY <2>1, <1>10, <1>11, <1>12
<1>15. \A u \in Recorders : Well(Of(u)') /\ \A x \in Latencies : seen'[u][x] <= Cardinality(Of(u)')
  <2> SUFFICES ASSUME NEW u \in Recorders
               PROVE  Well(Of(u)') /\ \A x \in Latencies : seen'[u][x] <= Cardinality(Of(u)')
      OBVIOUS
  <2>1. CASE u = w
    <3>1. Well(Of(u)') /\ Cardinality(Of(u)') = Cardinality(Of(w)) + 1  BY <1>10, <1>12, <1>13, <2>1
    <3>2. \A x \in Latencies : seen'[u][x] <= Cardinality(Of(w)) + 1
      <4> SUFFICES ASSUME NEW x \in Latencies PROVE seen'[u][x] <= Cardinality(Of(w)) + 1  OBVIOUS
      <4>1. seen'[u][x] = IF x = v THEN seen[w][v] + 1 ELSE seen[w][x]  BY <1>7, <2>1 DEF k
      <4>2. seen[w][x] <= Cardinality(Of(w)) /\ seen[w][v] <= Cardinality(Of(w)) /\ seen[w][x] \in Nat  BY <1>3
      <4> QED BY <1>3, <1>5, <4>1, <4>2
    <3> QED BY <3>1, <3>2
  <2>2. CASE u # w
    <3>1. Of(u)' = Of(u) /\ \A x \in Latencies : seen'[u][x] = seen[u][x]  BY <1>7, <1>11, <2>2
    <3> QED BY <1>3, <3>1
  <2> QED BY <2>1, <2>2
<1>16. seen' \in [Recorders -> [Latencies -> Nat]]
  <2>1. [seen[w] EXCEPT ![v] = @ + 1] \in [Latencies -> Nat]  BY <1>3
  <2> QED BY <1>1, <1>3, <2>1
<1>17. merged' \in -1 .. NWorkers /\ point' = Empty  BY <1>2 DEF Gathered
<1>18. (\A u \in Recorders : Well(Of(u)) /\ \A x \in Latencies : seen[u][x] <= Cardinality(Of(u)))'
       BY <1>15
<1> QED BY <1>2, <1>14, <1>16, <1>17, <1>18 DEF Gathered

\* The events of the worker merged join those of the workers before it.
LEMMA MergeGathers ==
    ASSUME Gathered, Merge
    PROVE  Gathered'
<1>1. /\ merged \in Recorders /\ point' = hist_merge(point, hist[merged])
      /\ merged' = merged + 1 /\ hist' = hist /\ seen' = seen
      BY DEF Merge
<1>2. merged \in Nat /\ merged + 1 \in 0 .. NWorkers /\ merged # -1 /\ merged + 1 # -1
      BY <1>1, Sizes DEF Recorders
<1>3. /\ Well(Before(merged)) /\ point = Tally(Before(merged))
      /\ hist[merged] = Tally(Of(merged)) /\ Well(Of(merged))
      BY <1>1, <1>2 DEF Gathered
<1>4. \A e \in Events : e[1] \in Nat  BY DEF Events, Recorders
<1>5. Before(merged) \cap Of(merged) = {}  BY <1>2, <1>4 DEF Before, Of
<1>6. Before(merged + 1) = Before(merged) \cup Of(merged)
  <2>1. \A e \in Events : e[1] < merged + 1 <=> e[1] < merged \/ e[1] = merged  BY <1>2, <1>4
  <2> QED BY <2>1 DEF Before, Of
<1>7. /\ hist_merge(Tally(Before(merged)), Tally(Of(merged))) = Tally(Before(merged + 1))
      /\ Well(Before(merged + 1))
      BY <1>3, <1>5, <1>6, TallyMerges
<1>8. Events' = Events  BY <1>1 DEF Events
<1>9. Before(merged)' = Before(merged + 1)  BY <1>1, <1>8 DEF Before
<1>10. point' = Tally(Before(merged + 1))  BY <1>1, <1>3, <1>7
<1>11. \A w \in Recorders : Of(w)' = Of(w)  BY <1>8 DEF Of
<1>12. hist' = [w \in Recorders |-> Tally(Of(w)')]  BY <1>1, <1>11 DEF Gathered
<1>13. (\A w \in Recorders : Well(Of(w)) /\ \A v \in Latencies : seen[w][v] <= Cardinality(Of(w)))'
       BY <1>1, <1>11 DEF Gathered
<1>14. merged' \in -1 .. NWorkers /\ merged' # -1 /\ seen' \in [Recorders -> [Latencies -> Nat]]
       BY <1>1, <1>2 DEF Gathered
<1>15. Well(Before(merged))' /\ (point = Tally(Before(merged)))'
  <2>1. Well(Before(merged)')  BY <1>7, <1>9
  <2>2. point' = Tally(Before(merged)')  BY <1>9, <1>10
  <2> QED BY <2>1, <2>2
<1> QED BY <1>12, <1>13, <1>14, <1>15 DEF Gathered

\* What was recorded is in the histograms at every step.
LEMMA GatheredHolds == HistSpec => []Gathered
<1>1. HistInit => Gathered
  <2> SUFFICES ASSUME HistInit PROVE Gathered  OBVIOUS
  <2>1. Events = {}
    <3> SUFFICES ASSUME NEW e \in Events PROVE FALSE  OBVIOUS
    <3>1. PICK u \in Recorders, x \in Latencies, c \in 1 .. MaxRecords : e = <<u, x, c>>  BY DEF Events
    <3>2. e[3] = c /\ e[3] <= seen[u][x]  BY <3>1 DEF Events
    <3>3. seen[u][x] = 0  BY DEF HistInit
    <3> QED BY <3>1, <3>2, <3>3
  <2>2. \A w \in Recorders : Of(w) = {}  BY <2>1 DEF Of
  <2>3. Well({}) /\ Cardinality({}) = 0  BY FS_EmptySet DEF Well
  <2>4. hist = [w \in Recorders |-> Tally(Of(w))]  BY <2>2, TallyOfNone DEF HistInit
  <2>5. \A w \in Recorders : Well(Of(w)) /\ \A v \in Latencies : seen[w][v] <= Cardinality(Of(w))
        BY <2>2, <2>3 DEF HistInit
  <2>6. merged = -1 /\ merged \in -1 .. NWorkers /\ point = Empty  BY Sizes DEF HistInit
  <2>7. seen \in [Recorders -> [Latencies -> Nat]]  BY DEF HistInit
  <2> QED BY <2>4, <2>5, <2>6, <2>7 DEF Gathered
<1>2. Gathered /\ [HistNext]_histVars => Gathered'
  <2> SUFFICES ASSUME Gathered, [HistNext]_histVars PROVE Gathered'  OBVIOUS
  <2>1. CASE \E w \in Recorders : Record(w)  BY <2>1, RecordGathers
  <2>2. CASE Merge  BY <2>2, MergeGathers
  <2>3. CASE Join
    <3>1. merged = -1 /\ merged' = 0 /\ hist' = hist /\ seen' = seen /\ point' = point  BY <2>3 DEF Join
    <3>2. Events' = Events /\ \A w \in Recorders : Of(w)' = Of(w)  BY <3>1 DEF Events, Of
    <3>3. Before(merged)' = {}
      <4>1. \A e \in Events : e[1] \in Nat  BY DEF Events, Recorders
      <4> QED BY <3>1, <3>2, <4>1 DEF Before
    <3>4. Well({}) /\ point' = Tally({})
      <4>1. Well({})  BY FS_EmptySet DEF Well
      <4> QED BY <3>1, <4>1, TallyOfNone DEF Gathered
    <3>5. Well(Before(merged))' /\ (point = Tally(Before(merged)))'
      <4>1. Well(Before(merged)') /\ point' = Tally(Before(merged)')  BY <3>3, <3>4
      <4> QED BY <4>1
    <3>6. hist' = [w \in Recorders |-> Tally(Of(w)')]  BY <3>1, <3>2 DEF Gathered
    <3>7. (\A w \in Recorders : Well(Of(w)) /\ \A v \in Latencies : seen[w][v] <= Cardinality(Of(w)))'
          BY <3>1, <3>2 DEF Gathered
    <3>8. merged' \in -1 .. NWorkers /\ merged' # -1 /\ seen' \in [Recorders -> [Latencies -> Nat]]
          BY <3>1, Sizes DEF Gathered
    <3> QED BY <3>5, <3>6, <3>7, <3>8 DEF Gathered
  <2>4. CASE Reported \/ UNCHANGED histVars
    <3>1. merged' = merged /\ hist' = hist /\ seen' = seen /\ point' = point
          BY <2>4 DEF Reported, histVars
    <3> QED BY <3>1 DEF Gathered, Before, Of, Events
  <2> QED BY <2>1, <2>2, <2>3, <2>4 DEF HistNext
<1> QED BY <1>1, <1>2, PTL DEF HistSpec

\* For any number of workers, any latencies a uint64_t can hold and any order:
\* the merged histogram is that of all the recordings together, and no value
\* is outside the buckets.
THEOREM MergeLosesNothing == HistSpec => []MergeIsUnion
<1>1. Gathered => MergeIsUnion
  <2> SUFFICES ASSUME Gathered, merged = NWorkers PROVE MergeIsUnion  BY DEF MergeIsUnion
  <2>1. \A v \in Latencies : hist_index(v) \in Indices  BY Sizes, IndexInRange
  <2>2. merged # -1 /\ Before(merged) = Events
    <3>1. \A e \in Events : e[1] < NWorkers  BY Sizes DEF Events, Recorders
    <3>2. NWorkers \in Nat  BY Sizes
    <3> QED BY <3>1, <3>2 DEF Before
  <2> QED BY <2>1, <2>2 DEF Gathered, MergeIsUnion
<1> QED BY <1>1, GatheredHolds, PTL

-----------------------------------------------------------------------------
(* Percentiles                                                               *)

\* The rank looked for is one of the events', and grows with the percentile.
LEMMA TargetFacts ==
    ASSUME NEW c \in Nat \ {0}
    PROVE  /\ \A p \in Percentiles : Target(c, p) \in 1 .. c
           /\ \A p, q \in Percentiles : q <= p => Target(c, q) <= Target(c, p)
<1> DEFINE a == (2 * 500 * c + 1000) \div 2000
           b == (2 * 990 * c + 1000) \div 2000
           d == (2 * 999 * c + 1000) \div 2000
<1>1. a \in Nat /\ b \in Nat /\ d \in Nat /\ a <= b /\ b <= d /\ d <= c  OBVIOUS
<1>2. /\ Target(c, 500) = IF a = 0 THEN 1 ELSE a
      /\ Target(c, 990) = IF b = 0 THEN 1 ELSE b
      /\ Target(c, 999) = IF d = 0 THEN 1 ELSE d
      BY DEF Target
<1> HIDE DEF a, b, d
<1>3. /\ Target(c, 500) \in 1 .. c /\ Target(c, 990) \in 1 .. c /\ Target(c, 999) \in 1 .. c
      /\ Target(c, 500) <= Target(c, 990) /\ Target(c, 990) <= Target(c, 999)
      BY <1>1, <1>2
<1> DEFINE T(p) == Target(c, p)
<1>4. T(500) \in 1 .. c /\ T(990) \in 1 .. c /\ T(999) \in 1 .. c /\ T(500) <= T(990) /\ T(990) <= T(999)
      BY <1>3
<1> HIDE DEF T
<1>5. \A p \in Percentiles : T(p) \in 1 .. c  BY <1>4 DEF Percentiles
<1>6. \A p, q \in Percentiles : q <= p => T(q) <= T(p)  BY <1>4 DEF Percentiles
<1> QED BY <1>5, <1>6 DEF T

\* The running sum of hist_percentile counts the events of the buckets so far.
LEMMA SumCounts ==
    ASSUME NEW E, Well(E), NEW i \in Indices
    PROVE  PrefixSum(Tally(E).buckets, Sub * Oct)[i + 1] = Cardinality({e \in E : hist_index(e[2]) <= i})
<1> DEFINE m == Sub * Oct
           f == Tally(E).buckets
           P == PrefixSum(f, m)
           L(k) == {e \in E : hist_index(e[2]) < k}
           B(k) == {e \in E : hist_index(e[2]) = k}
           T == {k \in 0 .. m : P[k] = Cardinality(L(k))}
<1>1. m \in Nat /\ Indices = 0 .. m - 1  BY Sizes DEF Indices
<1>2. f \in [0 .. m - 1 -> Nat]  BY <1>1, TallyTypes
<1>3. \A k \in 0 .. m - 1 : f[k] = Cardinality(B(k))  BY <1>1 DEF Tally
<1>4. IsFiniteSet(E) /\ \A e \in E : hist_index(e[2]) \in Nat
  <2>1. \A e \in E : hist_index(e[2]) \in Indices  BY IndexInRange DEF Well
  <2> QED BY <2>1, Sizes DEF Well
<1> HIDE DEF m, f
<1>5. P[0] = 0 /\ \A k \in 0 .. m - 1 : P[k + 1] = P[k] + f[k]  BY <1>1, <1>2, SumUnfolds
<1> HIDE DEF P
<1>6. 0 \in T
  <2>1. L(0) = {}  BY <1>4
  <2> QED BY <1>1, <1>5, <2>1, FS_EmptySet
<1>7. ASSUME NEW k \in 0 .. m - 1, k \in T PROVE k + 1 \in T
  <2>1. L(k + 1) = L(k) \cup B(k)  BY <1>4
  <2>2. L(k) \cap B(k) = {}  BY <1>4
  <2>3. L(k) \in SUBSET E /\ B(k) \in SUBSET E  OBVIOUS
  <2>4. P[k] = Cardinality(L(k)) /\ P[k + 1] = P[k] + Cardinality(B(k)) /\ k + 1 \in 0 .. m
        BY <1>1, <1>3, <1>5, <1>7
  <2> HIDE DEF L, B
  <2>5. IsFiniteSet(L(k)) /\ IsFiniteSet(B(k))  BY <1>4, <2>3, FS_Subset
  <2>6. Cardinality(L(k + 1)) = Cardinality(L(k)) + Cardinality(B(k))  BY <2>1, <2>2, <2>5, DisjointUnion
  <2> QED BY <2>4, <2>6
<1>8. 0 .. m \subseteq T
  <2> HIDE DEF T
  <2> QED BY <1>1, <1>6, <1>7, Induction
<1>9. i \in Nat /\ i + 1 \in 0 .. m  BY <1>1
<1>10. P[i + 1] = Cardinality(L(i + 1))  BY <1>8, <1>9
<1>11. L(i + 1) = {e \in E : hist_index(e[2]) <= i}
  <2>1. \A e \in E : hist_index(e[2]) < i + 1 <=> hist_index(e[2]) <= i  BY <1>4, <1>9
  <2> QED BY <2>1
<1> QED BY <1>10, <1>11 DEF P, f, m

\* The events of values up to v, and of those below v.
UpTo(E, v) == {e \in E : e[2] <= v}
Below(E, v) == {e \in E : e[2] < v}

\* The value of rank r.
Ranked(E, r, v) ==
    /\ v \in Values(E)
    /\ Cardinality(UpTo(E, v)) >= r
    /\ Cardinality(Below(E, v)) < r

\* The events up to a value, and those below it, can be counted.
LEMMA PartsFinite ==
    ASSUME NEW E, Well(E)
    PROVE  \A v : /\ IsFiniteSet(UpTo(E, v)) /\ Cardinality(UpTo(E, v)) \in Nat
                  /\ IsFiniteSet(Below(E, v)) /\ Cardinality(Below(E, v)) \in Nat
<1> SUFFICES ASSUME NEW v
             PROVE  /\ IsFiniteSet(UpTo(E, v)) /\ Cardinality(UpTo(E, v)) \in Nat
                    /\ IsFiniteSet(Below(E, v)) /\ Cardinality(Below(E, v)) \in Nat
    OBVIOUS
<1>1. UpTo(E, v) \in SUBSET E /\ Below(E, v) \in SUBSET E /\ IsFiniteSet(E)  BY DEF UpTo, Below, Well
<1> QED BY <1>1, FS_Subset, FS_CardinalityType

\* There is a value of every rank.
LEMMA RankIsHeld ==
    ASSUME NEW E, Well(E), E # {}, NEW r \in 1 .. Cardinality(E)
    PROVE  \E v : Ranked(E, r, v)
<1>1. Values(E) \subseteq 0 .. Greatest /\ Values(E) # {} /\ \A e \in E : e[2] \in Values(E) /\ e[2] \in Nat
      BY Sizes DEF Well, Values
<1>f. Cardinality(E) \in Nat /\ r \in Nat /\ r >= 1  BY FS_CardinalityType DEF Well
<1>c. \A v : Cardinality(UpTo(E, v)) \in Nat /\ Cardinality(Below(E, v)) \in Nat  BY PartsFinite
<1> DEFINE T == {v \in Values(E) : Cardinality(UpTo(E, v)) >= r}
<1>2. Max(Values(E)) \in T
  <2>1. Max(Values(E)) \in Values(E) /\ \A y \in Values(E) : y <= Max(Values(E))  BY <1>1, Extremes
  <2>2. UpTo(E, Max(Values(E))) = E  BY <1>1, <2>1 DEF UpTo
  <2> QED BY <1>f, <2>1, <2>2
<1>3. PICK x \in T : \A y \in T : x <= y
  <2>1. T \subseteq Nat /\ T # {}  BY <1>1, <1>2, Sizes
  <2> HIDE DEF T
  <2> QED BY <2>1, LeastNumber
<1>4. x \in Values(E) /\ Cardinality(UpTo(E, x)) >= r /\ x \in Nat  BY <1>1, <1>3, Sizes
<1>5. Cardinality(Below(E, x)) < r
  <2> SUFFICES ASSUME Cardinality(Below(E, x)) >= r PROVE FALSE  BY <1>c, <1>f
  <2> DEFINE S == Values(Below(E, x))
             m == Max(S)
  <2>1. Below(E, x) # {}
    <3> SUFFICES ASSUME Below(E, x) = {} PROVE FALSE  OBVIOUS
    <3>1. Cardinality(Below(E, x)) = 0  BY FS_EmptySet
    <3> QED BY <3>1, <1>f
  <2>2. S \subseteq Values(E) /\ S # {} /\ \A y \in S : y < x  BY <2>1 DEF Values, Below
  <2>3. \A e \in Below(E, x) : e \in E /\ e[2] \in S /\ e[2] < x  BY DEF Values, Below
  <2> HIDE DEF S
  <2>4. m \in S /\ \A y \in S : y <= m  BY <1>1, <2>2, Extremes
  <2> HIDE DEF m
  <2>5. m \in Values(E) /\ m < x /\ m \in Nat  BY <1>1, <2>2, <2>4, Sizes
  <2>6. Below(E, x) = UpTo(E, m)
    <3>1. \A e \in E : e[2] < x => e[2] <= m  BY <2>3, <2>4 DEF Below
    <3>2. \A e \in E : e[2] <= m => e[2] < x  BY <1>1, <1>4, <2>5
    <3> QED BY <3>1, <3>2 DEF Below, UpTo
  <2>7. m \in T  BY <2>5, <2>6
  <2>8. x <= m  BY <1>3, <2>7
  <2> QED BY <2>5, <2>8, <1>4
<1> QED BY <1>4, <1>5 DEF Ranked

\* A greater rank has no lesser value.
LEMMA RanksInOrder ==
    ASSUME NEW E, Well(E), NEW r \in Nat, NEW s \in Nat, r <= s,
           NEW x, NEW y, Ranked(E, r, x), Ranked(E, s, y)
    PROVE  x <= y
<1>1. Values(E) \subseteq 0 .. Greatest /\ \A e \in E : e[2] \in Nat  BY Sizes DEF Well, Values
<1>2. x \in Nat /\ y \in Nat  BY <1>1, Sizes DEF Ranked
<1> SUFFICES ASSUME y < x PROVE FALSE  BY <1>2
<1>3. UpTo(E, y) \in SUBSET Below(E, x)  BY <1>1, <1>2 DEF UpTo, Below
<1>4. /\ IsFiniteSet(Below(E, x)) /\ Cardinality(Below(E, x)) \in Nat /\ Cardinality(UpTo(E, y)) \in Nat
      BY PartsFinite
<1>5. Cardinality(UpTo(E, y)) <= Cardinality(Below(E, x))  BY <1>3, <1>4, FS_Subset
<1> QED BY <1>4, <1>5 DEF Ranked

\* What is held between the extremes stays so, comes no farther from a value
\* between them, and keeps its order.
Held(E, v) == Between(Between(v, Tally(E).min, Greatest), 0, Tally(E).max)

LEMMA HeldFacts ==
    ASSUME NEW E, Well(E), E # {}
    PROVE  /\ \A v \in Nat : Held(E, v) \in Min(Values(E)) .. Max(Values(E))
           /\ \A v \in Nat, x \in Values(E) :
                 (Held(E, v) <= x \/ Held(E, v) <= v) /\ (x <= Held(E, v) \/ v <= Held(E, v))
           /\ \A u, v \in Nat : u <= v => Held(E, u) <= Held(E, v)
<1> DEFINE lo == Tally(E).min
           hi == Tally(E).max
<1>1. lo = Min(Values(E)) /\ hi = Max(Values(E))  BY DEF Tally
<1>2. lo \in 0 .. Greatest /\ hi \in 0 .. Greatest /\ Values(E) \subseteq 0 .. Greatest  BY TallyTypes
<1>3. Values(E) # {}  BY DEF Values
<1>4. \A x \in Values(E) : lo <= x /\ x <= hi /\ x \in Nat  BY <1>1, <1>2, <1>3, Extremes, Sizes
<1>5. lo <= hi /\ lo \in Nat /\ hi \in Nat /\ Greatest \in Nat /\ hi <= Greatest
      BY <1>2, <1>3, <1>4, Sizes
<1>6. \A v : Held(E, v) = Between(Between(v, lo, Greatest), 0, hi)  BY DEF Held
<1> HIDE DEF lo, hi
<1>7. \A v \in Nat : Held(E, v) = IF v < lo THEN lo ELSE IF v > hi THEN hi ELSE v
      BY <1>5, <1>6 DEF Between
<1>8. \A v \in Nat : Held(E, v) \in lo .. hi  BY <1>5, <1>7
<1>9. \A v \in Nat, x \in Values(E) :
         (Held(E, v) <= x \/ Held(E, v) <= v) /\ (x <= Held(E, v) \/ v <= Held(E, v))
      BY <1>4, <1>5, <1>7
<1>10. \A u, v \in Nat : u <= v => Held(E, u) <= Held(E, v)  BY <1>5, <1>7
<1> QED BY <1>1, <1>8, <1>9, <1>10

\* The middle of every bucket is a number, of an octave that can be shifted to.
LEMMA MiddleIsNumber ==
    ASSUME NEW i \in Indices
    PROVE  hist_value_at(i) \in Nat
<1> DEFINE d == i \div Sub
           m == i % Sub
           base == Pow2[d]
           width == IF base < Sub THEN 1 ELSE base \div Sub
<1>1. Sub \in Nat \ {0} /\ Oct \in Nat \ {0} /\ i \in Nat /\ Oct \in 0 .. Width /\ Width \in Nat  BY Sizes
<1>2. i < Sub * Oct  BY <1>1, Sizes DEF Indices
<1>3. d \in Nat /\ m \in 0 .. Sub - 1 /\ i = Sub * d + m  BY <1>1, DivMod
<1> HIDE DEF d, m
<1>4. d < Oct
  <2> SUFFICES ASSUME Oct <= d PROVE FALSE  BY <1>1, <1>3
  <2>1. \A x, y, z \in Nat : x <= y => z * x <= z * y /\ z * x \in Nat /\ z * y \in Nat  OBVIOUS
  <2>2. Sub * Oct <= Sub * d /\ Sub * Oct \in Nat /\ Sub * d \in Nat  BY <1>1, <1>3, <2>1
  <2> QED BY <1>1, <1>2, <1>3, <2>2
<1>5. base \in Nat \ {0}
  <2>1. d \in 0 .. Width  BY <1>1, <1>3, <1>4
  <2> QED BY <2>1, PowUnfolds
<1> HIDE DEF base
<1>6. width \in Nat /\ width \div 2 \in Nat
  <2>1. base \div Sub \in Nat  BY <1>1, <1>5, DivMod
  <2>2. width \in Nat  BY <2>1
  <2> HIDE DEF width
  <2> QED BY <2>2
<1>7. hist_value_at(i) = base + m * width + width \div 2  BY DEF hist_value_at, base, d, m
<1> HIDE DEF width
<1>8. m * width \in Nat  BY <1>1, <1>3, <1>6
<1> QED BY <1>5, <1>6, <1>7, <1>8

\* A percentile is a bucket's middle or the greatest value, held between the
\* extremes.
LEMMA PercentileIsHeld ==
    ASSUME NEW E, Well(E), E # {}, NEW p \in Percentiles
    PROVE  /\ hist_percentile(Tally(E), p) \in Min(Values(E)) .. Max(Values(E))
           /\ \A x : /\ Ranked(E, Target(Cardinality(E), p), x)
                     /\ \A v \in Values(E) : v >= Sub /\ v < Pow2[Oct]
                     => hist_percentile(Tally(E), p) = Held(E, hist_value_at(hist_index(x)))
<1> DEFINE h == Tally(E)
           cum == PrefixSum(h.buckets, Sub * Oct)
           t == Target(h.count, p)
           reach == {i \in Indices : cum[i + 1] >= t}
<1>1. IsFiniteSet(E) /\ Cardinality(E) \in Nat /\ h.count = Cardinality(E)
      BY FS_CardinalityType DEF Well, Tally
<1>2. Cardinality(E) # 0
  <2>1. Cardinality(E) = 0 => E = {}  BY <1>1, FS_EmptySet
  <2> QED BY <2>1
<1>3. t \in Nat /\ t = Target(Cardinality(E), p)
  <2>1. Target(Cardinality(E), p) \in 1 .. Cardinality(E)  BY <1>1, <1>2, TargetFacts
  <2> QED BY <1>1, <2>1
<1>4. ~(p <= 0) /\ ~(p >= 1000)  BY DEF Percentiles
<1>5. /\ reach = {} => hist_percentile(h, p) = h.max
      /\ reach # {} => hist_percentile(h, p) = Held(E, hist_value_at(Min(reach)))
      BY <1>1, <1>2, <1>4, Zenon DEF hist_percentile, Held
<1>6. \A i \in Indices : cum[i + 1] = Cardinality({e \in E : hist_index(e[2]) <= i})  BY SumCounts
<1>7. reach \subseteq Nat /\ reach \subseteq Indices  BY Sizes
<1>8. \A i \in reach : (\A k \in reach : i <= k) => i = Min(reach)
  <2> SUFFICES ASSUME NEW i \in reach, \A k \in reach : i <= k PROVE i = Min(reach)  OBVIOUS
  <2> HIDE DEF reach
  <2>1. Min(reach) \in reach /\ \A k \in reach : Min(reach) <= k  BY DEF Min
  <2>2. i <= Min(reach) /\ Min(reach) <= i /\ i \in Nat /\ Min(reach) \in Nat  BY <1>7, <2>1
  <2>3. \A a, b \in Nat : a <= b /\ b <= a => a = b  OBVIOUS
  <2> QED BY <2>2, <2>3, Zenon
<1>9. reach # {} => Min(reach) \in reach
  <2> HIDE DEF reach
  <2> SUFFICES ASSUME reach # {} PROVE Min(reach) \in reach  OBVIOUS
  <2>1. \E i \in reach : \A k \in reach : i <= k  BY <1>7, LeastNumber
  <2> QED BY <2>1 DEF Min
<1>10. hist_percentile(h, p) \in Min(Values(E)) .. Max(Values(E))
  <2>1. CASE reach = {}
    <3>1. hist_percentile(h, p) = Max(Values(E))  BY <1>5, <2>1 DEF Tally
    <3>2. Values(E) # {} /\ Values(E) \subseteq 0 .. Greatest  BY TallyTypes DEF Values
    <3>3. Max(Values(E)) \in Values(E) /\ Min(Values(E)) \in Nat /\ Max(Values(E)) \in Nat
          /\ \A y \in Values(E) : Min(Values(E)) <= y
          BY <3>2, Extremes
    <3> QED BY <3>1, <3>3
  <2>2. CASE reach # {}
    <3>1. hist_value_at(Min(reach)) \in Nat  BY <1>7, <1>9, <2>2, MiddleIsNumber
    <3> HIDE DEF reach, h
    <3>2. Held(E, hist_value_at(Min(reach))) \in Min(Values(E)) .. Max(Values(E))  BY <3>1, HeldFacts
    <3> QED BY <1>5, <2>2, <3>2
  <2> QED BY <2>1, <2>2
<1>11. ASSUME NEW x, Ranked(E, t, x), \A v \in Values(E) : v >= Sub /\ v < Pow2[Oct]
       PROVE  hist_percentile(h, p) = Held(E, hist_value_at(hist_index(x)))
  <2>1. /\ x \in Values(E) /\ Cardinality(UpTo(E, x)) >= t /\ Cardinality(Below(E, x)) < t
        BY <1>11 DEF Ranked
  <2>2. /\ \A e \in E : e[2] \in Values(E) /\ e[2] \in Nat
        /\ Values(E) \subseteq Nat /\ Values(E) \subseteq 0 .. Greatest
        BY Sizes DEF Well, Values
  <2>3. \A u, v \in Values(E) : u <= v => hist_index(u) <= hist_index(v)
    <3> SUFFICES ASSUME NEW u \in Values(E), NEW v \in Values(E), u <= v
                 PROVE  hist_index(u) <= hist_index(v)
        OBVIOUS
    <3>1. PICK a, b, c \in Nat : In(u, a, b, c)  BY <1>11, <2>2, ResolvedIn
    <3>2. PICK d, e, f \in Nat : In(v, d, e, f)  BY <1>11, <2>2, ResolvedIn
    <3> QED BY <2>2, <3>1, <3>2, BucketsInOrder
  <2> DEFINE i == hist_index(x)
             L(k) == {e \in E : hist_index(e[2]) <= k}
  <2>4. \A v \in Values(E) : hist_index(v) \in Indices /\ hist_index(v) \in Nat  BY <2>2, IndexInRange, Sizes
  <2>5. i \in Indices /\ i \in Nat  BY <2>1, <2>4
  <2>6. \A k : L(k) \in SUBSET E  OBVIOUS
  <2>7. \A k \in Indices : cum[k + 1] = Cardinality(L(k))  BY <1>6
  <2>8. i \in reach
    <3>1. UpTo(E, x) \in SUBSET L(i)  BY <2>1, <2>2, <2>3 DEF UpTo
    <3> HIDE DEF L
    <3>2. IsFiniteSet(L(i)) /\ Cardinality(L(i)) \in Nat  BY <1>1, <2>6, FS_Subset, FS_CardinalityType
    <3>3. Cardinality(UpTo(E, x)) <= Cardinality(L(i))  BY <3>1, <3>2, FS_Subset
    <3>4. Cardinality(UpTo(E, x)) \in Nat  BY PartsFinite
    <3>5. cum[i + 1] >= t
      <4>1. cum[i + 1] = Cardinality(L(i))  BY <2>5, <2>7
      <4> HIDE DEF cum, t, i
      <4> QED BY <1>3, <2>1, <3>2, <3>3, <3>4, <4>1
    <3> QED BY <2>5, <3>5
  <2>9. ASSUME NEW k \in reach PROVE i <= k
    <3>1. k \in Nat /\ k \in Indices /\ cum[k + 1] >= t  BY <1>7
    <3> SUFFICES ASSUME k < i PROVE FALSE  BY <2>5, <3>1
    <3>2. L(k) \in SUBSET Below(E, x)
      <4> SUFFICES ASSUME NEW e \in E, hist_index(e[2]) <= k PROVE e[2] < x  BY DEF Below
      <4> SUFFICES ASSUME x <= e[2] PROVE FALSE  BY <2>1, <2>2
      <4>1. i <= hist_index(e[2])  BY <2>1, <2>2, <2>3
      <4>2. hist_index(e[2]) \in Nat  BY <2>2, <2>4
      <4> HIDE DEF i
      <4> QED BY <2>5, <3>1, <4>1, <4>2
    <3>3. cum[k + 1] = Cardinality(L(k))  BY <2>7, <3>1
    <3> HIDE DEF L, cum, t
    <3>4. IsFiniteSet(Below(E, x)) /\ Cardinality(Below(E, x)) \in Nat  BY PartsFinite
    <3>5. Cardinality(L(k)) <= Cardinality(Below(E, x)) /\ Cardinality(L(k)) \in Nat
          BY <3>2, <3>4, FS_Subset, FS_CardinalityType
    <3> QED BY <1>3, <2>1, <3>1, <3>3, <3>4, <3>5
  <2>10. i = Min(reach)  BY <1>8, <2>8, <2>9
  <2>11. reach # {}  BY <2>8
  <2> HIDE DEF reach, h, i
  <2>12. hist_percentile(h, p) = Held(E, hist_value_at(i))  BY <1>5, <2>10, <2>11
  <2> QED BY <2>12 DEF i
<1> HIDE DEF cum, reach
<1> QED BY <1>3, <1>10, <1>11

\* For any number of workers and latencies: a percentile of the point is between
\* the least and the greatest value recorded, and where the buckets resolve them
\* within one part in Sub of the exact one, in the order of the percentiles.
THEOREM PercentilesAreNear == HistSpec => []PercentileFaithful
<1>1. Gathered => PercentileFaithful
  <2> SUFFICES ASSUME Gathered, merged = NWorkers, Events # {}
               PROVE  /\ \A p \in Percentiles :
                           hist_percentile(point, p) \in Min(Values(Events)) .. Max(Values(Events))
                      /\ Resolved =>
                           \A p \in Percentiles :
                              /\ Sub * (hist_percentile(point, p) - Exact(p)) <= Exact(p)
                              /\ Sub * (Exact(p) - hist_percentile(point, p)) <= Exact(p)
                              /\ \A q \in Percentiles :
                                   q <= p => hist_percentile(point, q) <= hist_percentile(point, p)
      BY DEF PercentileFaithful
  <2> DEFINE E == Events
             P(p) == hist_percentile(point, p)
             t(p) == Target(Cardinality(E), p)
  <2>1. Well(E) /\ point = Tally(E)
    <3>1. \A e \in Events : e[1] < NWorkers  BY Sizes DEF Events, Recorders
    <3>2. Before(merged) = Events /\ merged # -1  BY <3>1, Sizes DEF Before
    <3> QED BY <3>2 DEF Gathered
  <2>2. \A p \in Percentiles : P(p) \in Min(Values(E)) .. Max(Values(E))  BY <2>1, PercentileIsHeld
  <2>3. ASSUME Resolved, NEW p \in Percentiles
        PROVE  /\ Sub * (P(p) - Exact(p)) <= Exact(p)
               /\ Sub * (Exact(p) - P(p)) <= Exact(p)
               /\ \A q \in Percentiles : q <= p => P(q) <= P(p)
    <3>0. \A v \in Values(E) : v >= Sub /\ v < Pow2[Oct]  BY <2>3 DEF Resolved
    <3>1. Values(E) \subseteq Nat  BY <2>1, TallyTypes, Sizes
    <3>2. Cardinality(E) \in Nat \ {0}
      <4>1. IsFiniteSet(E) /\ Cardinality(E) \in Nat  BY <2>1, FS_CardinalityType DEF Well
      <4>2. Cardinality(E) = 0 => E = {}  BY <4>1, FS_EmptySet
      <4> QED BY <4>1, <4>2
    <3>3. ASSUME NEW q \in Percentiles PROVE Ranked(E, t(q), Exact(q)) /\ t(q) \in Nat
      <4>1. t(q) \in 1 .. Cardinality(E)  BY <3>2, TargetFacts
      <4>2. \E v : Ranked(E, t(q), v)  BY <2>1, <4>1, RankIsHeld
      <4>3. Exact(q) = CHOOSE v \in Values(E) :
                 Cardinality(UpTo(E, v)) >= t(q) /\ Cardinality(Below(E, v)) < t(q)
            BY DEF Exact, UpTo, Below
      <4>4. Ranked(E, t(q), Exact(q))
        <5> HIDE DEF E, t
        <5> QED BY <4>2, <4>3 DEF Ranked
      <4> QED BY <3>2, <4>1, <4>4
    <3> DEFINE at(q) == hist_value_at(hist_index(Exact(q)))
    <3>4. ASSUME NEW q \in Percentiles
          PROVE  /\ P(q) = Held(E, at(q)) /\ Exact(q) \in Values(E)
                 /\ \E a, b, c \in Nat : In(Exact(q), a, b, c)
      <4>1. Exact(q) \in Values(E)  BY <3>3 DEF Ranked
      <4>2. \E a, b, c \in Nat : In(Exact(q), a, b, c)  BY <3>0, <3>1, <4>1, ResolvedIn
      <4>3. P(q) = Held(E, at(q))  BY <2>1, <3>0, <3>3, PercentileIsHeld
      <4> QED BY <4>1, <4>2, <4>3
    <3>5. ASSUME NEW q \in Percentiles
          PROVE  /\ at(q) \in Nat
                 /\ Sub * (at(q) - Exact(q)) <= Exact(q) /\ Sub * (Exact(q) - at(q)) <= Exact(q)
      <4>1. PICK a, b, c \in Nat : In(Exact(q), a, b, c)  BY <3>4
      <4>2. Exact(q) \in Nat  BY <3>1, <3>4
      <4> QED BY <4>1, <4>2, MiddleIsNear
    <3>6. \A q \in Percentiles : q <= p => P(q) <= P(p)
      <4> SUFFICES ASSUME NEW q \in Percentiles, q <= p PROVE P(q) <= P(p)  OBVIOUS
      <4>1. t(q) <= t(p)  BY <3>2, TargetFacts
      <4>2. Exact(q) <= Exact(p)
        <5> HIDE DEF t, E
        <5> QED BY <2>1, <2>3, <3>3, <4>1, RanksInOrder
      <4>3. PICK a, b, c \in Nat : In(Exact(q), a, b, c)  BY <3>4
      <4>4. PICK d, e, f \in Nat : In(Exact(p), d, e, f)  BY <2>3, <3>4
      <4>5. Exact(q) \in Nat /\ Exact(p) \in Nat  BY <2>3, <3>1, <3>4
      <4>6. at(q) <= at(p)  BY <4>2, <4>3, <4>4, <4>5, BucketsInOrder
      <4>7. at(q) \in Nat /\ at(p) \in Nat /\ P(q) = Held(E, at(q)) /\ P(p) = Held(E, at(p))
            BY <2>3, <3>4, <3>5
      <4> HIDE DEF at, P, E
      <4>8. Held(E, at(q)) <= Held(E, at(p))  BY <2>1, <4>6, <4>7, HeldFacts DEF E
      <4> QED BY <4>7, <4>8
    <3> DEFINE r == P(p)
               m == at(p)
               x == Exact(p)
    <3>7. /\ r \in Nat /\ m \in Nat /\ x \in Nat
          /\ Sub * (m - x) <= x /\ Sub * (x - m) <= x
          /\ (r <= x \/ r <= m) /\ (x <= r \/ m <= r)
      <4>1. m \in Nat /\ r = Held(E, m) /\ x \in Values(E) /\ x \in Nat  BY <2>3, <3>1, <3>4, <3>5
      <4>2. Sub * (m - x) <= x /\ Sub * (x - m) <= x  BY <2>3, <3>5
      <4> HIDE DEF r, m, x, P, at
      <4>3. (r <= x \/ r <= m) /\ (x <= r \/ m <= r)  BY <2>1, <4>1, HeldFacts
      <4>4. r \in Min(Values(E)) .. Max(Values(E))  BY <2>2, <2>3 DEF r
      <4>5. Values(E) # {} /\ Values(E) \subseteq 0 .. Greatest  BY <2>1, TallyTypes DEF Values
      <4>6. Min(Values(E)) \in Nat  BY <4>5, Extremes
      <4> HIDE DEF E
      <4>7. r \in Nat  BY <4>4, <4>6
      <4> QED BY <4>1, <4>2, <4>3, <4>7
    <3>8. Sub * (r - x) <= x /\ Sub * (x - r) <= x
      <4>1. Sub \in Nat \ {0}  BY Sizes
      <4> HIDE DEF r, m, x, P, at, E, t
      <4>2. ASSUME NEW a \in Int, NEW b \in Int, a <= b, Sub * b <= x PROVE Sub * a <= x
        <5>1. b - a \in Nat  BY <4>2
        <5>2. Sub * (b - a) \in Nat /\ Sub * (b - a) = Sub * b - Sub * a  BY <4>1, <5>1
        <5>3. Sub * a \in Int /\ Sub * b \in Int  BY <4>1
        <5> QED BY <3>7, <4>2, <5>2, <5>3
      <4>3. Sub * 0 <= x  BY <3>7, <4>1
      <4>4. Sub * (r - x) <= x
        <5>1. r - x \in Int /\ m - x \in Int /\ (r - x <= 0 \/ r - x <= m - x)  BY <3>7
        <5> QED BY <3>7, <4>2, <4>3, <5>1
      <4>5. Sub * (x - r) <= x
        <5>1. x - r \in Int /\ x - m \in Int /\ (x - r <= 0 \/ x - r <= x - m)  BY <3>7
        <5> QED BY <3>7, <4>2, <4>3, <5>1
      <4> QED BY <4>4, <4>5
    <3> QED BY <3>6, <3>8 DEF r, x
  <2> QED BY <2>2, <2>3
<1> QED BY <1>1, GatheredHolds, PTL
=============================================================================
