----------------------------- MODULE TaskProofs -----------------------------
(***************************************************************************)
(* Proofs about the demonstration programs of threads, signals and locks,  *)
(* for every value of their constants.  Each part names its inductive      *)
(* invariant, shows that the initial states have it and that every step    *)
(* keeps it, and draws the property from it.                               *)
(***************************************************************************)
EXTENDS WorkerThreads, SignalDemos, MutexPair, PrioInversion, FiniteSetTheorems, TLAPS

-----------------------------------------------------------------------------
(* FIB_TEST: however the threads of FIB_TEST race for idx, none of them   *)
(* leaves before iterCnt rounds were run.  idx, and every copy of it in a   *)
(* register that is about to be stored, never exceeds the rounds run.       *)

\* The copy of idx that thread t is about to store back, plus one, is old
CopyIsOld(t) == fibPc[t] = "istore" => fibReg[t] <= rounds

\* Thread t has left FIB_TEST only after iterCnt rounds
LeftLate(t) == fibPc[t] = "exit" => rounds >= iterCnt

\* The inductive invariant: idx counts no more than the rounds that were run
FibInv ==
  /\ idx \in Nat /\ jdx \in Nat /\ rounds \in Nat
  /\ fibReg \in [FibTids -> Nat] /\ fibPc \in [FibTids -> FibPlaces]
  /\ idx <= rounds
  /\ \A t \in FibTids : CopyIsOld(t) /\ LeftLate(t)

\* It holds before main has created a thread.
LEMMA FibInvInit == FibInitAt("setsched") => FibInv
<1> SUFFICES ASSUME FibInitAt("setsched") PROVE FibInv
  BY Zenon
<1>1. /\ idx = 0 /\ jdx = 1 /\ rounds = 0
      /\ fibPc = [t \in FibTids |-> "none"] /\ fibReg = [t \in FibTids |-> 0]
  BY Zenon DEF FibInitAt
<1>2. QED
  BY <1>1 DEF FibInv, FibPlaces, CopyIsOld, LeftLate

\* A step of a thread keeps it: only the store of idx++ raises idx, and it ends
\* a round.
LEMMA FibInvThread ==
  ASSUME FibInv, NEW t \in FibTids, FIB_TEST(t)
  PROVE  FibInv'
<1> USE FibAssumption DEF FibInv, FibPlaces, CopyIsOld, LeftLate, Step
<1>1. CASE FibStart(t)
  BY <1>1 DEF FibStart, FirstIdx
<1>2. CASE FibTest(t)
  BY <1>2 DEF FibTest
<1>3. CASE FibInner(t)
  BY <1>3 DEF FibInner
<1>4. CASE FibOuter(t)
  BY <1>4 DEF FibOuter
<1>5. QED
  BY Zenon, <1>1, <1>2, <1>3, <1>4 DEF FIB_TEST

\* A step of main keeps it: a thread is only moved to its start.
LEMMA FibInvMain ==
  ASSUME FibInv, fib_main
  PROVE  FibInv'
<1> USE DEF FibInv, FibPlaces, CopyIsOld, LeftLate
<1>1. CASE SetSched
  BY Zenon, <1>1 DEF fib_main, SetSched
<1>2. CASE FibCreate
  BY Zenon, <1>2 DEF fib_main, FibCreate
<1>3. CASE FibJoin
  BY Zenon, <1>3 DEF fib_main, FibJoin
<1>4. QED
  BY Zenon, <1>1, <1>2, <1>3 DEF fib_main

\* Every step keeps it.
LEMMA FibInvStep == FibInv /\ [FibNext]_fibVars => FibInv'
<1> SUFFICES ASSUME FibInv, [FibNext]_fibVars PROVE FibInv'
  BY Zenon
<1>1. CASE fib_main
  BY Zenon, <1>1, FibInvMain
<1>2. ASSUME NEW t \in FibTids, counterThread(t)
      PROVE  FibInv'
  BY Zenon, <1>2, FibInvThread DEF counterThread
<1>3. CASE UNCHANGED fibVars
  BY Zenon, <1>3 DEF FibInv, FibPlaces, CopyIsOld, LeftLate, fibVars
<1>4. QED
  BY Zenon, <1>1, <1>2, <1>3 DEF FibNext

\* No thread leaves FIB_TEST before iterCnt rounds were run, whatever the
\* number of threads and however their accesses to idx and jdx interleave.
THEOREM FibRoundsWereRun == FibSpec => []RoundsWereRun
<1>1. FibInv => RoundsWereRun
  BY Zenon DEF FibInv, LeftLate, RoundsWereRun
<1>2. QED
  BY <1>1, FibInvInit, FibInvStep, PTL DEF FibSpec

-----------------------------------------------------------------------------
(* testdigest.c: main prints its summary only when every worker has stored *)
(* its rate, although threadActiveCnt-- is not atomic.  A decrement that is *)
(* lost leaves the counter too high, never too low, so the counter and      *)
(* every copy of it that a worker is about to write back are at least the   *)
(* number of workers that have not decremented it.                          *)

\* Workers that were created and have not decremented the counter
ActiveWorkers == {w \in Workers : worker[w] \in {"wait", "run", "store", "load", "dec"}}

\* How many they are
Active == Cardinality(ActiveWorkers)

\* The state has the types the argument needs
DigestTypes ==
  /\ nextWorker \in Nat /\ threadActiveCnt \in Nat
  /\ digestPc \in {"create", "release", "sleep", "crashed", "exit"}
  /\ startIOWorker \in [Workers -> Nat] /\ cntRead \in [Workers -> Nat]
  /\ worker \in [Workers -> WorkerPlaces]

\* While main creates workers, all of them wait and the next ones do not exist
AllWait ==
  digestPc = "create" =>
    \A w \in Workers : /\ worker[w] \in {"none", "wait"} /\ startIOWorker[w] = 0
                       /\ w >= nextWorker => worker[w] = "none"

\* A worker stores its rate before it touches the counter
RatedFirst == \A w \in Workers : worker[w] \in {"load", "dec", "exit"} => w \in rated

\* The counter, and each copy of it, is never too low
NotTooLow ==
  /\ threadActiveCnt >= Active
  /\ \A w \in Workers : worker[w] = "dec" => cntRead[w] >= Active

\* The inductive invariant
DigestInv ==
  /\ DigestTypes /\ AllWait /\ RatedFirst /\ NotTooLow
  /\ digestPc = "exit" => ActiveWorkers = {}

\* There are finitely many workers.
LEMMA WorkersFinite ==
  /\ IsFiniteSet(Workers)
  /\ IsFiniteSet(ActiveWorkers) /\ Active \in Nat
  /\ IsFiniteSet(ActiveWorkers') /\ Active' \in Nat
<1>1. IsFiniteSet(Workers)
  BY FS_Interval, DigestAssumption DEF Workers
<1>2. ActiveWorkers \in SUBSET Workers /\ ActiveWorkers' \in SUBSET Workers
  BY Zenon DEF ActiveWorkers
<1>3. IsFiniteSet(ActiveWorkers) /\ IsFiniteSet(ActiveWorkers')
  BY Zenon, <1>1, <1>2, FS_Subset
<1>4. QED
  BY Zenon, <1>1, <1>3, FS_CardinalityType DEF Active

\* It holds before the first worker is created.
LEMMA DigestInvInit == DigestInitAt("create") => DigestInv
<1> SUFFICES ASSUME DigestInitAt("create") PROVE DigestInv
  BY Zenon
<1>1. /\ digestPc = "create" /\ nextWorker = 0 /\ threadActiveCnt = 0
      /\ startIOWorker = [w \in Workers |-> 0] /\ cntRead = [w \in Workers |-> 0]
      /\ worker = [w \in Workers |-> "none"]
  BY Zenon DEF DigestInitAt
<1>2. ActiveWorkers = {}
  BY Zenon, <1>1 DEF ActiveWorkers
<1>3. Active = 0
  BY Zenon, <1>2, FS_EmptySet DEF Active
<1>4. QED
  BY <1>1, <1>3 DEF DigestInv, DigestTypes, WorkerPlaces, AllWait, RatedFirst, NotTooLow

\* Creating a worker raises the counter and the number of workers by one.
LEMMA DigestInvCreate ==
  ASSUME DigestInv, digest_main, CreateWorker
  PROVE  DigestInv'
<1> DEFINE k == nextWorker
<1>1. k \in Workers /\ worker[k] = "none" /\ digestPc = "create" /\ digestPc' = "create"
  BY DigestAssumption DEF DigestInv, DigestTypes, AllWait, CreateWorker, Workers
<1>2. UNCHANGED <<digestPc, startIOWorker, cntRead, rated>> /\ nextWorker' = k + 1
  BY Zenon DEF digest_main, CreateWorker
<1>3. CASE /\ worker' = [worker EXCEPT ![k] = "wait"]
           /\ threadActiveCnt' = threadActiveCnt + 1
  <2>1. ActiveWorkers' = ActiveWorkers \cup {k} /\ k \notin ActiveWorkers
    BY Zenon, <1>1, <1>3 DEF ActiveWorkers, DigestInv, DigestTypes
  <2>2. Active' = Active + 1
    BY Zenon, <2>1, WorkersFinite, FS_AddElement DEF Active
  <2>3. \A w \in Workers : worker'[w] # "dec"
    BY Zenon, <1>1, <1>3 DEF DigestInv, DigestTypes, AllWait
  <2>4. NotTooLow'
    BY <1>3, <2>2, <2>3, WorkersFinite DEF NotTooLow, DigestInv, DigestTypes
  <2>5. DigestTypes' /\ AllWait' /\ RatedFirst'
    BY <1>1, <1>2, <1>3 DEF DigestInv, DigestTypes, AllWait, RatedFirst, WorkerPlaces, Workers
  <2>6. QED
    BY Zenon, <1>1, <2>4, <2>5 DEF DigestInv
<1>4. CASE UNCHANGED <<worker, threadActiveCnt>>
  <2>1. ActiveWorkers' = ActiveWorkers /\ Active' = Active
    BY Zenon, <1>4 DEF ActiveWorkers, Active
  <2>2. NotTooLow'
    BY Zenon, <1>2, <1>4, <2>1 DEF NotTooLow, DigestInv
  <2>3. DigestTypes' /\ AllWait' /\ RatedFirst'
    BY <1>1, <1>2, <1>4 DEF DigestInv, DigestTypes, AllWait, RatedFirst, WorkerPlaces, Workers
  <2>4. QED
    BY Zenon, <1>1, <2>2, <2>3 DEF DigestInv
<1>5. QED
  BY Zenon, <1>3, <1>4 DEF CreateWorker

\* Releasing a worker, and the ends of main's loops, change no worker; main
\* leaves the last loop when the counter, which is not too low, is zero.
LEMMA DigestInvLoops ==
  ASSUME DigestInv, digest_main, ReleaseWorker \/ EndOfLoop
  PROVE  DigestInv'
<1>1. UNCHANGED <<worker, threadActiveCnt, cntRead, rated>>
  BY Zenon DEF digest_main, ReleaseWorker, EndOfLoop
<1>2. ActiveWorkers' = ActiveWorkers /\ Active' = Active
  BY Zenon, <1>1 DEF ActiveWorkers, Active
<1>3. NotTooLow' /\ RatedFirst'
  BY Zenon, <1>1, <1>2 DEF NotTooLow, RatedFirst, DigestInv
<1>4. CASE ReleaseWorker
  <2>1. nextWorker \in Workers
    BY <1>4, DigestAssumption DEF ReleaseWorker, MoreToRelease, DigestInv, DigestTypes, Workers
  <2>2. DigestTypes' /\ digestPc' \notin {"create", "exit"}
    BY <1>1, <1>4, <2>1 DEF ReleaseWorker, DigestInv, DigestTypes
  <2>3. QED
    BY Zenon, <1>3, <2>2 DEF DigestInv, AllWait
<1>5. CASE EndOfLoop
  <2>1. DigestTypes' /\ digestPc' # "create"
    BY <1>1, <1>5 DEF EndOfLoop, DigestInv, DigestTypes
  <2>2. ASSUME digestPc' = "exit" PROVE ActiveWorkers' = {}
    <3>1. threadActiveCnt = 0
      BY Zenon, <1>5, <2>2 DEF EndOfLoop
    <3>2. Active = 0
      BY <3>1, WorkersFinite DEF DigestInv, NotTooLow
    <3>3. QED
      BY Zenon, <1>2, <3>2, WorkersFinite, FS_EmptySet DEF Active
  <2>3. QED
    BY Zenon, <1>3, <2>1, <2>2 DEF DigestInv, AllWait
<1>6. QED
  BY Zenon, <1>4, <1>5

\* A worker that moves on without reaching its exit leaves the number of active
\* workers alone; its load copies a counter that is not too low.
LEMMA DigestInvWorker ==
  ASSUME DigestInv, NEW w \in Workers, digestThread(w)
  PROVE  DigestInv'
<1>1. UNCHANGED <<digestPc, nextWorker>> /\ digestPc \notin {"crashed", "exit"}
  BY Zenon DEF digestThread
<1>2. CASE /\ worker[w] = "wait" /\ startIOWorker[w] = 1
           /\ startIOWorker' = [startIOWorker EXCEPT ![w] = 0]
           /\ worker' = [worker EXCEPT ![w] = "run"]
           /\ UNCHANGED <<cntRead, threadActiveCnt, rated>>
  <2>1. ActiveWorkers' = ActiveWorkers /\ Active' = Active
    BY Zenon, <1>2 DEF ActiveWorkers, Active, DigestInv, DigestTypes
  <2>2. digestPc # "create"
    BY <1>2 DEF DigestInv, AllWait
  <2>3. DigestTypes' /\ RatedFirst' /\ NotTooLow'
    BY Zenon, <1>1, <1>2, <2>1 DEF DigestInv, DigestTypes, WorkerPlaces, RatedFirst, NotTooLow
  <2>4. QED
    BY Zenon, <1>1, <2>2, <2>3 DEF DigestInv, AllWait
<1>3. CASE worker[w] \in DOMAIN StoreFirst
  <2>1. /\ worker[w] \in {"run", "store", "load", "dec"}
        /\ worker' = [worker EXCEPT ![w] = StoreFirst[worker[w]]]
        /\ rated' = IF worker[w] = "store" THEN rated \cup {w} ELSE rated
        /\ cntRead' = IF worker[w] = "load"
                        THEN [cntRead EXCEPT ![w] = threadActiveCnt] ELSE cntRead
        /\ threadActiveCnt' = IF worker[w] = "dec" THEN cntRead[w] - 1 ELSE threadActiveCnt
        /\ UNCHANGED startIOWorker
    BY Zenon, <1>3 DEF digestThread, StoreFirst
  <2>2. digestPc # "create"
    BY Zenon, <2>1 DEF DigestInv, AllWait
  <2>3. CASE worker[w] # "dec"
    <3>1. /\ worker[w] = "run" => worker' = [worker EXCEPT ![w] = "store"]
          /\ worker[w] = "store" => worker' = [worker EXCEPT ![w] = "load"]
          /\ worker[w] = "load" => worker' = [worker EXCEPT ![w] = "dec"]
      <4>1. StoreFirst["run"] = "store" /\ StoreFirst["store"] = "load" /\ StoreFirst["load"] = "dec"
        BY Zenon DEF StoreFirst
      <4>2. QED
        BY Zenon, <2>1, <4>1
    <3>2. ActiveWorkers' = ActiveWorkers /\ Active' = Active
      BY Zenon, <2>1, <2>3, <3>1 DEF ActiveWorkers, Active, DigestInv, DigestTypes
    <3>3. DigestTypes' /\ RatedFirst' /\ NotTooLow'
      BY Zenon, <1>1, <2>1, <2>3, <3>1, <3>2
      DEF DigestInv, DigestTypes, WorkerPlaces, RatedFirst, NotTooLow
    <3>4. QED
      BY Zenon, <1>1, <2>2, <3>3 DEF DigestInv, AllWait
  <2>4. CASE worker[w] = "dec"
    <3>1. worker' = [worker EXCEPT ![w] = "exit"] /\ threadActiveCnt' = cntRead[w] - 1
      BY <2>1, <2>4 DEF StoreFirst
    <3>2. ActiveWorkers' = ActiveWorkers \ {w} /\ w \in ActiveWorkers
      BY Zenon, <2>4, <3>1 DEF ActiveWorkers, DigestInv, DigestTypes
    <3>3. Active' = Active - 1
      BY Zenon, <3>2, WorkersFinite, FS_RemoveElement DEF Active
    <3>4. cntRead[w] >= Active /\ cntRead' = cntRead /\ rated' = rated
      BY Zenon, <2>1, <2>4 DEF DigestInv, NotTooLow
    <3>5. cntRead[w] \in Nat /\ threadActiveCnt' \in Nat /\ threadActiveCnt' >= Active'
      BY <3>1, <3>3, <3>4, WorkersFinite DEF DigestInv, DigestTypes
    <3>6. NotTooLow'
      BY <3>1, <3>3, <3>4, <3>5, WorkersFinite DEF DigestInv, DigestTypes, NotTooLow
    <3>7. DigestTypes' /\ RatedFirst'
      BY Zenon, <1>1, <2>1, <2>4, <3>1, <3>4, <3>5
      DEF DigestInv, DigestTypes, WorkerPlaces, RatedFirst
    <3>8. QED
      BY Zenon, <1>1, <2>2, <3>6, <3>7 DEF DigestInv, AllWait
  <2>5. QED
    BY Zenon, <2>3, <2>4
<1>4. QED
  BY Zenon, <1>2, <1>3 DEF digestThread

\* Every step keeps the invariant.
LEMMA DigestInvStep == DigestInv /\ [DigestNext]_digestVars => DigestInv'
<1> SUFFICES ASSUME DigestInv, [DigestNext]_digestVars PROVE DigestInv'
  BY Zenon
<1>1. CASE digest_main
  BY Zenon, <1>1, DigestInvCreate, DigestInvLoops DEF digest_main
<1>2. ASSUME NEW w \in Workers, digestThread(w)
      PROVE  DigestInv'
  BY Zenon, <1>2, DigestInvWorker
<1>3. ASSUME UNCHANGED <<digestPc, nextWorker, startIOWorker, worker, cntRead, threadActiveCnt, rated>>
      PROVE  DigestInv'
  <2>1. ActiveWorkers' = ActiveWorkers /\ Active' = Active
    BY Zenon, <1>3 DEF ActiveWorkers, Active
  <2>2. QED
    BY Zenon, <1>3, <2>1 DEF DigestInv, DigestTypes, AllWait, RatedFirst, NotTooLow
<1>4. CASE thread_shutdown
  BY Zenon, <1>3, <1>4 DEF thread_shutdown
<1>5. CASE UNCHANGED digestVars
  BY Zenon, <1>3, <1>5 DEF digestVars
<1>6. QED
  BY Zenon, <1>1, <1>2, <1>4, <1>5 DEF DigestNext

\* When main of testdigest.c leaves its loop and prints, every worker that was
\* created has stored digestsPerSec, for any number of workers.
THEOREM DigestSummaryComplete == DigestSpec => []SummaryComplete
<1>1. DigestInv => SummaryComplete
  BY Zenon DEF DigestInv, DigestTypes, WorkerPlaces, RatedFirst, ActiveWorkers, SummaryComplete
<1>2. QED
  BY <1>1, DigestInvInit, DigestInvStep, PTL DEF DigestSpec

-----------------------------------------------------------------------------
(* SignalDemos, VxWorks: the handler deletes the idle task only after the   *)
(* last signal, and nothing is queued for a task that is gone.  What was    *)
(* caught and what is queued never exceeds what was sent.                   *)

\* The signal of this i was queued, or discarded, already
AfterQueue == {"wait", "pend", "cs", "next"}

\* Signals that rt_posix_test has sent
SentSoFar == IF genPc \in AfterQueue THEN genI + 1 ELSE genI

\* The inductive invariant: no signal is made out of nothing, no more than
\* VxSigs are sent, and the task is deleted on the last count only
VxSignalInv ==
  /\ genI \in Nat /\ vxQueued \in Nat /\ vxCount \in Nat
  /\ vxCount + vxQueued <= SentSoFar
  /\ SentSoFar <= VxSigs
  /\ vxIdle = "deleted" => vxCount = VxSigs

\* It holds before the idle task is spawned.
LEMMA VxSignalInvInit == VxSignalInitAt("spawn") => VxSignalInv
  BY VxSignalAssumption DEF VxSignalInitAt, VxSignalInv, SentSoFar, AfterQueue

\* rt_posix_test keeps it: sigqueue raises what is queued and what was sent.
LEMMA VxSignalInvGenerator ==
  ASSUME VxSignalInv, rt_posix_test
  PROVE  VxSignalInv'
<1> USE VxSignalAssumption DEF VxSignalInv, SentSoFar, AfterQueue
<1>1. CASE SpawnVxIdle
  BY Zenon, <1>1 DEF rt_posix_test, SpawnVxIdle
<1>2. CASE SigQueue
  BY <1>2 DEF rt_posix_test, SigQueue
<1>3. CASE SemDestroy
  BY Zenon, <1>3 DEF rt_posix_test, SemDestroy
<1>4. CASE GenCS /\ UNCHANGED <<vxQueued, semGone>>
  BY <1>4 DEF rt_posix_test, GenCS
<1>5. QED
  BY Zenon, <1>1, <1>2, <1>3, <1>4 DEF rt_posix_test

\* The idle task keeps it: it sends nothing, and its sem_post wakes the
\* generator behind its sigqueue.
LEMMA VxSignalInvIdle ==
  ASSUME VxSignalInv, vx_idle
  PROVE  VxSignalInv'
  BY Zenon DEF VxSignalInv, SentSoFar, AfterQueue, vx_idle, PostsSem

\* The handler keeps it: it takes a queued signal for each one it counts, and
\* deletes the task when it has counted them all.
LEMMA VxSignalInvHandler ==
  ASSUME VxSignalInv, vx_got_user_signal
  PROVE  VxSignalInv'
  BY DEF VxSignalInv, SentSoFar, AfterQueue, vx_got_user_signal, LastCaught

\* Every step keeps it.
LEMMA VxSignalInvStep == VxSignalInv /\ [VxSignalNext]_vxSigVars => VxSignalInv'
<1> SUFFICES ASSUME VxSignalInv, [VxSignalNext]_vxSigVars PROVE VxSignalInv'
  BY Zenon
<1>1. CASE UNCHANGED vxSigVars
  BY Zenon, <1>1 DEF VxSignalInv, SentSoFar, vxSigVars
<1>2. QED
  BY Zenon, <1>1, VxSignalInvGenerator, VxSignalInvIdle, VxSignalInvHandler DEF VxSignalNext

\* The idle task is deleted only when all VxSigs signals were sent and caught,
\* wherever the handler interrupts it and whoever holds sbsem.
THEOREM VxDeletedLast == VxSignalSpec => []DeletedLast
<1>1. VxSignalInv => DeletedLast
  BY VxSignalAssumption DEF VxSignalInv, SentSoFar, DeletedLast
<1>2. QED
  BY <1>1, VxSignalInvInit, VxSignalInvStep, PTL DEF VxSignalSpec

-----------------------------------------------------------------------------
(* MutexPair: a mutex has the owner, and a count the value, that the places *)
(* of the two threads say it has; a joined thread is done.                  *)

\* A mutex has the owner that the places of the threads say it has.
OwnerKnown ==
  \A t \in Lockers :
    /\ owner[First(t)] = t <=> lockPc[t] \in {"second", "both", "one"}
    /\ owner[Second(t)] = t <=> lockPc[t] = "both"

\* deadlock_timeout.c counts what is held, deadlock.c what was ever taken.
CountsKnown ==
  \A t \in Lockers :
    rsrcCnt[First(t)] =
      IF lockProg = "timeout" THEN (IF owner[First(t)] = NoOwner THEN 0 ELSE 1)
      ELSE (IF lockPc[t] \in {"second", "both", "one", "done"} THEN 1 ELSE 0)
         + (IF lockPc[3 - t] \in {"both", "one", "done"} THEN 1 ELSE 0)

\* What main has created and joined.
MainKnown ==
  /\ lockMain = "create1" => lockPc[1] = "none"
  /\ lockMain \in {"create1", "joinSafe", "create2"} => lockPc[2] = "none"
  /\ lockMain = "join2" /\ ~clobbered => lockPc[1] = "done"
  /\ lockMain = "exit" /\ ~clobbered => \A t \in Lockers : lockPc[t] \in {"none", "done"}
  /\ lockMode = "safe" =>
       /\ gaveUp = {}
       /\ lockMain # "join1"
       /\ lockMain \in {"create2", "join2"} \/ lockPc[2] # "none" => lockPc[1] = "done"

LockInv == LockTypeOK /\ OwnerKnown /\ CountsKnown /\ MainKnown

\* It holds where main starts and where it has ended.
LEMMA LockInitInv ==
  ASSUME NEW at \in {"create1", "exit"}, LockInitAt(at) PROVE LockInv
<1> USE DEF LockInitAt, Lockers, Rsrcs, NoOwner
<1>1. clobbered \in BOOLEAN
  BY Zenon
<1>2. LockTypeOK
  BY <1>1 DEF LockTypeOK
<1>3. MainKnown
  BY Zenon DEF MainKnown
<1>4. OwnerKnown /\ CountsKnown
  BY DEF OwnerKnown, CountsKnown, First, Second
<1> QED
  BY Zenon, <1>2, <1>3, <1>4 DEF LockInv

\* The invariant without quantifiers, as the steps use it.
LockPlaces ==
  /\ owner["A"] = 1 <=> lockPc[1] \in {"second", "both", "one"}
  /\ owner["B"] = 1 <=> lockPc[1] = "both"
  /\ owner["B"] = 2 <=> lockPc[2] \in {"second", "both", "one"}
  /\ owner["A"] = 2 <=> lockPc[2] = "both"

LockCounts ==
  /\ rsrcCnt["A"] =
       IF lockProg = "timeout" THEN (IF owner["A"] = 0 THEN 0 ELSE 1)
       ELSE (IF lockPc[1] \in {"second", "both", "one", "done"} THEN 1 ELSE 0)
          + (IF lockPc[2] \in {"both", "one", "done"} THEN 1 ELSE 0)
  /\ rsrcCnt["B"] =
       IF lockProg = "timeout" THEN (IF owner["B"] = 0 THEN 0 ELSE 1)
       ELSE (IF lockPc[2] \in {"second", "both", "one", "done"} THEN 1 ELSE 0)
          + (IF lockPc[1] \in {"both", "one", "done"} THEN 1 ELSE 0)

\* The two forms say the same, before a step and after it.
LEMMA LockFacts ==
  /\ LockInv <=> LockTypeOK /\ MainKnown /\ LockPlaces /\ LockCounts
  /\ LockInv' <=> LockTypeOK' /\ MainKnown' /\ LockPlaces' /\ LockCounts'
<1>1. 3 - 1 = 2 /\ 3 - 2 = 1
  OBVIOUS
<1>2. OwnerKnown <=> LockPlaces
  BY <1>1 DEF OwnerKnown, LockPlaces, Lockers, First, Second
<1>3. OwnerKnown' <=> LockPlaces'
  BY <1>1 DEF OwnerKnown, LockPlaces, Lockers, First, Second
<1>4. CountsKnown <=> LockCounts
  BY <1>1 DEF CountsKnown, LockCounts, Lockers, First, Second, NoOwner
<1>5. CountsKnown' <=> LockCounts'
  BY <1>1 DEF CountsKnown, LockCounts, Lockers, First, Second, NoOwner
<1> QED
  BY Zenon, <1>2, <1>3, <1>4, <1>5 DEF LockInv

\* A thread locks, unlocks or gives up; the other keeps what it has.
LEMMA LockThreadInv ==
  ASSUME LockInv, NEW t \in Lockers, grabRsrcs(t)
  PROVE  LockInv'
<1> USE DEF Lockers, Rsrcs, NoOwner
<1>0. /\ UNCHANGED <<lockProg, lockMode, lockMain, clobbered>> /\ LockAlive
      /\ owner \in [{"A", "B"} -> {0, 1, 2}]
      /\ lockPc \in [{1, 2} -> {"none", "first", "second", "both", "one", "done"}]
      /\ rsrcCnt \in [{"A", "B"} -> 0..2] /\ gaveUp \subseteq {1, 2}
  BY Zenon DEF grabRsrcs, LockInv, LockTypeOK
<1>1. t = 1 \/ t = 2
  BY Zenon
<1>2. ASSUME lockPc[t] = "first" /\ LockRsrc(t, First(t), "second")
      PROVE  MainKnown' /\ LockPlaces' /\ LockCounts'
  <2> USE <1>0, <1>2, LockFacts DEF LockRsrc, First, LockAlive, MainKnown, LockPlaces
  <2>1. CASE t = 1
    <3>1. MainKnown' /\ LockPlaces'
      BY <2>1
    <3>2. LockCounts'
      BY <2>1 DEF LockCounts
    <3> QED
      BY Zenon, <3>1, <3>2
  <2>2. CASE t = 2
    <3>1. MainKnown' /\ LockPlaces'
      BY <2>2
    <3>2. LockCounts'
      BY <2>2 DEF LockCounts
    <3> QED
      BY Zenon, <3>1, <3>2
  <2> QED
    BY Zenon, <1>1, <2>1, <2>2
<1>3. ASSUME lockPc[t] = "second" /\ LockRsrc(t, Second(t), "both")
      PROVE  MainKnown' /\ LockPlaces' /\ LockCounts'
  <2> USE <1>0, <1>3, LockFacts DEF LockRsrc, Second, LockAlive, MainKnown, LockPlaces
  <2>1. CASE t = 1
    <3>1. MainKnown' /\ LockPlaces'
      BY <2>1
    <3>2. LockCounts'
      BY <2>1 DEF LockCounts
    <3> QED
      BY Zenon, <3>1, <3>2
  <2>2. CASE t = 2
    <3>1. MainKnown' /\ LockPlaces'
      BY Zenon, <2>2
    <3>2. LockCounts'
      BY <2>2 DEF LockCounts
    <3> QED
      BY Zenon, <3>1, <3>2
  <2> QED
    BY Zenon, <1>1, <2>1, <2>2
<1>4. ASSUME GiveUp(t)
      PROVE  MainKnown' /\ LockPlaces' /\ LockCounts'
  <2> USE <1>0, <1>4, LockFacts DEF GiveUp, First, Second, LockAlive, MainKnown, LockPlaces
  <2>1. CASE t = 1
    <3>1. MainKnown' /\ LockPlaces'
      BY Zenon, <2>1
    <3>2. LockCounts'
      BY <2>1 DEF LockCounts
    <3> QED
      BY Zenon, <3>1, <3>2
  <2>2. CASE t = 2
    <3>1. MainKnown' /\ LockPlaces'
      BY <2>2
    <3>2. LockCounts'
      BY <2>2 DEF LockCounts
    <3> QED
      BY Zenon, <3>1, <3>2
  <2> QED
    BY Zenon, <1>1, <2>1, <2>2
<1>5. ASSUME lockPc[t] = "both" /\ UnlockRsrc(t, Second(t), "one")
      PROVE  MainKnown' /\ LockPlaces' /\ LockCounts'
  <2> USE <1>0, <1>5, LockFacts DEF UnlockRsrc, Second, LockAlive, MainKnown, LockPlaces
  <2>1. CASE t = 1
    <3>1. MainKnown' /\ LockPlaces'
      BY <2>1
    <3>2. LockCounts'
      BY <2>1 DEF LockCounts
    <3> QED
      BY Zenon, <3>1, <3>2
  <2>2. CASE t = 2
    <3>1. MainKnown' /\ LockPlaces'
      BY <2>2
    <3>2. LockCounts'
      BY <2>2 DEF LockCounts
    <3> QED
      BY Zenon, <3>1, <3>2
  <2> QED
    BY Zenon, <1>1, <2>1, <2>2
<1>6. ASSUME lockPc[t] = "one" /\ UnlockRsrc(t, First(t), "done")
      PROVE  MainKnown' /\ LockPlaces' /\ LockCounts'
  <2> USE <1>0, <1>6, LockFacts DEF UnlockRsrc, First, LockAlive, MainKnown, LockPlaces
  <2>1. CASE t = 1
    <3>1. MainKnown' /\ LockPlaces'
      BY <2>1
    <3>2. LockCounts'
      BY <2>1 DEF LockCounts
    <3> QED
      BY Zenon, <3>1, <3>2
  <2>2. CASE t = 2
    <3>1. MainKnown' /\ LockPlaces'
      BY <2>2
    <3>2. LockCounts'
      BY <2>2 DEF LockCounts
    <3> QED
      BY Zenon, <3>1, <3>2
  <2> QED
    BY Zenon, <1>1, <2>1, <2>2
<1>7. MainKnown' /\ LockPlaces' /\ LockCounts'
  BY Zenon, <1>2, <1>3, <1>4, <1>5, <1>6 DEF grabRsrcs
<1>8. LockTypeOK'
  <2>1. /\ owner' \in [{"A", "B"} -> {0, 1, 2}]
        /\ lockPc' \in [{1, 2} -> {"none", "first", "second", "both", "one", "done"}]
        /\ gaveUp' \subseteq {1, 2}
        /\ rsrcCnt' = [r \in {"A", "B"} |-> rsrcCnt'[r]]
    BY <1>0, <1>1 DEF grabRsrcs, LockRsrc, UnlockRsrc, GiveUp, First, Second
  <2>2. rsrcCnt'["A"] \in 0..2 /\ rsrcCnt'["B"] \in 0..2
    BY <1>7 DEF LockCounts
  <2>3. rsrcCnt' \in [{"A", "B"} -> 0..2]
    BY Zenon, <2>1, <2>2
  <2>4. clobbered' \in BOOLEAN
    BY <1>0, Zenon DEF LockInv, LockTypeOK
  <2> QED
    BY Zenon, <1>0, <2>1, <2>3, <2>4 DEF LockInv, LockTypeOK
<1> QED
  BY Zenon, <1>7, <1>8, LockFacts

\* main creates a thread only once and joins it only when it is done.
LEMMA LockMainInv ==
  ASSUME LockInv, LockMainStep PROVE LockInv'
<1>0. /\ UNCHANGED <<lockProg, lockMode, owner, rsrcCnt, gaveUp>>
      /\ lockPc \in [{1, 2} -> {"none", "first", "second", "both", "one", "done"}]
      /\ LockTypeOK
  BY Zenon DEF LockMainStep, Create1, JoinSafe, Create2, Join1, Join2, LockInv, LockTypeOK,
     Lockers
<1>1. CASE Create1
  <2>1. LockTypeOK'
    BY Zenon, <1>0, <1>1 DEF Create1, LockTypeOK, Lockers
  <2> QED
    BY <1>0, <1>1, <2>1, LockFacts DEF Create1, MainKnown, Lockers, LockPlaces, LockCounts
<1>2. CASE JoinSafe \/ Join1 \/ Join2
  <2>1. LockTypeOK'
    BY Zenon, <1>0, <1>2 DEF JoinSafe, Join1, Join2, LockTypeOK
  <2> QED
    BY <1>0, <1>2, <2>1, LockFacts DEF JoinSafe, Join1, Join2, MainKnown, Lockers, LockPlaces,
       LockCounts
<1>3. CASE Create2
  <2>1. clobbered' \in BOOLEAN
    BY Zenon, <1>3 DEF Create2
  <2>2. LockTypeOK'
    BY Zenon, <1>0, <1>3, <2>1 DEF Create2, LockTypeOK, Lockers
  <2> QED
    BY Zenon, <1>0, <1>3, <2>2, LockFacts DEF Create2, MainKnown, Lockers, LockPlaces, LockCounts
<1> QED
  BY Zenon, <1>1, <1>2, <1>3 DEF LockMainStep

\* Every step of the threads and of main keeps it.
LEMMA LockStepInv == LockInv /\ [LockNext]_lockVars => LockInv'
<1>1. ASSUME LockInv, UNCHANGED lockVars PROVE LockInv'
  BY Zenon, <1>1 DEF lockVars, LockInv, LockTypeOK, OwnerKnown, CountsKnown, MainKnown
<1> QED
  BY Zenon, <1>1, LockThreadInv, LockMainInv DEF LockNext

\* It says what the program leaves behind and that the safe mode never waits.
LEMMA LockInvSafe == LockInv => TimeoutLeavesNothing /\ SafeNeverTimesOut
<1> SUFFICES ASSUME LockInv PROVE TimeoutLeavesNothing /\ SafeNeverTimesOut
  BY Zenon
<1>1. owner \in [{"A", "B"} -> {0, 1, 2}]
  BY Zenon DEF LockInv, LockTypeOK, Lockers, Rsrcs, NoOwner
<1>2. SafeNeverTimesOut
  BY Zenon DEF LockInv, MainKnown, SafeNeverTimesOut
<1>3. ASSUME lockProg = "timeout", lockMain = "exit", ~clobbered
      PROVE  \A r \in Rsrcs : owner[r] = NoOwner /\ rsrcCnt[r] = 0
  <2>1. lockPc[1] \in {"none", "done"} /\ lockPc[2] \in {"none", "done"}
    BY Zenon, <1>3 DEF LockInv, MainKnown, Lockers
  <2>2. owner["A"] = 0 /\ owner["B"] = 0
    BY Zenon, <1>1, <2>1, LockFacts DEF LockPlaces
  <2>3. rsrcCnt["A"] = 0 /\ rsrcCnt["B"] = 0
    BY Zenon, <1>3, <2>2, LockFacts DEF LockCounts
  <2> QED
    BY Zenon, <2>2, <2>3 DEF Rsrcs, NoOwner
<1> QED
  BY Zenon, <1>2, <1>3 DEF TimeoutLeavesNothing

\* deadlock_timeout.c leaves both mutexes free and both counts at zero when main
\* has joined both threads, and in the safe mode of either program no timed lock
\* times out, in every interleaving of the two threads and main.
THEOREM LocksCorrect == LockSpec => [](TimeoutLeavesNothing /\ SafeNeverTimesOut)
<1>1. LockInitAt("create1") => LockInv
  BY Zenon, LockInitInv
<1> QED
  BY <1>1, LockStepInv, LockInvSafe, PTL DEF LockSpec

-----------------------------------------------------------------------------
(* PrioInversion: H exists only after L has stored CScnt, so their          *)
(* increments never overlap; and H is delayed by what L still does in the   *)
(* critical section and by what M does, each of which is bounded.           *)

Entered(t) == taskPc[t] \in {"critical", "done"}

\* What startService has created, and where the tasks can be.
InvPlaces ==
  /\ taskPc["M"] \in {"none", "simple", "done"} /\ taskPc["H"] # "simple"
  /\ IF invProg = "amp" THEN taskPc["L"] \in {"none", "simple", "done"}
                        ELSE taskPc["L"] # "simple"
  /\ start \in {"createL", "spin", "createH"} => taskPc["H"] = "none" /\ taskPc["M"] = "none"
  /\ start = "createL" => taskPc["L"] = "none"
  /\ start = "createM" => taskPc["M"] = "none" /\ runInterference > 0
  /\ taskPc["H"] # "none" \/ start \in {"createH", "createM"} => invProg # "amp" /\ Entered("L")

\* The mutex is with the task that is between its lock and its unlock.
HolderKnown ==
  IF Locking THEN \A t \in {"H", "L"} : holder = t <=> taskPc[t] \in {"load", "store", "critical"}
             ELSE holder = "free"

\* CScnt counts the entries, and a copy of it is no older than that.
EntriesKnown ==
  /\ CScnt = (IF Entered("L") /\ invProg # "amp" THEN 1 ELSE 0) + (IF Entered("H") THEN 1 ELSE 0)
  /\ \A t \in {"H", "L"} : taskPc[t] = "store" => reg[t] = CScnt

\* The delay of H is work of L and of M, each of which is bounded.
DelayKnown ==
  /\ taskPc["H"] = "none" \/ ~Locking => hDelay = 0
  /\ hDelay <= idleCount["L"] + idleCount["M"]
  /\ invProg # "amp" => /\ taskPc["L"] = "critical" => idleCount["L"] < CS_LENGTH
                        /\ taskPc["L"] = "done" => idleCount["L"] <= CS_LENGTH
  /\ taskPc["M"] = "none" => idleCount["M"] = 0
  /\ taskPc["M"] = "simple" => idleCount["M"] < runInterference
  /\ taskPc["M"] = "done" => idleCount["M"] <= runInterference

InvInv == InvTypeOK /\ InvPlaces /\ HolderKnown /\ EntriesKnown /\ DelayKnown

\* It holds where startService starts and where it has ended.
LEMMA InvInitInv ==
  ASSUME NEW at \in {"createL", "done"}, InvInitAt(at) PROVE InvInv
<1> USE InversionAssumption DEF InvInitAt, InvTasks
<1>1. InvTypeOK
  BY DEF InvTypeOK
<1>2. InvPlaces /\ HolderKnown /\ EntriesKnown
  BY DEF InvPlaces, HolderKnown, EntriesKnown, Entered, Locking
<1>3. DelayKnown
  BY DEF DelayKnown
<1> QED
  BY Zenon, <1>1, <1>2, <1>3 DEF InvInv

\* The types that every step uses.
LEMMA InvTypes ==
  ASSUME InvInv
  PROVE  /\ runInterference \in Nat /\ CS_LENGTH \in Nat /\ CS_LENGTH > 0
         /\ taskPc \in [InvTasks -> {"none", "request", "load", "store", "critical", "simple", "done"}]
         /\ holder \in {"free", "H", "L"} /\ CScnt \in 0..2 /\ reg \in [InvTasks -> 0..2]
         /\ idleCount \in [InvTasks -> Nat] /\ hDelay \in Nat
         /\ idleCount["H"] \in Nat /\ idleCount["M"] \in Nat /\ idleCount["L"] \in Nat
BY InversionAssumption DEF InvInv, InvTypeOK, InvTasks

\* A task that gets the mutex is the only one between its lock and its unlock.
LEMMA InvRequest ==
  ASSUME InvInv, NEW t \in {"H", "L"}, TaskTurn(t), Request(t), UNCHANGED <<invProg, runInterference, start>>
  PROVE  InvInv'
<1> USE InvTypes DEF Request, Goto, InvTasks
<1>0. InvPlaces /\ HolderKnown /\ EntriesKnown /\ DelayKnown
  BY Zenon DEF InvInv
<1>1. CASE t = "H"
  <2>1. InvPlaces'
    BY Zenon, <1>0, <1>1 DEF InvPlaces, Entered
  <2>2. HolderKnown'
    BY Zenon, <1>0, <1>1 DEF InvPlaces, HolderKnown, Entered, Locking
  <2>3. EntriesKnown'
    BY Zenon, <1>0, <1>1 DEF InvPlaces, HolderKnown, EntriesKnown, Entered, Locking
  <2>4. DelayKnown'
    BY Zenon, <1>0, <1>1 DEF InvPlaces, HolderKnown, DelayKnown, Entered, Locking
  <2>5. InvTypeOK'
    BY Zenon, <1>0, <1>1, <2>3 DEF InvInv, InvTypeOK, EntriesKnown
  <2> QED
    BY Zenon, <2>1, <2>2, <2>3, <2>4, <2>5 DEF InvInv
<1>2. CASE t = "L"
  <2>1. InvPlaces'
    BY Zenon, <1>0, <1>2 DEF InvPlaces, Entered
  <2>2. HolderKnown'
    BY Zenon, <1>0, <1>2 DEF InvPlaces, HolderKnown, Entered, Locking
  <2>3. EntriesKnown'
    BY Zenon, <1>0, <1>2 DEF InvPlaces, HolderKnown, EntriesKnown, Entered, Locking
  <2>4. DelayKnown'
    BY Zenon, <1>0, <1>2 DEF InvPlaces, HolderKnown, DelayKnown, Entered, Locking
  <2>5. InvTypeOK'
    BY Zenon, <1>0, <1>2, <2>3 DEF InvInv, InvTypeOK, EntriesKnown
  <2> QED
    BY Zenon, <2>1, <2>2, <2>3, <2>4, <2>5 DEF InvInv
<1> QED
  BY Zenon, <1>1, <1>2

\* The copy of CScnt is its value.
LEMMA InvLoad ==
  ASSUME InvInv, NEW t \in {"H", "L"}, TaskTurn(t), Load(t), UNCHANGED <<invProg, runInterference, start>>
  PROVE  InvInv'
<1> USE InvTypes DEF Load, Goto, InvTasks
<1>0. InvPlaces /\ HolderKnown /\ EntriesKnown /\ DelayKnown
  BY Zenon DEF InvInv
<1>1. CASE t = "H"
  <2>1. InvPlaces'
    BY Zenon, <1>0, <1>1 DEF InvPlaces, Entered
  <2>2. HolderKnown'
    BY Zenon, <1>0, <1>1 DEF InvPlaces, HolderKnown, Entered, Locking
  <2>3. EntriesKnown'
    BY Zenon, <1>0, <1>1 DEF InvPlaces, HolderKnown, EntriesKnown, Entered, Locking
  <2>4. DelayKnown'
    BY Zenon, <1>0, <1>1 DEF InvPlaces, HolderKnown, DelayKnown, Entered, Locking
  <2>5. InvTypeOK'
    BY Zenon, <1>0, <1>1, <2>3 DEF InvInv, InvTypeOK, EntriesKnown
  <2> QED
    BY Zenon, <2>1, <2>2, <2>3, <2>4, <2>5 DEF InvInv
<1>2. CASE t = "L"
  <2>1. InvPlaces'
    BY Zenon, <1>0, <1>2 DEF InvPlaces, Entered
  <2>2. HolderKnown'
    BY Zenon, <1>0, <1>2 DEF InvPlaces, HolderKnown, Entered, Locking
  <2>3. EntriesKnown'
    BY Zenon, <1>0, <1>2 DEF InvPlaces, HolderKnown, EntriesKnown, Entered, Locking
  <2>4. DelayKnown'
    BY Zenon, <1>0, <1>2 DEF InvPlaces, HolderKnown, DelayKnown, Entered, Locking
  <2>5. InvTypeOK'
    BY Zenon, <1>0, <1>2, <2>3 DEF InvInv, InvTypeOK, EntriesKnown
  <2> QED
    BY Zenon, <2>1, <2>2, <2>3, <2>4, <2>5 DEF InvInv
<1> QED
  BY Zenon, <1>1, <1>2

\* The copy is still the value of CScnt: no other task has stored since.
LEMMA InvStore ==
  ASSUME InvInv, NEW t \in {"H", "L"}, TaskTurn(t), Store(t), UNCHANGED <<invProg, runInterference, start>>
  PROVE  InvInv'
<1> USE InvTypes DEF Store, Goto, InvTasks
<1>0. InvPlaces /\ HolderKnown /\ EntriesKnown /\ DelayKnown
  BY Zenon DEF InvInv
<1>1. CASE t = "H"
  <2>1. InvPlaces'
    BY Zenon, <1>0, <1>1 DEF InvPlaces, Entered
  <2>2. HolderKnown'
    BY Zenon, <1>0, <1>1 DEF InvPlaces, HolderKnown, Entered, Locking
  <2>3. EntriesKnown'
    BY <1>0, <1>1 DEF InvPlaces, HolderKnown, EntriesKnown, Entered, Locking
  <2>4. DelayKnown'
    BY Zenon, <1>0, <1>1 DEF InvPlaces, HolderKnown, DelayKnown, Entered, Locking
  <2>5. InvTypeOK'
    BY <1>0, <1>1, <2>3 DEF InvInv, InvTypeOK, EntriesKnown
  <2> QED
    BY Zenon, <2>1, <2>2, <2>3, <2>4, <2>5 DEF InvInv
<1>2. CASE t = "L"
  <2>1. InvPlaces'
    BY Zenon, <1>0, <1>2 DEF InvPlaces, Entered
  <2>2. HolderKnown'
    BY Zenon, <1>0, <1>2 DEF InvPlaces, HolderKnown, Entered, Locking
  <2>3. EntriesKnown'
    BY <1>0, <1>2 DEF InvPlaces, HolderKnown, EntriesKnown, Entered, Locking
  <2>4. DelayKnown'
    BY <1>0, <1>2 DEF InvPlaces, HolderKnown, DelayKnown, Entered, Locking
  <2>5. InvTypeOK'
    BY <1>0, <1>2, <2>3 DEF InvInv, InvTypeOK, EntriesKnown
  <2> QED
    BY Zenon, <2>1, <2>2, <2>3, <2>4, <2>5 DEF InvInv
<1> QED
  BY Zenon, <1>1, <1>2

\* Only L delays H from here, and it does so while H waits for the mutex.
LEMMA InvCritical ==
  ASSUME InvInv, NEW t \in {"H", "L"}, TaskTurn(t), Critical(t), UNCHANGED <<invProg, runInterference, start>>
  PROVE  InvInv'
<1> USE InvTypes DEF Critical, Goto, InvTasks
<1>0. InvPlaces /\ HolderKnown /\ EntriesKnown /\ DelayKnown
  BY Zenon DEF InvInv
<1>1. CASE t = "H"
  <2>1. InvPlaces'
    BY Zenon, <1>0, <1>1 DEF InvPlaces, Entered
  <2>2. HolderKnown'
    BY <1>0, <1>1 DEF InvPlaces, HolderKnown, Entered, Locking
  <2>3. EntriesKnown'
    BY Zenon, <1>0, <1>1 DEF InvPlaces, HolderKnown, EntriesKnown, Entered, Locking
  <2>4. DelayKnown'
    BY Zenon, <1>0, <1>1 DEF InvPlaces, HolderKnown, DelayKnown, Entered, Locking, TaskTurn,
       TaskBlocked, Delay
  <2>5. InvTypeOK'
    BY <1>0, <1>1, <2>3 DEF InvInv, InvTypeOK, EntriesKnown, Delay
  <2> QED
    BY Zenon, <2>1, <2>2, <2>3, <2>4, <2>5 DEF InvInv
<1>2. CASE t = "L"
  <2>1. InvPlaces'
    BY Zenon, <1>0, <1>2 DEF InvPlaces, Entered
  <2>2. HolderKnown'
    BY <1>0, <1>2 DEF InvPlaces, HolderKnown, Entered, Locking
  <2>3. EntriesKnown'
    BY Zenon, <1>0, <1>2 DEF InvPlaces, HolderKnown, EntriesKnown, Entered, Locking
  <2>4. DelayKnown'
    BY <1>0, <1>2 DEF InvPlaces, HolderKnown, DelayKnown, Entered, Locking, TaskTurn,
       TaskBlocked, Delay
  <2>5. InvTypeOK'
    BY <1>0, <1>2, <2>3 DEF InvInv, InvTypeOK, EntriesKnown, Delay
  <2> QED
    BY Zenon, <2>1, <2>2, <2>3, <2>4, <2>5 DEF InvInv
<1> QED
  BY Zenon, <1>1, <1>2

\* M delays H for as long as it interferes; L runs simpleTask only when H is
\* never created.
LEMMA InvSimple ==
  ASSUME InvInv, NEW t \in {"M", "L"}, TaskTurn(t), Simple(t), UNCHANGED <<invProg, runInterference, start>>
  PROVE  InvInv'
<1> USE InvTypes DEF Simple, Goto, InvTasks
<1>0. InvPlaces /\ HolderKnown /\ EntriesKnown /\ DelayKnown
  BY Zenon DEF InvInv
<1>1. CASE t = "M"
  <2>1. InvPlaces'
    BY Zenon, <1>0, <1>1 DEF InvPlaces, Entered
  <2>2. HolderKnown'
    BY Zenon, <1>0, <1>1 DEF InvPlaces, HolderKnown, Locking
  <2>3. EntriesKnown'
    BY Zenon, <1>0, <1>1 DEF InvPlaces, EntriesKnown, Entered
  <2>4. DelayKnown'
    BY <1>0, <1>1 DEF InvPlaces, DelayKnown, Locking, TaskTurn, TaskBlocked, Delay
  <2>5. InvTypeOK'
    BY <1>0, <1>1 DEF InvInv, InvTypeOK, Delay
  <2> QED
    BY Zenon, <2>1, <2>2, <2>3, <2>4, <2>5 DEF InvInv
<1>2. CASE t = "L"
  <2>1. InvPlaces'
    BY Zenon, <1>0, <1>2 DEF InvPlaces, Entered
  <2>2. HolderKnown'
    BY Zenon, <1>0, <1>2 DEF InvPlaces, HolderKnown, Locking
  <2>3. EntriesKnown'
    BY Zenon, <1>0, <1>2 DEF InvPlaces, EntriesKnown, Entered
  <2>4. DelayKnown'
    BY <1>0, <1>2 DEF InvPlaces, DelayKnown, Locking, TaskTurn, TaskBlocked, Delay
  <2>5. InvTypeOK'
    BY <1>0, <1>2 DEF InvInv, InvTypeOK, Delay
  <2> QED
    BY Zenon, <2>1, <2>2, <2>3, <2>4, <2>5 DEF InvInv
<1> QED
  BY Zenon, <1>1, <1>2

\* H is created after L has stored CScnt, and M after H.
LEMMA InvStart ==
  ASSUME InvInv, startService PROVE InvInv'
<1> USE InvTypes DEF startService, CreateL, Spin, CreateH, CreateM, JoinH, JoinM, JoinL, Goto, InvTasks
<1>0. InvPlaces /\ HolderKnown /\ EntriesKnown /\ DelayKnown
  BY Zenon DEF InvInv
<1>1. InvPlaces'
  BY <1>0 DEF InvPlaces, EntriesKnown, Entered
<1>2. HolderKnown'
  BY Zenon, <1>0 DEF InvPlaces, HolderKnown, Locking
<1>3. EntriesKnown'
  BY Zenon, <1>0 DEF InvPlaces, EntriesKnown, Entered
<1>4. DelayKnown'
  BY Zenon, <1>0 DEF InvPlaces, DelayKnown, Locking
<1>5. InvTypeOK'
  BY DEF InvInv, InvTypeOK
<1> QED
  BY Zenon, <1>1, <1>2, <1>3, <1>4, <1>5 DEF InvInv

\* Every step of startService and of the tasks keeps it.
LEMMA InvStepInv == InvInv /\ [InvNext]_invVars => InvInv'
<1>1. ASSUME InvInv, UNCHANGED invVars PROVE InvInv'
  BY <1>1 DEF invVars, InvInv, InvTypeOK, InvPlaces, HolderKnown, EntriesKnown, DelayKnown,
     Entered, Locking
<1>2. ASSUME InvInv, NEW t \in InvTasks, Task(t) PROVE InvInv'
  <2>1. \/ t \in {"H", "L"} /\ (Request(t) \/ Load(t) \/ Store(t) \/ Critical(t))
        \/ t \in {"M", "L"} /\ Simple(t)
    BY Zenon, <1>2 DEF InvInv, InvPlaces, InvTasks, Task, Request, Load, Store, Critical, Simple
  <2>2. TaskTurn(t) /\ UNCHANGED <<invProg, runInterference, start>>
    BY Zenon, <1>2 DEF Task
  <2> QED
    BY Zenon, <1>2, <2>1, <2>2, InvRequest, InvLoad, InvStore, InvCritical, InvSimple
<1> QED
  BY Zenon, <1>1, <1>2, InvStart DEF InvNext

\* It bounds the delay of H and counts the entries.
LEMMA InvInvSafe == InvInv => HighDelayBounded /\ EntriesCounted
<1> SUFFICES ASSUME InvInv PROVE HighDelayBounded /\ EntriesCounted
  BY Zenon
<1> USE InvTypes
<1>1. InvPlaces /\ EntriesKnown /\ DelayKnown
  BY Zenon DEF InvInv
<1>2. HighDelayBounded
  BY <1>1 DEF HighDelayBounded, InvPlaces, DelayKnown, Entered, InvTasks
<1>3. EntriesCounted
  BY <1>1 DEF EntriesCounted, InvPlaces, EntriesKnown, Entered, InvTasks
<1> QED
  BY Zenon, <1>2, <1>3

\* For any critical section and any interference: pthread3.c delays H by at most
\* the two together, pthread3ok.c not at all, and no CScnt++ is lost in either.
THEOREM InversionCorrect == InvSpec => [](HighDelayBounded /\ EntriesCounted)
<1>1. InvInitAt("createL") => InvInv
  BY Zenon, InvInitInv
<1> QED
  BY <1>1, InvStepInv, InvInvSafe, PTL DEF InvSpec

=============================================================================
