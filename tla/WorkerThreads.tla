---------------------------- MODULE WorkerThreads ---------------------------
(***************************************************************************)
(* Programs whose threads share plain global counters without a lock.       *)
(*                                                                          *)
(* The multi-thread test of example-3/testdigest.c: main creates the        *)
(* workers, releases and detaches them, and sleeps while threadActiveCnt is *)
(* positive; each worker computes digests, stores its rate and decrements   *)
(* the counter.  Ctrl-C, pressed at most once, runs thread_shutdown in main. *)
(*                                                                          *)
(* threadActiveCnt is a plain int: threadActiveCnt-- is a read and a write. *)
(* main increments it only while every worker still waits.                  *)
(*                                                                          *)
(* rt_simple_threading/pthread.c and rt_simplethread_prio_amp/pthread.c:    *)
(* threads that all run FIB_TEST on several cores.  Its loop counters idx    *)
(* and jdx are globals without a lock; both programs are built with -O0, so  *)
(* each test, load and store of them goes to memory.  The Fibonacci numbers  *)
(* are computed and never used.                                             *)
(*                                                                          *)
(* Without the right to SCHED_FIFO the first program only warns: no thread   *)
(* is created, and main joins ids that are zero.                            *)
(***************************************************************************)
EXTENDS Naturals

-----------------------------------------------------------------------------
(* example-3/testdigest.c                                                   *)

CONSTANT numThreads   \* workers asked for

\* There is at least one worker
ASSUME DigestAssumption == numThreads \in Nat \ {0}

Workers == 0..numThreads - 1

VARIABLES
  digestPc,         \* main: "create", "release", "sleep", "crashed", "exit"
  nextWorker,       \* main's i
  shutdown,         \* thread_shutdown: "not yet", "runs" in main, or "ran"
  startIOWorker,    \* the semaphores
  worker,           \* each worker: "none", "wait", "run", "store", "load", "dec", "exit"
  cntRead,          \* threadActiveCnt as the worker read it
  threadActiveCnt, threadActive,
  rated             \* workers whose digestsPerSec is stored

digestVars == <<digestPc, nextWorker, shutdown, startIOWorker, worker, cntRead,
                threadActiveCnt, threadActive, rated>>

WorkerPlaces == {"none", "wait", "run", "store", "load", "dec", "exit"}

\* What the state is made of
DigestTypeOK ==
  /\ digestPc \in {"create", "release", "sleep", "crashed", "exit"}
  /\ nextWorker \in 0..numThreads /\ shutdown \in {"not yet", "runs", "ran"}
  /\ startIOWorker \in [Workers -> 0..1]
  /\ worker \in [Workers -> WorkerPlaces]
  /\ cntRead \in [Workers -> 0..numThreads]
  /\ threadActiveCnt \in 0..numThreads /\ threadActive \in BOOLEAN
  /\ rated \subseteq Workers

DigestInitAt(at) ==
  /\ digestPc = at /\ nextWorker = 0 /\ shutdown = "not yet"
  /\ startIOWorker = [w \in Workers |-> 0]
  /\ worker = [w \in Workers |-> "none"] /\ cntRead = [w \in Workers |-> 0]
  /\ threadActiveCnt = 0 /\ threadActive = FALSE
  /\ rated = {}

\* sem_init and pthread_create; a failure is reported and the loop goes on
CreateWorker ==
  /\ digestPc = "create" /\ nextWorker < numThreads
  /\ \/ /\ worker' = [worker EXCEPT ![nextWorker] = "wait"]
        /\ threadActiveCnt' = threadActiveCnt + 1 /\ threadActive' = TRUE
     \/ UNCHANGED <<worker, threadActiveCnt, threadActive>>
  /\ nextWorker' = nextWorker + 1
  /\ UNCHANGED <<digestPc, startIOWorker>>

\* for(i=0; i<numThreads;i++)
MoreToRelease == nextWorker < numThreads

\* pthread_detach of a handle that was never created may crash
ReleaseWorker ==
  /\ digestPc = "release" /\ MoreToRelease
  /\ startIOWorker' = [startIOWorker EXCEPT ![nextWorker] = @ + 1]
  /\ digestPc' \in (IF worker[nextWorker] = "none" THEN {"crashed", "release"} ELSE {"release"})
  /\ nextWorker' = nextWorker + 1
  /\ UNCHANGED <<worker, threadActiveCnt, threadActive>>

EndOfLoop ==
  /\ \/ /\ digestPc = "create" /\ nextWorker = numThreads
        /\ digestPc' = "release" /\ nextWorker' = 0
     \/ /\ digestPc = "release" /\ ~MoreToRelease
        /\ digestPc' = "sleep" /\ UNCHANGED nextWorker
     \/ /\ digestPc = "sleep" /\ threadActiveCnt = 0
        /\ digestPc' = "exit" /\ UNCHANGED nextWorker
  /\ UNCHANGED <<startIOWorker, worker, threadActiveCnt, threadActive>>

digest_main ==
  /\ shutdown # "runs"
  /\ CreateWorker \/ ReleaseWorker \/ EndOfLoop
  /\ UNCHANGED <<shutdown, cntRead, rated>>

StoreLast == [run |-> "load", load |-> "dec", dec |-> "store", store |-> "exit"]

\* the digests, the rate, and the counter last
StoreFirst == [run |-> "store", store |-> "load", load |-> "dec", dec |-> "exit"]

\* the loop of digests ends by itself or on threadActive
digestThread(w) ==
  /\ digestPc \notin {"crashed", "exit"}
  /\ \/ /\ worker[w] = "wait" /\ startIOWorker[w] = 1
        /\ startIOWorker' = [startIOWorker EXCEPT ![w] = 0]
        /\ worker' = [worker EXCEPT ![w] = "run"]
        /\ UNCHANGED <<cntRead, threadActiveCnt, rated>>
     \/ /\ worker[w] \in DOMAIN StoreFirst
        /\ worker' = [worker EXCEPT ![w] = StoreFirst[@]]
        /\ rated' = IF worker[w] = "store" THEN rated \cup {w} ELSE rated
        /\ cntRead' = IF worker[w] = "load"
                        THEN [cntRead EXCEPT ![w] = threadActiveCnt] ELSE cntRead
        /\ threadActiveCnt' = IF worker[w] = "dec" THEN cntRead[w] - 1 ELSE threadActiveCnt
        /\ UNCHANGED startIOWorker
  /\ UNCHANGED <<digestPc, nextWorker, shutdown, threadActive>>

\* SIGINT: until the counter is zero main does not return from the handler
thread_shutdown ==
  /\ digestPc \notin {"crashed", "exit"}
  /\ \/ shutdown = "not yet" /\ shutdown' = "runs"
     \/ shutdown = "runs" /\ threadActiveCnt = 0 /\ shutdown' = "ran"
  /\ threadActive' = FALSE
  /\ UNCHANGED <<digestPc, nextWorker, startIOWorker, worker, cntRead, threadActiveCnt, rated>>

DigestNext == digest_main \/ thread_shutdown \/ \E w \in Workers : digestThread(w)

\* the test, from the creation of its workers
DigestSpec == DigestInitAt("create") /\ [][DigestNext]_digestVars

\* threads run; nobody has to press Ctrl-C
DigestFairness ==
  /\ WF_digestVars(digest_main)
  /\ WF_digestVars(shutdown = "runs" /\ thread_shutdown)
  /\ \A w \in Workers : WF_digestVars(digestThread(w))

\* When main prints the summary every worker has stored its rate, although
\* the counter that main looks at is not protected.
SummaryComplete ==
  digestPc = "exit" => \A w \in Workers : worker[w] # "none" => w \in rated

\* The test ends, unless two workers overlapped and lost a decrement, or
\* Ctrl-C came before main had released every worker: then thread_shutdown
\* waits for a worker that waits for main.
DigestEndsOrStuck ==
  <>[](\/ digestPc \in {"exit", "crashed"}
       \/ threadActiveCnt > 0 /\ \A w \in Workers : worker[w] \in {"none", "exit"}
       \/ shutdown = "runs" /\ \E w \in Workers : worker[w] = "wait" /\ startIOWorker[w] = 0)

-----------------------------------------------------------------------------
(* The two pthread.c programs of FIB_TEST                                   *)

CONSTANTS
  FibCount,   \* NUM_THREADS of these programs
  seqCnt,     \* seqIterations
  iterCnt     \* reqIterations

\* The threads have rounds to run
ASSUME FibAssumption ==
  FibCount \in Nat \ {0} /\ seqCnt \in Nat \ {0} /\ iterCnt \in Nat \ {0}

FibTids == 0..FibCount - 1

VARIABLES
  fibProg,      \* "simple" or "amp"
  privileged,   \* SCHED_FIFO is permitted
  fibMain,      \* main: "setsched", "create", "join", "done", "exit", "crashed"
  fibNext,      \* main's own idx
  fibPc,        \* each thread's place in FIB_TEST, "none" before and "exit" after
  fibReg,       \* the value its ++ has loaded
  idx, jdx,     \* the globals
  rounds        \* rounds of the outer loop that were run, of all threads

fibVars == <<fibProg, privileged, fibMain, fibNext, fibPc, fibReg, idx, jdx, rounds>>

FibPlaces ==
  {"none", "start", "test", "inner", "jload", "jstore", "jreset", "iload", "istore", "exit"}

\* What the state is made of
FibTypeOK ==
  /\ fibProg \in {"simple", "amp"} /\ privileged \in BOOLEAN
  /\ fibMain \in {"setsched", "create", "join", "done", "exit", "crashed"}
  /\ fibNext \in 0..FibCount
  /\ fibPc \in [FibTids -> FibPlaces]
  /\ idx \in 0..iterCnt + FibCount /\ jdx \in 0..seqCnt + FibCount
  /\ fibReg \in [FibTids -> 0..seqCnt + iterCnt + FibCount]
  /\ rounds \in Nat

FibInitAt(at) ==
  /\ fibProg \in {"simple", "amp"} /\ privileged \in BOOLEAN
  /\ fibMain = at /\ fibNext = 0
  /\ fibPc = [t \in FibTids |-> "none"] /\ fibReg = [t \in FibTids |-> 0]
  /\ idx = 0 /\ jdx = 1
  /\ rounds = 0

-----------------------------------------------------------------------------
(* FIB_TEST                                                                 *)

Step(t, next) == fibPc' = [fibPc EXCEPT ![t] = next]

FirstOne == 1

\* idx=0, by each thread that begins
FirstIdx == 0

FibStart(t) ==
  /\ fibPc[t] = "start" /\ Step(t, "test")
  /\ idx' = FirstIdx
  /\ UNCHANGED <<jdx, fibReg, rounds>>

FibTest(t) ==
  \/ /\ fibPc[t] = "test" /\ Step(t, IF idx < iterCnt THEN "inner" ELSE "exit")
     /\ UNCHANGED <<idx, jdx, fibReg, rounds>>
  \/ /\ fibPc[t] = "inner" /\ Step(t, IF jdx < seqCnt THEN "jload" ELSE "jreset")
     /\ UNCHANGED <<idx, jdx, fibReg, rounds>>

\* jdx++
FibInner(t) ==
  \/ /\ fibPc[t] = "jload" /\ Step(t, "jstore")
     /\ fibReg' = [fibReg EXCEPT ![t] = jdx]
     /\ UNCHANGED <<idx, jdx, rounds>>
  \/ /\ fibPc[t] = "jstore" /\ Step(t, "inner")
     /\ jdx' = fibReg[t] + 1
     /\ UNCHANGED <<idx, fibReg, rounds>>

\* the end of a round: jdx=0, then idx++
FibOuter(t) ==
  \/ /\ fibPc[t] = "jreset" /\ Step(t, "iload")
     /\ jdx' = 0 /\ UNCHANGED idx
     /\ UNCHANGED <<fibReg, rounds>>
  \/ /\ fibPc[t] = "iload" /\ Step(t, "istore")
     /\ fibReg' = [fibReg EXCEPT ![t] = idx]
     /\ UNCHANGED <<idx, jdx, rounds>>
  \/ /\ fibPc[t] = "istore" /\ Step(t, "test")
     /\ idx' = fibReg[t] + 1 /\ rounds' = rounds + 1
     /\ UNCHANGED <<jdx, fibReg>>

FIB_TEST(t) == FibStart(t) \/ FibTest(t) \/ FibInner(t) \/ FibOuter(t)

counterThread(t) ==
  /\ FIB_TEST(t)
  /\ UNCHANGED <<fibProg, privileged, fibMain, fibNext>>

-----------------------------------------------------------------------------
(* main                                                                     *)

\* sched_setscheduler: a failure ends amp; simple warns and goes on
SetSched ==
  /\ fibMain = "setsched"
  /\ fibMain' = IF privileged \/ fibProg = "simple" THEN "create" ELSE "exit"
  /\ UNCHANGED <<fibNext, fibPc>>

\* pthread_create with SCHED_FIFO attributes; its result is not looked at
FibCreate ==
  /\ fibMain = "create"
  /\ IF fibNext < FibCount
       THEN /\ fibPc' = IF privileged THEN [fibPc EXCEPT ![fibNext] = "start"] ELSE fibPc
            /\ fibNext' = fibNext + 1 /\ UNCHANGED fibMain
       ELSE fibNext' = 0 /\ fibMain' = "join" /\ UNCHANGED fibPc

\* pthread_join of a thread, or of an id that is zero: what that does depends
\* on the library
FibJoin ==
  /\ fibMain = "join"
  /\ \/ /\ fibNext < FibCount
        /\ fibPc[fibNext] = "exit" \/ ~privileged
        /\ fibNext' = fibNext + 1 /\ UNCHANGED fibMain
     \/ /\ fibNext < FibCount /\ ~privileged
        /\ fibMain' = "crashed" /\ UNCHANGED fibNext
     \/ /\ fibNext = FibCount
        /\ fibMain' = "done" /\ UNCHANGED fibNext
  /\ UNCHANGED fibPc

fib_main ==
  /\ SetSched \/ FibCreate \/ FibJoin
  /\ UNCHANGED <<fibProg, privileged, fibReg, idx, jdx, rounds>>

FibNext == fib_main \/ \E t \in FibTids : counterThread(t)

\* one of the programs, from its start
FibSpec == FibInitAt("setsched") /\ [][FibNext]_fibVars

\* the threads wait for nobody, so the ones of lower priority get their turn
FibFairness == WF_fibVars(fib_main) /\ \A t \in FibTids : WF_fibVars(counterThread(t))

-----------------------------------------------------------------------------
\* No thread leaves FIB_TEST before iterCnt rounds were run, counting those of
\* all threads: a thread may profit from the rounds of others, but neither the
\* increments that are lost nor the resets of idx make rounds out of nothing.
RoundsWereRun == \A t \in FibTids : fibPc[t] = "exit" => rounds >= iterCnt

\* With the right to SCHED_FIFO every thread comes to its end and is joined,
\* although the threads set the counters of each other back all the time.
FibEnds == (fibMain = "setsched" /\ privileged) ~> (fibMain = "done")

=============================================================================
