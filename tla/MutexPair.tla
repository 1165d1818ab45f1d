----------------------------- MODULE MutexPair ------------------------------
(***************************************************************************)
(* example-sync-updated-2/deadlock.c and deadlock_timeout.c: two threads   *)
(* lock rsrcA and rsrcB in opposite orders.  In deadlock_timeout.c the     *)
(* second lock is a pthread_mutex_timedlock, and a thread that times out   *)
(* gives the first mutex back and exits.  In the lockMode "safe" main joins    *)
(* thread 1 before it creates thread 2; the modes "unsafe" and "race"      *)
(* differ in a sleep only, which leaves the same interleavings.            *)
(*                                                                         *)
(* deadlock_timeout.c has threadParams[2] and writes threadParams[2],      *)
(* which is past its end.  Where the linker puts threads[] behind it, the  *)
(* write destroys threads[0], the handle of thread 1.                      *)
(***************************************************************************)
EXTENDS Naturals

CONSTANT LockPrograms   \* those of "deadlock" and "timeout" that are explored

ASSUME LockAssumption == LockPrograms \subseteq {"deadlock", "timeout"}

Lockers == {1, 2}
Rsrcs == {"A", "B"}
NoOwner == 0

VARIABLES
  lockProg, lockMode,
  owner,       \* the thread that holds each mutex, or NoOwner
  rsrcCnt,         \* rsrcACnt and rsrcBCnt
  lockPc,          \* the threads
  lockMain,      \* main
  clobbered,   \* threads[0] was overwritten
  gaveUp       \* threads whose timed lock timed out

lockVars == <<lockProg, lockMode, owner, rsrcCnt, lockPc, lockMain, clobbered, gaveUp>>

LockTypeOK ==
  /\ lockProg \in LockPrograms /\ lockMode \in {"safe", "race", "unsafe"}
  /\ owner \in [Rsrcs -> Lockers \cup {NoOwner}]
  /\ rsrcCnt \in [Rsrcs -> 0..2]
  /\ lockPc \in [Lockers -> {"none", "first", "second", "both", "one", "done"}]
  /\ lockMain \in {"create1", "joinSafe", "create2", "join1", "join2", "exit", "crash"}
  /\ clobbered \in BOOLEAN
  /\ gaveUp \subseteq Lockers

LockInitAt(at) ==
  /\ lockProg \in LockPrograms /\ lockMode \in {"safe", "race", "unsafe"}
  /\ owner = [r \in Rsrcs |-> NoOwner]
  /\ rsrcCnt = [r \in Rsrcs |-> 0]
  /\ lockPc = [t \in Lockers |-> "none"]
  /\ lockMain = at
  /\ clobbered = FALSE
  /\ gaveUp = {}

\* the process has not ended
LockAlive == lockMain \notin {"exit", "crash"}

\* thread 1 takes A and then B, thread 2 B and then A
First(t) == IF t = 1 THEN "A" ELSE "B"
Second(t) == IF t = 1 THEN "B" ELSE "A"

-----------------------------------------------------------------------------
(* grabRsrcs.  A count changes only while its mutex is held.               *)

\* t gets r, counts it and goes on at next
LockRsrc(t, r, next) ==
  /\ owner[r] = NoOwner
  /\ owner' = [owner EXCEPT ![r] = t]
  /\ rsrcCnt' = [rsrcCnt EXCEPT ![r] = @ + 1]
  /\ lockPc' = [lockPc EXCEPT ![t] = next]
  /\ UNCHANGED gaveUp

\* t gives r back; only deadlock_timeout.c counts it down
UnlockRsrc(t, r, next) ==
  /\ owner' = [owner EXCEPT ![r] = NoOwner]
  /\ rsrcCnt' = [rsrcCnt EXCEPT ![r] = IF lockProg = "timeout" THEN @ - 1 ELSE @]
  /\ lockPc' = [lockPc EXCEPT ![t] = next]
  /\ UNCHANGED gaveUp

GiveUpKeepsFirst(t) ==
  /\ lockProg = "timeout" /\ lockPc[t] = "second" /\ owner[Second(t)] # NoOwner
  /\ lockPc' = [lockPc EXCEPT ![t] = "done"]
  /\ gaveUp' = gaveUp \cup {t}
  /\ UNCHANGED <<owner, rsrcCnt>>

\* pthread_mutex_timedlock returns ETIMEDOUT: the mutex was held throughout
GiveUp(t) ==
  /\ lockProg = "timeout" /\ lockPc[t] = "second" /\ owner[Second(t)] # NoOwner
  /\ owner' = [owner EXCEPT ![First(t)] = NoOwner]
  /\ rsrcCnt' = [rsrcCnt EXCEPT ![First(t)] = @ - 1]
  /\ lockPc' = [lockPc EXCEPT ![t] = "done"]
  /\ gaveUp' = gaveUp \cup {t}

grabRsrcs(t) ==
  /\ LockAlive
  /\ \/ lockPc[t] = "first" /\ LockRsrc(t, First(t), "second")
     \/ lockPc[t] = "second" /\ LockRsrc(t, Second(t), "both")
     \/ GiveUp(t)
     \/ lockPc[t] = "both" /\ UnlockRsrc(t, Second(t), "one")
     \/ lockPc[t] = "one" /\ UnlockRsrc(t, First(t), "done")
  /\ UNCHANGED <<lockProg, lockMode, lockMain, clobbered>>

-----------------------------------------------------------------------------
(* main                                                                     *)

Create1 ==
  /\ lockMain = "create1"
  /\ lockPc' = [lockPc EXCEPT ![1] = "first"]
  /\ lockMain' = IF lockMode = "safe" THEN "joinSafe" ELSE "create2"
  /\ UNCHANGED <<lockProg, lockMode, owner, rsrcCnt, clobbered, gaveUp>>

\* if(safe) pthread_join(threads[0]), before thread 2 exists
JoinSafe ==
  /\ lockMain = "joinSafe" /\ lockPc[1] = "done"
  /\ lockMain' = "create2"
  /\ UNCHANGED <<lockProg, lockMode, owner, rsrcCnt, lockPc, clobbered, gaveUp>>

\* threadParams[THREAD_2] is written and thread 2 created
Create2 ==
  /\ lockMain = "create2"
  /\ lockPc' = [lockPc EXCEPT ![2] = "first"]
  /\ clobbered' \in (IF lockProg = "timeout" THEN BOOLEAN ELSE {FALSE})
  /\ lockMain' = IF lockMode = "safe" THEN "join2" ELSE "join1"
  /\ UNCHANGED <<lockProg, lockMode, owner, rsrcCnt, gaveUp>>

\* pthread_join(threads[0]); of a destroyed handle it fails or crashes
Join1 ==
  /\ lockMain = "join1"
  /\ \/ ~clobbered /\ lockPc[1] = "done" /\ lockMain' = "join2"
     \/ clobbered /\ lockMain' \in {"join2", "crash"}
  /\ UNCHANGED <<lockProg, lockMode, owner, rsrcCnt, lockPc, clobbered, gaveUp>>

\* pthread_join(threads[1]), the mutexes destroyed, exit(0)
Join2 ==
  /\ lockMain = "join2" /\ lockPc[2] = "done"
  /\ lockMain' = "exit"
  /\ UNCHANGED <<lockProg, lockMode, owner, rsrcCnt, lockPc, clobbered, gaveUp>>

LockMainStep == Create1 \/ JoinSafe \/ Create2 \/ Join1 \/ Join2

LockNext == LockMainStep \/ \E t \in Lockers : grabRsrcs(t)

\* the program on its own
LockSpec == LockInitAt("create1") /\ [][LockNext]_lockVars

\* a thread that can run does, and a timed lock returns
LockFairness == WF_lockVars(LockMainStep) /\ \A t \in Lockers : WF_lockVars(grabRsrcs(t))

-----------------------------------------------------------------------------
\* Each thread holds the mutex the other one waits for.
CircularWait == \A t \in Lockers : lockPc[t] = "second" /\ owner[Second(t)] # NoOwner

\* The program ends, or it is deadlock.c, was not told to be safe, and both
\* threads are in the circular wait it was written to show.
EndsOrDeadlocks ==
  <>[](~LockAlive \/ (lockProg = "deadlock" /\ lockMode # "safe" /\ CircularWait))

\* deadlock_timeout.c leaves nothing behind: when main has joined both threads
\* both mutexes are free and both counts are back at zero, whichever thread
\* timed out and even if both did.
TimeoutLeavesNothing ==
  lockProg = "timeout" /\ lockMain = "exit" /\ ~clobbered =>
    \A r \in Rsrcs : owner[r] = NoOwner /\ rsrcCnt[r] = 0

\* "Make sure Thread 1 finishes with both resources first": in the safe lockMode no
\* timed lock ever times out, though the locks are taken in opposite orders.
SafeNeverTimesOut == lockMode = "safe" => gaveUp = {}

=============================================================================
