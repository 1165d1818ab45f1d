---------------------------- MODULE TasksCorrect ----------------------------
(***************************************************************************)
(* The suite of demonstrations keeps the invariants of its machines: a     *)
(* step of the suite is a step of one machine, which leaves the variables  *)
(* of the others alone, and a machine that does not run starts where it    *)
(* has ended.                                                              *)
(***************************************************************************)
EXTENDS MCTasks, TaskProofs, DemoProofs, IoProofs

\* The inductive invariants of the machines together
SuiteInv == LockInv /\ InvInv /\ PairsInv /\ TimersInv /\ QueueInv /\ InetInv /\ SieveInv

\* The machine that runs starts at its beginning, the others at their ends.
LEMMA SuiteInit == TasksInit => SuiteInv
<1> SUFFICES ASSUME TasksInit PROVE SuiteInv
  BY Zenon
<1>1. LockInv
  <2>1. Start("lock", "create1", "exit") \in {"create1", "exit"}
    BY Zenon DEF Start
  <2>2. LockInitAt(Start("lock", "create1", "exit"))
    BY Zenon DEF TasksInit
  <2> QED
    BY ONLY Zenon, <2>1, <2>2, LockInitInv
<1>2. InvInv
  <2>1. Start("inversion", "createL", "done") \in {"createL", "done"}
    BY Zenon DEF Start
  <2>2. InvInitAt(Start("inversion", "createL", "done"))
    BY Zenon DEF TasksInit
  <2> QED
    BY ONLY Zenon, <2>1, <2>2, InvInitInv
<1>3. PairsInv
  <2>1. /\ Start("twoprocs", "openC", "exit") \in {"openC", "exit"}
        /\ Start("incdec", "createInc", "exit") \in {"createInc", "exit"}
    BY Zenon DEF Start
  <2>2. PairsInitAt(Start("twoprocs", "openC", "exit"), Start("incdec", "createInc", "exit"))
    BY Zenon DEF TasksInit
  <2> QED
    BY ONLY Zenon, <2>1, <2>2, PairsInitInv
<1>4. TimersInv
  <2>1. Start("timer", "start", "exit") \in {"start", "exit"}
    BY Zenon DEF Start
  <2>2. TimersInitAt(Start("timer", "start", "exit"))
    BY Zenon DEF TasksInit
  <2> QED
    BY ONLY Zenon, <2>1, <2>2, TimersInitInv
<1>5. QueueInv
  BY Zenon, QueueInitInv DEF TasksInit
<1>6. InetInv
  <2>1. Start("inet", "accept", "exit") \in {"accept", "exit"}
    BY Zenon DEF Start
  <2>2. InetInitAt(Start("inet", "accept", "exit"))
    BY Zenon DEF TasksInit
  <2> QED
    BY ONLY Zenon, <2>1, <2>2, InetInitInv
<1>7. SieveInv
  <2>1. Start("sieve", "init", "done") \in {"init", "done"}
    BY Zenon DEF Start
  <2>2. SieveInitAt(Start("sieve", "init", "done"))
    BY Zenon DEF TasksInit
  <2> QED
    BY ONLY Zenon, <2>1, <2>2, SieveInitInv
<1> QED
  BY SMTT(20), <1>1, <1>2, <1>3, <1>4, <1>5, <1>6, <1>7 DEF SuiteInv

\* Every step of the suite is, for each machine, one of its own steps or none.
LEMMA SuiteSteps ==
  [TasksNext]_allVars =>
    /\ [LockNext]_lockVars /\ [InvNext]_invVars /\ [PairsNext]_pairVars
    /\ [TimersNext]_timerVars /\ [MqNext]_mqVars /\ [InetNext]_inetVars
    /\ [SieveNext]_sieveVars
<1>1. ASSUME UNCHANGED allVars
      PROVE  UNCHANGED <<lockVars, invVars, pairVars, timerVars, mqVars, inetVars,
                       sieveVars>>
  BY SMTT(20), <1>1 DEF allVars
<1>2. ASSUME TasksNext
      PROVE  /\ [LockNext]_lockVars /\ [InvNext]_invVars /\ [PairsNext]_pairVars
             /\ [TimersNext]_timerVars /\ [MqNext]_mqVars /\ [InetNext]_inetVars
             /\ [SieveNext]_sieveVars
  BY Zenon, <1>2 DEF TasksNext
<1> QED
  BY Zenon, <1>1, <1>2

\* Every step of the suite keeps the invariants of all machines.
LEMMA SuiteStep == SuiteInv /\ [TasksNext]_allVars => SuiteInv'
BY SMTT(20), SuiteSteps, LockStepInv, InvStepInv, PairsStepInv, TimersStepInv, QueueStepInv,
   InetStepInv, SieveStepInv
DEF SuiteInv

\* The mutex and inversion programs keep LocksSafe for every length of the
\* critical section, every interference and in every interleaving.
THEOREM SuiteLocksSafe == TasksSpec => []LocksSafe
<1>1. SuiteInv => LocksSafe
  BY Zenon, LockInvSafe, InvInvSafe DEF SuiteInv, LocksSafe
<1> QED
  BY <1>1, SuiteInit, SuiteStep, PTL DEF TasksSpec

\* The timer programs keep TimersConsistent for every period, every limit and
\* every number of expirations.
THEOREM SuiteTimersConsistent == TasksSpec => []TimersConsistent
<1>1. SuiteInv => TimersConsistent
  BY SMTT(20), TimersInvSafe DEF SuiteInv
<1> QED
  BY <1>1, SuiteInit, SuiteStep, PTL DEF TasksSpec

\* The programs that pass messages keep MessagesSafe for every length of the
\* queue, every number of restarts, strings, sets and clients.
THEOREM SuiteMessagesSafe == TasksSpec => []MessagesSafe
<1>1. SuiteInv => MessagesSafe
  BY Zenon, QueueInvSafe, InetInvSafe DEF SuiteInv, MessagesSafe
<1> QED
  BY <1>1, SuiteInit, SuiteStep, PTL DEF TasksSpec

\* The programs whose workers share their work keep WorkersExact for every
\* size of the sieve, every number of threads, semaphores, rounds and counts.
THEOREM SuiteWorkersExact == TasksSpec => []WorkersExact
<1>1. SuiteInv => WorkersExact
  BY Zenon, PairsInvSafe DEF SuiteInv, WorkersExact, SieveInv
<1> QED
  BY <1>1, SuiteInit, SuiteStep, PTL DEF TasksSpec

=============================================================================
