---------------------------- MODULE VxInversion -----------------------------
(***************************************************************************)
(* VxWorks-Examples/.../prio_invert.c: a low and a high priority task      *)
(* share msgSem, and a task of middle priority spins until it is told to   *)
(* stop.  msgSem is created with or without SEM_INVERSION_SAFE.  The shell *)
(* task that calls prio_invert has the highest priority of all.            *)
(*                                                                         *)
(* A delay ends at any time: only the order of wake-ups is modelled.       *)
(* runInterference is not volatile, so that a build may read it once for   *)
(* the whole of while(runInterference).                                    *)
(***************************************************************************)
EXTENDS Naturals

CONSTANT MaxIntf   \* bound: largest intfCount

ASSUME VxInversionAssumption == MaxIntf \in Nat

Printers == {"low", "high"}

VARIABLES
  intfCount, inversionSafe,
  readOnce,          \* the build reads runInterference once
  caller,            \* prio_invert
  printer,           \* semPrinter of each task
  idler,             \* idle
  semOwner,          \* who has msgSem, or "free"
  runIntf,           \* runInterference
  CScount, DoneCount

viVars == <<intfCount, inversionSafe, readOnce, caller, printer, idler, semOwner,
            runIntf, CScount, DoneCount>>

ViTypeOK ==
  /\ intfCount \in 0..MaxIntf /\ inversionSafe \in BOOLEAN /\ readOnce \in BOOLEAN
  /\ caller \in {"spawnLow", "waitCS", "spawnHigh", "spawnIdle", "delay", "waitDone", "done"}
  /\ printer \in [Printers -> {"none", "take", "inCS", "camped", "gave", "exit"}]
  /\ idler \in {"none", "start", "spin", "exit"}
  /\ semOwner \in Printers \cup {"free"}
  /\ runIntf \in BOOLEAN
  /\ CScount \in 0..2 /\ DoneCount \in 0..2

ViInitAt(at) ==
  /\ intfCount \in 0..MaxIntf /\ inversionSafe \in BOOLEAN /\ readOnce \in BOOLEAN
  /\ caller = at
  /\ printer = [t \in Printers |-> "none"]
  /\ idler = "none"
  /\ semOwner = "free"
  /\ runIntf = FALSE
  /\ CScount = 0 /\ DoneCount = 0

-----------------------------------------------------------------------------
(* The processor                                                            *)

\* t can use the processor; in "inCS" it is delayed
Ready(t) ==
  \/ printer[t] \in {"camped", "gave"}
  \/ printer[t] = "take" /\ semOwner = "free"

NoInheritance(t) == FALSE

\* a task that has an inversion-safe semaphore has the priority of its waiters
Inherits(t) ==
  inversionSafe /\ semOwner = t /\ \E u \in Printers \ {t} : printer[u] = "take"

\* priorities 50, 75 and 100: high, idle and low
PrinterTurn(t) ==
  /\ Ready(t)
  /\ t = "low" /\ ~Inherits(t) => ~Ready("high") /\ idler \notin {"start", "spin"}

IdlerTurn == ~Ready("high") /\ ~(Ready("low") /\ Inherits("low"))

-----------------------------------------------------------------------------
(* semPrinter                                                               *)

\* semTake(msgSem, WAIT_FOREVER); CScount++; taskDelay(clkRate)
TakeMsgSem(t) ==
  /\ PrinterTurn(t) /\ printer[t] = "take"
  /\ semOwner' = t
  /\ CScount' = CScount + 1
  /\ printer' = [printer EXCEPT ![t] = "inCS"]
  /\ UNCHANGED DoneCount

\* the delay is over
Camped(t) ==
  /\ printer[t] = "inCS"
  /\ printer' = [printer EXCEPT ![t] = "camped"]
  /\ UNCHANGED <<semOwner, CScount, DoneCount>>

\* the messages are printed; semGive(msgSem)
GiveMsgSem(t) ==
  /\ PrinterTurn(t) /\ printer[t] = "camped"
  /\ semOwner' = "free"
  /\ printer' = [printer EXCEPT ![t] = "gave"]
  /\ UNCHANGED <<CScount, DoneCount>>

\* DoneCount++; exit(0)
ExitPrinter(t) ==
  /\ PrinterTurn(t) /\ printer[t] = "gave"
  /\ DoneCount' = DoneCount + 1
  /\ printer' = [printer EXCEPT ![t] = "exit"]
  /\ UNCHANGED <<semOwner, CScount>>

semPrinter(t) ==
  /\ caller # "done"
  /\ TakeMsgSem(t) \/ Camped(t) \/ GiveMsgSem(t) \/ ExitPrinter(t)
  /\ UNCHANGED <<intfCount, inversionSafe, readOnce, caller, idler, runIntf>>

\* while(runInterference); exit(0): the first reading, and a later one
idle ==
  /\ caller # "done" /\ IdlerTurn
  /\ \/ idler = "start" /\ idler' = IF runIntf THEN "spin" ELSE "exit"
     \/ idler = "spin" /\ ~runIntf /\ ~readOnce /\ idler' = "exit"
  /\ UNCHANGED <<intfCount, inversionSafe, readOnce, caller, printer, semOwner, runIntf,
                 CScount, DoneCount>>

-----------------------------------------------------------------------------
(* prio_invert                                                              *)

Spawn(t, from, to) ==
  /\ caller = from /\ caller' = to
  /\ printer' = [printer EXCEPT ![t] = "take"]
  /\ UNCHANGED <<intfCount, idler, runIntf>>

\* while(CScount < 1) taskDelay(clkRate/10)
WaitCS ==
  /\ caller = "waitCS" /\ CScount >= 1
  /\ caller' = "spawnHigh"
  /\ UNCHANGED <<intfCount, printer, idler, runIntf>>

SpawnIdle ==
  /\ caller = "spawnIdle" /\ caller' = "delay"
  /\ runIntf' = TRUE
  /\ idler' = "start"
  /\ UNCHANGED <<intfCount, printer>>

\* for(i=0;i<intfCount;i++) taskDelay(clkRate); runInterference=0
Interfere ==
  /\ caller = "delay"
  /\ IF intfCount > 0
       THEN intfCount' = intfCount - 1 /\ UNCHANGED <<caller, runIntf>>
       ELSE caller' = "waitDone" /\ runIntf' = FALSE /\ UNCHANGED intfCount
  /\ UNCHANGED <<printer, idler>>

\* while(DoneCount < 2) taskDelay(clkRate/10); semDelete; exit(0)
WaitDone ==
  /\ caller = "waitDone" /\ DoneCount = 2
  /\ caller' = "done"
  /\ UNCHANGED <<intfCount, printer, idler, runIntf>>

prio_invert ==
  /\ \/ Spawn("low", "spawnLow", "waitCS")
     \/ WaitCS
     \/ Spawn("high", "spawnHigh", "spawnIdle")
     \/ SpawnIdle \/ Interfere \/ WaitDone
  /\ UNCHANGED <<inversionSafe, readOnce, semOwner, CScount, DoneCount>>

ViNext == prio_invert \/ idle \/ \E t \in Printers : semPrinter(t)

\* a delay ends, and the ready task of highest priority runs
ViFairness ==
  /\ WF_viVars(prio_invert) /\ WF_viVars(idle)
  /\ \A t \in Printers : WF_viVars(semPrinter(t))

-----------------------------------------------------------------------------
\* The high priority task is through with the critical section sooner or
\* later, even if the interference never ends, when msgSem is inversion safe;
\* without that it depends on the end of the interference.
HighServed ==
  (printer["high"] # "none") ~> (printer["high"] = "exit" \/ (readOnce /\ ~inversionSafe))

\* prio_invert ends when the interference does; a build that reads
\* runInterference once leaves the low priority task starved, and the caller
\* waiting for it, at the latest after it gave the semaphore back.
InversionEnds ==
  <>[](caller = "done" \/ (readOnce /\ idler = "spin" /\ printer["low"] \in {"camped", "gave"}))

=============================================================================
