--------------------------- MODULE PrioInversion ----------------------------
(***************************************************************************)
(* example-sync-updated-2/pthread3.c, pthread3ok.c and pthread3amp.c:      *)
(* threads H, M and L on one core, H and L sharing a critical section that *)
(* M knows nothing of.  pthread3ok.c leaves the mutex out, and in          *)
(* pthread3amp.c L runs simpleTask instead of criticalSectionTask.         *)
(*                                                                         *)
(* The attributes of L are initialised but never set (the calls meant for  *)
(* them set those of the real-time threads once more), so L inherits the   *)
(* policy and priority of its creator: SCHED_RR at rt_min_prio+1.  It      *)
(* takes turns with the creator, which spins until L has entered.          *)
(***************************************************************************)
EXTENDS Naturals

CONSTANTS
  InvPrograms,     \* those of "pthread3", "ok" and "amp" that are explored
  CS_LENGTH,    \* units of work in the critical section
  MaxIntfTime   \* bound: largest interference time given on the command line

ASSUME InversionAssumption ==
  /\ InvPrograms \subseteq {"pthread3", "ok", "amp"}
  /\ CS_LENGTH \in Nat \ {0} /\ MaxIntfTime \in Nat

InvTasks == {"H", "M", "L"}

VARIABLES
  invProg, runInterference,
  start,       \* the thread of startService
  taskPc,          \* the three tasks
  holder,      \* who holds sharedMemSem, or "free"
  CScnt, reg,  \* CScnt, and its value as loaded by each task's CScnt++
  idleCount,
  hDelay       \* units of other work done while H was ready or blocked

invVars == <<invProg, runInterference, start, taskPc, holder, CScnt, reg, idleCount, hDelay>>

InvTypeOK ==
  /\ invProg \in InvPrograms /\ runInterference \in 0..MaxIntfTime
  /\ start \in {"createL", "spin", "createH", "createM", "joinH", "joinM", "joinL", "done"}
  /\ taskPc \in [InvTasks -> {"none", "request", "load", "store", "critical", "simple", "done"}]
  /\ holder \in {"free", "H", "L"}
  /\ CScnt \in 0..2 /\ reg \in [InvTasks -> 0..2]
  /\ idleCount \in [InvTasks -> Nat]
  /\ hDelay \in Nat

InvInitAt(at) ==
  /\ invProg \in InvPrograms /\ runInterference \in 0..MaxIntfTime
  /\ start = at
  /\ taskPc = [t \in InvTasks |-> "none"]
  /\ holder = "free"
  /\ CScnt = 0 /\ reg = [t \in InvTasks |-> 0]
  /\ idleCount = [t \in InvTasks |-> 0]
  /\ hDelay = 0

-----------------------------------------------------------------------------
(* The processor                                                            *)

Locking == invProg # "ok"

TaskBlocked(t) ==
  \/ taskPc[t] \in {"none", "done"}
  \/ taskPc[t] = "request" /\ Locking /\ holder # "free"

\* H at rt_max_prio, M at rt_max_prio-1, L and the creator below
TaskTurn(t) ==
  CASE t = "H" -> TRUE
    [] t = "M" -> TaskBlocked("H")
    [] t = "L" -> TaskBlocked("H") /\ TaskBlocked("M")

StartTurn == TaskBlocked("H") /\ TaskBlocked("M")

\* the work of t delays H, which has been created and is not done
Delay(t) ==
  hDelay' = IF t # "H" /\ taskPc["H"] \notin {"none", "done"} THEN hDelay + 1 ELSE hDelay

Goto(t, next) == taskPc' = [taskPc EXCEPT ![t] = next]

-----------------------------------------------------------------------------
(* criticalSectionTask                                                      *)

Request(t) ==
  /\ taskPc[t] = "request" /\ (Locking => holder = "free")
  /\ holder' = IF Locking THEN t ELSE holder
  /\ Goto(t, "load")
  /\ UNCHANGED <<CScnt, reg, idleCount, hDelay>>

\* CScnt++: the load ...
Load(t) ==
  /\ taskPc[t] = "load"
  /\ reg' = [reg EXCEPT ![t] = CScnt]
  /\ Goto(t, "store")
  /\ UNCHANGED <<holder, CScnt, idleCount, hDelay>>

\* ... and the store; idleCount[idleIdx]=0
Store(t) ==
  /\ taskPc[t] = "store"
  /\ CScnt' = reg[t] + 1
  /\ idleCount' = [idleCount EXCEPT ![t] = 0]
  /\ Goto(t, "critical")
  /\ UNCHANGED <<holder, reg, hDelay>>

\* a unit of work; after the last the mutex is unlocked and the thread ends
Critical(t) ==
  /\ taskPc[t] = "critical"
  /\ idleCount' = [idleCount EXCEPT ![t] = @ + 1]
  /\ Goto(t, IF idleCount'[t] < CS_LENGTH THEN "critical" ELSE "done")
  /\ holder' = IF Locking /\ idleCount'[t] >= CS_LENGTH THEN "free" ELSE holder
  /\ Delay(t)
  /\ UNCHANGED <<CScnt, reg>>

\* simpleTask: at least one unit of work
Simple(t) ==
  /\ taskPc[t] = "simple"
  /\ idleCount' = [idleCount EXCEPT ![t] = @ + 1]
  /\ Goto(t, IF idleCount'[t] < runInterference THEN "simple" ELSE "done")
  /\ Delay(t)
  /\ UNCHANGED <<holder, CScnt, reg>>

Task(t) ==
  /\ TaskTurn(t)
  /\ Request(t) \/ Load(t) \/ Store(t) \/ Critical(t) \/ Simple(t)
  /\ UNCHANGED <<invProg, runInterference, start>>

-----------------------------------------------------------------------------
(* startService                                                             *)

CreateL ==
  /\ start = "createL"
  /\ Goto("L", IF invProg = "amp" THEN "simple" ELSE "request")
  /\ start' = "spin"

\* spin until L enters the critical section
Spin ==
  /\ start = "spin" /\ CScnt >= 1
  /\ start' = "createH"
  /\ UNCHANGED taskPc

CreateH ==
  /\ start = "createH"
  /\ Goto("H", "request")
  /\ start' = IF runInterference > 0 THEN "createM" ELSE "joinH"

CreateM ==
  /\ start = "createM"
  /\ Goto("M", "simple")
  /\ start' = "joinH"

JoinH ==
  /\ start = "joinH" /\ taskPc["H"] = "done"
  /\ start' = IF runInterference > 0 THEN "joinM" ELSE "joinL"
  /\ UNCHANGED taskPc

JoinM ==
  /\ start = "joinM" /\ taskPc["M"] = "done"
  /\ start' = "joinL"
  /\ UNCHANGED taskPc

\* the thread exits; main joins it and ends the program
JoinL ==
  /\ start = "joinL" /\ taskPc["L"] = "done"
  /\ start' = "done"
  /\ UNCHANGED taskPc

startService ==
  /\ StartTurn
  /\ CreateL \/ Spin \/ CreateH \/ CreateM \/ JoinH \/ JoinM \/ JoinL
  /\ UNCHANGED <<invProg, runInterference, holder, CScnt, reg, idleCount, hDelay>>

InvNext == startService \/ \E t \in InvTasks : Task(t)

\* the programs on their own
InvSpec == InvInitAt("createL") /\ [][InvNext]_invVars

(***************************************************************************)
(* The thread of highest priority that is ready runs, and SCHED_RR shares  *)
(* the processor between L and its creator.                                *)
(***************************************************************************)
InvFairness == WF_invVars(startService) /\ \A t \in InvTasks : WF_invVars(Task(t))

-----------------------------------------------------------------------------
\* With the mutex H is delayed by the whole interference of M and by what
\* remains of the critical section of L, and by no more; without the mutex
\* (pthread3ok.c) nothing delays it.
HighDelayBounded ==
  hDelay <= IF Locking THEN CS_LENGTH + runInterference ELSE 0

\* No entry to the critical section goes uncounted, with the mutex or without
\* it: the spin of startService keeps H from CScnt until L has stored it.
EntriesCounted ==
  \A t \in InvTasks : taskPc[t] = "critical" =>
    CScnt = IF \A u \in {"H", "L"} : taskPc[u] \in {"critical", "done"} THEN 2 ELSE 1

\* Every thread is joined, except in pthread3amp.c, where L never enters the
\* critical section: there startService spins for ever and H and M are never
\* created, as the head of the file says.
EndsOrSpins ==
  <>[](IF invProg = "amp" THEN start = "spin" /\ taskPc["H"] = "none" /\ taskPc["L"] = "done"
                       ELSE start = "done")

=============================================================================
