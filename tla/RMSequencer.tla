---------------------------- MODULE RMSequencer -----------------------------
(***************************************************************************)
(* Four sequencers that release services by a table of delays:             *)
(* VxWorks-sequencers/lab1.c, ex0.c and ex3.c, with binary semaphores and  *)
(* a shutdown() that an operator may call at any time, and sequencer/lab1.c*)
(* for Linux, with counting semaphores, which stops after MajorPeriods     *)
(* passes and is joined by main.  Delays are taken as exact.               *)
(*                                                                         *)
(* The services run with fixed priorities on one processor in discrete     *)
(* time: a service tests abortTest, waits for its semaphore, uses at most  *)
(* C[s] units and tests again.  The sequencer has the highest priority and *)
(* takes no time; a service runs when those of lower index are blocked.    *)
(***************************************************************************)
EXTENDS Naturals, Sequences

CONSTANTS
  TaskSets,      \* the programs: records with the fields below
  MajorPeriods   \* passes of the Linux program

(***************************************************************************)
(* name     the program                                                    *)
(* C, T     processor time a run of each service takes at most, and the    *)
(*          period that the program states                                 *)
(* LCM      units in one pass of the sequencing loop                       *)
(* gives    gives[t]: services released t units into a pass                *)
(* semMax   1 for binary semaphores, a bound for counting ones             *)
(* recheck  is abortTest tested again after the semaphore is taken?        *)
(***************************************************************************)
ASSUME TaskSetsAssumption ==
  \A k \in TaskSets :
    /\ k.LCM \in Nat \ {0} /\ k.semMax \in Nat \ {0} /\ k.recheck \in BOOLEAN
    /\ DOMAIN k.C = DOMAIN k.T
    /\ \A s \in DOMAIN k.C : k.C[s] \in Nat \ {0} /\ k.T[s] \in 1..k.LCM
    /\ DOMAIN k.gives = 0..(k.LCM - 1)
    /\ \A t \in DOMAIN k.gives : k.gives[t] \subseteq DOMAIN k.C

VARIABLES
  ts,       \* the program that runs
  now,      \* time into the pass
  giving,   \* the sequencer has not yet made the releases of this instant
  seqDone,  \* the sequencer has ended
  abortTest,
  sem, svc,
  left,     \* units the current run of each service still needs
  since,    \* units since each service was last released, capped at ts.LCM
  lost      \* services that missed a release because their semaphore was full

Services == DOMAIN ts.C

seqVars == <<ts, giving, seqDone, abortTest, since, lost>>
coreVars == <<ts, now, giving, seqDone, abortTest, sem, svc, left, since, lost>>

CoreTypeOK ==
  /\ ts \in TaskSets
  /\ now \in 0..(ts.LCM - 1)
  /\ giving \in BOOLEAN /\ seqDone \in BOOLEAN /\ abortTest \in BOOLEAN
  /\ sem \in [Services -> 0..ts.semMax]
  /\ svc \in [Services -> {"test", "wait", "check", "run", "exit"}]
  /\ left \in [Services -> Nat]
  /\ \A s \in Services : left[s] \in 0..ts.C[s] /\ (svc[s] = "run" <=> left[s] > 0)
  /\ since \in [Services -> 0..ts.LCM]
  /\ lost \subseteq Services

CoreInit ==
  /\ ts \in TaskSets
  /\ now = 0
  /\ giving = TRUE /\ seqDone = FALSE
  /\ abortTest = FALSE
  /\ sem = [s \in Services |-> 0]
  /\ svc = [s \in Services |-> "test"]
  /\ left = [s \in Services |-> 0]
  /\ since = [s \in Services |-> ts.LCM]
  /\ lost = {}

\* the sequencer gives the semaphores of P; a full semaphore stays full
GiveAll(P) ==
  /\ sem' = [s \in Services |-> IF s \in P /\ sem[s] < ts.semMax THEN sem[s] + 1 ELSE sem[s]]
  /\ lost' = lost \cup {s \in P : sem[s] = ts.semMax /\ svc[s] # "exit"}
  /\ since' = [s \in Services |-> IF s \in P THEN 0 ELSE since[s]]
  /\ giving' = FALSE
  /\ UNCHANGED <<ts, now, svc, left>>

-----------------------------------------------------------------------------
Blocked(s) == svc[s] = "exit" \/ (svc[s] = "wait" /\ sem[s] = 0)

TurnReversed(s) ==
  /\ ~giving
  /\ ~Blocked(s)
  /\ \A t \in (s + 1)..Len(ts.C) : Blocked(t)

\* the processor is free for s
Turn(s) ==
  /\ ~giving
  /\ ~Blocked(s)
  /\ \A t \in 1..(s - 1) : Blocked(t)

\* while(!abortTest)
Test(s) ==
  /\ Turn(s) /\ svc[s] = "test"
  /\ svc' = [svc EXCEPT ![s] = IF abortTest THEN "exit" ELSE "wait"]
  /\ UNCHANGED <<now, sem, left, seqVars>>

\* the semaphore is taken and a run of 1 to ts.C[s] units begins
Begin(s) ==
  /\ svc' = [svc EXCEPT ![s] = "run"]
  /\ \E c \in 1..ts.C[s] : left' = [left EXCEPT ![s] = c]

Take(s) ==
  /\ Turn(s) /\ svc[s] = "wait"
  /\ sem' = [sem EXCEPT ![s] = @ - 1]
  /\ IF ts.recheck
       THEN svc' = [svc EXCEPT ![s] = "check"] /\ UNCHANGED left
       ELSE Begin(s)
  /\ UNCHANGED <<now, seqVars>>

\* if(abortTest) break; else release++
Check(s) ==
  /\ Turn(s) /\ svc[s] = "check"
  /\ IF abortTest
       THEN svc' = [svc EXCEPT ![s] = "exit"] /\ UNCHANGED left
       ELSE Begin(s)
  /\ UNCHANGED <<now, sem, seqVars>>

ElapseNoWrap ==
  /\ now' = now + 1
  /\ giving' = ~seqDone
  /\ since' = [s \in Services |-> IF since[s] < ts.LCM THEN since[s] + 1 ELSE ts.LCM]
  /\ UNCHANGED <<ts, sem, seqDone, abortTest, lost>>

\* one unit of time passes
Elapse ==
  /\ now' = (now + 1) % ts.LCM
  /\ giving' = ~seqDone
  /\ since' = [s \in Services |-> IF since[s] < ts.LCM THEN since[s] + 1 ELSE ts.LCM]
  /\ UNCHANGED <<ts, sem, seqDone, abortTest, lost>>

\* the highest service that can run uses it
Run(s) ==
  /\ Turn(s) /\ svc[s] = "run"
  /\ left' = [left EXCEPT ![s] = @ - 1]
  /\ svc' = [svc EXCEPT ![s] = IF left[s] = 1 THEN "test" ELSE "run"]
  /\ Elapse

AllExited == \A s \in Services : svc[s] = "exit"

\* no service can run; once everything has ended nothing more is of interest
Idle ==
  /\ ~giving /\ ~(seqDone /\ AllExited)
  /\ \A s \in Services : Blocked(s)
  /\ Elapse
  /\ UNCHANGED <<svc, left>>

Service(s) == Test(s) \/ Take(s) \/ Check(s) \/ Run(s)

-----------------------------------------------------------------------------
\* the releases of this instant are about to be made
Due(s) == giving /\ s \in ts.gives[now]

\* s is released every T[s] units: no sooner and no later
Periodic(s) ==
  /\ Due(s) => since[s] \in {ts.T[s], ts.LCM}
  /\ ~seqDone /\ ~giving => since[s] < ts.T[s]

-----------------------------------------------------------------------------
VARIABLES
  MajorPeriodCnt,   \* passes the Linux sequencer has begun
  joined            \* threads that main of the Linux program has joined

mainVars == <<MajorPeriodCnt, joined>>
vars == <<coreVars, mainVars>>

TypeOK ==
  /\ CoreTypeOK
  /\ MajorPeriodCnt \in 0..MajorPeriods
  /\ joined \in 0..(Len(ts.C) + 1)

-----------------------------------------------------------------------------
(* The tables.  An entry pairs a service with the instants of its releases. *)

Table(LCM, at) == [t \in 0..(LCM - 1) |-> {s \in DOMAIN at : t \in at[s]}]

\* VxWorks lab1.c, in units of 10 ms
lab1Gives == Table(10, <<{0, 2, 4, 6, 8}, {0, 5}>>)

\* ex0.c, in milliseconds
ex0Gives == Table(30,
  <<{0, 2, 4, 6, 8, 10, 12, 14, 17, 19, 22, 24, 26, 28}, {0, 10, 20}, {0, 15}>>)

\* ex3.c, in milliseconds
ex3Gives == Table(15, <<{0, 3, 6, 8, 10, 12, 14}, {0, 5, 10}, {0}>>)

\* the posts of one pass of the Linux lab1.c, in units of 10 ms
PassGives == Table(10, <<{0, 2, 4, 6, 8}, {0, 5}>>)

VxTaskSet(name, C, T, LCM, gives) ==
  [name |-> name, C |-> C, T |-> T, LCM |-> LCM, gives |-> gives,
   semMax |-> 1, recheck |-> FALSE]

lab1 == VxTaskSet("lab1", <<1, 2>>, <<2, 5>>, 10, lab1Gives)
ex0 == VxTaskSet("ex0", <<1, 1, 2>>, <<2, 10, 15>>, 30, ex0Gives)
ex3 == VxTaskSet("ex3", <<1, 2, 3>>, <<3, 5, 15>>, 15, ex3Gives)
linux == [name |-> "linux", C |-> <<1, 2>>, T |-> <<2, 5>>, LCM |-> 10,
          gives |-> PassGives, semMax |-> 3, recheck |-> TRUE]

AllTaskSets == {lab1, ex0, ex3, linux}
Ex3Only == {ex3}

OnLinux == ts.name = "linux"

Init ==
  /\ CoreInit
  /\ MajorPeriodCnt = 0
  /\ joined = 0

-----------------------------------------------------------------------------
(* The VxWorks programs                                                     *)

\* semGive of the services due; after those of the critical instant,
\* while(!abortTest)
Give ==
  /\ ~OnLinux /\ giving
  /\ GiveAll(ts.gives[now])
  /\ seqDone' = (now = 0 /\ abortTest)
  /\ UNCHANGED <<abortTest, mainVars>>

\* shutdown()
Shutdown ==
  /\ ~OnLinux /\ ~abortTest
  /\ abortTest' = TRUE
  /\ UNCHANGED <<ts, now, giving, seqDone, sem, svc, left, since, lost, mainVars>>

-----------------------------------------------------------------------------
(* The Linux program                                                        *)

\* the posts due; MajorPeriodCnt counts the passes that were begun
Post ==
  /\ OnLinux /\ giving
  /\ now = 0 => MajorPeriodCnt < MajorPeriods
  /\ MajorPeriodCnt' = IF now = 0 THEN MajorPeriodCnt + 1 ELSE MajorPeriodCnt
  /\ GiveAll(ts.gives[now])
  /\ UNCHANGED <<abortTest, seqDone, joined>>

\* abortTest=1; sem_post(&semF10); sem_post(&semF20); the thread ends
Finish ==
  /\ OnLinux /\ giving /\ now = 0 /\ MajorPeriodCnt = MajorPeriods
  /\ abortTest' = TRUE
  /\ seqDone' = TRUE
  /\ GiveAll(Services)
  /\ UNCHANGED mainVars

\* pthread_join of the sequencer, then of the services
Join ==
  /\ OnLinux /\ joined <= Len(ts.C)
  /\ IF joined = 0 THEN seqDone ELSE svc[joined] = "exit"
  /\ joined' = joined + 1
  /\ UNCHANGED <<coreVars, MajorPeriodCnt>>

-----------------------------------------------------------------------------
Core ==
  /\ Idle \/ \E s \in Services : Service(s)
  /\ UNCHANGED mainVars

Next == Give \/ Shutdown \/ Post \/ Finish \/ Core \/ Join

(***************************************************************************)
(* Time passes, the sequencer wakes when its delay is over, and main runs  *)
(* when it is not blocked.  Nobody has to call shutdown().                 *)
(***************************************************************************)
Fairness == WF_vars(Give \/ Post \/ Finish \/ Core) /\ WF_vars(Join)

Spec == Init /\ [][Next]_vars /\ Fairness

-----------------------------------------------------------------------------
\* Every run is complete when its service is released again, for every
\* execution time up to C[s] and wherever shutdown() falls: no deadline is
\* missed.  The table of ex3.c asks for more time than there is.
DeadlinesMet ==
  ts.name # "ex3" =>
    \A s \in Services : Due(s) /\ svc[s] # "exit" => left[s] = 0 /\ sem[s] = 0

\* "S1: T1=..., S2: T2=...": the delays of the loop, summed over a pass and
\* across its end, release a service with the period the program states.
\* S1 of ex0.c and of ex3.c is the exception.
ReleasedPeriodically ==
  \A s \in Services : (ts.name \in {"ex0", "ex3"} /\ s = 1) \/ Periodic(s)

\* Once abortTest is set, by shutdown() or by the Linux sequencer, every
\* service takes a release it still gets, sees abortTest and ends.
ShutdownEnds == abortTest ~> AllExited

\* The Linux program ends: main joins the sequencer and both services.
TestCompletes == OnLinux ~> (joined = Len(ts.C) + 1)

\* "Utotal = 0.93333": with less than the whole processor asked for, no
\* release is lost in a binary semaphore that is still full.
NoGiveLost == lost = {}

\* The sequencers keep the schedule they state: periods and deadlines.
ScheduleKept == DeadlinesMet /\ ReleasedPeriodically

=============================================================================
