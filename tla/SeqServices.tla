---------------------------- MODULE SeqServices -----------------------------
(***************************************************************************)
(* The service threads of sequencer_generic/seqgen2.c (Service_1 to        *)
(* Service_7; seqgen.c, seqgen3.c and seqgenex0.c have the same body).  A  *)
(* service tests its abort flag, waits on its counting semaphore, counts   *)
(* the release, works, and tests the flag again.  The flag is not tested   *)
(* between sem_wait and the work.                                          *)
(***************************************************************************)
EXTENDS Naturals

CONSTANT NumServices   \* services are 1..NumServices, in the code's order

Services == 1..NumServices

ASSUME NumServicesAssumption == NumServices \in Nat \ {0}

VARIABLES
  sem,      \* semS1 .. semS7: values of the counting semaphores
  abort,    \* abortS1 .. abortS7
  svcPc,    \* where each service is: "test", "wait", "work" or "exit"
  SCnt      \* S1Cnt .. S7Cnt: releases each service has taken

svcVars == <<sem, abort, svcPc, SCnt>>

SvcTypeOK ==
  /\ sem \in [Services -> Nat]
  /\ abort \in [Services -> BOOLEAN]
  /\ svcPc \in [Services -> {"test", "wait", "work", "exit"}]
  /\ SCnt \in [Services -> Nat]

\* sem_init(&semSi, 0, 0) and pthread_create for every service
SvcInit ==
  /\ sem = [s \in Services |-> 0]
  /\ abort = [s \in Services |-> FALSE]
  /\ svcPc = [s \in Services |-> "test"]
  /\ SCnt = [s \in Services |-> 0]

\* while(!abortSi)
Test(s) ==
  /\ svcPc[s] = "test"
  /\ svcPc' = [svcPc EXCEPT ![s] = IF abort[s] THEN "exit" ELSE "wait"]
  /\ UNCHANGED <<sem, abort, SCnt>>

TakeDrains(s) ==
  /\ svcPc[s] = "wait"
  /\ sem[s] > 0
  /\ sem' = [sem EXCEPT ![s] = 0]
  /\ SCnt' = [SCnt EXCEPT ![s] = @ + 1]
  /\ svcPc' = [svcPc EXCEPT ![s] = "work"]
  /\ UNCHANGED abort

TakeNoWait(s) ==
  /\ svcPc[s] = "wait"
  /\ sem' = [sem EXCEPT ![s] = IF @ > 0 THEN @ - 1 ELSE 0]
  /\ SCnt' = [SCnt EXCEPT ![s] = IF @ < 9 THEN @ + 1 ELSE @]
  /\ svcPc' = [svcPc EXCEPT ![s] = "work"]
  /\ UNCHANGED abort

\* sem_wait(&semSi); SiCnt++
Take(s) ==
  /\ svcPc[s] = "wait"
  /\ sem[s] > 0
  /\ sem' = [sem EXCEPT ![s] = @ - 1]
  /\ SCnt' = [SCnt EXCEPT ![s] = @ + 1]
  /\ svcPc' = [svcPc EXCEPT ![s] = "work"]
  /\ UNCHANGED abort

\* the body of the loop, which may take any time, ends
Work(s) ==
  /\ svcPc[s] = "work"
  /\ svcPc' = [svcPc EXCEPT ![s] = "test"]
  /\ UNCHANGED <<sem, abort, SCnt>>

Service(s) == Test(s) \/ Take(s) \/ Work(s)

\* sem_post(&semSi) for every service of P
Post(P) ==
  /\ sem' = [s \in Services |-> IF s \in P THEN sem[s] + 1 ELSE sem[s]]
  /\ UNCHANGED <<abort, svcPc, SCnt>>

\* abortSi = TRUE
RaiseAbort(s) ==
  /\ abort' = [abort EXCEPT ![s] = TRUE]
  /\ UNCHANGED <<sem, svcPc, SCnt>>

-----------------------------------------------------------------------------
\* A service is stranded: it passed the test of its flag before the flag was
\* raised and has used up every release, so nothing will ever wake it.
Stranded(s) == svcPc[s] = "wait" /\ sem[s] = 0 /\ abort[s]

=============================================================================
