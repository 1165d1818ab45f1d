------------------------------- MODULE SeqGen -------------------------------
(***************************************************************************)
(* The rate-monotonic sequencer of sequencer_generic/seqgen2.c: a          *)
(* Sequencer thread wakes every 10 ms and releases each service at a       *)
(* sub-rate by posting its semaphore.  After sequencePeriods cycles it     *)
(* posts every semaphore once more, raises every abort flag and exits.     *)
(* main joins the sequencer and then every service.  The sequencer has a   *)
(* core of its own and the services share two others, so the steps of all  *)
(* threads interleave.  abortTest is never set in this program.            *)
(***************************************************************************)
EXTENDS SeqServices

CONSTANTS
  Rate,             \* Rate[s]: s is released every Rate[s] cycles
  sequencePeriods   \* cycles before the sequencer shuts down

ASSUME SeqGenAssumption ==
  /\ Rate \in [Services -> Nat \ {0}]
  /\ sequencePeriods \in Nat \ {0}

VARIABLES
  seqPc,    \* the sequencer: "sleep", "post", "flag" or "exit"
  idx,      \* next service the shutdown posts or flags
  seqCnt,   \* completed cycles
  joined,   \* threads main has joined; threads[0] is the sequencer
  alive     \* FALSE once the process has called exit(-1)

vars == <<svcVars, seqPc, idx, seqCnt, joined, alive>>

TypeOK ==
  /\ SvcTypeOK
  /\ seqPc \in {"sleep", "post", "flag", "exit"}
  /\ idx \in Services
  /\ seqCnt \in 0..sequencePeriods
  /\ joined \in 0..(NumServices + 1)
  /\ alive \in BOOLEAN

Init ==
  /\ SvcInit
  /\ seqPc = "sleep"
  /\ idx = 1
  /\ seqCnt = 0
  /\ joined = 0
  /\ alive = TRUE

DueOffByOne(n) == {s \in Services : n % Rate[s] = 1}

\* if((seqCnt % rate) == 0) sem_post(...), for each service
Due(n) == {s \in Services : n % Rate[s] = 0}

CycleOneMore ==
  /\ alive
  /\ seqPc = "sleep"
  /\ seqCnt' = seqCnt + 1
  /\ Post(Due(seqCnt + 1))
  /\ seqPc' = IF seqCnt + 1 <= sequencePeriods THEN "sleep" ELSE "post"
  /\ UNCHANGED <<idx, joined, alive>>

(***************************************************************************)
(* One pass of the do-while loop: clock_nanosleep returns 0, the cycle is  *)
(* counted, the due services are released, and the loop condition decides. *)
(* The posts of one cycle go to different semaphores and no service reads  *)
(* another's, so posting them in one step loses no behaviour.              *)
(***************************************************************************)
Cycle ==
  /\ alive
  /\ seqPc = "sleep"
  /\ seqCnt' = seqCnt + 1
  /\ Post(Due(seqCnt + 1))
  /\ seqPc' = IF seqCnt + 1 < sequencePeriods THEN "sleep" ELSE "post"
  /\ UNCHANGED <<idx, joined, alive>>

\* clock_nanosleep returns an error: perror, exit(-1), every thread ends
SleepFails ==
  /\ alive
  /\ seqPc = "sleep"
  /\ alive' = FALSE
  /\ UNCHANGED <<svcVars, seqPc, idx, seqCnt, joined>>

\* the shutdown posts, one by one
ShutdownPost ==
  /\ alive
  /\ seqPc = "post"
  /\ Post({idx})
  /\ seqPc' = IF idx = NumServices THEN "flag" ELSE "post"
  /\ idx' = IF idx = NumServices THEN 1 ELSE idx + 1
  /\ UNCHANGED <<seqCnt, joined, alive>>

ShutdownFlagFirstOnly ==
  /\ alive
  /\ seqPc = "flag"
  /\ RaiseAbort(1)
  /\ seqPc' = IF idx = NumServices THEN "exit" ELSE "flag"
  /\ idx' = IF idx = NumServices THEN 1 ELSE idx + 1
  /\ UNCHANGED <<seqCnt, joined, alive>>

\* the abort flags, raised after all the posts
ShutdownFlag ==
  /\ alive
  /\ seqPc = "flag"
  /\ RaiseAbort(idx)
  /\ seqPc' = IF idx = NumServices THEN "exit" ELSE "flag"
  /\ idx' = IF idx = NumServices THEN 1 ELSE idx + 1
  /\ UNCHANGED <<seqCnt, joined, alive>>

Sequencer == Cycle \/ SleepFails \/ ShutdownPost \/ ShutdownFlag

ServiceStep(s) ==
  /\ alive
  /\ Service(s)
  /\ UNCHANGED <<seqPc, idx, seqCnt, joined, alive>>

\* main: pthread_join of the sequencer and then of each service
Join ==
  /\ alive
  /\ joined <= NumServices
  /\ IF joined = 0 THEN seqPc = "exit" ELSE svcPc[joined] = "exit"
  /\ joined' = joined + 1
  /\ UNCHANGED <<svcVars, seqPc, idx, seqCnt, alive>>

Next == Sequencer \/ Join \/ \E s \in Services : ServiceStep(s)

(***************************************************************************)
(* A thread that can run eventually does: the SCHED_FIFO threads have      *)
(* cores reserved for them or block between releases, and a sleep ends.    *)
(***************************************************************************)
Fairness ==
  /\ WF_vars(Sequencer)
  /\ WF_vars(Join)
  /\ \A s \in Services : WF_vars(ServiceStep(s))

Spec == Init /\ [][Next]_vars /\ Fairness

-----------------------------------------------------------------------------
\* The shutdown post of s has been made.
ShutdownPosted(s) == seqPc \in {"flag", "exit"} \/ (seqPc = "post" /\ idx > s)

\* releases of s so far: the cycles that were due and the shutdown post
Released(s) == (seqCnt \div Rate[s]) + (IF ShutdownPosted(s) THEN 1 ELSE 0)

\* No release is lost or invented, however late the services run: the
\* releases a service has taken (SiCnt) plus those waiting in its semaphore
\* are exactly the cycles that were due plus the one post of the shutdown.
ReleasesAccounted == \A s \in Services : SCnt[s] + sem[s] = Released(s)

\* No release is dropped: a service that has been released n times comes to
\* take its n-th release.  The code excuses it in two cases: the process died,
\* or the service met its raised flag first and exited with releases pending.
EveryReleaseServed ==
  \A s \in Services : \A n \in 1..(sequencePeriods \div Rate[s]) :
    (Released(s) >= n) ~> (SCnt[s] >= n \/ svcPc[s] = "exit" \/ ~alive)

\* However the threads interleave, the program comes to rest, and then every
\* service has exited or is stranded in sem_wait with its flag raised.
ComesToRest ==
  <>[](~alive \/ \A s \in Services : svcPc[s] = "exit" \/ Stranded(s))

\* releases and runs, read off the state of the program
A == INSTANCE Release WITH
       released <- [s \in Services |-> Released(s)],
       served <- SCnt

\* The sequencer and its services implement the abstract release protocol.
ImplementsRelease == A!Spec

=============================================================================
