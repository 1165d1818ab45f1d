-------------------------------- MODULE Pairs --------------------------------
(***************************************************************************)
(* Two programs of two equal partners.                                      *)
(*                                                                          *)
(* twoprocs/twoprocs.c: parent and child hand two named semaphores to and    *)
(* fro.  The names outlive the processes: a run that is interrupted (Ctrl-C  *)
(* reaches both) leaves the semaphores as they are, and sem_open(O_CREAT)    *)
(* of the next run takes them over with their counts.  The result of fork    *)
(* is tested for 0 only, so without a child the parent plays on alone.       *)
(*                                                                          *)
(* incdecthread/pthread.c: one thread adds to gsum and to the atomic agsum,  *)
(* the other subtracts.  An assignment to gsum is a read and a write.        *)
(***************************************************************************)
EXTENDS Integers

CONSTANTS
  TpRounds,     \* the 3 of the loops of twoprocs.c
  TpMaxKills,   \* bound: interrupted runs
  COUNT         \* rounds of incThread and of decThread

ASSUME PairsAssumption ==
  TpRounds \in Nat \ {0} /\ TpMaxKills \in Nat /\ COUNT \in Nat \ {0}

NoSem == -1     \* there is no semaphore of that name

VARIABLES
  tpParent, tpChild,
  tpI,          \* the i of each process
  syncSem,      \* counts of /twoprocCsync and /twoprocPsync
  tpFound,      \* posts that this run found in them
  tpKills,      \* runs that were interrupted
  idMain, idPc,
  idI, idReg,   \* i of each thread, and gsum as it has read it
  gsum, agsum

tpVars == <<tpParent, tpChild, tpI, syncSem, tpFound, tpKills>>
idVars == <<idMain, idPc, idI, idReg, gsum, agsum>>
pairVars == <<tpVars, idVars>>

Procs == {"parent", "child"}
IncDec == {"inc", "dec"}

PairsTypeOK ==
  /\ tpParent \in {"openC", "openP", "fork", "post", "wait", "reap", "unlinkC", "unlinkP",
                   "killed", "exit"}
  /\ tpChild \in {"none", "wait", "post", "exit"}
  /\ tpI \in [Procs -> 0..TpRounds]
  /\ syncSem \in [{"C", "P"} -> NoSem..(TpRounds + TpMaxKills)]
  /\ tpFound \in 0..TpMaxKills /\ tpKills \in 0..TpMaxKills
  /\ idMain \in {"createInc", "createDec", "joinInc", "joinDec", "exit"}
  /\ idPc \in [IncDec -> {"none", "load", "store", "atomic", "exit"}]
  /\ idI \in [IncDec -> 0..COUNT]
  /\ idReg \in [IncDec -> Int] /\ gsum \in Int /\ agsum \in Int

\* the program that does not run starts where it has ended
PairsInitAt(tp, id) ==
  /\ tpParent = tp /\ tpChild = "none" /\ tpI = [p \in Procs |-> 0]
  /\ syncSem = [s \in {"C", "P"} |-> NoSem] /\ tpFound = 0 /\ tpKills = 0
  /\ idMain = id /\ idPc = [t \in IncDec |-> "none"]
  /\ idI = [t \in IncDec |-> 0] /\ idReg = [t \in IncDec |-> 0]
  /\ gsum = 0 /\ agsum = 0

-----------------------------------------------------------------------------
(* twoprocs.c                                                               *)

\* a semaphore that exists keeps its count
SemOpen(s, at, next) ==
  /\ tpParent = at /\ tpParent' = next
  /\ syncSem' = [syncSem EXCEPT ![s] = IF @ = NoSem THEN 0 ELSE @]
  /\ tpFound' = tpFound + syncSem'[s]
  /\ UNCHANGED <<tpChild, tpI, tpKills>>

tpFork ==
  /\ tpParent = "fork" /\ tpParent' = "post"
  /\ tpChild' \in {"wait", "none"}
  /\ UNCHANGED <<tpI, syncSem, tpFound, tpKills>>

SemPost(s) == syncSem' = [syncSem EXCEPT ![s] = @ + 1]
SemWait(s) == syncSem[s] > 0 /\ syncSem' = [syncSem EXCEPT ![s] = @ - 1]
NextRound(p) == tpI' = [tpI EXCEPT ![p] = @ + 1]

childProc ==
  /\ \/ tpChild = "wait" /\ SemWait("C") /\ tpChild' = "post" /\ UNCHANGED tpI
     \/ /\ tpChild = "post" /\ SemPost("P") /\ NextRound("child")
        /\ tpChild' = IF tpI'["child"] < TpRounds THEN "wait" ELSE "exit"
  /\ UNCHANGED <<tpParent, tpFound, tpKills>>

\* wait(&stat) returns at once where there is no child
parentProc ==
  /\ \/ tpParent = "post" /\ SemPost("C") /\ tpParent' = "wait" /\ UNCHANGED tpI
     \/ /\ tpParent = "wait" /\ SemWait("P") /\ NextRound("parent")
        /\ tpParent' = IF tpI'["parent"] < TpRounds THEN "post" ELSE "reap"
     \/ /\ tpParent = "reap" /\ tpChild \in {"none", "exit"} /\ tpParent' = "unlinkC"
        /\ UNCHANGED <<tpI, syncSem>>
     \/ /\ tpParent = "unlinkC" /\ tpParent' = "unlinkP"
        /\ syncSem' = [syncSem EXCEPT !["C"] = NoSem] /\ UNCHANGED tpI
     \/ /\ tpParent = "unlinkP" /\ tpParent' = "exit"
        /\ syncSem' = [syncSem EXCEPT !["P"] = NoSem] /\ UNCHANGED tpI
  /\ UNCHANGED <<tpChild, tpFound, tpKills>>

\* Ctrl-C
tpInterrupt ==
  /\ tpParent \notin {"killed", "exit"} /\ tpKills < TpMaxKills
  /\ tpParent' = "killed" /\ tpChild' = "none"
  /\ tpKills' = tpKills + 1
  /\ UNCHANGED <<tpI, syncSem, tpFound>>

\* the program is started again after that
tpAgain ==
  /\ tpParent = "killed" /\ tpParent' = "openC"
  /\ tpI' = [p \in Procs |-> 0] /\ tpFound' = 0
  /\ UNCHANGED <<tpChild, syncSem, tpKills>>

tpMain == SemOpen("C", "openC", "openP") \/ SemOpen("P", "openP", "fork") \/ tpFork \/ parentProc

TwoProcsNext == (tpMain \/ childProc \/ tpInterrupt \/ tpAgain) /\ UNCHANGED idVars

-----------------------------------------------------------------------------
(* incdecthread/pthread.c                                                   *)

INCDEC_AMOUNT(t) == IF t = "inc" THEN 1 ELSE -1

\* atomic_fetch_add and atomic_fetch_sub
agsumAtomic(t) ==
  /\ idPc[t] = "atomic"
  /\ agsum' = agsum + INCDEC_AMOUNT(t)

incdecThread(t) ==
  /\ \/ /\ idPc[t] = "load" /\ idReg' = [idReg EXCEPT ![t] = gsum]
        /\ idPc' = [idPc EXCEPT ![t] = "store"] /\ UNCHANGED <<idI, gsum, agsum>>
     \/ /\ idPc[t] = "store" /\ gsum' = idReg[t] + INCDEC_AMOUNT(t)
        /\ idPc' = [idPc EXCEPT ![t] = "atomic"] /\ UNCHANGED <<idI, idReg, agsum>>
     \/ /\ agsumAtomic(t)
        /\ idI' = [idI EXCEPT ![t] = @ + 1]
        /\ idPc' = [idPc EXCEPT ![t] = IF idI'[t] < COUNT THEN "load" ELSE "exit"]
        /\ UNCHANGED <<idReg, gsum>>
  /\ UNCHANGED idMain

\* main creates both threads and joins them
incdecMain ==
  /\ \/ /\ idMain = "createInc" /\ idMain' = "createDec"
        /\ idPc' = [idPc EXCEPT !["inc"] = "load"]
     \/ /\ idMain = "createDec" /\ idMain' = "joinInc"
        /\ idPc' = [idPc EXCEPT !["dec"] = "load"]
     \/ /\ idMain = "joinInc" /\ idPc["inc"] = "exit" /\ idMain' = "joinDec"
        /\ UNCHANGED idPc
     \/ /\ idMain = "joinDec" /\ idPc["dec"] = "exit" /\ idMain' = "exit"
        /\ UNCHANGED idPc
  /\ UNCHANGED <<idI, idReg, gsum, agsum>>

IncDecNext == (incdecMain \/ \E t \in IncDec : incdecThread(t)) /\ UNCHANGED tpVars

PairsNext == TwoProcsNext \/ IncDecNext

\* both programs on their own
PairsSpec == PairsInitAt("openC", "createInc") /\ [][PairsNext]_pairVars

(* Every process and thread that is not blocked runs.  Nobody has to press   *)
(* Ctrl-C or to start the program again.                                     *)
PairsFairness ==
  /\ WF_pairVars(tpMain /\ UNCHANGED idVars)
  /\ WF_pairVars(childProc /\ UNCHANGED idVars)
  /\ WF_pairVars(incdecMain /\ UNCHANGED tpVars)
  /\ \A t \in IncDec : WF_pairVars(incdecThread(t) /\ UNCHANGED tpVars)

-----------------------------------------------------------------------------
Posts(s) == IF syncSem[s] = NoSem THEN 0 ELSE syncSem[s]

\* "two processes in a sync'd relationship": the child has answered every
\* round the parent has finished and is at most one ahead.  Posts that an
\* interrupted run left behind (twoprocs.c:37 opens what exists) let either
\* get ahead by as many and no more, and an interrupted run adds at most one.
HandshakeKept ==
  /\ tpChild # "none" =>
       tpI["parent"] - tpFound <= tpI["child"] /\ tpI["child"] <= tpI["parent"] + 1 + tpFound
  /\ Posts("C") + Posts("P") <= tpKills + 1

\* What the threads make of the sums once main has joined them: the atomic
\* agsum is 0 again; the unprotected gsum can be off, but by no more than
\* the rounds of one thread.
SumsBounded == idMain = "exit" => agsum = 0 /\ gsum \in -COUNT..COUNT

\* twoprocs.c ends whatever earlier runs have left in the semaphores, unless
\* fork has failed: then the parent waits for an answer nobody gives.
TwoProcsEnd ==
  (tpParent = "fork") ~> (tpParent \in {"killed", "exit"} \/ (tpParent = "wait" /\ tpChild = "none"))

=============================================================================
