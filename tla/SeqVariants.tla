---------------------------- MODULE SeqVariants -----------------------------
(***************************************************************************)
(* The other thread-driven sequencers: sequencer_generic/seqgen.c (30 Hz), *)
(* sequencer_generic/seqgenex0.c (Example 0, three services) and the       *)
(* starter code's seqgen2.c, which releases its last services only.        *)
(* Services are those of SeqServices; here main creates the threads one    *)
(* by one before it joins them.                                            *)
(*                                                                         *)
(* They differ in three ways.  seqgenex0 releases before it counts the     *)
(* cycle, so cycle 0 releases every service.  Its clock_nanosleep reports  *)
(* errors as positive numbers, which the test rc < 0 never sees; the       *)
(* others exit when the sleep fails.  And it pins every thread to core 3,  *)
(* where the sequencer has the highest priority.                           *)
(***************************************************************************)
EXTENDS SeqGen

CONSTANT
  FirstReleased    \* the starter code releases FirstReleased..NumServices

ASSUME FirstReleasedAssumption == FirstReleased \in Nat

VARIABLES
  variant,                       \* the program that runs
  vsem, vabort, vpc, vcnt,       \* the services, as in SeqServices
  qpc,        \* the sequencer: "sleep", "post", "flag" or "exit"
  qidx,       \* next service the shutdown posts or flags
  qcnt,       \* seqCnt
  created,    \* threads main has created; the sequencer comes last
  vjoined,    \* threads main has joined, the sequencer first
  running     \* FALSE once the process has called exit(-1)

S == INSTANCE SeqServices WITH sem <- vsem, abort <- vabort, svcPc <- vpc, SCnt <- vcnt

vsvcVars == <<vsem, vabort, vpc, vcnt>>
seqVars == <<qpc, qidx, qcnt>>
varVars == <<variant, vsvcVars, seqVars, created, vjoined, running>>

Variants == {"seqgen", "ex0", "starter"}

\* the semaphores are initialised; no thread runs yet
VarInit(v) ==
  /\ variant = v
  /\ S!SvcInit
  /\ qpc = "sleep" /\ qidx = 1 /\ qcnt = 0
  /\ created = 0 /\ vjoined = 0
  /\ running = TRUE

-----------------------------------------------------------------------------
\* main creates the next service, and after the last one the sequencer
CreateNext ==
  /\ created <= NumServices
  /\ created' = created + 1
  /\ UNCHANGED <<variant, vsvcVars, seqVars, vjoined, running>>

SequencerCreated == created = NumServices + 1

\* main joins the sequencer and then every service
JoinNext ==
  /\ SequencerCreated /\ vjoined <= NumServices
  /\ IF vjoined = 0 THEN qpc = "exit" ELSE vpc[vjoined] = "exit"
  /\ vjoined' = vjoined + 1
  /\ UNCHANGED <<variant, vsvcVars, seqVars, created, running>>

main_seqgen == variant = "seqgen" /\ (CreateNext \/ JoinNext)
main_ex0 == variant = "ex0" /\ (CreateNext \/ JoinNext)
main_starter == variant = "starter" /\ (CreateNext \/ JoinNext)

\* the end of a cycle: posts to P, and the loop condition
Cycles(P) ==
  /\ qpc = "sleep"
  /\ qcnt' = qcnt + 1
  /\ S!Post(P)
  /\ qpc' = IF qcnt + 1 < sequencePeriods THEN "sleep" ELSE "post"
  /\ UNCHANGED <<variant, qidx, created, vjoined, running>>

SleepError ==
  /\ qpc = "sleep"
  /\ running' = FALSE
  /\ UNCHANGED <<variant, vsvcVars, seqVars, created, vjoined>>

LastPosts ==
  /\ qpc = "post"
  /\ S!Post({qidx})
  /\ qpc' = IF qidx = NumServices THEN "flag" ELSE "post"
  /\ qidx' = IF qidx = NumServices THEN 1 ELSE qidx + 1
  /\ UNCHANGED <<variant, qcnt, created, vjoined, running>>

Flags ==
  /\ qpc = "flag"
  /\ S!RaiseAbort(qidx)
  /\ qpc' = IF qidx = NumServices THEN "exit" ELSE "flag"
  /\ qidx' = IF qidx = NumServices THEN 1 ELSE qidx + 1
  /\ UNCHANGED <<variant, qcnt, created, vjoined, running>>

Multiples(n) == {s \in Services : n % Rate[s] = 0}

Sequencer_seqgen ==
  /\ variant = "seqgen" /\ SequencerCreated
  /\ Cycles(Multiples(qcnt + 1)) \/ SleepError \/ LastPosts \/ Flags

Sequencer_ex0_counts_first ==
  /\ variant = "ex0" /\ SequencerCreated
  /\ Cycles(Multiples(qcnt + 1)) \/ LastPosts \/ Flags

\* an interrupted sleep is repeated, any other error is not noticed
Sequencer_ex0 ==
  /\ variant = "ex0" /\ SequencerCreated
  /\ Cycles(Multiples(qcnt)) \/ LastPosts \/ Flags

Sequencer_starter ==
  /\ variant = "starter" /\ SequencerCreated
  /\ \/ Cycles({s \in Multiples(qcnt + 1) : s >= FirstReleased})
     \/ SleepError \/ LastPosts \/ Flags

-----------------------------------------------------------------------------
ServiceSteps(s) ==
  /\ s <= created
  /\ S!Service(s)
  /\ UNCHANGED <<variant, seqVars, created, vjoined, running>>

Service_seqgen(s) == variant = "seqgen" /\ ServiceSteps(s)
Service_starter(s) == variant = "starter" /\ ServiceSteps(s)

Ready3(s) == s <= created /\ (vpc[s] \in {"test", "work"} \/ (vpc[s] = "wait" /\ vsem[s] > 0))

Core3AnyOrder(s) == \A t \in 1..(s - 1) : ~Ready3(t)

\* core 3 runs s: the sequencer sleeps or has exited, and no service of a
\* higher priority is ready
Core3Free(s) ==
  /\ qpc \in {"sleep", "exit"}
  /\ \A t \in 1..(s - 1) : ~Ready3(t)

Service_ex0(s) == variant = "ex0" /\ Core3Free(s) /\ ServiceSteps(s)

VarServices == \E s \in Services : Service_seqgen(s) \/ Service_ex0(s) \/ Service_starter(s)
VarSequencer == Sequencer_seqgen \/ Sequencer_ex0 \/ Sequencer_starter
VarMain == main_seqgen \/ main_ex0 \/ main_starter

VarNext == running /\ (VarMain \/ VarSequencer \/ VarServices)

\* every thread that can run eventually does, as in SeqGen
VarFairness ==
  /\ WF_varVars(running /\ VarMain)
  /\ WF_varVars(running /\ VarSequencer)
  /\ \A s \in Services :
       WF_varVars(running /\ (Service_seqgen(s) \/ Service_ex0(s) \/ Service_starter(s)))

\* one of the three programs, without fairness
VarSpec == (\E v \in Variants : VarInit(v)) /\ [][VarNext]_varVars

-----------------------------------------------------------------------------
\* releases of s by the cycles so far
CycleReleases(s) ==
  CASE variant = "ex0" -> (qcnt + Rate[s] - 1) \div Rate[s]
    [] variant = "starter" /\ s < FirstReleased -> 0
    [] OTHER -> qcnt \div Rate[s]

\* In each program the releases a service has taken and those it has yet to
\* take are its cycles, one of every Rate[s] and in seqgenex0 counted from
\* cycle 0, and the one post of the shutdown.
VariantsAccounted ==
  \A s \in Services :
    vcnt[s] + vsem[s] =
      CycleReleases(s)
        + (IF qpc \in {"flag", "exit"} \/ (qpc = "post" /\ qidx > s) THEN 1 ELSE 0)

\* Pinned below the sequencer, the services of seqgenex0 cannot run between
\* the posts and the flags of the shutdown: every service exits, main joins
\* all threads and the test completes.
Ex0Completes == variant = "ex0" => <>(vjoined = NumServices + 1)

\* Without the pinning a service can use its last post before its flag is
\* up; seqgen.c and the starter code end in one of three ways: the process
\* exits, every thread is joined, or main waits for a stranded service.
VariantsEnd ==
  variant \in Variants =>
    <>[](\/ ~running
         \/ vjoined = NumServices + 1
         \/ (vjoined > 0 /\ S!Stranded(vjoined)))

=============================================================================
