---------------------------- MODULE SeqGenProofs ----------------------------
(***************************************************************************)
(* Proofs about SeqGen and SeqVariants, for any number of services, any    *)
(* rates and any number of cycles.                                         *)
(***************************************************************************)
EXTENDS SeqVariants, TLAPS

\* The quotient by r grows by one exactly at the multiples of r: the
\* release condition seqCnt % rate == 0 posts once per rate cycles.
LEMMA DivStep ==
  ASSUME NEW n \in Nat, NEW r \in Nat \ {0}
  PROVE  (n + 1) \div r = (n \div r) + (IF (n + 1) % r = 0 THEN 1 ELSE 0)
  BY SMTT(30)

\* Before the first cycle nothing is due.
LEMMA DivZero ==
  ASSUME NEW r \in Nat \ {0}
  PROVE  0 \div r = 0
  BY SMTT(30)

\* Quotients are natural numbers.
LEMMA DivNat ==
  ASSUME NEW n \in Nat, NEW r \in Nat \ {0}
  PROVE  n \div r \in Nat
  BY SMTT(30)

-----------------------------------------------------------------------------
\* The loop condition of Sequencer bounds seqCnt: while the sequencer still
\* sleeps there is a cycle left, and the shutdown has not begun.
CycleLeft == seqPc = "sleep" => seqCnt < sequencePeriods /\ idx = 1

IInv == TypeOK /\ CycleLeft /\ ReleasesAccounted

\* The inductive invariant holds initially: nothing is due after 0 cycles.
LEMMA InitIInv == Init => IInv
  <1> SUFFICES ASSUME Init PROVE IInv
    BY Zenon
  <1> USE SeqGenAssumption, NumServicesAssumption
  <1>1. TypeOK /\ CycleLeft
    BY DEF Init, SvcInit, TypeOK, SvcTypeOK, CycleLeft, Services
  <1>2. ReleasesAccounted
    <2> SUFFICES ASSUME NEW s \in Services PROVE SCnt[s] + sem[s] = Released(s)
      BY Zenon DEF ReleasesAccounted
    <2>1. 0 \div Rate[s] = 0
      BY Zenon, DivZero
    <2> QED
      BY Zenon, <2>1 DEF Init, SvcInit, Released, ShutdownPosted
  <1> QED
    BY Zenon, <1>1, <1>2 DEF IInv

\* A cycle releases exactly the services whose quotient grows.
LEMMA DueReleases ==
  ASSUME IInv, Cycle, NEW s \in Services
  PROVE  Released(s)' = Released(s) + (IF s \in Due(seqCnt + 1) THEN 1 ELSE 0)
  <1> USE SeqGenAssumption
  <1>1. Rate[s] \in Nat \ {0} /\ seqCnt \in Nat
    BY DEF IInv, TypeOK
  <1>2. (seqCnt + 1) \div Rate[s]
          = (seqCnt \div Rate[s]) + (IF s \in Due(seqCnt + 1) THEN 1 ELSE 0)
    BY Zenon, <1>1, DivStep DEF Due
  <1>3. seqCnt \div Rate[s] \in Nat
    BY Zenon, <1>1, DivNat
  <1>4. ~ShutdownPosted(s) /\ ~ShutdownPosted(s)'
    BY DEF Cycle, CycleLeft, IInv, ShutdownPosted, Services
  <1>5. seqCnt' = seqCnt + 1
    BY Zenon DEF Cycle
  <1> QED
    BY <1>2, <1>3, <1>4, <1>5 DEF Released

\* A shutdown post releases the service it is made to and no other.
LEMMA PostReleases ==
  ASSUME IInv, ShutdownPost, NEW s \in Services
  PROVE  Released(s)' = Released(s) + (IF s \in {idx} THEN 1 ELSE 0)
  <1> USE SeqGenAssumption, NumServicesAssumption
  <1>1. seqCnt \div Rate[s] \in Nat
    BY DivNat DEF IInv, TypeOK
  <1>2. seqCnt' = seqCnt
    BY Zenon DEF ShutdownPost
  <1>3. CASE s = idx
    <2>1. ~ShutdownPosted(s) /\ ShutdownPosted(s)'
      BY <1>3 DEF ShutdownPost, ShutdownPosted, IInv, TypeOK, Services
    <2> QED
      BY <1>1, <1>2, <1>3, <2>1 DEF Released
  <1>4. CASE s # idx
    <2>1. ShutdownPosted(s) <=> ShutdownPosted(s)'
      BY <1>4 DEF ShutdownPost, ShutdownPosted, IInv, TypeOK, Services
    <2> QED
      BY <1>1, <1>2, <1>4, <2>1 DEF Released
  <1> QED
    BY Zenon, <1>3, <1>4

\* The other steps release nothing.
LEMMA OthersReleaseNothing ==
  ASSUME IInv, NEW s \in Services,
         \/ SleepFails \/ ShutdownFlag \/ Join \/ UNCHANGED vars
         \/ \E t \in Services : ServiceStep(t)
  PROVE  Released(s)' = Released(s)
  <1>1. seqCnt' = seqCnt
    BY Zenon DEF SleepFails, ShutdownFlag, Join, ServiceStep, vars
  <1>2. ShutdownPosted(s)' <=> ShutdownPosted(s)
    BY Zenon DEF SleepFails, ShutdownFlag, Join, ServiceStep, vars, ShutdownPosted
  <1> QED
    BY Zenon, <1>1, <1>2 DEF Released

\* Released is a number of releases.
LEMMA ReleasedNat == ASSUME IInv, NEW s \in Services PROVE Released(s) \in Nat
  <1>1. seqCnt \div Rate[s] \in Nat
    BY SeqGenAssumption, DivNat DEF IInv, TypeOK
  <1> QED
    BY <1>1 DEF Released

\* Every step preserves the inductive invariant.
LEMMA StepIInv == IInv /\ [Next]_vars => IInv'
  <1> SUFFICES ASSUME IInv, [Next]_vars PROVE IInv'
    BY Zenon
  <1> USE SeqGenAssumption, NumServicesAssumption
  <1>0. TypeOK /\ SvcTypeOK /\ CycleLeft /\ ReleasesAccounted
    BY Zenon DEF IInv, TypeOK
  <1>n. \A s \in Services : Released(s) \in Nat
    BY Zenon, ReleasedNat
  <1>1. CASE Cycle
    <2>1. TypeOK' /\ CycleLeft'
      BY <1>0, <1>1 DEF Cycle, CycleLeft, Post, TypeOK, SvcTypeOK, Services
    <2>2. ASSUME NEW s \in Services PROVE SCnt'[s] + sem'[s] = Released(s)'
      <3>1. sem'[s] = sem[s] + (IF s \in Due(seqCnt + 1) THEN 1 ELSE 0)
        BY <1>0, <1>1 DEF Cycle, Post, SvcTypeOK
      <3>2. SCnt'[s] = SCnt[s]
        BY Zenon, <1>1 DEF Cycle, Post
      <3>3. SCnt[s] \in Nat /\ sem[s] \in Nat /\ SCnt[s] + sem[s] = Released(s)
        BY Zenon, <1>0 DEF SvcTypeOK, ReleasesAccounted
      <3>4. Released(s)' = Released(s) + (IF s \in Due(seqCnt + 1) THEN 1 ELSE 0)
        BY Zenon, <1>1, DueReleases
      <3> QED
        BY <3>1, <3>2, <3>3, <3>4
    <2> QED
      BY Zenon, <2>1, <2>2 DEF IInv, ReleasesAccounted
  <1>2. CASE SleepFails
    BY Zenon, <1>0, <1>2, OthersReleaseNothing
       DEF SleepFails, svcVars, CycleLeft, TypeOK, SvcTypeOK, ReleasesAccounted, IInv
  <1>3. CASE ShutdownPost
    <2>a. SvcTypeOK'
      BY <1>0, <1>3 DEF ShutdownPost, Post, SvcTypeOK
    <2>b. idx' \in Services
      BY <1>0, <1>3 DEF ShutdownPost, TypeOK, Services
    <2>1. TypeOK' /\ CycleLeft'
      BY Zenon, <1>0, <1>3, <2>a, <2>b DEF ShutdownPost, CycleLeft, TypeOK
    <2>2. ASSUME NEW s \in Services PROVE SCnt'[s] + sem'[s] = Released(s)'
      <3>1. sem'[s] = sem[s] + (IF s \in {idx} THEN 1 ELSE 0)
        BY <1>0, <1>3 DEF ShutdownPost, Post, SvcTypeOK
      <3>2. SCnt'[s] = SCnt[s]
        BY Zenon, <1>3 DEF ShutdownPost, Post
      <3>3. SCnt[s] \in Nat /\ sem[s] \in Nat /\ SCnt[s] + sem[s] = Released(s)
        BY Zenon, <1>0 DEF SvcTypeOK, ReleasesAccounted
      <3>4. Released(s)' = Released(s) + (IF s \in {idx} THEN 1 ELSE 0)
        BY Zenon, <1>3, PostReleases
      <3> QED
        BY <3>1, <3>2, <3>3, <3>4
    <2> QED
      BY Zenon, <2>1, <2>2 DEF IInv, ReleasesAccounted
  <1>4. CASE ShutdownFlag
    <2>1. TypeOK' /\ CycleLeft'
      BY <1>0, <1>4 DEF ShutdownFlag, RaiseAbort, CycleLeft, TypeOK, SvcTypeOK, Services
    <2> QED
      BY Zenon, <1>0, <1>4, <2>1, OthersReleaseNothing
         DEF ShutdownFlag, RaiseAbort, ReleasesAccounted, IInv
  <1>5. CASE Join
    BY <1>0, <1>5, OthersReleaseNothing
       DEF Join, svcVars, CycleLeft, TypeOK, SvcTypeOK, ReleasesAccounted, IInv
  <1>6. ASSUME NEW s \in Services, ServiceStep(s) PROVE IInv'
    <2>1. TypeOK' /\ CycleLeft'
      BY <1>0, <1>6 DEF ServiceStep, Service, Test, Take, Work, CycleLeft, TypeOK, SvcTypeOK
    <2>2. ASSUME NEW t \in Services PROVE SCnt'[t] + sem'[t] = SCnt[t] + sem[t]
      BY <1>0, <1>6 DEF ServiceStep, Service, Test, Take, Work, SvcTypeOK
    <2>3. \A t \in Services : Released(t)' = Released(t)
      BY Zenon, <1>6, OthersReleaseNothing
    <2> QED
      BY Zenon, <1>0, <2>1, <2>2, <2>3 DEF ReleasesAccounted, IInv
  <1>7. CASE UNCHANGED vars
    BY Zenon, <1>0, <1>7, OthersReleaseNothing
       DEF vars, svcVars, CycleLeft, TypeOK, SvcTypeOK, ReleasesAccounted, IInv
  <1> QED
    BY Zenon, <1>1, <1>2, <1>3, <1>4, <1>5, <1>6, <1>7 DEF Next, Sequencer

\* The state of seqgen2.c stays well typed: in particular the sequencer
\* never runs past sequencePeriods and a semaphore never goes negative.
THEOREM TypeCorrect == Spec => []TypeOK
  <1>1. IInv => TypeOK
    BY Zenon DEF IInv
  <1> QED
    BY <1>1, InitIInv, StepIInv, PTL DEF Spec

\* No release is lost or invented, however late a service runs: the releases
\* a service has taken and those waiting in its semaphore are exactly the
\* cycles that were due plus the post of the shutdown.
THEOREM ReleasesCorrect == Spec => []ReleasesAccounted
  <1>1. IInv => ReleasesAccounted
    BY Zenon DEF IInv
  <1> QED
    BY <1>1, InitIInv, StepIInv, PTL DEF Spec

\* The sequencer and its services implement the abstract release protocol:
\* every step releases a set of services, serves one release, or stutters.
THEOREM ReleaseRefined == Spec => ImplementsRelease
  <1> DEFINE rel == [s \in Services |-> Released(s)]
  <1>1. Init => A!Init
    <2> SUFFICES ASSUME Init PROVE A!Init
      BY Zenon
    <2>1. ASSUME NEW s \in Services PROVE Released(s) = 0
      <3>1. 0 \div Rate[s] = 0
        BY Zenon, DivZero, SeqGenAssumption
      <3> QED
        BY <3>1 DEF Init, Released, ShutdownPosted
    <2> QED
      BY Zenon, <2>1 DEF Init, SvcInit, A!Init
  <1>2. IInv /\ [Next]_vars => [A!Next]_<<rel, SCnt>>
    <2> SUFFICES ASSUME IInv, [Next]_vars PROVE [A!Next]_<<rel, SCnt>>
      BY Zenon
    <2>1. CASE Cycle
      <3>1. Due(seqCnt + 1) \in SUBSET Services
        BY Zenon DEF Due
      <3>2. A!ReleaseAll(Due(seqCnt + 1))
        <4>1. SCnt' = SCnt
          BY Zenon, <2>1 DEF Cycle, Post
        <4>2. \A s \in Services :
                Released(s)' = Released(s) + (IF s \in Due(seqCnt + 1) THEN 1 ELSE 0)
          BY Zenon, <2>1, DueReleases
        <4> QED
          BY <4>1, <4>2, ReleasedNat DEF A!ReleaseAll
      <3> QED
        BY Zenon, <3>1, <3>2 DEF A!Next
    <2>2. CASE ShutdownPost
      <3>1. {idx} \in SUBSET Services
        BY Zenon DEF IInv, TypeOK
      <3>2. A!ReleaseAll({idx})
        <4>1. SCnt' = SCnt
          BY Zenon, <2>2 DEF ShutdownPost, Post
        <4>2. \A s \in Services :
                Released(s)' = Released(s) + (IF s \in {idx} THEN 1 ELSE 0)
          BY Zenon, <2>2, PostReleases
        <4> QED
          BY <4>1, <4>2, ReleasedNat DEF A!ReleaseAll
      <3> QED
        BY Zenon, <3>1, <3>2 DEF A!Next
    <2>3. ASSUME NEW s \in Services, ServiceStep(s)
          PROVE  [A!Next]_<<rel, SCnt>>
      <3>1. rel' = rel
        BY Zenon, <2>3, OthersReleaseNothing
      <3>2. CASE Take(s)
        <4>1. SCnt[s] < Released(s)
          BY <3>2 DEF Take, IInv, TypeOK, SvcTypeOK, ReleasesAccounted
        <4>2. SCnt' = [SCnt EXCEPT ![s] = @ + 1]
          BY Zenon, <3>2 DEF Take
        <4>3. A!Serve(s)
          BY Zenon, <3>1, <4>1, <4>2 DEF A!Serve
        <4> QED
          BY Zenon, <4>3 DEF A!Next
      <3>3. CASE Test(s) \/ Work(s)
        BY Zenon, <3>1, <3>3 DEF Test, Work
      <3> QED
        BY Zenon, <2>3, <3>2, <3>3 DEF ServiceStep, Service
    <2>4. CASE SleepFails \/ ShutdownFlag \/ Join \/ UNCHANGED vars
      <3>1. rel' = rel
        BY Zenon, <2>4, OthersReleaseNothing
      <3>2. SCnt' = SCnt
        BY Zenon, <2>4 DEF SleepFails, ShutdownFlag, RaiseAbort, Join, vars, svcVars
      <3> QED
        BY Zenon, <3>1, <3>2
    <2> QED
      BY Zenon, <2>1, <2>2, <2>3, <2>4 DEF Next, Sequencer
  <1> QED
    BY <1>1, <1>2, InitIInv, StepIInv, PTL DEF Spec, ImplementsRelease, A!Spec

-----------------------------------------------------------------------------
\* Rounding up, which counts the releases of a sequencer that tests the cycle
\* number before it counts it, grows by one after every multiple of r.
LEMMA CeilStep ==
  ASSUME NEW n \in Nat, NEW r \in Nat \ {0}
  PROVE  /\ (0 + r - 1) \div r = 0
         /\ (n + r - 1) \div r \in Nat
         /\ (n + 1 + r - 1) \div r = ((n + r - 1) \div r) + (IF n % r = 0 THEN 1 ELSE 0)
  <1>1. \A m \in Nat : (m + r) \div r = (m \div r) + 1
    BY SMTT(30)
  <1>2. (0 + r - 1) \div r = 0
    BY SMTT(30)
  <1>3. CASE n = 0
    <2>1. 0 % r = 0 /\ 0 \div r = 0
      BY SMTT(30)
    <2>2. (0 + r) \div r = 1
      BY <1>1, <2>1
    <2> QED
      BY <1>2, <1>3, <2>1, <2>2
  <1>4. CASE n # 0
    <2>1. n - 1 \in Nat /\ (n - 1) + 1 = n /\ (n - 1) + r = n + r - 1 /\ n + 1 + r - 1 = n + r
      BY <1>4
    <2>2. n \div r = ((n - 1) \div r) + (IF n % r = 0 THEN 1 ELSE 0)
      BY Zenon, <2>1, DivStep
    <2>3. (n - 1) \div r \in Nat /\ n \div r \in Nat
      BY Zenon, <2>1, DivNat
    <2>4. (n + r - 1) \div r = ((n - 1) \div r) + 1 /\ (n + r) \div r = (n \div r) + 1
      BY Zenon, <1>1, <2>1
    <2> QED
      BY <1>2, <2>1, <2>2, <2>3, <2>4
  <1> QED
    BY Zenon, <1>3, <1>4

\* services each program releases in the cycle that follows qcnt cycles
CycleDue ==
  CASE variant = "ex0" -> Multiples(qcnt)
    [] variant = "starter" -> {s \in Multiples(qcnt + 1) : s >= FirstReleased}
    [] OTHER -> Multiples(qcnt + 1)

VarTypeOK ==
  /\ variant \in Variants
  /\ S!SvcTypeOK
  /\ qpc \in {"sleep", "post", "flag", "exit"}
  /\ qidx \in Services
  /\ qcnt \in Nat

VarInv == VarTypeOK /\ (qpc = "sleep" => qidx = 1) /\ VariantsAccounted

\* the shutdown post of s has been made
LastPosted(s) == qpc \in {"flag", "exit"} \/ (qpc = "post" /\ qidx > s)

\* What the cycles of each program release: nothing before the first, and
\* then one release to each service that is due.
LEMMA CycleCounts ==
  ASSUME VarTypeOK, NEW s \in Services
  PROVE  /\ CycleReleases(s) \in Nat
         /\ qcnt = 0 => CycleReleases(s) = 0
         /\ qcnt' = qcnt + 1 /\ variant' = variant =>
              CycleReleases(s)' = CycleReleases(s) + (IF s \in CycleDue THEN 1 ELSE 0)
  <1> USE SeqGenAssumption, NumServicesAssumption, FirstReleasedAssumption
  <1>1. Rate[s] \in Nat \ {0} /\ qcnt \in Nat /\ variant \in {"seqgen", "ex0", "starter"}
    BY Zenon DEF VarTypeOK, Variants
  <1>2. /\ 0 \div Rate[s] = 0 /\ qcnt \div Rate[s] \in Nat
        /\ (qcnt + 1) \div Rate[s]
             = (qcnt \div Rate[s]) + (IF (qcnt + 1) % Rate[s] = 0 THEN 1 ELSE 0)
    BY Zenon, <1>1, DivStep, DivZero, DivNat
  <1>3. /\ (0 + Rate[s] - 1) \div Rate[s] = 0 /\ (qcnt + Rate[s] - 1) \div Rate[s] \in Nat
        /\ (qcnt + 1 + Rate[s] - 1) \div Rate[s]
             = ((qcnt + Rate[s] - 1) \div Rate[s]) + (IF qcnt % Rate[s] = 0 THEN 1 ELSE 0)
    BY Zenon, <1>1, CeilStep
  <1>4. CASE variant = "ex0"
    BY Zenon, <1>3, <1>4 DEF CycleReleases, CycleDue, Multiples
  <1>5. CASE variant = "seqgen"
    BY Zenon, <1>2, <1>5 DEF CycleReleases, CycleDue, Multiples
  <1>6. CASE variant = "starter"
    <2>1. s \in Nat
      BY DEF Services
    <2>2. CASE s < FirstReleased
      BY <1>6, <2>1, <2>2 DEF CycleReleases, CycleDue, Multiples
    <2>3. CASE s >= FirstReleased
      BY <1>2, <1>6, <2>1, <2>3 DEF CycleReleases, CycleDue, Multiples
    <2> QED
      BY <2>1, <2>2, <2>3
  <1> QED
    BY Zenon, <1>1, <1>4, <1>5, <1>6

\* Before main creates the first thread nothing has been released.
LEMMA VarInitInv == (\E v \in Variants : VarInit(v)) => VarInv
  <1> SUFFICES ASSUME NEW v \in Variants, VarInit(v) PROVE VarInv
    BY Zenon
  <1> USE NumServicesAssumption
  <1>1. VarTypeOK
    <2>1. S!SvcTypeOK
      BY Zenon DEF VarInit, S!SvcInit, S!SvcTypeOK, S!Services, Services
    <2>2. 1 \in Services
      BY DEF Services
    <2> QED
      BY Zenon, <2>1, <2>2 DEF VarInit, VarTypeOK
  <1>2. VariantsAccounted
    BY Zenon, <1>1, CycleCounts DEF VarInit, S!SvcInit, S!Services, Services, VariantsAccounted
  <1> QED
    BY Zenon, <1>1, <1>2 DEF VarInit, VarInv

\* A step that posts to P adds one release to each service of P; a step of a
\* service keeps the sum of the releases taken and waiting.
LEMMA VarSums ==
  ASSUME S!SvcTypeOK
  PROVE  /\ \A P \in SUBSET Services : S!Post(P) =>
              /\ S!SvcTypeOK'
              /\ \A s \in Services :
                   vcnt'[s] + vsem'[s] = vcnt[s] + vsem[s] + (IF s \in P THEN 1 ELSE 0)
         /\ \A t \in Services : S!Service(t) \/ S!RaiseAbort(t) =>
              /\ S!SvcTypeOK'
              /\ \A s \in Services : vcnt'[s] + vsem'[s] = vcnt[s] + vsem[s]
  <1> USE DEF S!SvcTypeOK, S!Services, Services
  <1>1. ASSUME NEW P \in SUBSET Services, S!Post(P)
        PROVE  /\ S!SvcTypeOK'
               /\ \A s \in Services :
                    vcnt'[s] + vsem'[s] = vcnt[s] + vsem[s] + (IF s \in P THEN 1 ELSE 0)
    BY <1>1 DEF S!Post
  <1>2. ASSUME NEW t \in Services, S!Service(t)
        PROVE  S!SvcTypeOK' /\ \A s \in Services : vcnt'[s] + vsem'[s] = vcnt[s] + vsem[s]
    <2>1. CASE S!Test(t) \/ S!Work(t)
      BY Zenon, <2>1 DEF S!Test, S!Work
    <2>2. CASE S!Take(t)
      <3>1. S!SvcTypeOK'
        BY <2>2 DEF S!Take
      <3>2. \A s \in Services : vcnt'[s] + vsem'[s] = vcnt[s] + vsem[s]
        BY <2>2 DEF S!Take
      <3> QED
        BY Zenon, <3>1, <3>2
    <2> QED
      BY Zenon, <1>2, <2>1, <2>2 DEF S!Service
  <1>3. ASSUME NEW t \in Services, S!RaiseAbort(t)
        PROVE  S!SvcTypeOK' /\ \A s \in Services : vcnt'[s] + vsem'[s] = vcnt[s] + vsem[s]
    BY Zenon, <1>3 DEF S!RaiseAbort
  <1> HIDE DEF S!SvcTypeOK, S!Services, Services
  <1> QED
    BY Zenon, <1>1, <1>2, <1>3

\* The cycle of each program.
LEMMA VarCycleInv ==
  ASSUME VarInv, Cycles(CycleDue)
  PROVE  VarInv'
  <1> USE SeqGenAssumption, NumServicesAssumption
  <1>0. VarTypeOK /\ S!SvcTypeOK /\ qpc = "sleep" /\ qidx = 1
    BY Zenon DEF VarInv, VarTypeOK, Cycles
  <1>1. CycleDue \in SUBSET Services
    BY Zenon DEF CycleDue, Multiples
  <1>2. /\ S!SvcTypeOK'
        /\ \A s \in Services :
             vcnt'[s] + vsem'[s] = vcnt[s] + vsem[s] + (IF s \in CycleDue THEN 1 ELSE 0)
    BY Zenon, <1>0, <1>1, VarSums DEF Cycles
  <1>3. VarTypeOK'
    BY <1>0, <1>2 DEF VarTypeOK, Cycles
  <1>4. ASSUME NEW s \in Services
        PROVE  vcnt'[s] + vsem'[s] = CycleReleases(s)' + (IF LastPosted(s)' THEN 1 ELSE 0)
    <2>1. ~LastPosted(s) /\ ~LastPosted(s)'
      BY <1>0 DEF LastPosted, Cycles, Services
    <2>2. /\ CycleReleases(s) \in Nat
          /\ CycleReleases(s)' = CycleReleases(s) + (IF s \in CycleDue THEN 1 ELSE 0)
      BY Zenon, <1>0, CycleCounts DEF Cycles
    <2>3. vcnt[s] + vsem[s] = CycleReleases(s)
      BY <2>1, <2>2 DEF VarInv, VariantsAccounted, LastPosted
    <2> QED
      BY <1>2, <2>1, <2>2, <2>3
  <1>5. VariantsAccounted'
    BY Zenon, <1>4 DEF VariantsAccounted, LastPosted
  <1> QED
    BY Zenon, <1>0, <1>3, <1>5 DEF VarInv, Cycles

\* The posts and the flags of the shutdown.
LEMMA VarShutdownInv ==
  ASSUME VarInv, LastPosts \/ Flags
  PROVE  VarInv'
  <1> USE NumServicesAssumption
  <1>0. VarTypeOK /\ S!SvcTypeOK /\ qidx \in 1..NumServices
    BY Zenon DEF VarInv, VarTypeOK, Services
  <1>1. /\ S!SvcTypeOK'
        /\ \A s \in Services :
             vcnt'[s] + vsem'[s] = vcnt[s] + vsem[s] + (IF LastPosts /\ s = qidx THEN 1 ELSE 0)
    <2>1. CASE LastPosts
      <3>1. {qidx} \in SUBSET Services
        BY Zenon, <1>0 DEF Services
      <3> QED
        BY Zenon, <1>0, <2>1, <3>1, VarSums DEF LastPosts
    <2>2. CASE Flags
      <3>1. ~LastPosts
        BY Zenon, <2>2 DEF LastPosts, Flags
      <3>2. \A s \in Services : vcnt[s] + vsem[s] \in Nat
        BY <1>0 DEF S!SvcTypeOK, S!Services, Services
      <3>3. S!SvcTypeOK' /\ \A s \in Services : vcnt'[s] + vsem'[s] = vcnt[s] + vsem[s]
        BY Zenon, <1>0, <2>2, VarSums DEF Flags, Services
      <3> QED
        BY <3>1, <3>2, <3>3
    <2> QED
      BY Zenon, <2>1, <2>2
  <1>2. VarTypeOK' /\ qpc' # "sleep"
    <2>1. (IF qidx = NumServices THEN 1 ELSE qidx + 1) \in Services
      BY <1>0 DEF Services
    <2> QED
      BY Zenon, <1>0, <1>1, <2>1 DEF VarTypeOK, LastPosts, Flags
  <1>3. ASSUME NEW s \in Services
        PROVE  vcnt'[s] + vsem'[s] = CycleReleases(s)' + (IF LastPosted(s)' THEN 1 ELSE 0)
    <2>1. CycleReleases(s)' = CycleReleases(s)
      BY Zenon DEF LastPosts, Flags, CycleReleases
    <2>2. CycleReleases(s) \in Nat
      BY Zenon, <1>0, CycleCounts
    <2>3. vcnt[s] + vsem[s] = CycleReleases(s) + (IF LastPosted(s) THEN 1 ELSE 0)
      BY Zenon DEF VarInv, VariantsAccounted, LastPosted
    <2>4. s \in 1..NumServices
      BY Zenon DEF Services
    <2>5. /\ LastPosts /\ s = qidx => ~LastPosted(s) /\ LastPosted(s)'
          /\ ~(LastPosts /\ s = qidx) => (LastPosted(s)' <=> LastPosted(s))
      BY <1>0, <2>4 DEF LastPosts, Flags, LastPosted
    <2> QED
      BY <1>1, <2>1, <2>2, <2>3, <2>5
  <1>4. VariantsAccounted'
    BY Zenon, <1>3 DEF VariantsAccounted, LastPosted
  <1> QED
    BY Zenon, <1>2, <1>4 DEF VarInv

\* Every step of the three programs preserves the invariant.
LEMMA VarStepInv == VarInv /\ [VarNext]_varVars => VarInv'
  <1> SUFFICES ASSUME VarInv, [VarNext]_varVars PROVE VarInv'
    BY Zenon
  <1>0. VarTypeOK /\ S!SvcTypeOK
    BY Zenon DEF VarInv, VarTypeOK
  <1>1. CASE VarSequencer
    <2>1. \/ Cycles(CycleDue) \/ LastPosts \/ Flags \/ SleepError
      BY Zenon, <1>1 DEF VarSequencer, Sequencer_seqgen, Sequencer_ex0, Sequencer_starter,
         CycleDue
    <2>2. SleepError => VarInv'
      BY Zenon DEF SleepError, vsvcVars, seqVars, VarInv, VarTypeOK, S!SvcTypeOK,
             VariantsAccounted, CycleReleases
    <2> QED
      BY Zenon, <2>1, <2>2, VarCycleInv, VarShutdownInv
  <1>2. CASE VarMain \/ UNCHANGED varVars
    BY Zenon, <1>2 DEF VarMain, main_seqgen, main_ex0, main_starter, CreateNext, JoinNext,
           varVars, vsvcVars, seqVars, VarInv, VarTypeOK, S!SvcTypeOK,
           VariantsAccounted, CycleReleases
  <1>3. ASSUME NEW s \in Services, ServiceSteps(s) PROVE VarInv'
    <2>1. S!SvcTypeOK' /\ \A t \in Services : vcnt'[t] + vsem'[t] = vcnt[t] + vsem[t]
      BY Zenon, <1>0, <1>3, VarSums DEF ServiceSteps
    <2> QED
      BY Zenon, <1>3, <2>1
         DEF ServiceSteps, seqVars, VarInv, VarTypeOK, VariantsAccounted, CycleReleases
  <1> QED
    BY Zenon, <1>1, <1>2, <1>3
       DEF VarNext, VarServices, Service_seqgen, Service_ex0, Service_starter

\* Each of the other thread-driven sequencers (seqgen.c, seqgenex0.c and the
\* starter code) releases what it should: the releases a service has taken
\* and those waiting are its due cycles and the one post of the shutdown.
THEOREM VariantsCorrect == VarSpec => []VariantsAccounted
  <1>1. VarInv => VariantsAccounted
    BY Zenon DEF VarInv
  <1> QED
    BY <1>1, VarInitInv, VarStepInv, PTL DEF VarSpec

=============================================================================
