--------------------------- MODULE SeqGen3Proofs ----------------------------
(***************************************************************************)
(* Proofs about SeqGen3, for any number of services, any rates, any number *)
(* of cycles and any number of expirations.  They hold for the program as  *)
(* long as the handler of one thread ends before another thread enters it  *)
(* (~Overlap): with two handlers at once seqCnt++ loses updates, and the   *)
(* run seqgen3_overlap shows ReleasesAccounted violated.                   *)
(***************************************************************************)
EXTENDS SeqGen3, TLAPS

\* The quotient by r grows by one exactly at the multiples of r: the test
\* (seqCnt % rate) == 0 of the handler posts once per rate expirations.
LEMMA DivStep ==
  ASSUME NEW n \in Nat, NEW r \in Nat \ {0}
  PROVE  /\ 0 \div r = 0
         /\ n \div r \in Nat
         /\ (n + 1) \div r = (n \div r) + (IF (n + 1) % r = 0 THEN 1 ELSE 0)
  BY SMTT(30)

-----------------------------------------------------------------------------
\* releases of s by the first n handler calls, and shutdown posts among them
Cycles(s, n) == IF s \in Active THEN n \div Rate[s] ELSE 0
Posts(n) == IF n < sequencePeriods THEN 0 ELSE n - sequencePeriods + 1

\* the first n handler calls released s when the n-th call counted
\* sequencePeriods or a multiple of its rate
LEMMA CyclesStep ==
  ASSUME NEW s \in Services, NEW n \in Nat
  PROVE  /\ Cycles(s, 0) = 0 /\ Cycles(s, n) \in Nat
         /\ Cycles(s, n + 1) =
              Cycles(s, n) + (IF s \in Active /\ (n + 1) % Rate[s] = 0 THEN 1 ELSE 0)
  <1>1. Rate[s] \in Nat \ {0}
    BY Zenon, SeqGen3Assumption
  <1>2. CASE s \in Active
    BY Zenon, <1>1, <1>2, DivStep DEF Cycles
  <1>3. CASE s \notin Active
    BY <1>3 DEF Cycles
  <1> QED
    BY Zenon, <1>2, <1>3

\* One expiration more: the shutdown posts begin when seqCnt has reached the limit.
LEMMA PostsStep ==
  ASSUME NEW n \in Nat
  PROVE  /\ Posts(0) = 0 /\ Posts(n) \in Nat
         /\ Posts(n + 1) = Posts(n) + (IF n + 1 >= sequencePeriods THEN 1 ELSE 0)
  BY SeqGen3Assumption DEF Posts

-----------------------------------------------------------------------------
\* Only one thread is in the handler, and only its loops move its index.
OneHandler ==
  /\ \A t, u \in Threads : hPc[t] # "idle" /\ hPc[u] # "idle" => t = u
  /\ \A t \in Threads : hPc[t] \notin {"release", "post", "flag"} => hIdx[t] = 1

\* a handler has been entered and has not yet counted its expiration
Counting == \E t \in Threads : hPc[t] \in {"load", "store"}

Bit(b) == IF b THEN 1 ELSE 0

\* Every expiration that made the signal pending is counted once.
TicksCounted == seqCnt + Bit(pending) + Bit(Counting) = ticks

\* The handler that counts sequencePeriods disarms the timer; at most one
\* more expiration is pending then.
DisarmedInTime ==
  /\ \A t \in Threads :
       /\ hPc[t] \in {"post", "flag"} => ~armed
       /\ hPc[t] = "post" => seqCnt >= sequencePeriods
  /\ armed => \/ seqCnt < sequencePeriods
              \/ /\ seqCnt = sequencePeriods
                 /\ \E t \in Threads : hPc[t] \in {"release", "check"}
  /\ ~armed => seqCnt + Bit(pending) + Bit(Counting) <= sequencePeriods + 1

\* releases of s made so far, given where the handler of t is
Made(t, s) ==
  CASE hPc[t] = "release" ->
         Cycles(s, IF s < hIdx[t] THEN seqCnt ELSE seqCnt - 1) + Posts(seqCnt - 1)
    [] hPc[t] = "check" -> Cycles(s, seqCnt) + Posts(seqCnt - 1)
    [] hPc[t] = "post" -> Cycles(s, seqCnt) + Posts(seqCnt - 1) + Bit(s < hIdx[t])
    [] OTHER -> Cycles(s, seqCnt) + Posts(seqCnt)

\* Inside the handler the releases follow its position; between handlers
\* they are those of the expirations counted.
HandlerAccounted ==
  /\ \A t \in Threads :
       /\ hPc[t] = "store" => reg[t] = seqCnt
       /\ hPc[t] \in {"release", "check", "post"} => seqCnt >= 1
       /\ hPc[t] # "idle" => \A s \in Services : SCnt[s] + sem[s] = Made(t, s)
  /\ Quiet => \A s \in Services : SCnt[s] + sem[s] = Cycles(s, seqCnt) + Posts(seqCnt)

IInv == TypeOK /\ OneHandler /\ TicksCounted /\ DisarmedInTime /\ HandlerAccounted

\* The inductive invariant holds when main has armed the timer.
LEMMA InitIInv == Init => IInv
  <1> SUFFICES ASSUME Init PROVE IInv
    BY Zenon
  <1> USE SeqGen3Assumption, NumServicesAssumption DEF Init, SvcInit
  <1>1. TypeOK
    <2>1. SvcTypeOK
      BY Zenon DEF SvcTypeOK
    <2>2. 1 \in Services
      BY DEF Services
    <2>3. hPc \in [Threads -> HandlerPcs] /\ hIdx \in [Threads -> Services]
      BY Zenon, <2>2 DEF HandlerPcs
    <2>4. reg \in [Threads -> 0..MaxTicks]
      OBVIOUS
    <2>5. armed \in BOOLEAN /\ pending \in BOOLEAN
      BY Zenon
    <2>6. ticks \in 0..MaxTicks /\ seqCnt \in 0..MaxTicks /\ joined \in 0..NumServices
      OBVIOUS
    <2> QED
      BY ONLY Zenon, <2>1, <2>3, <2>4, <2>5, <2>6 DEF TypeOK
  <1>2. OneHandler /\ ~Counting
    BY Zenon DEF OneHandler, Counting
  <1>3. TicksCounted /\ DisarmedInTime
    BY <1>2 DEF TicksCounted, DisarmedInTime, Bit
  <1>4. HandlerAccounted
    BY Zenon, CyclesStep, PostsStep DEF HandlerAccounted, Quiet
  <1> QED
    BY Zenon, <1>1, <1>2, <1>3, <1>4 DEF IInv


\* The services keep the sum of the releases taken and waiting.
LEMMA ServiceKeepsSum ==
  ASSUME SvcTypeOK, NEW s \in Services, Service(s)
  PROVE  /\ SvcTypeOK'
         /\ \A u \in Services : SCnt'[u] + sem'[u] = SCnt[u] + sem[u]
  BY DEF Service, Test, Take, Work, SvcTypeOK

\* Posting P adds one release to each service of P.
LEMMA PostAdds ==
  ASSUME SvcTypeOK, NEW P, Post(P)
  PROVE  /\ SvcTypeOK'
         /\ \A u \in Services : SCnt'[u] + sem'[u] = SCnt[u] + sem[u] + Bit(u \in P)
  BY DEF Post, SvcTypeOK, Bit

\* The signal is delivered to one thread, when no thread is in the handler.
LEMMA DeliverIInv ==
  ASSUME IInv, ~Overlap, NEW t \in Threads, Deliver(t)
  PROVE  IInv'
  <1> USE DEF IInv
  <1>0. Quiet /\ ~Counting /\ Counting'
    BY Zenon DEF Deliver, Quiet, Counting, TypeOK
  <1>1. TypeOK'
    BY Zenon DEF Deliver, TypeOK, SvcTypeOK, svcVars, HandlerPcs
  <1>2. OneHandler'
    BY Zenon, <1>0 DEF Deliver, OneHandler, Quiet, TypeOK
  <1>3. TicksCounted' /\ DisarmedInTime'
    <2>1. seqCnt + Bit(pending) + Bit(Counting) = seqCnt' + Bit(pending') + Bit(Counting')
      BY <1>0 DEF Deliver, Bit, TypeOK
    <2>2. armed => seqCnt < sequencePeriods
      BY Zenon, <1>0 DEF DisarmedInTime, Quiet
    <2> QED
      BY Zenon, <1>0, <2>1, <2>2 DEF Deliver, TicksCounted, DisarmedInTime, TypeOK, Quiet
  <1>4. HandlerAccounted'
    <2>1. hPc'[t] = "load" /\ \A u \in Threads \ {t} : hPc'[u] = "idle"
      BY Zenon, <1>0 DEF Deliver, TypeOK, Quiet
    <2>2. \A s \in Services : Made(t, s)' = Cycles(s, seqCnt) + Posts(seqCnt)
      BY Zenon, <2>1 DEF Made, Deliver, Cycles, Posts
    <2>3. \A s \in Services : SCnt'[s] + sem'[s] = Cycles(s, seqCnt) + Posts(seqCnt)
      BY Zenon, <1>0 DEF Deliver, svcVars, HandlerAccounted
    <2> QED
      BY Zenon, <2>1, <2>2, <2>3 DEF HandlerAccounted, Quiet
  <1> QED
    BY Zenon, <1>1, <1>2, <1>3, <1>4

\* While t is in the handler every other thread is out of it.
LEMMA Alone ==
  ASSUME TypeOK, OneHandler, NEW t \in Threads, hPc[t] # "idle"
  PROVE  /\ \A u \in Threads : u # t => hPc[u] = "idle"
         /\ Counting <=> hPc[t] \in {"load", "store"}
         /\ ~Quiet
  BY Zenon DEF TypeOK, OneHandler, Counting, Quiet

\* The same after a step of the handler of t that leaves it at hPc'[t].
LEMMA AloneStep ==
  ASSUME TypeOK, OneHandler, NEW t \in Threads, hPc[t] # "idle",
         hPc' \in [Threads -> HandlerPcs],
         \A u \in Threads : u # t => hPc'[u] = hPc[u]
  PROVE  /\ \A u \in Threads : u # t => hPc'[u] = "idle"
         /\ Counting' <=> hPc'[t] \in {"load", "store"}
         /\ Quiet' <=> hPc'[t] = "idle"
         /\ \A u, v \in Threads : hPc'[u] # "idle" /\ hPc'[v] # "idle" => u = v
  BY Zenon, Alone DEF Counting, Quiet

\* seqCnt++ counts the expiration: what had been released for the calls
\* before it is what the new call finds.
LEMMA StoreIInv ==
  ASSUME IInv, NEW t \in Threads, Load(t) \/ Store(t)
  PROVE  IInv'
  <1> USE SeqGen3Assumption DEF IInv
  <1>0. hPc[t] \in {"load", "store"} /\ hPc[t] # "idle" /\ seqCnt \in Nat
    BY DEF Load, Store, TypeOK
  <1>t. hPc' \in [Threads -> HandlerPcs]
    BY Zenon DEF Load, Store, TypeOK, HandlerPcs
  <1>u. \A u \in Threads : u # t => hPc'[u] = hPc[u]
    BY Zenon DEF Load, Store, TypeOK
  <1>a. Counting /\ ~Quiet
    BY Zenon, <1>0, Alone
  <1>b. /\ \A u \in Threads : u # t => hPc'[u] = "idle"
        /\ Counting' <=> hPc'[t] \in {"load", "store"}
        /\ Quiet' <=> hPc'[t] = "idle"
        /\ \A u, v \in Threads : hPc'[u] # "idle" /\ hPc'[v] # "idle" => u = v
    BY Zenon, <1>0, <1>t, <1>u, AloneStep
  <1>s. \A s \in Services : SCnt'[s] + sem'[s] = Cycles(s, seqCnt) + Posts(seqCnt)
    BY Zenon, <1>0 DEF Load, Store, svcVars, HandlerAccounted, Made
  <1>1. CASE Load(t)
    <2>0. hPc'[t] = "store" /\ reg'[t] = seqCnt
      BY Zenon, <1>1 DEF Load, TypeOK
    <2>1. TypeOK'
      BY Zenon, <1>1, <1>t DEF Load, TypeOK, SvcTypeOK, svcVars, timerVars
    <2>2. OneHandler'
      BY Zenon, <1>1, <1>b, <2>0 DEF Load, OneHandler, TypeOK
    <2>3. TicksCounted' /\ DisarmedInTime'
      BY Zenon, <1>1, <1>a, <1>b, <2>0, <1>0, Alone
         DEF Load, timerVars, TicksCounted, DisarmedInTime, OneHandler, Bit
    <2>4. \A s \in Services : Made(t, s)' = Cycles(s, seqCnt) + Posts(seqCnt)
      BY Zenon, <1>1, <2>0 DEF Load, Made, Cycles, Posts
    <2>5. HandlerAccounted'
      BY Zenon, <1>1, <1>b, <1>s, <2>0, <2>4 DEF Load, HandlerAccounted
    <2> QED
      BY Zenon, <2>1, <2>2, <2>3, <2>5
  <1>2. CASE Store(t)
    <2>0. hPc'[t] = "release" /\ seqCnt' = seqCnt + 1 /\ hIdx'[t] = 1
      BY Zenon, <1>2 DEF Store, TypeOK, HandlerAccounted, OneHandler
    <2>1. TicksCounted' /\ seqCnt' \in 0..MaxTicks
      BY <1>2, <1>a, <1>b, <1>0, <2>0 DEF Store, timerVars, TicksCounted, Bit, TypeOK
    <2>2. TypeOK'
      BY Zenon, <1>2, <1>t, <2>1 DEF Store, TypeOK, SvcTypeOK, svcVars, timerVars
    <2>3. OneHandler'
      BY Zenon, <1>2, <1>b, <1>u, <2>0 DEF Store, OneHandler, TypeOK
    <2>4. DisarmedInTime'
      <3>1. armed => seqCnt < sequencePeriods
        BY Zenon, <1>0, Alone DEF DisarmedInTime
      <3>2. ~armed => seqCnt' + Bit(pending') + Bit(Counting') <= sequencePeriods + 1
        BY <1>2, <1>a, <1>b, <1>0, <2>0 DEF Store, timerVars, DisarmedInTime, Bit, TypeOK
      <3> QED
        BY <1>2, <3>1, <3>2, <1>b, <1>0, <2>0 DEF Store, timerVars, DisarmedInTime
    <2>5. \A s \in Services : Made(t, s)' = Cycles(s, seqCnt) + Posts(seqCnt)
      <3> SUFFICES ASSUME NEW s \in Services
                   PROVE  Made(t, s)' = Cycles(s, seqCnt) + Posts(seqCnt)
        BY Zenon
      <3>2. ~(s < hIdx'[t]) /\ seqCnt' - 1 = seqCnt
        BY <1>0, <2>0, NumServicesAssumption DEF Services
      <3>3. Made(t, s)' = Cycles(s, seqCnt' - 1) + Posts(seqCnt' - 1)
        BY Zenon, <3>2, <2>0 DEF Made, Cycles, Posts
      <3> QED
        BY Zenon, <3>2, <3>3
    <2>6. HandlerAccounted'
      BY <1>2, <1>b, <1>s, <1>0, <2>0, <2>5 DEF HandlerAccounted
    <2> QED
      BY Zenon, <2>1, <2>2, <2>3, <2>4, <2>6
  <1> QED
    BY Zenon, <1>1, <1>2

\* The loop over the services moves to the next, or past the last to pc.
LEMMA AdvanceMoves ==
  ASSUME TypeOK, NEW t \in Threads, NEW pc \in HandlerPcs, Advance(t, pc)
  PROVE  /\ hPc' \in [Threads -> HandlerPcs] /\ hIdx' \in [Threads -> Services]
         /\ \A u \in Threads : u # t => hPc'[u] = hPc[u] /\ hIdx'[u] = hIdx[u]
         /\ hPc'[t] = IF hIdx[t] = NumServices THEN pc ELSE hPc[t]
         /\ hIdx'[t] = IF hIdx[t] = NumServices THEN 1 ELSE hIdx[t] + 1
  <1>1. hIdx[t] \in 1..NumServices
    BY Zenon DEF TypeOK, Services
  <1>2. (IF hIdx[t] = NumServices THEN 1 ELSE hIdx[t] + 1) \in Services
    BY <1>1, NumServicesAssumption DEF Services
  <1> QED
    BY Zenon, <1>2 DEF Advance, TypeOK

\* One release of the handler: the services before its index have had the
\* release of this call, the others not yet.
LEMMA ReleaseIInv ==
  ASSUME IInv, NEW t \in Threads, ReleaseOne(t)
  PROVE  IInv'
  <1> USE SeqGen3Assumption, NumServicesAssumption DEF IInv
  <1>h. "check" \in HandlerPcs
    BY Zenon DEF HandlerPcs
  <1>0. hPc[t] = "release" /\ seqCnt \in Nat /\ hIdx[t] \in 1..NumServices
    BY DEF ReleaseOne, TypeOK, Services
  <1>v. /\ hPc' \in [Threads -> HandlerPcs] /\ hIdx' \in [Threads -> Services]
        /\ \A u \in Threads : u # t => hPc'[u] = hPc[u] /\ hIdx'[u] = hIdx[u]
        /\ hPc'[t] = IF hIdx[t] = NumServices THEN "check" ELSE "release"
        /\ hIdx'[t] = IF hIdx[t] = NumServices THEN 1 ELSE hIdx[t] + 1
    BY Zenon, <1>0, <1>h, AdvanceMoves DEF ReleaseOne
  <1>a. ~Counting /\ ~Quiet
    BY Zenon, <1>0, Alone
  <1>b. /\ \A u \in Threads : u # t => hPc'[u] = "idle"
        /\ Counting' <=> hPc'[t] \in {"load", "store"}
        /\ Quiet' <=> hPc'[t] = "idle"
        /\ \A u, v \in Threads : hPc'[u] # "idle" /\ hPc'[v] # "idle" => u = v
    BY Zenon, <1>0, <1>v, AloneStep
  <1>c. /\ SvcTypeOK'
        /\ \A s \in Services :
             SCnt'[s] + sem'[s] = SCnt[s] + sem[s] + Bit(s = hIdx[t] /\ Due(s))
    <2>1. /\ SvcTypeOK'
          /\ \A s \in Services :
               SCnt'[s] + sem'[s] = SCnt[s] + sem[s] + Bit(s \in {x \in {hIdx[t]} : Due(x)})
      BY Zenon, PostAdds DEF ReleaseOne, TypeOK
    <2> QED
      BY Zenon, <2>1 DEF Bit
  <1>1. TypeOK'
    BY Zenon, <1>v, <1>c DEF ReleaseOne, TypeOK, timerVars
  <1>2. OneHandler'
    BY Zenon, <1>v, <1>b, <1>0 DEF OneHandler
  <1>3. TicksCounted' /\ DisarmedInTime'
    BY Zenon, <1>0, <1>v, <1>a, <1>b DEF ReleaseOne, timerVars, TicksCounted, DisarmedInTime, Bit
  <1>4. ASSUME NEW s \in Services PROVE SCnt'[s] + sem'[s] = Made(t, s)'
    <2>1. /\ seqCnt >= 1 /\ seqCnt - 1 \in Nat /\ (seqCnt - 1) + 1 = seqCnt
          /\ SCnt[s] + sem[s] =
               Cycles(s, IF s < hIdx[t] THEN seqCnt ELSE seqCnt - 1) + Posts(seqCnt - 1)
      BY <1>0 DEF HandlerAccounted, Made
    <2>2. /\ Cycles(s, seqCnt - 1) \in Nat
          /\ Cycles(s, seqCnt) = Cycles(s, seqCnt - 1) + Bit(Due(s))
      BY Zenon, <2>1, CyclesStep DEF Due, Bit
    <2>3. Posts(seqCnt - 1) \in Nat
      BY Zenon, <2>1, PostsStep
    <2>4. Made(t, s)' = Cycles(s, IF s <= hIdx[t] THEN seqCnt ELSE seqCnt - 1) + Posts(seqCnt - 1)
      <3>1. seqCnt' = seqCnt /\ s \in 1..NumServices
        BY Zenon DEF ReleaseOne, Services
      <3>2. CASE hIdx[t] = NumServices
        <4>1. hPc'[t] = "check" /\ s <= hIdx[t]
          BY <3>1, <3>2, <1>v
        <4> QED
          BY Zenon, <3>1, <4>1 DEF Made, Cycles, Posts
      <3>3. CASE hIdx[t] # NumServices
        <4>1. hPc'[t] = "release" /\ (s < hIdx'[t] <=> s <= hIdx[t])
          BY <3>1, <3>3, <1>v, <1>0
        <4> QED
          BY Zenon, <3>1, <4>1 DEF Made, Cycles, Posts
      <3> QED
        BY Zenon, <3>2, <3>3
    <2>5. SCnt'[s] + sem'[s] = SCnt[s] + sem[s] + Bit(s = hIdx[t] /\ Due(s))
      BY Zenon, <1>c
    <2>6. s \in Nat /\ hIdx[t] \in Nat
      BY <1>0 DEF Services
    <2>7. CASE s < hIdx[t]
      BY <2>1, <2>2, <2>3, <2>4, <2>5, <2>6, <2>7 DEF Bit
    <2>8. CASE s = hIdx[t]
      BY <2>1, <2>2, <2>3, <2>4, <2>5, <2>6, <2>8 DEF Bit
    <2>9. CASE s > hIdx[t]
      BY <2>1, <2>2, <2>3, <2>4, <2>5, <2>6, <2>9 DEF Bit
    <2> QED
      BY <2>6, <2>7, <2>8, <2>9
  <1>5. HandlerAccounted'
    BY Zenon, <1>0, <1>v, <1>b, <1>4 DEF ReleaseOne, HandlerAccounted
  <1> QED
    BY Zenon, <1>1, <1>2, <1>3, <1>5

\* The test of seqCnt ends the handler or disarms the timer and begins the
\* shutdown.
LEMMA CheckIInv ==
  ASSUME IInv, NEW t \in Threads, Check(t)
  PROVE  IInv'
  <1> USE SeqGen3Assumption, NumServicesAssumption DEF IInv
  <1>0. hPc[t] = "check" /\ seqCnt \in Nat /\ hIdx[t] = 1
    BY DEF Check, TypeOK, OneHandler
  <1>v. /\ hPc' \in [Threads -> HandlerPcs]
        /\ \A u \in Threads : u # t => hPc'[u] = hPc[u]
        /\ hPc'[t] = IF seqCnt >= sequencePeriods THEN "post" ELSE "idle"
    BY Zenon DEF Check, TypeOK, HandlerPcs
  <1>a. ~Counting /\ ~Quiet /\ \A u \in Threads : u # t => hPc[u] = "idle"
    BY Zenon, <1>0, Alone
  <1>b. /\ \A u \in Threads : u # t => hPc'[u] = "idle"
        /\ Counting' <=> hPc'[t] \in {"load", "store"}
        /\ Quiet' <=> hPc'[t] = "idle"
        /\ \A u, v \in Threads : hPc'[u] # "idle" /\ hPc'[v] # "idle" => u = v
    BY Zenon, <1>0, <1>v, AloneStep
  <1>1. TypeOK'
    <2>1. armed' \in BOOLEAN
      BY Zenon DEF Check
    <2>2. hPc' \in [Threads -> HandlerPcs] /\ TypeOK
      BY Zenon, <1>v
    <2> QED
      BY ONLY Zenon, <2>1, <2>2, Check(t) DEF Check, TypeOK, SvcTypeOK, svcVars
  <1>2. OneHandler'
    BY Zenon, <1>0, <1>b DEF Check, OneHandler
  <1>3. TicksCounted' /\ DisarmedInTime'
    <2>1. ~Counting' /\ pending' = pending /\ ticks' = ticks /\ seqCnt' = seqCnt
      BY Zenon, <1>v, <1>b DEF Check
    <2>2. armed' <=> armed /\ seqCnt < sequencePeriods
      BY Zenon DEF Check
    <2>3. seqCnt + Bit(pending) + Bit(Counting) <= sequencePeriods + 1 \/ seqCnt < sequencePeriods
      BY <1>0, <1>a DEF DisarmedInTime, Bit
    <2> QED
      BY <1>0, <1>v, <1>a, <1>b, <2>1, <2>2, <2>3 DEF TicksCounted, DisarmedInTime, Bit
  <1>4. ASSUME NEW s \in Services
        PROVE  /\ seqCnt >= sequencePeriods => SCnt'[s] + sem'[s] = Made(t, s)'
               /\ seqCnt < sequencePeriods =>
                    SCnt'[s] + sem'[s] = Cycles(s, seqCnt) + Posts(seqCnt)
    <2>1. /\ seqCnt >= 1 /\ seqCnt - 1 \in Nat /\ (seqCnt - 1) + 1 = seqCnt
          /\ SCnt[s] + sem[s] = Cycles(s, seqCnt) + Posts(seqCnt - 1)
      BY <1>0 DEF HandlerAccounted, Made
    <2>2. Cycles(s, seqCnt) \in Nat
      BY Zenon, <1>0, CyclesStep
    <2>3. /\ Posts(seqCnt - 1) \in Nat
          /\ Posts(seqCnt) = Posts(seqCnt - 1) + (IF seqCnt >= sequencePeriods THEN 1 ELSE 0)
      BY Zenon, <2>1, PostsStep
    <2>4. ~(s < hIdx'[t]) /\ seqCnt' = seqCnt /\ SCnt' = SCnt /\ sem' = sem
      BY <1>0 DEF Check, svcVars, Services
    <2>5. CASE seqCnt >= sequencePeriods
      <3>1. Made(t, s)' = Cycles(s, seqCnt) + Posts(seqCnt - 1) + 0
        BY Zenon, <2>4, <2>5, <1>v DEF Made, Cycles, Posts, Bit
      <3> QED
        BY <2>1, <2>2, <2>3, <2>4, <2>5, <3>1
    <2>6. CASE seqCnt < sequencePeriods
      BY <2>1, <2>2, <2>3, <2>4, <2>6, <1>0
    <2> QED
      BY Zenon, <2>5, <2>6, <1>0
  <1>5. HandlerAccounted'
    <2>1. seqCnt' = seqCnt /\ reg' = reg
      BY Zenon DEF Check
    <2>2. CASE seqCnt >= sequencePeriods
      BY Zenon, <1>0, <1>v, <1>b, <1>4, <2>1, <2>2 DEF HandlerAccounted
    <2>3. CASE seqCnt < sequencePeriods
      <3>1. Quiet' /\ \A u \in Threads : hPc'[u] = "idle"
        BY <1>0, <1>v, <1>b, <2>3
      <3> QED
        BY Zenon, <1>4, <2>1, <2>3, <3>1 DEF HandlerAccounted, Cycles, Posts
    <2> QED
      BY <2>2, <2>3, <1>0
  <1> QED
    BY Zenon, <1>1, <1>2, <1>3, <1>5

\* One post of the shutdown: the services before the index have had it.
LEMMA ShutdownPostIInv ==
  ASSUME IInv, NEW t \in Threads, ShutdownPost(t)
  PROVE  IInv'
  <1> USE SeqGen3Assumption, NumServicesAssumption DEF IInv
  <1>h. "flag" \in HandlerPcs
    BY Zenon DEF HandlerPcs
  <1>0. hPc[t] = "post" /\ seqCnt \in Nat /\ hIdx[t] \in 1..NumServices
    BY DEF ShutdownPost, TypeOK, Services
  <1>v. /\ hPc' \in [Threads -> HandlerPcs] /\ hIdx' \in [Threads -> Services]
        /\ \A u \in Threads : u # t => hPc'[u] = hPc[u] /\ hIdx'[u] = hIdx[u]
        /\ hPc'[t] = IF hIdx[t] = NumServices THEN "flag" ELSE "post"
        /\ hIdx'[t] = IF hIdx[t] = NumServices THEN 1 ELSE hIdx[t] + 1
    BY Zenon, <1>0, <1>h, AdvanceMoves DEF ShutdownPost
  <1>a. ~Counting /\ ~Quiet
    BY Zenon, <1>0, Alone
  <1>b. /\ \A u \in Threads : u # t => hPc'[u] = "idle"
        /\ Counting' <=> hPc'[t] \in {"load", "store"}
        /\ Quiet' <=> hPc'[t] = "idle"
        /\ \A u, v \in Threads : hPc'[u] # "idle" /\ hPc'[v] # "idle" => u = v
    BY Zenon, <1>0, <1>v, AloneStep
  <1>c. /\ SvcTypeOK'
        /\ \A s \in Services : SCnt'[s] + sem'[s] = SCnt[s] + sem[s] + Bit(s \in {hIdx[t]})
    BY Zenon, PostAdds DEF ShutdownPost, TypeOK
  <1>1. TypeOK'
    BY Zenon, <1>v, <1>c DEF ShutdownPost, TypeOK, timerVars
  <1>2. OneHandler'
    BY Zenon, <1>v, <1>b, <1>0 DEF OneHandler
  <1>3. TicksCounted' /\ DisarmedInTime'
    BY Zenon, <1>0, <1>v, <1>a, <1>b DEF ShutdownPost, timerVars, TicksCounted, DisarmedInTime,
       Bit
  <1>4. ASSUME NEW s \in Services PROVE SCnt'[s] + sem'[s] = Made(t, s)'
    <2>1. /\ seqCnt >= sequencePeriods
          /\ seqCnt >= 1 /\ seqCnt - 1 \in Nat /\ (seqCnt - 1) + 1 = seqCnt
          /\ SCnt[s] + sem[s] = Cycles(s, seqCnt) + Posts(seqCnt - 1) + Bit(s < hIdx[t])
      BY <1>0 DEF HandlerAccounted, Made, DisarmedInTime
    <2>2. Cycles(s, seqCnt) \in Nat
      BY Zenon, <1>0, CyclesStep
    <2>3. /\ Posts(seqCnt - 1) \in Nat
          /\ Posts(seqCnt) = Posts(seqCnt - 1) + 1
      BY Zenon, <2>1, PostsStep
    <2>4. Made(t, s)' = Cycles(s, seqCnt) + Posts(seqCnt - 1) + Bit(s <= hIdx[t])
      <3>1. seqCnt' = seqCnt /\ s \in 1..NumServices
        BY Zenon DEF ShutdownPost, Services
      <3>2. CASE hIdx[t] = NumServices
        <4>1. hPc'[t] = "flag" /\ s <= hIdx[t]
          BY <3>1, <3>2, <1>v
        <4>2. Made(t, s)' = Cycles(s, seqCnt) + Posts(seqCnt)
          BY Zenon, <3>1, <4>1 DEF Made, Cycles, Posts
        <4> QED
          BY <2>2, <2>3, <4>1, <4>2 DEF Bit
      <3>3. CASE hIdx[t] # NumServices
        <4>1. hPc'[t] = "post" /\ (s < hIdx'[t] <=> s <= hIdx[t])
          BY <3>1, <3>3, <1>v, <1>0
        <4> QED
          BY Zenon, <3>1, <4>1 DEF Made, Cycles, Posts, Bit
      <3> QED
        BY Zenon, <3>2, <3>3
    <2>5. SCnt'[s] + sem'[s] = SCnt[s] + sem[s] + Bit(s \in {hIdx[t]})
      BY Zenon, <1>c
    <2>6. s \in Nat /\ hIdx[t] \in Nat
      BY <1>0 DEF Services
    <2> QED
      BY <2>1, <2>2, <2>3, <2>4, <2>5, <2>6 DEF Bit
  <1>5. HandlerAccounted'
    BY Zenon, <1>0, <1>v, <1>b, <1>4 DEF ShutdownPost, HandlerAccounted
  <1> QED
    BY Zenon, <1>1, <1>2, <1>3, <1>5

\* The flags are raised when every release of the call has been made.
LEMMA ShutdownFlagIInv ==
  ASSUME IInv, NEW t \in Threads, ShutdownFlag(t)
  PROVE  IInv'
  <1> USE SeqGen3Assumption, NumServicesAssumption DEF IInv
  <1>h. "idle" \in HandlerPcs
    BY Zenon DEF HandlerPcs
  <1>0. hPc[t] = "flag" /\ seqCnt \in Nat /\ hIdx[t] \in 1..NumServices
    BY DEF ShutdownFlag, TypeOK, Services
  <1>v. /\ hPc' \in [Threads -> HandlerPcs] /\ hIdx' \in [Threads -> Services]
        /\ \A u \in Threads : u # t => hPc'[u] = hPc[u] /\ hIdx'[u] = hIdx[u]
        /\ hPc'[t] = IF hIdx[t] = NumServices THEN "idle" ELSE "flag"
        /\ hIdx'[t] = IF hIdx[t] = NumServices THEN 1 ELSE hIdx[t] + 1
    BY Zenon, <1>0, <1>h, AdvanceMoves DEF ShutdownFlag
  <1>a. ~Counting /\ ~Quiet
    BY Zenon, <1>0, Alone
  <1>b. /\ \A u \in Threads : u # t => hPc'[u] = "idle"
        /\ Counting' <=> hPc'[t] \in {"load", "store"}
        /\ Quiet' <=> hPc'[t] = "idle"
        /\ \A u, v \in Threads : hPc'[u] # "idle" /\ hPc'[v] # "idle" => u = v
    BY Zenon, <1>0, <1>v, AloneStep
  <1>1. TypeOK'
    BY Zenon, <1>v DEF ShutdownFlag, RaiseAbort, TypeOK, SvcTypeOK, timerVars
  <1>2. OneHandler'
    BY Zenon, <1>v, <1>b, <1>0 DEF OneHandler
  <1>3. TicksCounted' /\ DisarmedInTime'
    BY Zenon, <1>0, <1>v, <1>a, <1>b DEF ShutdownFlag, timerVars, TicksCounted, DisarmedInTime,
       Bit
  <1>4. /\ seqCnt' = seqCnt /\ reg' = reg
        /\ \A s \in Services : SCnt'[s] + sem'[s] = Cycles(s, seqCnt) + Posts(seqCnt)
    BY Zenon, <1>0 DEF ShutdownFlag, RaiseAbort, HandlerAccounted, Made
  <1>5. \A s \in Services : Made(t, s)' = Cycles(s, seqCnt) + Posts(seqCnt)
    BY Zenon, <1>4, <1>v DEF Made, Cycles, Posts
  <1>6. HandlerAccounted'
    BY <1>v, <1>b, <1>4, <1>5 DEF HandlerAccounted, Cycles, Posts
  <1> QED
    BY Zenon, <1>1, <1>2, <1>3, <1>6

\* The other steps change neither seqCnt nor where the handlers are, and keep
\* the sum of the releases taken and waiting.
LEMMA OutsideIInv ==
  ASSUME IInv, TypeOK', TicksCounted',
         armed' = armed, hVars' = hVars, seqCnt' = seqCnt,
         pending' # pending => armed,
         \A s \in Services : SCnt'[s] + sem'[s] = SCnt[s] + sem[s]
  PROVE  IInv'
  <1> USE DEF IInv
  <1>0. hPc' = hPc /\ hIdx' = hIdx /\ reg' = reg
    BY Zenon DEF hVars
  <1>1. OneHandler'
    BY Zenon, <1>0 DEF OneHandler
  <1>2. DisarmedInTime'
    <2>1. Counting' <=> Counting
      BY Zenon, <1>0 DEF Counting
    <2> QED
      BY Zenon, <1>0, <2>1 DEF DisarmedInTime
  <1>3. HandlerAccounted'
    <2>1. \A t \in Threads, s \in Services : Made(t, s)' = Made(t, s)
      BY Zenon, <1>0 DEF Made, Cycles, Posts
    <2>2. Quiet' <=> Quiet
      BY Zenon, <1>0 DEF Quiet
    <2> QED
      BY <1>0, <2>1, <2>2 DEF HandlerAccounted, Cycles, Posts
  <1> QED
    BY Zenon, <1>1, <1>2, <1>3

\* Every step preserves the inductive invariant.
LEMMA StepIInv == IInv /\ ~Overlap /\ [Next]_vars => IInv'
  <1> SUFFICES ASSUME IInv, ~Overlap, [Next]_vars PROVE IInv'
    BY Zenon
  <1>0. TypeOK /\ SvcTypeOK /\ TicksCounted
    BY Zenon DEF IInv, TypeOK
  <1>1. CASE Tick
    <2>1. TypeOK'
      BY <1>0, <1>1, SeqGen3Assumption DEF Tick, TypeOK, SvcTypeOK, svcVars, hVars
    <2>2. Counting' <=> Counting
      BY Zenon, <1>1 DEF Tick, hVars, Counting
    <2>3. TicksCounted'
      BY <1>0, <1>1, <2>2, SeqGen3Assumption DEF Tick, TicksCounted, Bit, TypeOK
    <2> QED
      BY Zenon, <1>1, <2>1, <2>3, OutsideIInv DEF Tick, svcVars
  <1>2. CASE Join
    <2>1. TypeOK'
      BY <1>0, <1>2, NumServicesAssumption
         DEF Join, Alive, TypeOK, SvcTypeOK, svcVars, timerVars, hVars
    <2>2. TicksCounted'
      BY Zenon, <1>0, <1>2 DEF Join, TicksCounted, Counting, timerVars, hVars
    <2> QED
      BY Zenon, <1>2, <2>1, <2>2, OutsideIInv DEF Join, svcVars, timerVars
  <1>3. ASSUME NEW t \in Threads, Deliver(t) PROVE IInv'
    BY Zenon, <1>3, DeliverIInv
  <1>4. ASSUME NEW t \in Threads, Handler(t) PROVE IInv'
    BY Zenon, <1>4, StoreIInv, ReleaseIInv, CheckIInv, ShutdownPostIInv, ShutdownFlagIInv
    DEF Handler
  <1>5. ASSUME NEW s \in Services, ServiceStep(s) PROVE IInv'
    <2>1. SvcTypeOK' /\ \A u \in Services : SCnt'[u] + sem'[u] = SCnt[u] + sem[u]
      BY Zenon, <1>0, <1>5, ServiceKeepsSum DEF ServiceStep
    <2>2. TypeOK' /\ TicksCounted'
      BY Zenon, <1>0, <1>5, <2>1 DEF ServiceStep, TypeOK, TicksCounted, Counting, timerVars, hVars
    <2> QED
      BY Zenon, <1>5, <2>1, <2>2, OutsideIInv DEF ServiceStep, timerVars
  <1>6. CASE UNCHANGED vars
    <2>1. TypeOK' /\ TicksCounted'
      BY Zenon, <1>0, <1>6
         DEF vars, svcVars, timerVars, hVars, TypeOK, SvcTypeOK, TicksCounted, Counting
    <2> QED
      BY Zenon, <1>6, <2>1, OutsideIInv DEF vars, svcVars, timerVars
  <1> QED
    BY Zenon, <1>1, <1>2, <1>3, <1>4, <1>5, <1>6 DEF Next

-----------------------------------------------------------------------------
\* The state of seqgen3.c stays well typed: in particular seqCnt never counts
\* more expirations than the timer delivered.
THEOREM TypeCorrect ==
  ASSUME ~Overlap
  PROVE  Spec => []TypeOK
  <1>1. IInv => TypeOK
    BY Zenon DEF IInv
  <1>2. IInv /\ [Next]_vars => IInv'
    BY Zenon, StepIInv
  <1> QED
    BY <1>1, <1>2, InitIInv, PTL DEF Spec

\* The handler of seqgen3.c releases as the sequencer thread does, as long as
\* handlers do not overlap: between its calls the releases a service has taken
\* and those in its semaphore are one per Rate[s] expirations counted plus one
\* for each run of the shutdown block.
THEOREM ReleasesCorrect ==
  ASSUME ~Overlap
  PROVE  Spec => []ReleasesAccounted
  <1>1. IInv => ReleasesAccounted
    BY Zenon DEF IInv, HandlerAccounted, ReleasesAccounted, Cycles, Posts, Shutdowns
  <1>2. IInv /\ [Next]_vars => IInv'
    BY Zenon, StepIInv
  <1> QED
    BY <1>1, <1>2, InitIInv, PTL DEF Spec

\* However late the disarming handler is, at most one expiration is pending
\* when it disarms the timer: the shutdown block runs at most twice.
THEOREM ShutdownAtMostTwice ==
  ASSUME ~Overlap
  PROVE  Spec => [](seqCnt <= sequencePeriods + 1)
  <1>1. IInv => seqCnt <= sequencePeriods + 1
    BY SeqGen3Assumption DEF IInv, DisarmedInTime, TypeOK, Bit
  <1>2. IInv /\ [Next]_vars => IInv'
    BY Zenon, StepIInv
  <1> QED
    BY <1>1, <1>2, InitIInv, PTL DEF Spec

=============================================================================
