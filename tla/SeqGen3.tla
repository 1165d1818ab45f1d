------------------------------ MODULE SeqGen3 -------------------------------
(***************************************************************************)
(* sequencer_generic/seqgen3.c: the sequencer is the SIGALRM handler of a  *)
(* 10 ms interval timer instead of a thread.  The signal is directed at    *)
(* the process, so any thread that is not already in the handler may run   *)
(* it; a service interrupted by it is suspended until the handler returns. *)
(* Expirations that find the signal still pending are lost.  seqCnt++ is a *)
(* load and a store, and the later tests of seqCnt read it again.          *)
(***************************************************************************)
EXTENDS SeqServices

CONSTANTS
  Active,            \* services the handler releases (the others are commented out)
  Rate,              \* Rate[s]: s is released every Rate[s] cycles
  sequencePeriods,   \* cycles before the handler shuts down
  MaxTicks,          \* bound: expirations of the timer that are explored
  Overlap            \* may a second thread enter the handler while one is in it?

ASSUME SeqGen3Assumption ==
  /\ Active \subseteq Services
  /\ Rate \in [Services -> Nat \ {0}]
  /\ sequencePeriods \in Nat \ {0}
  /\ MaxTicks \in Nat
  /\ Overlap \in BOOLEAN

Main == 0
Threads == {Main} \cup Services

VARIABLES
  armed,     \* the interval timer is armed
  pending,   \* SIGALRM is pending for the process
  ticks,     \* expirations that made the signal pending
  hPc,       \* where each thread is in the handler, "idle" when it is not in it
  hIdx,      \* service the handler of each thread considers next
  reg,       \* seqCnt as loaded by seqCnt++ in each thread
  seqCnt,
  joined     \* service threads main has joined

timerVars == <<armed, pending, ticks>>
hVars == <<hPc, hIdx, reg>>
vars == <<svcVars, timerVars, hVars, seqCnt, joined>>

HandlerPcs == {"idle", "load", "store", "release", "check", "post", "flag"}

TypeOK ==
  /\ SvcTypeOK
  /\ armed \in BOOLEAN /\ pending \in BOOLEAN
  /\ ticks \in 0..MaxTicks
  /\ hPc \in [Threads -> HandlerPcs]
  /\ hIdx \in [Threads -> Services]
  /\ reg \in [Threads -> 0..MaxTicks]
  /\ seqCnt \in 0..MaxTicks
  /\ joined \in 0..NumServices

\* the services are created before timer_settime arms the timer
Init ==
  /\ SvcInit
  /\ armed = TRUE
  /\ pending = FALSE
  /\ ticks = 0
  /\ hPc = [t \in Threads |-> "idle"]
  /\ hIdx = [t \in Threads |-> 1]
  /\ reg = [t \in Threads |-> 0]
  /\ seqCnt = 0
  /\ joined = 0

\* main has not returned, which would end the process
Alive == joined < NumServices

\* the interval timer expires; with the signal still pending it changes nothing
Tick ==
  /\ Alive /\ armed /\ ~pending
  /\ ticks < MaxTicks
  /\ ticks' = ticks + 1
  /\ pending' = TRUE
  /\ UNCHANGED <<svcVars, armed, hVars, seqCnt, joined>>

\* the signal is delivered to a thread that exists and has it unblocked
Deliver(t) ==
  /\ Alive /\ pending
  /\ hPc[t] = "idle"
  /\ t # Main => svcPc[t] # "exit"
  /\ ~Overlap => \A u \in Threads : hPc[u] = "idle"
  /\ pending' = FALSE
  /\ hPc' = [hPc EXCEPT ![t] = "load"]
  /\ UNCHANGED <<svcVars, armed, ticks, hIdx, reg, seqCnt, joined>>

\* seqCnt++: the load ...
Load(t) ==
  /\ hPc[t] = "load"
  /\ reg' = [reg EXCEPT ![t] = seqCnt]
  /\ hPc' = [hPc EXCEPT ![t] = "store"]
  /\ UNCHANGED <<svcVars, timerVars, hIdx, seqCnt, joined>>

\* ... and the store
Store(t) ==
  /\ hPc[t] = "store"
  /\ seqCnt' = reg[t] + 1
  /\ hPc' = [hPc EXCEPT ![t] = "release"]
  /\ UNCHANGED <<svcVars, timerVars, hIdx, reg, joined>>

AdvancePastLast(t, pc) ==
  /\ hPc' = [hPc EXCEPT ![t] = IF hIdx[t] > NumServices THEN pc ELSE @]
  /\ hIdx' = [hIdx EXCEPT ![t] = IF @ > NumServices THEN 1 ELSE @ + 1]

\* the handler of t goes on to the next service, and after the last to pc
Advance(t, pc) ==
  /\ hPc' = [hPc EXCEPT ![t] = IF hIdx[t] = NumServices THEN pc ELSE @]
  /\ hIdx' = [hIdx EXCEPT ![t] = IF @ = NumServices THEN 1 ELSE @ + 1]

DueOffByOne(s) == s \in Active /\ seqCnt % Rate[s] = 1

\* (seqCnt % rate) == 0 of a release that is not commented out
Due(s) == s \in Active /\ seqCnt % Rate[s] = 0

\* the release of one service, on what seqCnt holds now
ReleaseOne(t) ==
  /\ hPc[t] = "release"
  /\ Post({s \in {hIdx[t]} : Due(s)})
  /\ Advance(t, "check")
  /\ UNCHANGED <<timerVars, reg, seqCnt, joined>>

\* if(seqCnt >= sequencePeriods): disable the timer, or return
Check(t) ==
  /\ hPc[t] = "check"
  /\ hPc' = [hPc EXCEPT ![t] = IF seqCnt >= sequencePeriods THEN "post" ELSE "idle"]
  /\ armed' = (armed /\ seqCnt < sequencePeriods)
  /\ UNCHANGED <<svcVars, pending, ticks, hIdx, reg, seqCnt, joined>>

\* the shutdown: every semaphore is posted ...
ShutdownPost(t) ==
  /\ hPc[t] = "post"
  /\ Post({hIdx[t]})
  /\ Advance(t, "flag")
  /\ UNCHANGED <<timerVars, reg, seqCnt, joined>>

ShutdownFlagFirstOnly(t) ==
  /\ hPc[t] = "flag"
  /\ RaiseAbort(1)
  /\ Advance(t, "idle")
  /\ UNCHANGED <<timerVars, reg, seqCnt, joined>>

\* ... and only then every flag is raised
ShutdownFlag(t) ==
  /\ hPc[t] = "flag"
  /\ RaiseAbort(hIdx[t])
  /\ Advance(t, "idle")
  /\ UNCHANGED <<timerVars, reg, seqCnt, joined>>

Handler(t) ==
  /\ Alive
  /\ \/ Load(t) \/ Store(t) \/ ReleaseOne(t)
     \/ Check(t) \/ ShutdownPost(t) \/ ShutdownFlag(t)

ServiceStep(s) ==
  /\ Alive
  /\ hPc[s] = "idle"
  /\ Service(s)
  /\ UNCHANGED <<timerVars, hVars, seqCnt, joined>>

\* main joins the services in order, and returns after the last
Join ==
  /\ Alive
  /\ hPc[Main] = "idle"
  /\ svcPc[joined + 1] = "exit"
  /\ joined' = joined + 1
  /\ UNCHANGED <<svcVars, timerVars, hVars, seqCnt>>

Next ==
  \/ Tick \/ Join
  \/ \E t \in Threads : Deliver(t) \/ Handler(t)
  \/ \E s \in Services : ServiceStep(s)

(***************************************************************************)
(* An armed timer expires, a pending signal is delivered, and a thread     *)
(* that can run eventually does.                                           *)
(***************************************************************************)
Fairness ==
  /\ WF_vars(Tick)
  /\ WF_vars(Join)
  /\ WF_vars(\E t \in Threads : Deliver(t))
  /\ \A t \in Threads : WF_vars(Handler(t))
  /\ \A s \in Services : WF_vars(ServiceStep(s))

Spec == Init /\ [][Next]_vars /\ Fairness

-----------------------------------------------------------------------------
Quiet == \A t \in Threads : hPc[t] = "idle"

\* handler calls that ran the shutdown block: those with seqCnt at or past
\* sequencePeriods
Shutdowns == IF seqCnt < sequencePeriods THEN 0 ELSE seqCnt - sequencePeriods + 1

\* "Release each service at a sub-rate of the generic sequencer rate": between
\* calls of the handler, the releases a service has taken and those still in
\* its semaphore are exactly one per Rate[s] expirations handled plus one
\* for each time the shutdown block ran.
ReleasesAccounted ==
  Quiet => \A s \in Services :
    SCnt[s] + sem[s] = (IF s \in Active THEN seqCnt \div Rate[s] ELSE 0) + Shutdowns

\* The program comes to rest: the timer is disarmed for good, no thread is in
\* the handler any more, and every service has exited or is stranded in
\* sem_wait with its flag raised.  The handler that disarms the timer is
\* followed by at most one more, for the expiration that was already pending:
\* the shutdown block, which posts every semaphore, runs at most twice.
ComesToRest ==
  /\ [](seqCnt <= sequencePeriods + 1)
  /\ <>[](~armed /\ Quiet /\ \A s \in Services : svcPc[s] = "exit" \/ Stranded(s))

\* "shutdown all services": once the handler has run its shutdown block every
\* service ends and main joins all of them.
ShutdownAllServices == (~armed) ~> (joined = NumServices)

=============================================================================
