------------------------------- MODULE MCTasks -------------------------------
(***************************************************************************)
(* The demonstration programs of the synchronisation, message, timer and    *)
(* socket examples, each with its own module.  demo says which one runs;    *)
(* the machines of the others stand still where they have ended.            *)
(***************************************************************************)
EXTENDS RMSequencer, MutexPair, PrioInversion, VxInversion, MessageQueues, InetLoop,
        Timers, SignalDemos, WorkerThreads, Sieve, Pairs

VARIABLE demo

Demos == {"rm", "lock", "inversion", "vxinversion", "queue", "inet", "timer", "signal",
          "vxsignal", "digest", "fib", "sieve", "twoprocs", "incdec"}

allVars == <<demo, vars, lockVars, invVars, viVars, mqVars, inetVars, timerVars, signalVars,
             vxSigVars, digestVars, fibVars, sieveVars, pairVars>>

\* the place where the machine of demonstration d starts
Start(d, begin, end) == IF demo = d THEN begin ELSE end

TasksInit ==
  /\ demo \in Demos
  /\ Init /\ (demo # "rm" => ts = lab1)
  /\ LockInitAt(Start("lock", "create1", "exit"))
  /\ demo # "lock" => lockProg = "deadlock" /\ lockMode = "safe"
  /\ InvInitAt(Start("inversion", "createL", "done"))
  /\ demo # "inversion" => invProg = "ok" /\ runInterference = 0
  /\ ViInitAt(Start("vxinversion", "spawnLow", "done"))
  /\ demo # "vxinversion" => intfCount = 0 /\ inversionSafe /\ ~readOnce
  /\ MqInit /\ (demo # "queue" => mqProg = "heap" /\ mqFails = {})
  /\ InetInitAt(Start("inet", "accept", "exit")) /\ (demo # "inet" => signedChar)
  /\ TimersInitAt(Start("timer", "start", "exit")) /\ (demo # "timer" => timerProg = "wd")
  /\ SignalInitAt(Start("signal", "queue", "done"), Start("signal", "create", "exit"))
  /\ VxSignalInitAt(Start("vxsignal", "spawn", "exit"))
  /\ DigestInitAt(Start("digest", "create", "exit"))
  /\ FibInitAt(Start("fib", "setsched", "exit"))
  /\ demo # "fib" => fibProg = "simple" /\ privileged
  /\ SieveInitAt(Start("sieve", "init", "done"))
  /\ demo # "sieve" => MAX = CHOOSE m \in SieveSizes : TRUE
  /\ PairsInitAt(Start("twoprocs", "openC", "exit"), Start("incdec", "createInc", "exit"))

TasksNext ==
  \/ /\ demo = "rm" /\ Next
     /\ UNCHANGED <<demo, lockVars, invVars, viVars, mqVars, inetVars,
                    timerVars, signalVars, vxSigVars, digestVars, fibVars, sieveVars, pairVars>>
  \/ /\ demo = "lock" /\ LockNext
     /\ UNCHANGED <<demo, vars, invVars, viVars, mqVars, inetVars,
                    timerVars, signalVars, vxSigVars, digestVars, fibVars, sieveVars, pairVars>>
  \/ /\ demo = "inversion" /\ InvNext
     /\ UNCHANGED <<demo, vars, lockVars, viVars, mqVars, inetVars,
                    timerVars, signalVars, vxSigVars, digestVars, fibVars, sieveVars, pairVars>>
  \/ /\ demo = "vxinversion" /\ ViNext
     /\ UNCHANGED <<demo, vars, lockVars, invVars, mqVars, inetVars,
                    timerVars, signalVars, vxSigVars, digestVars, fibVars, sieveVars, pairVars>>
  \/ /\ demo = "queue" /\ MqNext
     /\ UNCHANGED <<demo, vars, lockVars, invVars, viVars, inetVars,
                    timerVars, signalVars, vxSigVars, digestVars, fibVars, sieveVars, pairVars>>
  \/ /\ demo = "inet" /\ InetNext
     /\ UNCHANGED <<demo, vars, lockVars, invVars, viVars, mqVars,
                    timerVars, signalVars, vxSigVars, digestVars, fibVars, sieveVars, pairVars>>
  \/ /\ demo = "timer" /\ TimersNext
     /\ UNCHANGED <<demo, vars, lockVars, invVars, viVars, mqVars,
                    inetVars, signalVars, vxSigVars, digestVars, fibVars, sieveVars, pairVars>>
  \/ /\ demo = "signal" /\ SignalNext
     /\ UNCHANGED <<demo, vars, lockVars, invVars, viVars, mqVars,
                    inetVars, timerVars, vxSigVars, digestVars, fibVars, sieveVars, pairVars>>
  \/ /\ demo = "vxsignal" /\ VxSignalNext
     /\ UNCHANGED <<demo, vars, lockVars, invVars, viVars, mqVars,
                    inetVars, timerVars, signalVars, digestVars, fibVars, sieveVars, pairVars>>
  \/ /\ demo = "digest" /\ DigestNext
     /\ UNCHANGED <<demo, vars, lockVars, invVars, viVars, mqVars,
                    inetVars, timerVars, signalVars, vxSigVars, fibVars, sieveVars, pairVars>>
  \/ /\ demo = "fib" /\ FibNext
     /\ UNCHANGED <<demo, vars, lockVars, invVars, viVars, mqVars,
                    inetVars, timerVars, signalVars, vxSigVars, digestVars, sieveVars, pairVars>>
  \/ /\ demo = "sieve" /\ SieveNext
     /\ UNCHANGED <<demo, vars, lockVars, invVars, viVars, mqVars,
                    inetVars, timerVars, signalVars, vxSigVars, digestVars, fibVars, pairVars>>
  \/ /\ demo \in {"twoprocs", "incdec"} /\ PairsNext
     /\ UNCHANGED <<demo, vars, lockVars, invVars, viVars, mqVars, inetVars,
                    timerVars, signalVars, vxSigVars, digestVars, fibVars, sieveVars>>

\* the machines that stand still have no fair action enabled
TasksFairness ==
  /\ WF_vars(demo = "rm" /\ (Give \/ Post \/ Finish \/ Core))
  /\ WF_vars(demo = "rm" /\ Join)
  /\ LockFairness /\ InvFairness /\ ViFairness /\ MqFairness /\ InetFairness
  /\ TimersFairness /\ SignalFairness /\ VxSignalFairness /\ DigestFairness
  /\ FibFairness /\ SieveFairness /\ PairsFairness

TasksSpec == TasksInit /\ [][TasksNext]_allVars /\ TasksFairness

\* Every machine keeps the types of its state
TasksTypeOK ==
  /\ TypeOK /\ LockTypeOK /\ InvTypeOK /\ ViTypeOK /\ MqTypeOK /\ InetTypeOK
  /\ TimersTypeOK /\ SignalTypeOK /\ VxSignalTypeOK /\ DigestTypeOK
  /\ FibTypeOK /\ SieveTypeOK /\ PairsTypeOK

\* The mutex programs: a time-out leaves nothing behind and cannot happen in
\* the safe mode; the inversion is as long as its interference and no longer,
\* and no entry to the critical section goes uncounted.
LocksSafe ==
  TimeoutLeavesNothing /\ SafeNeverTimesOut /\ HighDelayBounded /\ EntriesCounted

\* The programs that pass messages: every block has one owner and none is
\* lost, and a client that ran to its end has read all it asked for.
MessagesSafe == PointersOwned /\ NoBlockLost /\ ClientReadAll

\* What workers make together is what one would make alone: the sieve leaves
\* exactly the primes, parent and child of twoprocs.c stay in step but for
\* what interrupted runs left behind, and only the atomic sum is exact.
WorkersExact == SieveExact /\ HandshakeKept /\ SumsBounded

\* Every demonstration comes to its end or does its work for ever, and is
\* stuck only in the ways its own races allow, which each part names.
TasksEnd ==
  /\ ShutdownEnds /\ TestCompletes
  /\ EndsOrDeadlocks /\ EndsOrSpins /\ HighServed /\ InversionEnds
  /\ LoopEndsIfBothFail /\ OnceDelivered /\ ClientsGetTheirTurn
  /\ WatchdogEnds /\ PitEndsOrMissed /\ DemoEndsOrLosesCount /\ GeneratorEnds
  /\ DigestEndsOrStuck /\ FibEnds /\ SieveEnds /\ TwoProcsEnd

=============================================================================
