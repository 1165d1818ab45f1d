---------------------------- MODULE SignalDemos -----------------------------
(***************************************************************************)
(* POSIX-Examples-Updated/posix_linux_demo.c: a parent queues NUMSIGS       *)
(* signals for a child of two threads; the handler counts them, and the     *)
(* last one ends the idle thread, the child and then the parent.            *)
(*                                                                          *)
(* A signal is handled by either thread of the child, so two handlers may   *)
(* run at once: sigcount++ is a read and a write.  sbsem was allocated      *)
(* before fork(), so each process has a semaphore of its own; each is used  *)
(* by a single thread and never blocks, and the two critical sections do    *)
(* not exclude each other.                                                  *)
(***************************************************************************)
EXTENDS Naturals

CONSTANTS
  NUMSIGS    \* signals the parent sends and the child waits for

\* There is a last signal
ASSUME SignalAssumption == NUMSIGS \in Nat \ {0}

ChildThreads == {"joiner", "idle"}

VARIABLES
  sent,          \* i, the parent's loop counter
  parentPc,      \* "queue", "cs", "wait", "done"
  queued,        \* signals queued for the child and not handled yet
  dropped,       \* a sigqueue failed
  joinerPc,      \* "create", "join", "exit"
  idlePc,        \* "none", "test", "sleep", "cs", "exit"
  handler,       \* each child thread: "none", "load", "store", "test"
  loaded,        \* sigcount as its handler read it
  sigcount, exit_thread

signalVars == <<sent, parentPc, queued, dropped, joinerPc, idlePc, handler, loaded,
                sigcount, exit_thread>>

\* What the state is made of
SignalTypeOK ==
  /\ sent \in 0..NUMSIGS /\ queued \in 0..NUMSIGS /\ sigcount \in 0..NUMSIGS
  /\ dropped \in BOOLEAN /\ exit_thread \in BOOLEAN
  /\ parentPc \in {"queue", "cs", "wait", "done"}
  /\ joinerPc \in {"create", "join", "exit"}
  /\ idlePc \in {"none", "test", "sleep", "cs", "exit"}
  /\ handler \in [ChildThreads -> {"none", "load", "store", "test"}]
  /\ loaded \in [ChildThreads -> 0..NUMSIGS]

SignalInitAt(parent, child) ==
  /\ sent = 0 /\ parentPc = parent /\ queued = 0 /\ dropped = FALSE
  /\ joinerPc = child /\ idlePc = "none"
  /\ handler = [t \in ChildThreads |-> "none"]
  /\ loaded = [t \in ChildThreads |-> 0]
  /\ sigcount = 0 /\ exit_thread = FALSE

\* the loop of the parent, then waitpid
parent_main ==
  /\ \/ /\ parentPc = "queue" /\ sent < NUMSIGS
        /\ \/ queued' = (IF joinerPc = "exit" THEN queued ELSE queued + 1) /\ UNCHANGED dropped
           \/ dropped' = TRUE /\ UNCHANGED queued
        /\ sent' = sent + 1 /\ parentPc' = "cs"
     \/ /\ parentPc = "cs" /\ parentPc' = "queue"
        /\ UNCHANGED <<sent, queued, dropped>>
     \/ /\ parentPc = "queue" /\ sent = NUMSIGS /\ parentPc' = "wait"
        /\ UNCHANGED <<sent, queued, dropped>>
     \/ /\ parentPc = "wait" /\ joinerPc = "exit" /\ parentPc' = "done"
        /\ UNCHANGED <<sent, queued, dropped>>
  /\ UNCHANGED <<joinerPc, idlePc, handler, loaded, sigcount, exit_thread>>

\* the child's first thread: create the idle thread, or exit; then join it
child_main ==
  /\ handler["joiner"] = "none"
  /\ \/ joinerPc = "create" /\ joinerPc' = "join" /\ idlePc' = "test"
     \/ joinerPc = "create" /\ joinerPc' = "exit" /\ UNCHANGED idlePc
     \/ joinerPc = "join" /\ idlePc = "exit" /\ joinerPc' = "exit" /\ UNCHANGED idlePc
  /\ UNCHANGED <<sent, parentPc, queued, dropped, handler, loaded, sigcount, exit_thread>>

\* while(!exit_thread) sleep and enter the critical section
idle_loop ==
  /\ joinerPc # "exit" /\ handler["idle"] = "none"
  /\ \/ idlePc = "test" /\ idlePc' = (IF exit_thread THEN "exit" ELSE "sleep")
     \/ idlePc = "sleep" /\ idlePc' = "cs"
     \/ idlePc = "cs" /\ idlePc' = "test"
  /\ UNCHANGED <<sent, parentPc, queued, dropped, joinerPc, handler, loaded, sigcount,
                 exit_thread>>

Living(t) == joinerPc # "exit" /\ (t = "idle" => idlePc \notin {"none", "exit"})

\* a queued signal interrupts a thread that is not in the handler
Deliver(t) ==
  /\ queued > 0 /\ Living(t) /\ handler[t] = "none"
  /\ queued' = queued - 1
  /\ handler' = [handler EXCEPT ![t] = "load"]
  /\ UNCHANGED <<sent, parentPc, dropped, joinerPc, idlePc, loaded, sigcount, exit_thread>>

LastSignal == sigcount = NUMSIGS

got_user_signal(t) ==
  /\ joinerPc # "exit"
  /\ \/ /\ handler[t] = "load"
        /\ loaded' = [loaded EXCEPT ![t] = sigcount]
        /\ handler' = [handler EXCEPT ![t] = "store"]
        /\ UNCHANGED <<sigcount, exit_thread>>
     \/ /\ handler[t] = "store"
        /\ sigcount' = loaded[t] + 1
        /\ handler' = [handler EXCEPT ![t] = "test"]
        /\ UNCHANGED <<loaded, exit_thread>>
     \/ /\ handler[t] = "test"
        /\ exit_thread' = (exit_thread \/ LastSignal)
        /\ handler' = [handler EXCEPT ![t] = "none"]
        /\ UNCHANGED <<loaded, sigcount>>
  /\ UNCHANGED <<sent, parentPc, queued, dropped, joinerPc, idlePc>>

SignalNext ==
  \/ parent_main \/ child_main \/ idle_loop
  \/ \E t \in ChildThreads : Deliver(t) \/ got_user_signal(t)

\* threads run and a queued signal is delivered to one thread or the other
SignalFairness ==
  /\ WF_signalVars(parent_main) /\ WF_signalVars(child_main) /\ WF_signalVars(idle_loop)
  /\ WF_signalVars(\E t \in ChildThreads : Deliver(t))
  /\ \A t \in ChildThreads : WF_signalVars(got_user_signal(t))

\* Every signal was handled and an increment was lost.
CountLost ==
  /\ sent = NUMSIGS /\ queued = 0 /\ sigcount < NUMSIGS
  /\ \A t \in ChildThreads : handler[t] = "none"

\* The demonstration ends, unless a signal could not be queued or the handlers
\* of the two threads overlapped and lost a count: then the idle thread, the
\* child and the parent go on for ever.
DemoEndsOrLosesCount == <>(parentPc = "done" \/ dropped \/ CountLost)

-----------------------------------------------------------------------------
(***************************************************************************)
(* VxWorks-Examples/Basic-Feature-Examples/posix_vxw_demo.c: a task queues   *)
(* signals for the idle task it has spawned and shares a buffer with it      *)
(* under the semaphore sbsem.  The handler runs in the idle task, wherever   *)
(* that task is, and deletes it after the last signal.                      *)
(*                                                                          *)
(* The priority of the caller is not fixed and printf may block, so either   *)
(* task may run at any point.  A signal for a task that has not installed    *)
(* the handler yet is discarded.  Signals that arrive while the handler runs *)
(* stay queued.  sem_post hands the semaphore to a task that pends on it.    *)
(***************************************************************************)

CONSTANT VxSigs   \* NUMSIGS of this program

\* There is a last signal
ASSUME VxSignalAssumption == VxSigs \in Nat \ {0}

VARIABLES
  genPc,      \* rt_posix_test: "spawn", "queue", "wait", "pend", "cs", "next", ...
  genI,       \* its i
  vxIdle,     \* idle: "none", "init", "delay", "wait", "pend", "cs", "deleted"
  vxHandler,  \* its handler: "none", or "delay" after it has counted
  vxQueued,   \* signals queued for idle
  vxCount,    \* sigcount
  sbsem,      \* the count of the semaphore
  semGone     \* it was destroyed

vxSigVars == <<genPc, genI, vxIdle, vxHandler, vxQueued, vxCount, sbsem, semGone>>

\* What the state is made of
VxSignalTypeOK ==
  /\ genPc \in {"spawn", "queue", "wait", "pend", "cs", "next", "destroy", "exit"}
  /\ genI \in 0..VxSigs /\ vxQueued \in 0..VxSigs /\ vxCount \in 0..VxSigs
  /\ vxIdle \in {"none", "init", "delay", "wait", "pend", "cs", "deleted"}
  /\ vxHandler \in {"none", "delay"}
  /\ sbsem \in 0..1 /\ semGone \in BOOLEAN

VxSignalInitAt(at) ==
  /\ genPc = at /\ genI = 0
  /\ vxIdle = "none" /\ vxHandler = "none" /\ vxQueued = 0 /\ vxCount = 0
  /\ sbsem = 1 /\ semGone = FALSE

-----------------------------------------------------------------------------
(* rt_posix_test                                                            *)

\* taskSpawn, whose failure ends the test
SpawnVxIdle ==
  /\ genPc = "spawn"
  /\ \/ genPc' = "queue" /\ vxIdle' = "init"
     \/ genPc' = "exit" /\ UNCHANGED vxIdle
  /\ UNCHANGED <<genI, vxQueued, sbsem, semGone>>

\* sigqueue; an error is only reported
SigQueue ==
  /\ genPc = "queue"
  /\ IF genI < VxSigs
       THEN /\ vxQueued' = IF vxIdle \in {"init", "deleted"} THEN vxQueued ELSE vxQueued + 1
            /\ genPc' = "wait"
       ELSE genPc' = "destroy" /\ UNCHANGED vxQueued
  /\ UNCHANGED <<genI, vxIdle, sbsem, semGone>>

\* sem_wait, the shared buffer, sem_post; then the next i
GenCS ==
  \/ /\ genPc = "wait"
     /\ genPc' = IF sbsem = 1 THEN "cs" ELSE "pend"
     /\ sbsem' = 0 /\ UNCHANGED <<genI, vxIdle>>
  \/ /\ genPc = "cs" /\ genPc' = "next"
     /\ IF vxIdle = "pend" THEN vxIdle' = "cs" /\ UNCHANGED sbsem
                           ELSE sbsem' = 1 /\ UNCHANGED vxIdle
     /\ UNCHANGED genI
  \/ /\ genPc = "next" /\ genPc' = "queue"
     /\ genI' = genI + 1 /\ UNCHANGED <<sbsem, vxIdle>>

SemDestroy ==
  /\ genPc = "destroy" /\ genPc' = "exit"
  /\ semGone' = TRUE
  /\ UNCHANGED <<genI, vxIdle, vxQueued, sbsem>>

rt_posix_test ==
  /\ \/ SpawnVxIdle \/ SigQueue \/ SemDestroy
     \/ GenCS /\ UNCHANGED <<vxQueued, semGone>>
  /\ UNCHANGED <<vxHandler, vxCount>>

-----------------------------------------------------------------------------
(* the idle task                                                            *)

\* sem_post, which a destroyed semaphore refuses
PostsSem ==
  IF genPc = "pend" THEN genPc' = "cs" /\ UNCHANGED sbsem
                    ELSE sbsem' = (IF semGone THEN sbsem ELSE 1) /\ UNCHANGED genPc

\* sem_wait fails once the semaphore is gone; sem_post is called all the same
vx_idle ==
  /\ vxHandler = "none"
  /\ \/ vxIdle = "init" /\ vxIdle' = "delay" /\ UNCHANGED <<sbsem, genPc>>
     \/ vxIdle = "delay" /\ vxIdle' = "wait" /\ UNCHANGED <<sbsem, genPc>>
     \/ /\ vxIdle = "wait"
        /\ vxIdle' = CASE semGone -> "delay"
                      [] ~semGone /\ sbsem = 1 -> "cs"
                      [] OTHER -> "pend"
        /\ sbsem' = (IF semGone THEN sbsem ELSE 0) /\ UNCHANGED genPc
     \/ vxIdle = "cs" /\ vxIdle' = "delay" /\ PostsSem
  /\ UNCHANGED <<genI, vxHandler, vxQueued, vxCount, semGone>>

OneEarly == vxCount + 1 = VxSigs

\* sigcount == NUMSIGS
LastCaught == vxCount = VxSigs

\* sigcount++ and, after a delay, the test: taskDelete(idle_tid)
vx_got_user_signal ==
  /\ \/ /\ vxHandler = "none" /\ vxQueued > 0 /\ vxIdle \in {"delay", "wait", "pend", "cs"}
        /\ vxQueued' = vxQueued - 1 /\ vxCount' = vxCount + 1
        /\ vxHandler' = "delay" /\ UNCHANGED vxIdle
     \/ /\ vxHandler = "delay" /\ vxHandler' = "none"
        /\ vxIdle' = IF LastCaught THEN "deleted" ELSE vxIdle
        /\ UNCHANGED <<vxQueued, vxCount>>
  /\ UNCHANGED <<genPc, genI, sbsem, semGone>>

VxSignalNext == rt_posix_test \/ vx_idle \/ vx_got_user_signal

\* the demonstration, from its start
VxSignalSpec == VxSignalInitAt("spawn") /\ [][VxSignalNext]_vxSigVars

\* tasks run when their delays end
VxSignalFairness ==
  /\ WF_vxSigVars(rt_posix_test) /\ WF_vxSigVars(vx_idle) /\ WF_vxSigVars(vx_got_user_signal)

-----------------------------------------------------------------------------
\* The idle task was deleted before its sem_post, with the semaphore taken.
DeletedInside == vxIdle = "deleted" /\ sbsem = 0 /\ genPc # "cs"

\* The idle task is deleted only when every signal was sent and caught: none
\* is ever queued for a task that is gone, and if one was sent before the
\* handler was in place the task lives for ever.
DeletedLast == vxIdle = "deleted" => genI + 1 >= VxSigs /\ vxQueued = 0 /\ vxCount = VxSigs

\* The signal generator comes to its end, however often the handler interrupts
\* the critical section of the idle task, unless the last signal deleted that
\* task inside it: then sem_wait waits for ever.
GeneratorEnds == (genPc = "spawn") ~> (genPc = "exit" \/ DeletedInside)

=============================================================================
