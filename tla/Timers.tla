------------------------------- MODULE Timers -------------------------------
(***************************************************************************)
(* The interval timer programs.  One of them runs, chosen by timerProg:     *)
(*                                                                          *)
(*   wd     VxWorks posix_sw_wd.c: a task that re-arms a watchdog timer late *)
(*          is deleted and respawned, and terminated after too many times   *)
(*   pit    clock_pitsig_test.c: SIGALRM counts iterations down while main  *)
(*          pauses                                                          *)
(*   linux  timer/posix_rt_timer.c: ticks and their jitter until Ctrl-C     *)
(*   vx     VxWorks posix_rt_timers.c, posix_timers.c: the same, stopped by *)
(*          the handler after a number of ticks                             *)
(*                                                                          *)
(* A periodic timer raises one signal that is pending until the handler     *)
(* runs; expirations meanwhile are merged into it.                          *)
(***************************************************************************)
EXTENDS Integers

CONSTANTS
  TARDY_TERMINATOR,  \* wd: expirations after which the task is terminated
  MaxIterations,     \* pit: bound on the iterations asked for
  TickPeriod,        \* linux, vx: the period, in units of the clock
  TickLimit,         \* vx: the handler shuts down beyond this many ticks
  MaxClock           \* bound on the clock

\* Periods and counts are positive
ASSUME TimersAssumption ==
  /\ TARDY_TERMINATOR \in Nat \ {0} /\ MaxIterations \in Nat
  /\ TickPeriod \in Nat \ {0} /\ TickLimit \in Nat /\ MaxClock \in Nat \ {0}

VARIABLES
  timerProg,     \* the program
  armed,         \* the timer runs
  pending,       \* its signal waits for the handler
  timerPc,       \* where main is
  expcount,      \* wd: monitor_interval_expcount
  live,          \* wd: ids of the monitored tasks that exist
  monitored_tid, \* wd: the global, 0 for ERROR
  mon_tid,       \* wd: the id the timer was connected with
  delay,         \* wd: the monitored task re-arms "early" or "late"
  test_iterations, abort_test,    \* pit
  rtclk,         \* linux, vx: the clock
  due,           \* linux, vx: when the timer expires next
  tick_count, rtclk_time, rtclk_start_time, rtclk_last_time,
  accum_jitter,
  inHandler,     \* linux, vx: the handler has counted the tick only
  racedStart     \* linux, vx: a tick was timed against no start time

wdVars == <<expcount, live, monitored_tid, mon_tid, delay>>
pitVars == <<test_iterations, abort_test>>
tickVars == <<rtclk, due, tick_count, rtclk_time, rtclk_start_time,
              rtclk_last_time, accum_jitter, inHandler, racedStart>>
timerVars == <<timerProg, armed, pending, timerPc, wdVars, pitVars, tickVars>>

TickProgs == {"linux", "vx"}
TaskIds == 1..(TARDY_TERMINATOR + 1)

\* What the state is made of
TimersTypeOK ==
  /\ timerProg \in TickProgs \cup {"wd", "pit"}
  /\ armed \in BOOLEAN /\ pending \in BOOLEAN
  /\ timerPc \in {"start", "armed", "startRead", "check", "pause", "paused", "exit"}
  /\ expcount \in 0..(TARDY_TERMINATOR + 3)
  /\ live \subseteq TaskIds /\ monitored_tid \in {0} \cup TaskIds
  /\ mon_tid \in {0} \cup TaskIds /\ delay \in {"early", "late"}
  /\ test_iterations \in -1..MaxIterations /\ abort_test \in BOOLEAN
  /\ rtclk \in 1..MaxClock /\ due \in Nat /\ tick_count \in Nat
  /\ rtclk_time \in 0..MaxClock /\ rtclk_start_time \in 0..MaxClock
  /\ rtclk_last_time \in 0..MaxClock /\ accum_jitter \in Nat
  /\ inHandler \in BOOLEAN /\ racedStart \in BOOLEAN

TimersInitAt(at) ==
  /\ timerProg \in TickProgs \cup {"wd", "pit"}
  /\ armed = FALSE /\ pending = FALSE /\ timerPc = at
  /\ expcount = 0 /\ live = {} /\ monitored_tid = 0 /\ mon_tid = 0 /\ delay = "late"
  /\ test_iterations \in (IF timerProg = "pit" THEN 0..MaxIterations ELSE {0})
  /\ abort_test = FALSE
  /\ rtclk = 1 /\ due = 0 /\ tick_count = 0
  /\ rtclk_time = 0 /\ rtclk_start_time = 0 /\ rtclk_last_time = 0
  /\ accum_jitter = 0 /\ inHandler = FALSE /\ racedStart = FALSE

\* while(...) pause(): the test, and pause() entered; a handler that runs
\* between the two does not wake it
EnterPause ==
  /\ timerPc = "pause" /\ timerPc' = "paused"
  /\ UNCHANGED <<timerProg, armed, pending, wdVars, pitVars, tickVars>>

\* pause() returns once a handler has run
Woken == IF timerPc = "paused" THEN "check" ELSE timerPc

Expire ==
  /\ armed /\ ~pending /\ timerPc # "exit"
  /\ timerProg = "wd" => live = {} \/ delay = "late"
  /\ timerProg \notin TickProgs
  /\ pending' = TRUE
  /\ UNCHANGED <<timerProg, armed, timerPc, wdVars, pitVars, tickVars>>

-----------------------------------------------------------------------------
(* wd                                                                       *)

SpawnedNotConnected(others) ==
  \/ /\ \E t \in TaskIds :
          /\ t = expcount' + 1
          /\ monitored_tid' = t /\ live' = others \cup {t}
          /\ mon_tid' = IF mon_tid = 0 THEN t ELSE mon_tid
     /\ delay' \in {"early", "late"}
  \/ /\ monitored_tid' = 0 /\ live' = others
     /\ UNCHANGED <<mon_tid, delay>>

\* taskSpawn makes a task with a new id and the timer is connected with it,
\* or the spawn fails and the timer keeps the id it has
Spawned(others) ==
  \/ /\ \E t \in TaskIds :
          /\ t = expcount' + 1
          /\ monitored_tid' = t /\ live' = others \cup {t}
          /\ mon_tid' = t
     /\ delay' \in {"early", "late"}
  \/ /\ monitored_tid' = 0 /\ live' = others
     /\ UNCHANGED <<mon_tid, delay>>

\* spawn and connect, then arm; a failed spawn returns
soft_wd_test ==
  \/ /\ timerPc = "start" /\ expcount' = 0 /\ pending' = FALSE
     /\ Spawned({})
     /\ armed' = (live' # {})
     /\ timerPc' = IF live' # {} THEN "check" ELSE "exit"
  \/ /\ timerPc = "check"
     /\ IF expcount > TARDY_TERMINATOR
          THEN timerPc' = "exit" /\ armed' = FALSE /\ pending' = FALSE
          ELSE timerPc' = "pause" /\ UNCHANGED <<armed, pending>>
     /\ UNCHANGED wdVars

\* the delay ends before the timer, or after it has expired: timer_settime
monitored ==
  /\ timerPc # "exit" /\ live # {}
  /\ delay = "early" \/ pending
  /\ delay' \in {"early", "late"}
  /\ armed' = TRUE
  /\ UNCHANGED <<pending, timerPc, expcount, live, monitored_tid, mon_tid>>

\* taskDelete(mon_tid)
DeleteLate == live \ {mon_tid}

\* the timer is periodic: the handler leaves it running
StaysArmed == armed

monitor_interval_expired ==
  /\ pending /\ pending' = FALSE
  /\ expcount' = IF expcount < TARDY_TERMINATOR + 3 THEN expcount + 1 ELSE expcount
  /\ IF expcount' <= TARDY_TERMINATOR
       THEN Spawned(DeleteLate)
       ELSE live' = live \ {monitored_tid} /\ UNCHANGED <<monitored_tid, mon_tid, delay>>
  /\ timerPc' = Woken
  /\ armed' = StaysArmed

WdMain ==
  /\ timerProg = "wd" /\ soft_wd_test
  /\ UNCHANGED <<timerProg, pitVars, tickVars>>

WdHandler ==
  /\ timerProg = "wd" /\ monitor_interval_expired
  /\ UNCHANGED <<timerProg, pitVars, tickVars>>

Monitored ==
  /\ timerProg = "wd" /\ monitored
  /\ UNCHANGED <<timerProg, pitVars, tickVars>>

-----------------------------------------------------------------------------
(* pit                                                                      *)

\* a duration of zero leaves the timer disarmed
pit_main ==
  \/ /\ timerPc = "start" /\ timerPc' = "check"
     /\ armed' \in BOOLEAN
  \/ /\ timerPc = "check"
     /\ timerPc' = IF abort_test THEN "exit" ELSE "pause"
     /\ UNCHANGED armed

\* the last iteration disarms the timer and ends the test
AbortSet == abort_test \/ test_iterations' = 0

\* test_iterations - 1, at -1 and below never zero again
delay_test ==
  /\ pending /\ pending' = FALSE
  /\ test_iterations' = IF test_iterations = -1 THEN -1 ELSE test_iterations - 1
  /\ armed' = (armed /\ ~abort_test /\ test_iterations' # 0)
  /\ abort_test' = AbortSet
  /\ timerPc' = Woken

PitMain ==
  /\ timerProg = "pit" /\ pit_main
  /\ UNCHANGED <<timerProg, pending, wdVars, pitVars, tickVars>>

PitHandler ==
  /\ timerProg = "pit" /\ delay_test
  /\ UNCHANGED <<timerProg, wdVars, tickVars>>

-----------------------------------------------------------------------------
(* linux and vx                                                             *)

\* time passes; the timer expires when it is due, once more if it is late
ClockTick ==
  /\ timerProg \in TickProgs /\ timerPc # "exit" /\ rtclk < MaxClock
  /\ rtclk' = rtclk + 1
  /\ pending' = (pending \/ (armed /\ rtclk' >= due))
  /\ due' = IF armed /\ rtclk' >= due THEN due + TickPeriod ELSE due
  /\ UNCHANGED <<timerProg, armed, timerPc, wdVars, pitVars, tick_count, rtclk_time,
                 rtclk_start_time, rtclk_last_time, accum_jitter, inHandler, racedStart>>

\* timer_settime, unchecked: the period is an argument, and one of 0, or of a
\* second and more, arms nothing
linux_main == timerProg = "linux" /\ armed' \in BOOLEAN

\* timer_settime with MY_TICK_NSECS
vx_ptimer_test == timerProg = "vx" /\ armed' = TRUE

\* the timer is armed; then the start time is read and copied
ptimer_test ==
  /\ ~inHandler
  /\ \/ /\ timerPc = "start" /\ timerPc' = "armed"
        /\ linux_main \/ vx_ptimer_test
        /\ due' = rtclk + TickPeriod
        /\ UNCHANGED <<rtclk_start_time, rtclk_last_time>>
     \/ /\ timerPc = "armed" /\ timerPc' = "startRead"
        /\ rtclk_start_time' = rtclk
        /\ UNCHANGED <<armed, due, rtclk_last_time>>
     \/ /\ timerPc = "startRead" /\ timerPc' = "check"
        /\ rtclk_last_time' = rtclk_start_time
        /\ UNCHANGED <<armed, due, rtclk_start_time>>
     \/ /\ timerPc = "check" /\ timerPc' = "paused"
        /\ UNCHANGED <<armed, due, rtclk_start_time, rtclk_last_time>>
  /\ UNCHANGED <<pending, rtclk, tick_count, rtclk_time, accum_jitter, inHandler, racedStart>>

CountTick ==
  /\ pending /\ ~inHandler /\ pending' = FALSE
  /\ tick_count' = tick_count + 1 /\ inHandler' = TRUE
  /\ UNCHANGED <<armed, timerPc, rtclk, due, rtclk_time, rtclk_start_time, rtclk_last_time,
                 accum_jitter, racedStart>>

Abs(n) == IF n < 0 THEN -n ELSE n

\* abs(tick_error); measured from no start time the difference exceeds an int
\* and what is left of it is anything
JitterOf(e) == Abs(e)

\* the handler of vx calls it after the last tick: the timer is deleted
vx_shutdown == timerProg = "vx" /\ tick_count > TickLimit

TimeTick ==
  /\ inHandler /\ inHandler' = FALSE
  /\ rtclk_time' = rtclk
  /\ IF rtclk_last_time = 0
       THEN racedStart' = TRUE /\ accum_jitter' \in {accum_jitter, accum_jitter + 1}
       ELSE /\ accum_jitter' = accum_jitter + JitterOf(rtclk - rtclk_last_time - TickPeriod)
            /\ UNCHANGED racedStart
  /\ rtclk_last_time' = rtclk
  /\ timerPc' = IF vx_shutdown THEN "exit" ELSE Woken
  /\ armed' = (armed /\ ~vx_shutdown)
  /\ UNCHANGED <<pending, rtclk, due, tick_count, rtclk_start_time>>

\* SIGINT, at any point of main or of the other handler
ptimer_shutdown ==
  /\ timerProg = "linux" /\ timerPc \notin {"start", "exit"}
  /\ timerPc' = "exit"
  /\ UNCHANGED <<armed, pending, tickVars>>

Ticks ==
  /\ timerProg \in TickProgs /\ timerPc # "exit"
  /\ ptimer_test \/ CountTick \/ TimeTick \/ ptimer_shutdown
  /\ UNCHANGED <<timerProg, wdVars, pitVars>>

-----------------------------------------------------------------------------
Pauses == timerProg \in {"wd", "pit"} /\ EnterPause

TimersNext ==
  \/ Expire \/ Pauses \/ ClockTick \/ Ticks
  \/ WdMain \/ WdHandler \/ Monitored
  \/ PitMain \/ PitHandler

\* the programs on their own
TimersSpec == TimersInitAt("start") /\ [][TimersNext]_timerVars

\* the timer expires, the signal is handled and main runs
TimersFairness ==
  /\ WF_timerVars(Expire) /\ WF_timerVars(Pauses)
  /\ WF_timerVars(WdMain) /\ WF_timerVars(WdHandler)
  /\ WF_timerVars(PitMain) /\ WF_timerVars(PitHandler)

-----------------------------------------------------------------------------
\* The watchdog never has two monitored tasks running, although a respawn may
\* fail and leave mon_tid with the id of a task that is gone.
OneMonitored == \A s, t \in live : s = t

\* Once the task was late more than TARDY_TERMINATOR times the watchdog ends,
\* even if the last expiration struck between main's test and its pause().
WatchdogEnds == (timerProg = "wd" /\ expcount > TARDY_TERMINATOR) ~> (timerPc = "exit")

\* A PIT test with an armed timer and a positive number of iterations comes to
\* its end, or its last signal came between the test of abort_test and pause():
\* then main sleeps for ever with abort_test set and the timer disabled.
PitEndsOrMissed ==
  (timerProg = "pit" /\ test_iterations > 0) =>
    <>[](\/ timerPc = "exit"
         \/ timerPc = "paused" /\ ~armed /\ (abort_test \/ test_iterations > 0))

\* What the tick programs have measured when they stop: tick_count periods
\* (the seconds that posix_rt_timer.c makes of them are not modelled) differ
\* from the time by the clock by no more than the accumulated jitter, and one
\* period if Ctrl-C came inside the handler, provided the start time was in
\* place before the first tick.
ReportConsistent ==
  timerProg \in TickProgs /\ timerPc = "exit" /\ rtclk_time # 0 /\ ~racedStart =>
    Abs(rtclk_time - rtclk_start_time - tick_count * TickPeriod)
      <= accum_jitter + (IF inHandler THEN TickPeriod ELSE 0)

\* The handlers leave consistent data behind, wherever they interrupt.
TimersConsistent == OneMonitored /\ ReportConsistent

=============================================================================
