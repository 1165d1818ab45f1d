------------------------------ MODULE SeqV4L2 -------------------------------
(***************************************************************************)
(* sequencer_generic/seqv4l2.c with the ring buffer of capturelib.c.  The  *)
(* SIGALRM handler releases Service_1 (frame acquisition), Service_2       *)
(* (frame processing) and Service_3 (frame storage), which run on one core *)
(* under SCHED_FIFO: a service runs only while every service before it is  *)
(* blocked.  Service_1 copies camera frames into a ring of ring_size       *)
(* slots, Service_2 converts one slot per second into scratchpad_buffer    *)
(* and Service_3 writes the scratchpad to a file.  A copy, a conversion    *)
(* and a file write each have a beginning and an end, so that another      *)
(* service can change the memory in between.  Frames are numbered as they  *)
(* are read; frame 0 is the one main reads before it starts the services.  *)
(***************************************************************************)
EXTENDS Naturals, Integers

CONSTANTS
  S1Rate, S2Rate,   \* 20 and 100 cycles: five frames per conversion
  MaxStores,        \* store_cnt == 10
  MaxReads,         \* S1Cnt > 250
  STARTUP_FRAMES,   \* 30
  MaxBacklog        \* bound: releases a service may fall behind

ring_size == 3
Frames == S2Rate \div S1Rate
Services == 1..3
Torn == -1   \* memory that is being written, or was while it was read

ASSUME SeqV4L2Assumption ==
  /\ S1Rate \in Nat \ {0}
  /\ S2Rate = 5 * S1Rate   \* the head moves by 2 and then by 3 per period
  /\ MaxStores \in Nat \ {0} /\ MaxReads \in Nat \ {0}
  /\ STARTUP_FRAMES \in Nat /\ MaxBacklog \in Nat \ {0}

VARIABLES
  sem, abort, abortTest, seqCnt, armed, pending,
  hPc,       \* the handler: "idle", "enter", "post" or "release"
  svcPc,     \* the services
  slot,      \* the frame in each slot of ring_buffer.save_frame
  tail_idx, head_idx,
  scratch,   \* the frame in scratchpad_buffer
  reads,     \* frames read, the one main read included
  S1Cnt, process_framecnt, save_framecnt,
  proc,      \* the conversion in progress: frame and value of reads at its start
  file,      \* the frame in the file being written, or last written
  joined,    \* services main has joined
  dev        \* "streaming" or "closed", or "failed" after exit(EXIT_FAILURE)

timerVars == <<seqCnt, armed, pending, hPc>>
s1Vars == <<slot, tail_idx, reads, S1Cnt>>
s2Vars == <<head_idx, scratch, process_framecnt, proc>>
s3Vars == <<save_framecnt, file>>
mainVars == <<joined, dev>>
vars == <<sem, abort, abortTest, timerVars, svcPc, s1Vars, s2Vars, s3Vars, mainVars>>

TypeOK ==
  /\ sem \in [Services -> Nat]
  /\ abort \in [Services -> BOOLEAN]
  /\ abortTest \in BOOLEAN /\ armed \in BOOLEAN /\ pending \in BOOLEAN
  /\ hPc \in {"idle", "enter", "post", "release"}
  /\ svcPc \in [Services -> {"test", "wait", "check", "select", "copy", "work",
                             "done", "exit"}]
  /\ seqCnt \in Nat /\ reads \in Nat /\ S1Cnt \in Nat
  /\ process_framecnt \in Nat /\ save_framecnt \in Nat
  /\ slot \in [0..(ring_size - 1) -> Int]
  /\ tail_idx \in 0..(ring_size - 1) /\ head_idx \in 0..(ring_size - 1)
  /\ scratch \in Int /\ file \in Int
  /\ proc \in [frame : Int, reads : Nat]
  /\ joined \in 0..3
  /\ dev \in {"streaming", "closed", "failed"}

(***************************************************************************)
(* v4l2_frame_acquisition_initialization, the first seq_frame_read, the    *)
(* service threads created, the timer armed.                               *)
(***************************************************************************)
Init ==
  /\ sem = [s \in Services |-> 0]
  /\ abort = [s \in Services |-> FALSE]
  /\ abortTest = FALSE
  /\ seqCnt = 0 /\ armed = TRUE /\ pending = FALSE /\ hPc = "idle"
  /\ svcPc = [s \in Services |-> "test"]
  /\ slot = [i \in 0..(ring_size - 1) |-> IF i = 0 THEN 0 ELSE Torn]
  /\ tail_idx = 1 /\ head_idx = 0
  /\ scratch = Torn /\ file = Torn
  /\ reads = 1
  /\ S1Cnt = 0 /\ process_framecnt = 0 /\ save_framecnt = 0
  /\ proc = [frame |-> Torn, reads |-> 0]
  /\ joined = 0
  /\ dev = "streaming"

Running == dev = "streaming"

-----------------------------------------------------------------------------
(* The interval timer and its handler                                       *)

Tick ==
  /\ Running /\ armed /\ ~pending
  /\ \A s \in Services : sem[s] < MaxBacklog
  /\ pending' = TRUE
  /\ UNCHANGED <<sem, abort, abortTest, seqCnt, armed, hPc, svcPc,
                 s1Vars, s2Vars, s3Vars, mainVars>>

\* if(abortTest): disable the timer, abortS1=TRUE; abortS2=TRUE; abortS3=TRUE
Enter ==
  /\ Running /\ pending /\ hPc = "idle"
  /\ pending' = FALSE
  /\ hPc' = IF abortTest THEN "post" ELSE "release"
  /\ armed' = (armed /\ ~abortTest)
  /\ abort' = [s \in Services |-> abort[s] \/ abortTest]
  /\ UNCHANGED <<sem, abortTest, seqCnt, svcPc, s1Vars, s2Vars, s3Vars, mainVars>>

ShutdownNoPost ==
  /\ Running /\ hPc = "post"
  /\ hPc' = "release"
  /\ UNCHANGED <<sem, abort, abortTest, seqCnt, armed, pending, svcPc,
                 s1Vars, s2Vars, s3Vars, mainVars>>

\* ... and then the posts that wake the services
ShutdownPost ==
  /\ Running /\ hPc = "post"
  /\ sem' = [s \in Services |-> sem[s] + 1]
  /\ hPc' = "release"
  /\ UNCHANGED <<abort, abortTest, seqCnt, armed, pending, svcPc,
                 s1Vars, s2Vars, s3Vars, mainVars>>

Due(s, n) == IF s = 1 THEN n % S1Rate = 0 ELSE n % S2Rate = 0

\* seqCnt++ and the releases at their sub-rates
ReleaseDue ==
  /\ Running /\ hPc = "release"
  /\ seqCnt' = seqCnt + 1
  /\ sem' = [s \in Services |-> IF Due(s, seqCnt + 1) THEN sem[s] + 1 ELSE sem[s]]
  /\ hPc' = "idle"
  /\ UNCHANGED <<abort, abortTest, armed, pending, svcPc,
                 s1Vars, s2Vars, s3Vars, mainVars>>

Sequencer == Enter \/ ShutdownPost \/ ReleaseDue

-----------------------------------------------------------------------------
(* The services                                                             *)

\* s is blocked: waiting for a release, or in select for a camera frame
Blocked(s) ==
  \/ svcPc[s] \in {"exit", "select"}
  \/ svcPc[s] = "wait" /\ sem[s] = 0

\* SCHED_FIFO on RT_CORE: priorities rt_max_prio-1, -2 and -3
CoreFree(s) == \A t \in 1..(s - 1) : Blocked(t)

Goto(s, pc) == svcPc' = [svcPc EXCEPT ![s] = pc]

\* while(!abortSi)
Test(s) ==
  /\ svcPc[s] = "test"
  /\ Goto(s, IF abort[s] THEN "exit" ELSE "wait")
  /\ UNCHANGED <<sem, abortTest, s1Vars, s2Vars, s3Vars>>

\* sem_wait(&semSi)
Take(s) ==
  /\ svcPc[s] = "wait" /\ sem[s] > 0
  /\ sem' = [sem EXCEPT ![s] = @ - 1]
  /\ Goto(s, "check")
  /\ UNCHANGED <<abortTest, s1Vars, s2Vars, s3Vars>>

\* if(abortSi) break;
Break(s) ==
  /\ svcPc[s] = "check" /\ abort[s]
  /\ Goto(s, "exit")
  /\ UNCHANGED <<sem, abortTest, s1Vars, s2Vars, s3Vars>>

Proceed(s) == svcPc[s] = "check" /\ ~abort[s]

\* S1Cnt++, seq_frame_read() enters select
StartRead ==
  /\ Proceed(1)
  /\ S1Cnt' = S1Cnt + 1
  /\ Goto(1, "select")
  /\ UNCHANGED <<sem, abortTest, slot, tail_idx, reads, s2Vars, s3Vars>>

\* a frame was dequeued; the memcpy into the slot at tail_idx begins
StartCopy ==
  /\ svcPc[1] = "select"
  /\ slot' = [slot EXCEPT ![tail_idx] = Torn]
  /\ Goto(1, "copy")
  /\ UNCHANGED <<sem, abortTest, tail_idx, reads, S1Cnt, s2Vars, s3Vars>>

EndCopyNoWrap ==
  /\ svcPc[1] = "copy"
  /\ slot' = [slot EXCEPT ![tail_idx] = reads]
  /\ tail_idx' = tail_idx + 1
  /\ reads' = reads + 1
  /\ Goto(1, "done")
  /\ UNCHANGED <<sem, abortTest, S1Cnt, s2Vars, s3Vars>>

\* the memcpy ends, the tail advances and the buffer is queued again
EndCopy ==
  /\ svcPc[1] = "copy"
  /\ slot' = [slot EXCEPT ![tail_idx] = reads]
  /\ tail_idx' = (tail_idx + 1) % ring_size
  /\ reads' = reads + 1
  /\ Goto(1, "done")
  /\ UNCHANGED <<sem, abortTest, S1Cnt, s2Vars, s3Vars>>

\* if(S1Cnt > 250) abortTest=TRUE
EndRead ==
  /\ svcPc[1] = "done"
  /\ abortTest' = (abortTest \/ S1Cnt > MaxReads)
  /\ Goto(1, "test")
  /\ UNCHANGED <<sem, s1Vars, s2Vars, s3Vars>>

StartProcessOneLess ==
  /\ Proceed(2)
  /\ head_idx' = (head_idx + 1) % ring_size
  /\ process_framecnt' = process_framecnt + 1
  /\ proc' = [frame |-> slot[head_idx'], reads |-> reads]
  /\ scratch' = Torn
  /\ Goto(2, "work")
  /\ UNCHANGED <<sem, abortTest, s1Vars, s3Vars>>

\* seq_frame_process(): the head moves to the slot to convert, process_image
\* counts the frame and begins to write scratchpad_buffer
StartProcess ==
  /\ Proceed(2)
  /\ head_idx' = (head_idx + 2) % ring_size
  /\ process_framecnt' = process_framecnt + 1
  /\ proc' = [frame |-> slot[head_idx'], reads |-> reads]
  /\ scratch' = Torn
  /\ Goto(2, "work")
  /\ UNCHANGED <<sem, abortTest, s1Vars, s3Vars>>

EndProcessShort ==
  /\ svcPc[2] = "work"
  /\ scratch' = IF slot[head_idx] = proc.frame THEN proc.frame ELSE Torn
  /\ head_idx' = (head_idx + 2) % ring_size
  /\ Goto(2, "test")
  /\ UNCHANGED <<sem, abortTest, process_framecnt, proc, s1Vars, s3Vars>>

\* process_image ends and the head advances past the frames of this period
EndProcess ==
  /\ svcPc[2] = "work"
  /\ scratch' = IF slot[head_idx] = proc.frame THEN proc.frame ELSE Torn
  /\ head_idx' = (head_idx + 3) % ring_size
  /\ Goto(2, "test")
  /\ UNCHANGED <<sem, abortTest, process_framecnt, proc, s1Vars, s3Vars>>

\* seq_frame_store(): save_image counts the frame and begins to write its file
StartStore ==
  /\ Proceed(3)
  /\ save_framecnt' = save_framecnt + 1
  /\ file' = scratch
  /\ Goto(3, "work")
  /\ UNCHANGED <<sem, abortTest, s1Vars, s2Vars>>

\* the file is written; "after last write, set synchronous abort"
EndStore ==
  /\ svcPc[3] = "work"
  /\ file' = IF scratch = file THEN file ELSE Torn
  /\ abortTest' = (abortTest \/ save_framecnt = MaxStores)
  /\ Goto(3, "test")
  /\ UNCHANGED <<sem, save_framecnt, s1Vars, s2Vars>>

ServiceBody(s) ==
  \/ Test(s) \/ Take(s) \/ Break(s)
  \/ s = 1 /\ (StartRead \/ StartCopy \/ EndCopy \/ EndRead)
  \/ s = 2 /\ (StartProcess \/ EndProcess)
  \/ s = 3 /\ (StartStore \/ EndStore)

Service(s) ==
  /\ Running /\ CoreFree(s)
  /\ ServiceBody(s)
  /\ UNCHANGED <<abort, timerVars, mainVars>>

(***************************************************************************)
(* select times out or is interrupted, or VIDIOC_DQBUF fails: the results  *)
(* of select and read_frame are ignored, frame_buf.index is left at 0, a   *)
(* buffer the driver already holds, so VIDIOC_QBUF fails and the process   *)
(* exits.                                                                  *)
(***************************************************************************)
ReadFails ==
  /\ Running /\ svcPc[1] = "select"
  /\ dev' = "failed"
  /\ UNCHANGED <<sem, abort, abortTest, timerVars, svcPc, s1Vars, s2Vars, s3Vars, joined>>

\* main joins the services in order
Join ==
  /\ Running /\ joined < 3
  /\ svcPc[joined + 1] = "exit"
  /\ joined' = joined + 1
  /\ UNCHANGED <<sem, abort, abortTest, timerVars, svcPc, s1Vars, s2Vars, s3Vars, dev>>

\* v4l2_frame_acquisition_shutdown() and the return of main
Shutdown ==
  /\ Running
  /\ joined = 3
  /\ dev' = "closed"
  /\ UNCHANGED <<sem, abort, abortTest, timerVars, svcPc, s1Vars, s2Vars, s3Vars, joined>>

Next ==
  \/ Tick \/ Sequencer
  \/ \E s \in Services : Service(s)
  \/ ReadFails \/ Join \/ Shutdown

(***************************************************************************)
(* The armed timer keeps expiring, its signal is handled, a service that   *)
(* stays the highest ready one runs, and main runs.  Nothing is assumed    *)
(* about a service that others keep from the core.                         *)
(***************************************************************************)
Fairness ==
  /\ WF_vars(Tick) /\ WF_vars(Sequencer)
  /\ WF_vars(Join) /\ WF_vars(Shutdown)
  /\ \A s \in Services : WF_vars(Service(s))

Spec == Init /\ [][Next]_vars /\ Fairness

-----------------------------------------------------------------------------
\* conversions that have ended
Converted == process_framecnt - (IF svcPc[2] = "work" THEN 1 ELSE 0)

\* the last conversion began when Service_1 had read just the frames of its
\* period, and Service_1 is not yet two frames ahead of it
InTime ==
  /\ process_framecnt > 0
  /\ proc.reads = Frames * process_framecnt + 1
  /\ reads < proc.reads + 2

\* The indices of the ring agree with the frames read and converted (the
\* head moves by 2 and then by 3 for each period), and a ring of three slots
\* is enough for a conversion that is in time: the k-th conversion works on
\* the newest frame of its period, which stays intact in its slot meanwhile.
ConvertsNewestFrame ==
  /\ tail_idx = reads % ring_size
  /\ head_idx = (Frames * Converted + (IF svcPc[2] = "work" THEN 2 ELSE 0)) % ring_size
  /\ InTime /\ svcPc[2] = "work" =>
       proc.frame = Frames * process_framecnt /\ slot[head_idx] = proc.frame

\* From the camera to the file: storage never overtakes conversion, though
\* the two services share nothing but the scratchpad and the order of their
\* priorities; and while the k-th file is being written and the k-th
\* conversion was in time, the file holds the newest frame of period k.
StoresNewestFrame ==
  /\ save_framecnt <= Converted
  /\ InTime /\ svcPc[3] = "work" /\ save_framecnt = Converted /\ svcPc[2] # "work"
       => file = Frames * save_framecnt

\* "always ignore STARTUP_FRAMES while camera adjusts to lighting": no file
\* holds one of the first STARTUP_FRAMES frames of the camera.
StartupFramesIgnored == file # Torn => file >= STARTUP_FRAMES

\* "shutdown all services" with the flags raised before the posts, and tested
\* again after sem_wait: main joins every service and closes the device,
\* unless a failed read has ended the process.  The device is closed only
\* when Service_1 cannot use it any more.
ShutsDown ==
  /\ <>(dev \in {"closed", "failed"})
  /\ [](dev = "closed" => svcPc[1] = "exit")

=============================================================================
