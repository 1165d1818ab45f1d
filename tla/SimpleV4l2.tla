----------------------------- MODULE SimpleV4l2 -----------------------------
(***************************************************************************)
(* camera/simplev4l2.c, which blocks in VIDIOC_DQBUF for each of its 100   *)
(* frames, and simplev4l2nb.c, which polls and then drains every frame     *)
(* that is ready.  On a failing call both leave by the label cleanup,      *)
(* which unmaps what was mapped and closes the camera.                     *)
(***************************************************************************)
EXTENDS CaptureApp

CONSTANT
  V4Frames   \* bound: frames a program processes (100 in the code)
ASSUME V4FramesAssumption == V4Frames \in Nat

V4Programs == {"v4l2", "v4l2nb"}

V4Init ==
  /\ prog \in V4Programs
  /\ io = "MMAP"
  /\ spc = "open"
  /\ mapped = {} /\ held = None
  /\ left = V4Frames
  /\ framecnt = 0
  /\ pixfmt \in Formats
  /\ bigbuffer = None
  /\ reads = <<>> /\ files = <<>> /\ again = 0

V4Rest == Keep(<<left, framecnt, bigbuffer, reads, files, again>>)
Cleanup == Goto("cleanup")

\* open; without a camera the program returns EXIT_FAILURE
v4l2_open ==
  /\ spc = "open"
  /\ Goto("format") \/ Goto("fail")
  /\ UNCHANGED <<drvVars, mapped, held>> /\ V4Rest

\* VIDIOC_S_FMT: another format than YUYV is not accepted
v4l2_format ==
  /\ spc = "format"
  /\ IF pixfmt = "YUYV" THEN Goto("request") ELSE Cleanup
  /\ UNCHANGED <<drvVars, mapped, held>> /\ V4Rest

\* VIDIOC_REQBUFS: simplev4l2 accepts any count from 1 to BUFFER_COUNT ...
v4l2_request ==
  /\ prog = "v4l2" /\ spc = "request"
  /\ \E n \in 0..(MaxBuffers + 1) :
       /\ RequestBuffers(n)
       /\ IF n = 0 \/ n > MaxBuffers THEN Cleanup ELSE Goto("map")
  /\ UNCHANGED <<mapped, held>> /\ V4Rest

\* ... simplev4l2nb needs two, and uses at most BUFFER_COUNT
v4l2nb_request ==
  /\ prog = "v4l2nb" /\ spc = "request"
  /\ \E n \in 0..(MaxBuffers + 1) :
       /\ RequestBuffers(IF n > MaxBuffers THEN MaxBuffers ELSE n)
       /\ IF n < 2 THEN Cleanup ELSE Goto("map")
  /\ UNCHANGED <<mapped, held>> /\ V4Rest

\* VIDIOC_QUERYBUF and mmap of the next buffer
v4l2_map ==
  /\ spc = "map"
  /\ \/ \E b \in 1..Len(content) :
            mapped = 1..(b - 1) /\ mapped' = 1..b /\ UNCHANGED spc
     \/ mapped = 1..Len(content) /\ UNCHANGED mapped /\ Goto("queue")
  /\ UNCHANGED <<drvVars, held>> /\ V4Rest

\* VIDIOC_QBUF of every buffer, VIDIOC_STREAMON
v4l2_queue ==
  /\ spc = "queue"
  /\ IF Len(queued) < Len(content)
     THEN QueueBuffer(Len(queued) + 1) /\ UNCHANGED spc
     ELSE StreamOn /\ Goto("wait")
  /\ UNCHANGED <<mapped, held>> /\ V4Rest

Setup_fails ==
  /\ spc \in {"format", "request", "map", "queue"}
  /\ Cleanup
  /\ UNCHANGED <<drvVars, mapped, held>> /\ V4Rest

-----------------------------------------------------------------------------
\* VIDIOC_DQBUF waits for a completed frame
v4l2_dequeue ==
  /\ prog = "v4l2" /\ spc = "wait" /\ left > 0
  /\ DequeueCall
  /\ Goto("process")
  /\ Keep(<<mapped, left, framecnt, bigbuffer, files, again>>)

\* poll: without a frame in POLL_TIMEOUT_MS the program polls again
v4l2nb_poll ==
  /\ prog = "v4l2nb" /\ spc = "wait" /\ left > 0 /\ filled # <<>>
  /\ Goto("drain")
  /\ UNCHANGED <<drvVars, mapped, held>> /\ V4Rest

\* drain every frame that is ready: EAGAIN ends the inner loop
v4l2nb_drain ==
  /\ prog = "v4l2nb" /\ spc = "drain"
  /\ IF left > 0 /\ filled # <<>>
     THEN DequeueCall /\ Goto("process")
     ELSE Goto("wait") /\ UNCHANGED <<drvVars, held, reads>>
  /\ Keep(<<mapped, left, framecnt, bigbuffer, files, again>>)

process_frame ==
  /\ spc = "process"
  /\ bigbuffer' = content[held]
  /\ Goto("requeue")
  /\ UNCHANGED drvVars
  /\ Keep(<<mapped, held, left, framecnt, reads, files, again>>)

requeue_forgotten ==
  /\ spc = "requeue"
  /\ UNCHANGED drvVars
  /\ held' = None
  /\ left' = left - 1
  /\ Goto(IF prog = "v4l2nb" THEN "drain" ELSE "wait")
  /\ Keep(<<mapped, framecnt, bigbuffer, reads, files, again>>)

\* VIDIOC_QBUF, and the frame counts
v4l2_requeue ==
  /\ spc = "requeue"
  /\ CanQueue(held) /\ QueueBuffer(held)
  /\ held' = None
  /\ left' = left - 1
  /\ Goto(IF prog = "v4l2nb" THEN "drain" ELSE "wait")
  /\ Keep(<<mapped, framecnt, bigbuffer, reads, files, again>>)

\* a failing VIDIOC_DQBUF or VIDIOC_QBUF, an error of poll, or the last frame
v4l2_leave ==
  /\ spc \in {"wait", "drain", "requeue"}
  /\ Goto("streamoff")
  /\ UNCHANGED <<drvVars, mapped, held>> /\ V4Rest

\* VIDIOC_STREAMOFF; its failure is only reported
v4l2_streamoff ==
  /\ spc = "streamoff"
  /\ StreamOff \/ UNCHANGED drvVars
  /\ Cleanup
  /\ UNCHANGED <<mapped, held>> /\ V4Rest

\* cleanup: munmap what was mapped, close
v4l2_cleanup ==
  /\ spc = "cleanup"
  /\ mapped' = {}
  /\ Goto("done")
  /\ streaming' = FALSE
  /\ UNCHANGED <<queued, filled, content, frameNo, held>> /\ V4Rest

V4Steps ==
  \/ v4l2_open \/ v4l2_format \/ v4l2_request \/ v4l2nb_request \/ v4l2_map \/ v4l2_queue
  \/ v4l2_dequeue \/ v4l2nb_poll \/ v4l2nb_drain \/ process_frame \/ v4l2_requeue
  \/ spc = "wait" /\ left = 0 /\ v4l2_leave
  \/ v4l2_streamoff \/ v4l2_cleanup

V4Next ==
  prog \in V4Programs /\ (V4Steps \/ Setup_fails \/ v4l2_leave \/ CameraRuns)

V4Fairness == WF_<<drvVars, scVars>>(prog \in V4Programs /\ V4Steps)

-----------------------------------------------------------------------------
\* The programs end, or wait for ever for a camera that has stopped: neither
\* can stop taking frames while one is ready or while the driver has no
\* buffer to put the next one in.
V4EndsOrStarves ==
  prog \in V4Programs =>
    \/ <>(spc \in {"done", "fail"})
    \/ <>[](spc = "wait" /\ filled = <<>> /\ queued # <<>>)

\* "Because fd is nonblocking, DQBUF returns EAGAIN when there are no more
\* completed buffers": draining takes the frames in the order the camera
\* delivered them and processes each exactly once, in the buffer it was
\* delivered in.
V4InOrder ==
  prog \in V4Programs =>
    /\ \A i \in 1..(Len(reads) - 1) : reads[i] < reads[i + 1]
    /\ spc = "requeue" => bigbuffer = reads[Len(reads)]
    /\ Len(reads) = V4Frames - left + (IF held = None THEN 0 ELSE 1)

=============================================================================
