----------------------------- MODULE CaptureApp -----------------------------
(***************************************************************************)
(* What the stand-alone camera programs share: one process that opens the  *)
(* camera, obtains buffers, starts the stream, takes frames out and gives  *)
(* the buffers back, beside the driver of V4L2Driver.  SimpleCapture and   *)
(* SimpleV4l2 are the programs.  xioctl repeats a call interrupted by a    *)
(* signal, so no call of the model returns EINTR.                          *)
(***************************************************************************)
EXTENDS V4L2Driver, Integers, FiniteSets

CONSTANTS
  MaxBuffers,   \* bound: buffers a program asks for (4 or 6)
  MaxAgain      \* bound: reads that return EAGAIN, or an EIO that is ignored

\* A program asks for at least one buffer
ASSUME CaptureAppAssumption == MaxBuffers \in Nat \ {0} /\ MaxAgain \in Nat

VARIABLES
  prog,        \* the program that runs
  io,          \* enum io_method
  spc,
  mapped,      \* buffers the process has mapped or allocated
  held,        \* buf.index after VIDIOC_DQBUF
  left,        \* frames still to take
  framecnt,
  pixfmt,      \* fmt.fmt.pix.pixelformat
  bigbuffer,   \* the frame converted last
  reads,       \* every frame taken from the driver
  files,       \* tag of a dumped file -> the frame in it
  again

scVars == <<prog, io, spc, mapped, held, left, framecnt, pixfmt, bigbuffer, reads, files, again>>

None == 0
\* YUYV, which is converted; GREY and RGB24, which are not; and the rest
Formats == {"YUYV", "plain", "other"}

\* the camera delivers on its own
CameraRuns == (Fill \/ Lose) /\ UNCHANGED scVars

Goto(l) == spc' = l
Keep(vs) == UNCHANGED <<prog, io, pixfmt, vs>>

-----------------------------------------------------------------------------
\* init_read: one buffer of sizeimage bytes
init_read ==
  /\ io = "READ"
  /\ RequestBuffers(1)
  /\ mapped' = {1}
  /\ Goto("start")

\* init_mmap: the driver grants req.count buffers; fewer than two end the
\* program
init_mmap ==
  /\ io = "MMAP"
  /\ \E n \in 1..MaxBuffers :
       /\ RequestBuffers(n)
       /\ mapped' = IF n < 2 THEN {} ELSE 1..n
       /\ Goto(IF n < 2 THEN "fail" ELSE "start")

\* init_userp allocates its own number of buffers, whatever was granted
init_userp ==
  /\ io = "USERPTR"
  /\ \E n \in 1..MaxBuffers : RequestBuffers(n)
  /\ mapped' = 1..MaxBuffers
  /\ Goto("start")

\* start_capturing: VIDIOC_QBUF of the next buffer; the driver refuses an
\* index beyond those it granted
start_queue ==
  /\ spc = "start" /\ io # "READ"
  /\ Len(queued) < Cardinality(mapped)
  /\ LET b == Len(queued) + 1 IN
       IF b \in DOMAIN content THEN QueueBuffer(b) /\ UNCHANGED spc
                               ELSE Goto("fail") /\ UNCHANGED drvVars
  /\ Keep(<<mapped, held, left, framecnt, bigbuffer, reads, files, again>>)

\* ... and VIDIOC_STREAMON; with read() there is nothing to do
start_stream ==
  /\ spc = "start"
  /\ IF io = "READ" THEN UNCHANGED drvVars
                    ELSE Len(queued) = Cardinality(mapped) /\ StreamOn
  /\ Goto("select")
  /\ Keep(<<mapped, held, left, framecnt, bigbuffer, reads, files, again>>)

\* the device is readable
Ready == IF io = "READ" THEN frameNo < MaxFrames ELSE filled # <<>>

\* read() copies the next frame into buffers[0]
ReadCall ==
  /\ frameNo < MaxFrames
  /\ frameNo' = frameNo + 1
  /\ content' = [content EXCEPT ![1] = frameNo']
  /\ held' = 1
  /\ reads' = Append(reads, frameNo')
  /\ UNCHANGED <<streaming, queued, filled>>

\* VIDIOC_DQBUF
DequeueCall ==
  /\ filled # <<>>
  /\ DequeueBuffer
  /\ held' = Head(filled)
  /\ reads' = Append(reads, content[Head(filled)])

\* a frame is taken from the driver
FrameIn ==
  /\ spc = "read"
  /\ IF io = "READ" THEN ReadCall ELSE DequeueCall
  /\ Goto("process")
  /\ Keep(<<mapped, left, framecnt, bigbuffer, files, again>>)

\* VIDIOC_QBUF gives the buffer back
FrameOut ==
  /\ spc = "requeue"
  /\ IF io = "READ" THEN UNCHANGED drvVars ELSE CanQueue(held) /\ QueueBuffer(held)
  /\ held' = None
  /\ Goto("counted")
  /\ Keep(<<mapped, left, framecnt, bigbuffer, reads, files, again>>)

\* the process exits with an error; the kernel takes the stream down
Exit ==
  /\ Goto("fail")
  /\ streaming' = FALSE
  /\ UNCHANGED <<queued, filled, content, frameNo>>
  /\ Keep(<<mapped, held, left, framecnt, bigbuffer, reads, files, again>>)

-----------------------------------------------------------------------------
\* A frame is processed and written out only while the program holds its
\* buffer: the driver cannot fill it until VIDIOC_QBUF has given it back.
HeldAlone ==
  spc \in {"process", "dump"} /\ io # "READ" =>
    held \in mapped /\ CanQueue(held)

\* No buffer the program has freed is still with the driver: memory of the
\* process that the camera could write to is allocated (user pointers) as
\* long as the stream is on.
FilledWhileAllocated ==
  streaming /\ io = "USERPTR" =>
    (Range(queued) \union Range(filled)) \subseteq mapped

\* The camera never writes to memory the program uses for something else:
\* neither to a frame that is being processed nor to a buffer that was freed.
BuffersSafe == HeldAlone /\ FilledWhileAllocated

=============================================================================
