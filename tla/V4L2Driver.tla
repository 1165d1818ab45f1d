----------------------------- MODULE V4L2Driver -----------------------------
(***************************************************************************)
(* The kernel side of V4L2 streaming with memory-mapped buffers, as the    *)
(* capture programs use it: the application queues empty buffers, the      *)
(* camera fills them in the order they were queued, and the application    *)
(* dequeues the filled ones.  A frame that finds no queued buffer is lost. *)
(***************************************************************************)
EXTENDS Naturals, Sequences, Functions

CONSTANT
  MaxFrames   \* bound: frames the camera delivers
ASSUME MaxFramesAssumption == MaxFrames \in Nat

VARIABLES
  streaming,   \* between VIDIOC_STREAMON and VIDIOC_STREAMOFF
  queued,      \* buffers waiting to be filled
  filled,      \* buffers waiting to be dequeued
  content,     \* the frame last written to each buffer
  frameNo      \* frames the camera has delivered

drvVars == <<streaming, queued, filled, content, frameNo>>

DrvInit ==
  /\ streaming = FALSE
  /\ queued = <<>>
  /\ filled = <<>>
  /\ content = <<>>
  /\ frameNo = 0

\* the next frame goes to the buffer that was queued first
Fill ==
  /\ streaming /\ queued # <<>> /\ frameNo < MaxFrames
  /\ frameNo' = frameNo + 1
  /\ content' = [content EXCEPT ![Head(queued)] = frameNo']
  /\ queued' = Tail(queued)
  /\ filled' = Append(filled, Head(queued))
  /\ UNCHANGED streaming

\* there is no buffer for the next frame
Lose ==
  /\ streaming /\ queued = <<>> /\ frameNo < MaxFrames
  /\ frameNo' = frameNo + 1
  /\ UNCHANGED <<streaming, queued, filled, content>>

\* VIDIOC_REQBUFS granted n buffers
RequestBuffers(n) ==
  /\ content' = [b \in 1..n |-> 0]
  /\ UNCHANGED <<streaming, queued, filled, frameNo>>

\* VIDIOC_QBUF accepts only a buffer the application holds
CanQueue(b) == b \notin Range(queued) \union Range(filled)

QueueBuffer(b) ==
  /\ queued' = Append(queued, b)
  /\ UNCHANGED <<streaming, filled, content, frameNo>>

DequeueBuffer ==
  /\ filled' = Tail(filled)
  /\ UNCHANGED <<streaming, queued, content, frameNo>>

StreamOn ==
  /\ streaming' = TRUE
  /\ UNCHANGED <<queued, filled, content, frameNo>>

\* VIDIOC_STREAMOFF takes every buffer off both queues
StreamOff ==
  /\ streaming' = FALSE
  /\ queued' = <<>> /\ filled' = <<>>
  /\ UNCHANGED <<content, frameNo>>

=============================================================================
