----------------------------- MODULE MCCapture ------------------------------
(***************************************************************************)
(* The camera programs, one at a time: app chooses the program that runs.  *)
(* The variables of the others keep their initial values.                  *)
(***************************************************************************)
EXTENDS CaptureLoop, SimpleCapture, SimpleV4l2

VARIABLE app

allVars == <<app, vars, scVars>>

\* the frames each capture program reads: past the warm-up of eight frames
MCFrameCount == [p \in CapturePrograms |-> IF p = "simple" THEN 3 ELSE 9]

\* no stand-alone program runs
Idle ==
  /\ prog = "none" /\ io = "MMAP" /\ spc = "open"
  /\ mapped = {} /\ held = None /\ left = 0 /\ framecnt = 0
  /\ pixfmt = "YUYV" /\ bigbuffer = None
  /\ reads = <<>> /\ files = <<>> /\ again = 0

MCInit ==
  /\ Init
  /\ \/ app = "capturelib" /\ Idle
     \/ app = "simple" /\ ScInit
     \/ app = "v4l2" /\ V4Init

MCNext ==
  \/ app = "capturelib" /\ Next /\ UNCHANGED <<app, scVars>>
  \/ app = "simple" /\ ScNext /\ UNCHANGED <<app, pc, appVars>>
  \/ app = "v4l2" /\ V4Next /\ UNCHANGED <<app, pc, appVars>>

MCSpec ==
  /\ MCInit /\ [][MCNext]_allVars
  /\ WF_vars(app = "capturelib" /\ Program)
  /\ WF_vars(app = "capturelib" /\ SelectTimeout)
  /\ ScFairness /\ V4Fairness

\* The stand-alone programs take each frame once and in order, and file it
\* under its number.
FramesInOrder == FilesExact /\ V4InOrder

\* Every camera program comes to its end, whatever the camera does.  Two
\* exceptions: the dump of a capture program whose write fails repeats it for
\* ever, and the minimal programs wait for a camera that has stopped.
CaptureProgramsEnd == (app = "capturelib" => Ends) /\ CaptureEnds /\ V4EndsOrStarves

=============================================================================
