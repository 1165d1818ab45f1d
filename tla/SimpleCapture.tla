--------------------------- MODULE SimpleCapture ----------------------------
(***************************************************************************)
(* The four V4L2 capture programs: simple-capture, simple-capture-1800 and *)
(* its -syslog and -gprof versions.  They read frame_count frames with     *)
(* read(), memory-mapped buffers or user pointers (enum io_method), and    *)
(* dump each frame they keep to the file of its number.  The programs      *)
(* differ in the frames they keep.  fmt may come back from VIDIOC_S_FMT    *)
(* with another pixel format than the one asked for.                       *)
(***************************************************************************)
EXTENDS CaptureApp

CONSTANTS
  FrameCount   \* program -> frame_count (30, 189, 1810 in the code)

CapturePrograms == {"simple", "1800", "syslog", "gprof"}

\* frame_count is not negative
ASSUME FrameCountAssumption == FrameCount \in [CapturePrograms -> Nat]

\* int framecnt = -8 "always ignore first 8 frames"; 0 in simple-capture
FirstCnt(p) == IF p = "simple" THEN 0 ELSE -8

ScInit ==
  /\ prog \in CapturePrograms
  /\ io \in {"READ", "MMAP", "USERPTR"}     \* -r, -m, -u
  /\ spc = "open"
  /\ mapped = {} /\ held = None
  /\ left = FrameCount[prog]
  /\ framecnt = FirstCnt(prog)
  /\ pixfmt \in Formats
  /\ bigbuffer = None
  /\ reads = <<>> /\ files = <<>> /\ again = 0

open_device ==
  /\ spc = "open"
  /\ Goto("init")
  /\ UNCHANGED drvVars
  /\ Keep(<<mapped, held, left, framecnt, bigbuffer, reads, files, again>>)

init_device ==
  /\ spc = "init"
  /\ init_read \/ init_mmap \/ init_userp
  /\ Keep(<<held, left, framecnt, bigbuffer, reads, files, again>>)

start_capturing == start_queue \/ start_stream

-----------------------------------------------------------------------------
\* the frame is dumped as it is (in place) or from bigbuffer, or not at all
ConvertTo(keep) ==
  IF pixfmt = "YUYV"
  THEN /\ bigbuffer' = content[held]
       /\ Goto(IF keep THEN "dump" ELSE "requeue")
  ELSE /\ UNCHANGED bigbuffer
       /\ Goto(IF pixfmt = "other" THEN "requeue" ELSE "dump")

Counted ==
  /\ spc = "process"
  /\ framecnt' = framecnt + 1
  /\ UNCHANGED drvVars
  /\ Keep(<<mapped, held, left, reads, files, again>>)

process_image == Counted /\ ConvertTo(TRUE)

\* if(framecnt > -1), for the YUYV conversion only
process_image_1800 == Counted /\ ConvertTo(framecnt' > -1)

\* COLOR_CONVERT_RGB without DUMP_PPM: converted to RGB, then again to YY
process_image_syslog == Counted /\ ConvertTo(framecnt' > -1)

\* without DUMP_FRAMES the frame is only counted
process_image_gprof ==
  /\ Counted
  /\ Goto("requeue")
  /\ UNCHANGED bigbuffer

\* open(O_CREAT) and write: file number k now holds frame f
WriteFile(k, f) == files' = [x \in DOMAIN files \union {k} |-> IF x = k THEN f ELSE files[x]]

dump_tag_reused ==
  /\ spc = "dump"
  /\ WriteFile(framecnt % 4, IF pixfmt = "YUYV" THEN bigbuffer ELSE content[held])
  /\ Goto("requeue")
  /\ UNCHANGED drvVars
  /\ Keep(<<mapped, held, left, framecnt, bigbuffer, reads, again>>)

\* dump_pgm and dump_ppm write the file of this number
dump ==
  /\ spc = "dump"
  /\ WriteFile(framecnt, IF pixfmt = "YUYV" THEN bigbuffer ELSE content[held])
  /\ Goto("requeue")
  /\ UNCHANGED drvVars
  /\ Keep(<<mapped, held, left, framecnt, bigbuffer, reads, again>>)

\* open or write fails: total += -1 never reaches size
dump_spins ==
  /\ spc = "dump"
  /\ Goto("spin")
  /\ UNCHANGED drvVars
  /\ Keep(<<mapped, held, left, framecnt, bigbuffer, reads, files, again>>)

\* EAGAIN, and for mapped buffers EIO: read_frame returns 0
ReadsNothing ==
  /\ spc = "read" /\ again < MaxAgain
  /\ again' = again + 1
  /\ Goto("select")
  /\ UNCHANGED drvVars
  /\ Keep(<<mapped, held, left, framecnt, bigbuffer, reads, files>>)

ReadSteps == FrameIn \/ ReadsNothing \/ FrameOut

read_frame == ReadSteps \/ process_image \/ dump \/ dump_spins
read_frame_1800 == ReadSteps \/ process_image_1800 \/ dump \/ dump_spins
read_frame_syslog == ReadSteps \/ process_image_syslog \/ dump \/ dump_spins
read_frame_gprof == ReadSteps \/ process_image_gprof

-----------------------------------------------------------------------------
\* while(count > 0): select until the device is readable
Selects ==
  /\ spc = "select"
  /\ \/ left > 0 /\ Ready /\ Goto("read")
     \/ left = 0 /\ Goto("stop")
  /\ UNCHANGED drvVars
  /\ Keep(<<mapped, held, left, framecnt, bigbuffer, reads, files, again>>)

\* nanosleep(&read_delay), interrupted or not, and count--
SleepsAndCounts ==
  /\ spc = "counted"
  /\ left' = left - 1
  /\ Goto("select")
  /\ UNCHANGED drvVars
  /\ Keep(<<mapped, held, framecnt, bigbuffer, reads, files, again>>)

\* select timeout: exit(EXIT_FAILURE)
TimesOut == spc = "select" /\ left > 0 /\ ~Ready /\ Exit

mainloop == Selects \/ read_frame \/ SleepsAndCounts \/ TimesOut
mainloop_1800 == Selects \/ read_frame_1800 \/ SleepsAndCounts \/ TimesOut
mainloop_syslog == Selects \/ read_frame_syslog \/ SleepsAndCounts \/ TimesOut
mainloop_gprof == Selects \/ read_frame_gprof \/ SleepsAndCounts \/ TimesOut

stop_mmap_only ==
  /\ spc = "stop"
  /\ IF io = "MMAP" THEN StreamOff ELSE UNCHANGED drvVars
  /\ Goto("uninit")
  /\ Keep(<<mapped, held, left, framecnt, bigbuffer, reads, files, again>>)

stop_capturing ==
  /\ spc = "stop"
  /\ IF io = "READ" THEN UNCHANGED drvVars ELSE StreamOff
  /\ Goto("uninit")
  /\ Keep(<<mapped, held, left, framecnt, bigbuffer, reads, files, again>>)

uninit_device ==
  /\ spc = "uninit"
  /\ mapped' = {}
  /\ Goto("close")
  /\ UNCHANGED drvVars
  /\ Keep(<<held, left, framecnt, bigbuffer, reads, files, again>>)

close_device ==
  /\ spc = "close"
  /\ Goto("done")
  /\ UNCHANGED drvVars
  /\ Keep(<<mapped, held, left, framecnt, bigbuffer, reads, files, again>>)

\* errno_exit: a call fails for good
errno_exit ==
  /\ spc \in {"open", "init", "start", "read", "requeue", "stop", "uninit", "close"}
  /\ Exit

Setup == open_device \/ init_device \/ start_capturing
Shutdowns == stop_capturing \/ uninit_device \/ close_device

main_simple == prog = "simple" /\ (Setup \/ mainloop \/ Shutdowns)
main_1800 == prog = "1800" /\ (Setup \/ mainloop_1800 \/ Shutdowns)
main_syslog == prog = "syslog" /\ (Setup \/ mainloop_syslog \/ Shutdowns)
main_gprof == prog = "gprof" /\ (Setup \/ mainloop_gprof \/ Shutdowns)

Capturing == main_simple \/ main_1800 \/ main_syslog \/ main_gprof
ScNext ==
  prog \in CapturePrograms /\ (Capturing \/ errno_exit \/ CameraRuns)

(***************************************************************************)
(* The process runs whenever it can, and select does not wait for ever.    *)
(***************************************************************************)
ScFairness ==
  WF_<<drvVars, scVars>>(Capturing)

-----------------------------------------------------------------------------
\* Each file holds the frame of its number: the file of frame k holds the
\* frame that was the k-th read after the warm-up, and no file of a frame
\* read in between is missing, whichever way the frames are obtained.  A
\* program that ends normally has read frame_count frames, each newer than
\* the one before: a read that returned nothing is repeated, not counted.
FilesExact ==
  LET tags == DOMAIN files IN
  /\ \A k \in tags :
       /\ k - FirstCnt(prog) \in DOMAIN reads /\ files[k] = reads[k - FirstCnt(prog)]
       /\ spc \in {"done", "select"} => \A j \in k..framecnt : j \in tags
  /\ prog \in CapturePrograms =>
       /\ \A i \in 1..(Len(reads) - 1) : reads[i] < reads[i + 1]
       /\ spc = "done" => Len(reads) = FrameCount[prog]

\* Every program ends, whatever the camera does, unless the write of a dump
\* fails: then dump_pgm and dump_ppm never leave their loop.
CaptureEnds == prog \in CapturePrograms => <>(spc \in {"done", "fail", "spin"})

\* "always ignore first 8 frames" (capture.c of the 1800 programs): none of
\* the first eight frames read is written to a file, at least in the pixel
\* format the programs ask for.
First8Ignored ==
  prog # "simple" /\ pixfmt = "YUYV" =>
    \A i \in 1..Len(reads) : i <= 8 => reads[i] \notin Range(files)

=============================================================================
