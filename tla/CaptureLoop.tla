---------------------------- MODULE CaptureLoop -----------------------------
(***************************************************************************)
(* v4l2_frame_acquisition_loop of sequencer_generic/capturelib.c: open and *)
(* initialise the camera, acquire FRAMES_TO_ACQUIRE frames through the     *)
(* ring buffer, and shut down.  One thread; the driver runs beside it.     *)
(* Every failing call but select with EINTR, VIDIOC_DQBUF with EAGAIN or   *)
(* EIO, and nanosleep ends the process.  read_framecnt starts at           *)
(* -STARTUP_FRAMES and frames are saved once it exceeds 1.                 *)
(***************************************************************************)
EXTENDS V4L2Driver, Integers

CONSTANTS
  STARTUP_FRAMES, LAST_FRAMES, CAPTURE_FRAMES,
  DRIVER_MMAP_BUFFERS,   \* buffers requested
  MaxErrors              \* bound: reads that fail and sleeps that are interrupted

FRAMES_TO_ACQUIRE == CAPTURE_FRAMES + STARTUP_FRAMES + LAST_FRAMES
ring_size == 3
NoBuffer == 0

ASSUME CaptureAssumption ==
  /\ STARTUP_FRAMES \in Nat /\ CAPTURE_FRAMES \in Nat
  /\ LAST_FRAMES = 1
  /\ DRIVER_MMAP_BUFFERS \in Nat /\ MaxErrors \in Nat

VARIABLES
  pc,
  n_buffers,       \* buffers mapped, or queued so far by start_capturing
  frame_buf,       \* the buffer the application holds
  count,           \* frames still to acquire
  read_framecnt, save_framecnt,
  slot, tail_idx, head_idx, ringCount,   \* ring_buffer
  scratch,         \* the frame in scratchpad_buffer
  saved,           \* the frames written to files, in order
  errors,          \* reads that failed
  sleepErrors      \* nanosleeps that were interrupted

ringVars == <<slot, tail_idx, head_idx, ringCount>>
cntVars == <<count, read_framecnt, save_framecnt>>
appVars == <<n_buffers, frame_buf, cntVars, ringVars, scratch, saved, errors, sleepErrors>>
vars == <<drvVars, pc, appVars>>

Pcs == {"open", "init", "queue", "streamon", "select", "read", "sleep", "copy",
        "process", "save", "advance", "requeue", "stop", "uninit", "done", "fail"}

TypeOK ==
  /\ streaming \in BOOLEAN
  /\ queued \in Seq(1..DRIVER_MMAP_BUFFERS) /\ filled \in Seq(1..DRIVER_MMAP_BUFFERS)
  /\ frameNo \in 0..MaxFrames
  /\ pc \in Pcs
  /\ n_buffers \in 0..DRIVER_MMAP_BUFFERS
  /\ frame_buf \in 0..DRIVER_MMAP_BUFFERS
  /\ count \in 0..FRAMES_TO_ACQUIRE
  /\ read_framecnt \in -STARTUP_FRAMES..FRAMES_TO_ACQUIRE
  /\ save_framecnt \in 0..FRAMES_TO_ACQUIRE
  /\ slot \in [0..(ring_size - 1) -> 0..MaxFrames]
  /\ {tail_idx, head_idx} \subseteq 0..(ring_size - 1)
  /\ ringCount \in 0..ring_size
  /\ scratch \in 0..MaxFrames
  /\ saved \in Seq(1..MaxFrames)
  /\ errors \in 0..MaxErrors /\ sleepErrors \in 0..MaxErrors

Init ==
  /\ DrvInit
  /\ pc = "open"
  /\ n_buffers = 0 /\ frame_buf = NoBuffer
  /\ count = FRAMES_TO_ACQUIRE
  /\ read_framecnt = -STARTUP_FRAMES /\ save_framecnt = 0
  /\ slot = [i \in 0..(ring_size - 1) |-> 0]
  /\ tail_idx = 0 /\ head_idx = 0 /\ ringCount = 0
  /\ scratch = 0 /\ saved = <<>>
  /\ errors = 0 /\ sleepErrors = 0

Camera == (Fill \/ Lose) /\ UNCHANGED <<pc, appVars>>

-----------------------------------------------------------------------------
\* stat and open of the device
Open ==
  /\ pc = "open"
  /\ pc' = "init"
  /\ UNCHANGED <<drvVars, appVars>>

\* init_device and init_mmap: the driver may grant fewer buffers than asked
\* for; with fewer than two the program gives up
InitDevice ==
  /\ pc = "init"
  /\ \E n \in 1..DRIVER_MMAP_BUFFERS :
       /\ RequestBuffers(n)
       /\ pc' = IF n < 2 THEN "fail" ELSE "queue"
  /\ UNCHANGED appVars

\* start_capturing queues every buffer ...
StartQueue ==
  /\ pc = "queue"
  /\ QueueBuffer(n_buffers + 1)
  /\ n_buffers' = n_buffers + 1
  /\ pc' = IF n_buffers' = Len(content) THEN "streamon" ELSE "queue"
  /\ UNCHANGED <<frame_buf, cntVars, ringVars, scratch, saved, errors, sleepErrors>>

\* ... and turns streaming on
StartStream ==
  /\ pc = "streamon"
  /\ StreamOn
  /\ pc' = "select"
  /\ UNCHANGED appVars

\* while(count > 0): select waits for a filled buffer
Select ==
  /\ pc = "select"
  /\ \/ count > 0 /\ filled # <<>> /\ pc' = "read"
     \/ count = 0 /\ pc' = "stop"
  /\ UNCHANGED <<drvVars, appVars>>

\* read_frame dequeues the first filled buffer
ReadFrame ==
  /\ pc = "read" /\ filled # <<>>
  /\ frame_buf' = Head(filled)
  /\ DequeueBuffer
  /\ read_framecnt' = read_framecnt + 1
  /\ pc' = "sleep"
  /\ UNCHANGED <<n_buffers, count, save_framecnt, ringVars, scratch, saved, errors, sleepErrors>>

\* VIDIOC_DQBUF fails with EAGAIN or EIO: back to select
ReadAgain ==
  /\ pc = "read" /\ errors < MaxErrors
  /\ errors' = errors + 1
  /\ pc' = "select"
  /\ UNCHANGED <<drvVars, n_buffers, frame_buf, cntVars, ringVars, scratch, saved, sleepErrors>>

SleepSavesEarly ==
  /\ pc = "sleep"
  /\ pc' = IF read_framecnt > 0 THEN "copy" ELSE "requeue"
  /\ UNCHANGED <<drvVars, appVars>>

\* nanosleep(&read_delay) completes: the frame is used once the camera has
\* settled
Sleep ==
  /\ pc = "sleep"
  /\ pc' = IF read_framecnt > 1 THEN "copy" ELSE "requeue"
  /\ UNCHANGED <<drvVars, appVars>>

\* nanosleep fails: perror, and the frame is not used
SleepInterrupted ==
  /\ pc = "sleep" /\ sleepErrors < MaxErrors
  /\ sleepErrors' = sleepErrors + 1
  /\ pc' = "requeue"
  /\ UNCHANGED <<drvVars, n_buffers, frame_buf, cntVars, ringVars, scratch, saved, errors>>

CopyNoWrap ==
  /\ pc = "copy"
  /\ slot' = [slot EXCEPT ![tail_idx] = content[frame_buf]]
  /\ tail_idx' = tail_idx + 1
  /\ ringCount' = ringCount + 1
  /\ pc' = "process"
  /\ UNCHANGED <<drvVars, n_buffers, frame_buf, cntVars, head_idx, scratch, saved,
                 errors, sleepErrors>>

\* memcpy into the ring
Copy ==
  /\ pc = "copy"
  /\ slot' = [slot EXCEPT ![tail_idx] = content[frame_buf]]
  /\ tail_idx' = (tail_idx + 1) % ring_size
  /\ ringCount' = ringCount + 1
  /\ pc' = "process"
  /\ UNCHANGED <<drvVars, n_buffers, frame_buf, cntVars, head_idx, scratch, saved,
                 errors, sleepErrors>>

\* process_image, twice, from the head of the ring
Process ==
  /\ pc = "process"
  /\ scratch' = slot[head_idx]
  /\ pc' = "save"
  /\ UNCHANGED <<drvVars, n_buffers, frame_buf, cntVars, ringVars, saved, errors, sleepErrors>>

\* save_image writes the scratchpad to the next file
Save ==
  /\ pc = "save"
  /\ save_framecnt' = save_framecnt + 1
  /\ saved' = Append(saved, scratch)
  /\ pc' = "advance"
  /\ UNCHANGED <<drvVars, n_buffers, frame_buf, count, read_framecnt, ringVars, scratch,
                 errors, sleepErrors>>

\* advance ring buffer for next write
Advance ==
  /\ pc = "advance"
  /\ head_idx' = (head_idx + 1) % ring_size
  /\ ringCount' = ringCount - 1
  /\ pc' = "requeue"
  /\ UNCHANGED <<drvVars, n_buffers, frame_buf, cntVars, slot, tail_idx, scratch, saved,
                 errors, sleepErrors>>

RequeueTwice ==
  /\ pc = "requeue"
  /\ queued' = queued \o <<frame_buf, frame_buf>>
  /\ UNCHANGED <<streaming, filled, content, frameNo>>
  /\ frame_buf' = NoBuffer
  /\ count' = count - 1
  /\ pc' = "select"
  /\ UNCHANGED <<n_buffers, read_framecnt, save_framecnt, ringVars, scratch, saved,
                 errors, sleepErrors>>

\* VIDIOC_QBUF gives the buffer back; count--
Requeue ==
  /\ pc = "requeue"
  /\ IF CanQueue(frame_buf) THEN QueueBuffer(frame_buf) ELSE UNCHANGED drvVars
  /\ frame_buf' = NoBuffer
  /\ count' = count - 1
  /\ pc' = IF CanQueue(frame_buf) THEN "select" ELSE "fail"
  /\ UNCHANGED <<n_buffers, read_framecnt, save_framecnt, ringVars, scratch, saved,
                 errors, sleepErrors>>

\* stop_capturing, uninit_device and close_device
Stop ==
  /\ pc = "stop"
  /\ StreamOff
  /\ pc' = "uninit"
  /\ UNCHANGED appVars

Uninit ==
  /\ pc = "uninit"
  /\ pc' = "done"
  /\ n_buffers' = 0
  /\ UNCHANGED <<drvVars, frame_buf, cntVars, ringVars, scratch, saved, errors, sleepErrors>>

\* errno_exit, the select timeout and the other exits of the program
Fails ==
  /\ pc \in {"open", "init", "queue", "streamon", "select", "read", "requeue", "stop", "uninit"}
  /\ pc' = "fail"
  /\ UNCHANGED <<drvVars, appVars>>

Program ==
  \/ Open \/ InitDevice \/ StartQueue \/ StartStream
  \/ Select \/ ReadFrame \/ ReadAgain \/ Sleep \/ SleepInterrupted
  \/ Copy \/ Process \/ Save \/ Advance \/ Requeue
  \/ Stop \/ Uninit

\* select gives up after two seconds without a frame
SelectTimeout == pc = "select" /\ count > 0 /\ filled = <<>> /\ Fails

Next == Camera \/ Program \/ Fails

(***************************************************************************)
(* The program runs whenever it can, and select does not wait for ever.    *)
(* Nothing is assumed of the camera.                                       *)
(***************************************************************************)
Fairness == WF_vars(Program) /\ WF_vars(SelectTimeout)

Spec == Init /\ [][Next]_vars /\ Fairness

-----------------------------------------------------------------------------
\* While the camera streams, every mapped buffer is in exactly one place:
\* waiting to be filled, waiting to be dequeued, or held by the program.
BuffersPartitioned ==
  streaming =>
    /\ IsInjective(queued) /\ IsInjective(filled)
    /\ Range(queued) \intersect Range(filled) = {}
    /\ frame_buf \notin Range(queued) \union Range(filled)
    /\ 1..n_buffers \subseteq Range(queued) \union Range(filled) \union {frame_buf}

\* The file written in an iteration holds the frame dequeued in the same
\* iteration, so the ring mixes no frames up and files hold ever newer ones.
\* The startup frames are skipped and exactly CAPTURE_FRAMES files result,
\* less one for each sleep that was interrupted, though the loop counts its
\* reads from -STARTUP_FRAMES and saves only when the count exceeds 1.
CapturesExactly ==
  /\ pc = "save" => scratch = content[frame_buf]
  /\ \A i \in 1..(Len(saved) - 1) : saved[i] < saved[i + 1]
  /\ Len(saved) = save_framecnt
  /\ saved # <<>> => Head(saved) > STARTUP_FRAMES
  /\ save_framecnt <= CAPTURE_FRAMES
  /\ pc = "done" => save_framecnt + sleepErrors >= CAPTURE_FRAMES

\* The program ends, whatever the camera does.
Ends == <>(pc \in {"done", "fail"})

=============================================================================
