------------------------------- MODULE Btvid -------------------------------
(***************************************************************************)
(* The Bt878 capture driver at work: the shell commands, the interrupt     *)
(* handler, the task tBtvid and the chip's DMA engine, in both revisions   *)
(* (btvid.c, btvid3.c).  The engine fills a frame buffer in two steps, the *)
(* odd and the even field; a buffer is "old" (nothing in it since the      *)
(* activation), "part" (a frame was begun in it) or "whole".               *)
(***************************************************************************)
EXTENDS Naturals, FiniteSets

CONSTANT BtMaxAcq   \* bound on frames counted between two resets
ASSUME BtMaxAcqAssumption == BtMaxAcq \in Nat

BtModes == {"320x240", "other", "test"}   \* 320x240 in colour or grayscale

VARIABLES
    bt_rev,      \* "btvid" or "btvid3"
    bt_task,     \* tBtvid: none, spawned, wait, copy, call
    bt_sem,      \* frameRdy: nil, empty, full, deleted
    bt_ctl,      \* DMA_CTL_REG: subset of {"fifo", "dma"}
    bt_mode,     \* mode of the last activation
    bt_acqtype,  \* acq_type
    bt_conn,     \* the handler is connected and the IRQ enabled
    bt_status,   \* INT_STATUS_REG: subset of {"RISCI", "ERR"}
    bt_frame, bt_field,            \* where the engine is
    bt_buf,      \* frame_buffer (y8_frame_buffer in the grayscale mode)
    bt_cur,      \* current_frame
    bt_acq, bt_rdy,                \* frame_acq_cnt, frame_rdy_cnt
    bt_src, bt_torn,               \* the buffer being copied; the copy is mixed
    bt_reset,    \* full_reset is between taskDelete and its end
    bt_sync,     \* history: the last start found current_frame in step
    bt_stale,    \* history: no frame was counted since the last start
    bt_late,     \* history: a frame ended or a restart came during this copy
    bt_lost      \* history: a started driver's interrupt found no semaphore

btvars == <<bt_rev, bt_task, bt_sem, bt_ctl, bt_mode,
            bt_acqtype, bt_conn, bt_status, bt_frame, bt_field,
            bt_buf, bt_cur, bt_acq, bt_rdy, bt_src, bt_torn, bt_reset,
            bt_sync, bt_stale, bt_late, bt_lost>>

btChip == <<bt_ctl, bt_mode, bt_acqtype, bt_conn, bt_status>>
btEngine == <<bt_frame, bt_field, bt_buf>>
btTask == <<bt_task, bt_rdy, bt_src, bt_torn>>

BtInit ==
    /\ bt_rev \in {"btvid", "btvid3"}
    /\ bt_task = "none" /\ bt_sem = "nil"
    /\ bt_ctl = {} /\ bt_mode = "320x240" /\ bt_acqtype = "none"
    /\ bt_conn = FALSE /\ bt_status = {}
    /\ bt_frame = 0 /\ bt_field = "odd"
    /\ bt_buf = [f \in {0, 1} |-> "old"]
    /\ bt_cur = 1
    /\ bt_acq = 0 /\ bt_rdy = 0
    /\ bt_src = 0 /\ bt_torn = FALSE
    /\ bt_reset = FALSE
    /\ bt_sync = TRUE /\ bt_stale = TRUE /\ bt_late = FALSE /\ bt_lost = FALSE

BtRunning == bt_ctl = {"fifo", "dma"}

---------------------------------------------------------------------------
(* start_video of btvid.c only spawns the task, which creates the          *)
(* semaphore and configures the chips when it first runs.                  *)
BtStartVideo ==
    /\ bt_rev = "btvid" /\ bt_task = "none" /\ ~bt_reset
    /\ bt_task' = "spawned"
    /\ UNCHANGED <<bt_sem, bt_rev, btChip, btEngine, bt_cur, bt_acq, bt_rdy,
                   bt_src, bt_torn, bt_reset, bt_sync, bt_late,
                   bt_stale, bt_lost>>

BtDrvrInit ==
    /\ bt_task = "spawned"
    /\ bt_sem' = "empty"
    /\ bt_task' = "wait"
    /\ UNCHANGED <<bt_rev, btChip, btEngine, bt_cur, bt_acq, bt_rdy,
                   bt_src, bt_torn, bt_reset, bt_sync, bt_late,
                   bt_stale, bt_lost>>

(* start_video of btvid3.c does all of it before it spawns the task;       *)
(* start_video_report then sets the client's callback.                     *)
BtStartVideo3 ==
    /\ bt_rev = "btvid3" /\ bt_task = "none" /\ ~bt_reset
    /\ bt_sem' = "empty"
    /\ bt_task' = "wait"
    /\ UNCHANGED <<bt_rev, btChip, btEngine, bt_cur, bt_acq, bt_rdy, bt_src,
                   bt_torn, bt_reset, bt_sync, bt_late,
                   bt_stale, bt_lost>>

(* Setting the DMA bit restarts the engine at the start of its program.    *)
BtSetCtl(ctl) ==
    /\ bt_ctl' = ctl
    /\ IF "dma" \in ctl \ bt_ctl
       THEN /\ bt_frame' = 0 /\ bt_field' = "odd"
            /\ bt_sync' = (bt_cur = 1 /\ "RISCI" \notin bt_status)
            /\ bt_stale' = TRUE
            /\ bt_late' = (bt_late \/ bt_task # "wait")
       ELSE UNCHANGED <<bt_frame, bt_field, bt_sync, bt_stale, bt_late>>

(* activate and activate_test: after start_video, engine stopped.          *)
BtActivate(mode) ==
    /\ bt_task # "none" /\ ~bt_reset /\ bt_ctl = {}
    /\ bt_conn' = TRUE
    /\ bt_mode' = mode
    /\ bt_acqtype' = IF mode = "other" THEN bt_acqtype ELSE "320x240"
    /\ bt_buf' = [f \in {0, 1} |-> "old"]
    /\ BtSetCtl({"fifo", "dma"})
    /\ UNCHANGED <<bt_status, bt_sem, btTask, bt_rev, bt_cur,
                   bt_acq, bt_reset, bt_lost>>

(* halt_acq, start_acq, toggle_dma and toggle_fifo from the shell.         *)
BtShellCtl ==
    /\ bt_conn /\ ~bt_reset /\ bt_task # "none"
    /\ \E ctl \in {{}, {"fifo", "dma"}, bt_ctl \cup {"dma"}, bt_ctl \ {"dma"},
                   bt_ctl \cup {"fifo"}, bt_ctl \ {"fifo"}} :
            ctl # bt_ctl /\ BtSetCtl(ctl)
    /\ UNCHANGED <<bt_mode, bt_acqtype, bt_conn, bt_status, bt_buf,
                   bt_sem, btTask, bt_rev, bt_cur, bt_acq, bt_reset, bt_lost>>

(* full_reset: halt_acq and taskDelete, then the counters, the semaphore   *)
(* and the status registers.  current_frame keeps its value.               *)
BtFullResetStop ==
    /\ bt_task \notin {"none", "spawned"} /\ ~bt_reset
    /\ bt_ctl' = {}
    /\ bt_task' = "none"
    /\ bt_src' = 0 /\ bt_torn' = FALSE
    /\ bt_reset' = TRUE
    /\ UNCHANGED <<bt_sem, bt_rev, bt_mode, bt_acqtype, bt_conn, bt_status,
                   btEngine, bt_cur, bt_acq, bt_rdy, bt_sync,
                   bt_late,
                   bt_stale, bt_lost>>

(* reset_status writes ones to every status bit, an unserved frame         *)
(* interrupt included.                                                     *)
BtClearStatus ==
    /\ bt_status' = {}
    /\ bt_sync' = (bt_sync /\ "RISCI" \notin bt_status)

BtResetStatus ==
    /\ bt_conn /\ ~bt_reset /\ bt_task # "none" /\ bt_status # {}
    /\ BtClearStatus
    /\ UNCHANGED <<bt_ctl, bt_mode, bt_acqtype, bt_conn, btEngine, bt_sem,
                   btTask, bt_rev, bt_cur, bt_acq, bt_reset, bt_late,
                   bt_stale, bt_lost>>

BtFullResetKeepsSem ==
    /\ bt_reset
    /\ bt_acq' = 0 /\ bt_rdy' = 0
    /\ bt_sem' = bt_sem
    /\ BtClearStatus
    /\ bt_reset' = FALSE
    /\ UNCHANGED <<bt_rev, bt_ctl, bt_mode, bt_acqtype, bt_conn, btEngine,
                   bt_cur, bt_task, bt_src, bt_torn, bt_late,
                   bt_stale, bt_lost>>

BtFullResetEnd ==
    /\ bt_reset
    /\ bt_acq' = 0 /\ bt_rdy' = 0
    /\ bt_sem' = "deleted"
    /\ BtClearStatus
    /\ bt_reset' = FALSE
    /\ UNCHANGED <<bt_rev, bt_ctl, bt_mode, bt_acqtype, bt_conn, btEngine,
                   bt_cur, bt_task, bt_src, bt_torn, bt_late,
                   bt_stale, bt_lost>>

---------------------------------------------------------------------------
(* The engine writes the next field of its frame.  After the second it     *)
(* raises RISCI and goes on with the other buffer.  The handler is assumed *)
(* to answer a frame's interrupt before the next frame ends.  The modes    *)
(* 80x60 and 640x480 run into an illegal word instead (BtMicrocode).       *)
BtDma ==
    /\ BtRunning /\ bt_mode # "other"
    /\ bt_buf' = IF bt_mode = "test" THEN bt_buf
                 ELSE [bt_buf EXCEPT ![bt_frame] =
                         IF bt_field = "odd" THEN "part" ELSE "whole"]
    /\ bt_torn' = (bt_torn \/ (bt_task = "copy" /\ bt_src = bt_frame))
    /\ IF bt_field = "odd"
       THEN /\ bt_field' = "even"
            /\ UNCHANGED <<bt_frame, bt_status, bt_late>>
       ELSE /\ "RISCI" \notin bt_status /\ bt_acq < BtMaxAcq
            /\ bt_field' = "odd"
            /\ bt_frame' = 1 - bt_frame
            /\ bt_status' = bt_status \cup {"RISCI"}
            /\ bt_late' = (bt_late \/ bt_task # "wait")
    /\ UNCHANGED <<bt_ctl, bt_mode, bt_acqtype, bt_conn, bt_sem, bt_task,
                   bt_rdy, bt_src, bt_rev, bt_cur, bt_acq, bt_reset, bt_sync,
                   bt_stale, bt_lost>>

(* SCERR, OCERR, a bus or FIFO error: reported, and the engine may stop.   *)
BtError ==
    /\ BtRunning /\ "ERR" \notin bt_status
    /\ bt_status' = bt_status \cup {"ERR"}
    /\ \E stop \in BOOLEAN : bt_ctl' = IF stop THEN bt_ctl \ {"dma"} ELSE bt_ctl
    /\ UNCHANGED <<bt_mode, bt_acqtype, bt_conn, btEngine, bt_sem, btTask,
                   bt_rev, bt_cur, bt_acq, bt_reset, bt_sync, bt_late,
                   bt_stale, bt_lost>>

(* pci_inta_isr.  An error restarts the acquisition, and a frame interrupt *)
(* reported with it is dropped.                                            *)
pci_inta_isr ==
    /\ bt_conn /\ bt_status # {}
    /\ bt_status' = {}
    /\ IF "ERR" \in bt_status
       THEN /\ bt_ctl' = {"fifo", "dma"}
            /\ bt_frame' = 0 /\ bt_field' = "odd"
            /\ bt_sync' = (bt_cur = 1)
            /\ bt_stale' = TRUE
            /\ bt_late' = (bt_late \/ bt_task # "wait")
            /\ UNCHANGED <<bt_acq, bt_cur, bt_sem, bt_lost>>
       ELSE /\ bt_acq' = bt_acq + 1
            /\ bt_stale' = FALSE
            /\ bt_cur' = 1 - bt_cur
            /\ bt_sem' = IF bt_sem \in {"nil", "deleted"} THEN bt_sem ELSE "full"
            /\ bt_lost' = \/ bt_lost
                          \/ bt_task # "none" /\ bt_sem \in {"nil", "deleted"}
            /\ UNCHANGED <<bt_ctl, bt_frame, bt_field, bt_sync, bt_late>>
    /\ UNCHANGED <<bt_mode, bt_acqtype, bt_conn, bt_buf, btTask,
                   bt_rev, bt_reset>>

---------------------------------------------------------------------------
BtTakeOther ==
    /\ bt_task = "wait" /\ bt_sem = "full"
    /\ bt_sem' = "empty"
    /\ bt_rdy' = bt_rdy + 1
    /\ bt_src' = 1 - bt_cur
    /\ bt_torn' = (bt_buf[1 - bt_cur] # "whole")
    /\ bt_task' = IF bt_acqtype = "none" THEN "call" ELSE "copy"
    /\ bt_late' = (bt_stale \/ "RISCI" \in bt_status)
    /\ UNCHANGED <<bt_rev, btChip, btEngine, bt_cur, bt_acq, bt_reset, bt_sync,
                   bt_stale, bt_lost>>

(* The main loop of btvid_drvr: take the semaphore and pick the buffer;    *)
(* bcopy runs until BtCopied.                                              *)
BtTake ==
    /\ bt_task = "wait" /\ bt_sem = "full"
    /\ bt_sem' = "empty"
    /\ bt_rdy' = bt_rdy + 1
    /\ bt_src' = bt_cur
    /\ bt_torn' = (bt_buf[bt_cur] # "whole")
    /\ bt_task' = IF bt_acqtype = "none" THEN "call" ELSE "copy"
    /\ bt_late' = (bt_stale \/ "RISCI" \in bt_status)
    /\ UNCHANGED <<bt_rev, btChip, btEngine, bt_cur, bt_acq, bt_reset, bt_sync,
                   bt_stale, bt_lost>>

BtCopied ==
    /\ bt_task = "copy"
    /\ bt_task' = "call"
    /\ UNCHANGED <<bt_sem, bt_rdy, bt_src, bt_torn, bt_rev, btChip, btEngine,
                   bt_cur, bt_acq, bt_reset, bt_sync, bt_late, bt_stale, bt_lost>>

(* The rest of the loop (the client is called with the buffer that         *)
(* current_frame names by then).                                           *)
BtCallback ==
    /\ bt_task = "call"
    /\ bt_task' = "wait"
    /\ bt_src' = 0 /\ bt_torn' = FALSE
    /\ bt_late' = FALSE
    /\ UNCHANGED <<bt_sem, bt_rdy, bt_rev, btChip, btEngine, bt_cur, bt_acq,
                   bt_reset, bt_sync, bt_stale, bt_lost>>

BtNext ==
    \/ BtStartVideo \/ BtStartVideo3 \/ BtDrvrInit \/ BtShellCtl
    \/ \E mode \in BtModes : BtActivate(mode)
    \/ BtResetStatus \/ BtFullResetStop \/ BtFullResetEnd
    \/ BtDma \/ BtError \/ pci_inta_isr
    \/ BtTake \/ BtCopied \/ BtCallback

BtSpec == BtInit /\ [][BtNext]_btvars

(* The kernel runs the handler when an interrupt is pending and the task,  *)
(* at priority 10 the highest of the driver, when it is ready.             *)
BtFairness ==
    /\ WF_btvars(pci_inta_isr)
    /\ WF_btvars(BtDrvrInit) /\ WF_btvars(BtTake)
    /\ WF_btvars(BtCopied) /\ WF_btvars(BtCallback)

---------------------------------------------------------------------------
(* While the acquisition is in step (it was started with current_frame 1   *)
(* and no interrupt outstanding), current_frame names the buffer that the  *)
(* engine is not writing, from one run of pci_inta_isr to the next frame   *)
(* end.  A restart in the handler's error branch or after full_reset may   *)
(* begin out of step, since neither sets current_frame back, and           *)
(* reset_status loses the step when it clears an unserved frame interrupt. *)
BtPhase ==
    bt_sync /\ BtRunning /\ "ERR" \notin bt_status =>
        (bt_cur = bt_frame <=> "RISCI" \in bt_status)

(* A copy made in step, which ends before the next frame does, leaves one  *)
(* whole frame in save_buffer (neither field rewritten under the copy, nor *)
(* left from before the activation), and the client is called with the     *)
(* buffer that was copied.                                                 *)
BtCopyWhole ==
    /\ bt_task = "call" /\ bt_sync /\ ~bt_late
    /\ BtRunning /\ bt_mode = bt_acqtype
    => bt_src = bt_cur /\ ~bt_torn

(* tBtvid never takes more frames than the handler counted, and a given    *)
(* but untaken semaphore is one of those: frame_rdy_cnt <= frame_acq_cnt   *)
(* through resets that run while an interrupt is pending.                  *)
BtTakesCounted ==
    bt_rdy + (IF bt_sem = "full" THEN 1 ELSE 0) <= bt_acq

(* In btvid3.c no frame interrupt finds the semaphore missing, however     *)
(* early activate is called: start_video made it before it spawned the     *)
(* task.  (In btvid.c the task makes it, and activate can come first.)     *)
BtGiveReachesTask == bt_rev = "btvid3" => ~bt_lost

(* A frame that ends while tBtvid waits on the semaphore is handed to it,  *)
(* unless an error interrupt restarts the engine, full_reset deletes the   *)
(* task, or reset_status clears the unserved interrupt (which takes the    *)
(* acquisition out of step).                                               *)
BtFrameServed ==
    ("RISCI" \in bt_status /\ bt_conn /\ bt_task = "wait")
        ~> (bt_task # "wait" \/ "ERR" \in bt_status \/ ~bt_sync)

(* The client gets whole frames, because current_frame keeps pace with the *)
(* engine between the resets that lose it.                                 *)
BtFramesWhole == BtPhase /\ BtCopyWhole

(* The semaphore between handler and task carries what the handler counts. *)
BtSemaphoreSound == BtTakesCounted /\ BtGiveReachesTask

=============================================================================
