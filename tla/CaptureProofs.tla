---------------------------- MODULE CaptureProofs ----------------------------
(***************************************************************************)
(* Proofs about v4l2_frame_acquisition_loop (CaptureLoop) and about the    *)
(* stand-alone capture programs (SimpleCapture, SimpleV4l2): the buffers   *)
(* are partitioned between driver and program, and the files hold the      *)
(* frames they should, for any number of buffers, frames, failing reads    *)
(* and interrupted sleeps.                                                 *)
(***************************************************************************)
EXTENDS MCCapture, TLAPS

\* b is somewhere in the queue s
In(s, b) == \E i \in 1..Len(s) : s[i] = b

Holding == pc \in {"sleep", "copy", "process", "save", "advance", "requeue"}
Unsaved == pc \in {"sleep", "copy", "process", "save"}
InRing == pc \in {"process", "save", "advance"}

\* What the program has mapped and holds, by the place it is at.
Mapped ==
  /\ content \in Seq(0..MaxFrames) /\ Len(content) <= DRIVER_MMAP_BUFFERS
  /\ n_buffers <= Len(content)
  /\ pc \in {"open", "init"} => n_buffers = 0 /\ queued = <<>>
  /\ pc \in {"open", "init", "queue", "streamon"} => filled = <<>> /\ ~streaming
  /\ pc = "queue" => n_buffers < Len(content)
  /\ pc \in {"uninit", "done"} => queued = <<>> /\ filled = <<>> /\ ~streaming
  /\ IF Holding THEN frame_buf \in 1..n_buffers
                ELSE pc # "fail" => frame_buf = NoBuffer

\* A buffer is in at most one place, and only mapped buffers are anywhere ...
Once ==
  /\ \A i \in 1..Len(queued) : queued[i] \in 1..n_buffers /\ queued[i] # frame_buf
  /\ \A i \in 1..Len(filled) : filled[i] \in 1..n_buffers /\ filled[i] # frame_buf
  /\ \A i, j \in 1..Len(queued) : queued[i] = queued[j] => i = j
  /\ \A i, j \in 1..Len(filled) : filled[i] = filled[j] => i = j
  /\ \A i \in 1..Len(queued), j \in 1..Len(filled) : queued[i] # filled[j]

\* ... and none is lost.
Covered ==
  streaming \/ pc \notin {"uninit", "done", "fail"} =>
    \A b \in 1..n_buffers :
      b = frame_buf \/ In(queued, b) \/ In(filled, b)

\* The frames ready to be dequeued are newer in the order of the queue, newer
\* than the frame held and than every frame saved; and the k-th frame read is
\* at least the k-th the camera delivered.
Newer ==
  /\ frameNo >= read_framecnt + STARTUP_FRAMES + Len(filled)
  /\ \A i \in 1..Len(filled) :
       /\ content[filled[i]] >= read_framecnt + STARTUP_FRAMES + i
       /\ content[filled[i]] <= frameNo
       /\ Holding => content[frame_buf] < content[filled[i]]
       /\ \A k \in 1..Len(saved) : saved[k] < content[filled[i]]
  /\ \A i, j \in 1..Len(filled) : i < j => content[filled[i]] < content[filled[j]]
  /\ Holding =>
       /\ content[frame_buf] >= read_framecnt + STARTUP_FRAMES
       /\ content[frame_buf] <= frameNo
  /\ Unsaved => \A k \in 1..Len(saved) : saved[k] < content[frame_buf]
  /\ \A k \in 1..Len(saved) : saved[k] > STARTUP_FRAMES /\ saved[k] <= frameNo
  /\ \A i, j \in 1..Len(saved) : i < j => saved[i] < saved[j]

\* Reads, saves and the iterations that are left.
Accounted ==
  /\ Len(saved) = save_framecnt /\ save_framecnt <= CAPTURE_FRAMES
  /\ pc # "fail" =>
       /\ read_framecnt = (CAPTURE_FRAMES + 1) - count + (IF Holding THEN 1 ELSE 0)
       /\ save_framecnt = 0 \/ save_framecnt <= read_framecnt - (IF Unsaved THEN 2 ELSE 1)
       /\ save_framecnt + sleepErrors >= read_framecnt - (IF Unsaved THEN 2 ELSE 1)
  /\ InRing \/ pc = "copy" => read_framecnt > 1
  /\ Holding \/ pc = "read" => count > 0
  /\ pc \in {"stop", "uninit", "done"} => count = 0

\* The ring holds the frame of this iteration, and nothing between iterations.
RingOne ==
  /\ ringCount = IF InRing THEN 1 ELSE 0
  /\ tail_idx = IF InRing THEN (head_idx + 1) % ring_size ELSE head_idx
  /\ pc = "process" => slot[head_idx] = content[frame_buf]
  /\ pc = "save" => scratch = content[frame_buf]

IInv == TypeOK /\ Mapped /\ Once /\ Covered /\ Newer /\ Accounted /\ RingOne

-----------------------------------------------------------------------------
\* What is left of a queue when its first buffer is taken (VIDIOC_DQBUF).
LEMMA TailFacts ==
  ASSUME NEW S, NEW s \in Seq(S), s # <<>>
  PROVE  /\ Tail(s) \in Seq(S) /\ Head(s) \in S
         /\ Len(s) \in Nat /\ Len(s) > 0 /\ Len(Tail(s)) = Len(s) - 1
         /\ Head(s) = s[1]
         /\ \A i \in 1..Len(Tail(s)) : i + 1 \in 1..Len(s) /\ Tail(s)[i] = s[i + 1]
  OBVIOUS

\* A queue after a buffer is appended to it (VIDIOC_QBUF).
LEMMA AppendFacts ==
  ASSUME NEW S, NEW s \in Seq(S), NEW e \in S
  PROVE  /\ Append(s, e) \in Seq(S)
         /\ Len(s) \in Nat /\ Len(Append(s, e)) = Len(s) + 1
         /\ \A i \in 1..Len(s) : Append(s, e)[i] = s[i]
         /\ Append(s, e)[Len(s) + 1] = e
  OBVIOUS

\* The constants and counters are natural numbers.
LEMMA Numbers ==
  ASSUME TypeOK, Mapped, Once
  PROVE  /\ STARTUP_FRAMES \in Nat /\ DRIVER_MMAP_BUFFERS \in Nat /\ MaxFrames \in Nat
         /\ frameNo \in Nat /\ frameNo <= MaxFrames /\ read_framecnt \in Int
         /\ n_buffers \in Nat /\ Len(content) \in Nat
         /\ Len(queued) \in Nat /\ Len(filled) \in Nat /\ Len(saved) \in Nat
         /\ \A x \in 1..n_buffers : x \in 1..Len(content) /\ content[x] \in Nat
         /\ \A k \in 1..Len(saved) : saved[k] \in Nat
         /\ \A i \in 1..Len(filled) : content[filled[i]] \in Nat
         /\ Holding => frame_buf \in 1..n_buffers /\ content[frame_buf] \in Nat
  <1>1. STARTUP_FRAMES \in Nat /\ DRIVER_MMAP_BUFFERS \in Nat /\ MaxFrames \in Nat
    BY Zenon, CaptureAssumption, MaxFramesAssumption
  <1>2. frameNo \in Nat /\ frameNo <= MaxFrames /\ n_buffers \in Nat
    BY <1>1 DEF TypeOK
  <1>3. read_framecnt \in Int
    BY <1>1 DEF TypeOK
  <1>4. /\ content \in Seq(0..MaxFrames) /\ Len(content) \in Nat /\ n_buffers <= Len(content)
        /\ Len(queued) \in Nat /\ Len(filled) \in Nat
    <2>1. content \in Seq(0..MaxFrames) /\ n_buffers <= Len(content)
      BY Zenon DEF Mapped
    <2>2. /\ queued \in Seq(1..DRIVER_MMAP_BUFFERS)
          /\ filled \in Seq(1..DRIVER_MMAP_BUFFERS)
      BY Zenon DEF TypeOK
    <2> QED
      BY ONLY <2>1, <2>2
  <1>5. saved \in Seq(1..MaxFrames) /\ Len(saved) \in Nat
    BY DEF TypeOK
  <1>6. \A k \in 1..Len(saved) : saved[k] \in Nat
    BY <1>1, <1>5
  <1>7. \A x \in 1..n_buffers : x \in 1..Len(content) /\ content[x] \in Nat
    BY <1>1, <1>2, <1>4
  <1>8. \A i \in 1..Len(filled) : content[filled[i]] \in Nat
    BY Zenon, <1>7 DEF Once
  <1>9. Holding => frame_buf \in 1..n_buffers /\ content[frame_buf] \in Nat
    BY Zenon, <1>7 DEF Mapped
  <1> QED
    BY Zenon, <1>1, <1>2, <1>3, <1>4, <1>5, <1>6, <1>7, <1>8, <1>9

\* It holds before the device is opened.
LEMMA InitIInv == Init => IInv
  <1> SUFFICES ASSUME Init PROVE IInv
    BY Zenon
  <1> USE CaptureAssumption, MaxFramesAssumption DEF Init, DrvInit, NoBuffer
  <1>1. TypeOK
    BY DEF TypeOK, Pcs, FRAMES_TO_ACQUIRE, ring_size
  <1>2. Mapped /\ Once /\ Covered
    BY DEF Mapped, Once, Covered, Holding
  <1>3. Newer
    BY DEF Newer, Holding, Unsaved
  <1>4. Accounted
    BY DEF Accounted, Holding, Unsaved, InRing, FRAMES_TO_ACQUIRE
  <1>5. RingOne
    BY Zenon DEF RingOne, InRing
  <1> QED
    BY Zenon, <1>1, <1>2, <1>3, <1>4, <1>5 DEF IInv

\* The camera fills the buffer queued first: it is in neither filled nor
\* frame_buf, and the frame is newer than all before it.
LEMMA CameraIInv == IInv /\ Camera => IInv'
  <1> SUFFICES ASSUME IInv, Camera PROVE IInv'
    BY Zenon
  <1> USE DEF IInv
  <1>0. UNCHANGED <<streaming, pc, n_buffers, frame_buf, count, read_framecnt, save_framecnt,
                    slot, tail_idx, head_idx, ringCount, scratch, saved, errors, sleepErrors>>
    BY Zenon DEF Camera, Fill, Lose, appVars, cntVars, ringVars
  <1>c. Accounted'
    BY Zenon, <1>0 DEF Accounted, Holding, Unsaved, InRing
  <1>1. CASE Lose
    <2>0. UNCHANGED <<queued, filled, content>> /\ frameNo' = frameNo + 1 /\ frameNo < MaxFrames
      BY Zenon, <1>1 DEF Lose
    <2>1. frameNo \in Nat /\ frameNo' \in 0..MaxFrames
      BY <2>0, MaxFramesAssumption DEF TypeOK
    <2>2. TypeOK'
      BY Zenon, <1>0, <2>0, <2>1 DEF TypeOK
    <2>3. Mapped' /\ Once' /\ Covered' /\ RingOne'
      BY <1>0, <2>0 DEF Mapped, Once, Covered, RingOne, Holding, InRing
    <2>4. Newer'
      <3>1. \A x \in Int : x <= frameNo => x <= frameNo'
        BY <2>0, <2>1
      <3>2. /\ read_framecnt + STARTUP_FRAMES + Len(filled) \in Int
            /\ \A k \in 1..Len(saved) : saved[k] \in Int
            /\ \A i \in 1..Len(filled) : content[filled[i]] \in Int
            /\ Holding => content[frame_buf] \in Int
        <4>1. /\ read_framecnt \in Int /\ STARTUP_FRAMES \in Nat /\ Len(filled) \in Nat
              /\ \A k \in 1..Len(saved) : saved[k] \in Nat
              /\ \A i \in 1..Len(filled) : content[filled[i]] \in Nat
              /\ Holding => content[frame_buf] \in Nat
          BY Numbers, Zenon
        <4> QED
          BY ONLY <4>1
      <3> QED
        BY Zenon, <1>0, <2>0, <2>1, <3>1, <3>2 DEF Newer, Holding, Unsaved
    <2> QED
      BY Zenon, <1>c, <2>2, <2>3, <2>4
  <1>2. CASE Fill
    <2> DEFINE b == Head(queued)
    <2>0. /\ queued # <<>> /\ frameNo < MaxFrames /\ frameNo' = frameNo + 1
          /\ content' = [content EXCEPT ![b] = frameNo']
          /\ queued' = Tail(queued) /\ filled' = Append(filled, b)
          /\ streaming
      BY Zenon, <1>2 DEF Fill
    <2>t. /\ queued \in Seq(1..DRIVER_MMAP_BUFFERS) /\ filled \in Seq(1..DRIVER_MMAP_BUFFERS)
          /\ saved \in Seq(1..MaxFrames) /\ Len(saved) \in Nat
          /\ frameNo \in Nat /\ frameNo' \in 0..MaxFrames
          /\ content \in Seq(0..MaxFrames) /\ Len(content) \in Nat
          /\ n_buffers \in Nat /\ n_buffers <= Len(content) /\ DRIVER_MMAP_BUFFERS \in Nat
      <3>1. frameNo' \in 0..MaxFrames
        <4>1. frameNo \in Nat /\ MaxFrames \in Nat /\ frameNo < MaxFrames /\ frameNo' = frameNo + 1
          BY Zenon, <2>0, Numbers
        <4> QED
          BY ONLY <4>1
      <3> QED
        BY Zenon, <3>1, Numbers DEF TypeOK, Mapped
    <2>f. frameNo \in Nat /\ frameNo' = frameNo + 1
      BY Zenon, <2>0, <2>t
    <2>1. /\ Tail(queued) \in Seq(1..DRIVER_MMAP_BUFFERS) /\ b \in 1..DRIVER_MMAP_BUFFERS
          /\ Len(queued) \in Nat /\ Len(queued) > 0 /\ Len(queued') = Len(queued) - 1
          /\ b = queued[1]
          /\ \A i \in 1..Len(queued') : i + 1 \in 1..Len(queued) /\ queued'[i] = queued[i + 1]
      BY Zenon, <2>0, <2>t, TailFacts
    <2>2. /\ filled' \in Seq(1..DRIVER_MMAP_BUFFERS)
          /\ Len(filled) \in Nat /\ Len(filled') = Len(filled) + 1
          /\ \A i \in 1..Len(filled) : filled'[i] = filled[i]
          /\ filled'[Len(filled) + 1] = b
      BY <2>0, <2>t, <2>1, AppendFacts
    <2>3. /\ b \in 1..n_buffers /\ b # frame_buf
          /\ \A i \in 1..Len(queued') : queued'[i] # b
          /\ \A i \in 1..Len(filled) : filled[i] # b
      BY <2>1 DEF Once
    <2>4. /\ content' \in Seq(0..MaxFrames) /\ Len(content') = Len(content)
          /\ content'[b] = frameNo + 1
          /\ \A x \in 1..n_buffers : x # b => content'[x] = content[x]
      <3>1. /\ content' = [content EXCEPT ![b] = frameNo + 1] /\ frameNo + 1 \in 0..MaxFrames
            /\ content \in Seq(0..MaxFrames) /\ b \in 1..n_buffers
            /\ n_buffers \in Nat /\ Len(content) \in Nat /\ n_buffers <= Len(content)
        BY Zenon, <2>0, <2>t, <2>3
      <3> HIDE DEF b
      <3> QED
        BY ONLY <3>1
    <2>5. TypeOK'
      BY Zenon, <1>0, <2>0, <2>t, <2>1, <2>2 DEF TypeOK
    <2>6. Mapped'
      BY Zenon, <1>0, <2>0, <2>4 DEF Mapped, Holding
    <2>7. Once'
      <3>1. \A i \in 1..Len(queued') : queued'[i] \in 1..n_buffers /\ queued'[i] # frame_buf
        BY <2>1 DEF Once
      <3>2. \A i \in 1..Len(filled') : filled'[i] \in 1..n_buffers /\ filled'[i] # frame_buf
        BY <2>2, <2>3 DEF Once
      <3>3. \A i, j \in 1..Len(queued') : queued'[i] = queued'[j] => i = j
        BY <2>1 DEF Once
      <3>4. \A i, j \in 1..Len(filled') : filled'[i] = filled'[j] => i = j
        BY SMTT(20), <2>2, <2>3 DEF Once
      <3>5. \A i \in 1..Len(queued'), j \in 1..Len(filled') : queued'[i] # filled'[j]
        <4> SUFFICES ASSUME NEW i \in 1..Len(queued'), NEW j \in 1..Len(filled')
                     PROVE  queued'[i] # filled'[j]
          BY Zenon
        <4>1. CASE j = Len(filled) + 1
          BY Zenon, <2>2, <2>3, <4>1
        <4>2. CASE j \in 1..Len(filled)
          BY <2>1, <2>2, <4>2 DEF Once
        <4> QED
          BY <2>2, <4>1, <4>2
      <3> QED
        BY Zenon, <1>0, <3>1, <3>2, <3>3, <3>4, <3>5 DEF Once
    <2>8. Covered'
      <3> SUFFICES ASSUME NEW x \in 1..n_buffers, x # frame_buf
                   PROVE  In(queued', x) \/ In(filled', x)
        BY Zenon, <1>0 DEF Covered
      <3>1. In(queued, x) \/ In(filled, x)
        BY Zenon, <2>0 DEF Covered
      <3>2. CASE In(filled, x)
        <4>1. PICK i \in 1..Len(filled) : filled[i] = x
          BY Zenon, <3>2 DEF In
        <4>2. i \in 1..Len(filled') /\ filled'[i] = x
          BY <2>2, <4>1
        <4> QED
          BY Zenon, <4>2 DEF In
      <3>3. CASE In(queued, x)
        <4>1. PICK i \in 1..Len(queued) : queued[i] = x
          BY Zenon, <3>3 DEF In
        <4>2. CASE i = 1
          <5>1. Len(filled) + 1 \in 1..Len(filled') /\ filled'[Len(filled) + 1] = x
            BY <2>1, <2>2, <4>1, <4>2
          <5> QED
            BY Zenon, <5>1 DEF In
        <4>3. CASE i # 1
          <5>1. i - 1 \in 1..Len(queued') /\ (i - 1) + 1 = i
            BY <2>1, <4>1, <4>3
          <5>2. queued'[i - 1] = x
            BY Zenon, <2>1, <4>1, <5>1
          <5> QED
            BY Zenon, <5>1, <5>2 DEF In
        <4> QED
          BY Zenon, <4>2, <4>3
      <3> QED
        BY Zenon, <3>1, <3>2, <3>3
    <2>9. Newer'
      <3>0. /\ read_framecnt \in Int /\ STARTUP_FRAMES \in Nat
            /\ \A k \in 1..Len(saved) : saved[k] \in Nat
            /\ \A i \in 1..Len(filled) : content[filled[i]] \in Nat
            /\ Holding => content[frame_buf] \in Nat /\ frame_buf \in 1..n_buffers
        BY Zenon, Numbers
      <3>1. \A i \in 1..Len(filled) : content'[filled'[i]] = content[filled[i]]
        BY Zenon, <2>2, <2>3, <2>4 DEF Once
      <3>2. content'[filled'[Len(filled) + 1]] = frameNo + 1
        BY Zenon, <2>2, <2>4
      <3>3. Holding => content'[frame_buf] = content[frame_buf]
        BY Zenon, <2>3, <2>4, <3>0
      <3>4. \A i \in 1..Len(filled') : i \in 1..Len(filled) \/ i = Len(filled) + 1
        BY <2>2
      <3>5. frameNo' >= read_framecnt + STARTUP_FRAMES + Len(filled')
        BY <2>0, <2>t, <2>2, <3>0 DEF Newer
      <3>6. ASSUME NEW i \in 1..Len(filled')
            PROVE  /\ content'[filled'[i]] >= read_framecnt + STARTUP_FRAMES + i
                   /\ content'[filled'[i]] <= frameNo'
                   /\ Holding => content'[frame_buf] < content'[filled'[i]]
                   /\ \A k \in 1..Len(saved) : saved[k] < content'[filled'[i]]
        <4>1. CASE i \in 1..Len(filled)
          <5>1. /\ content[filled[i]] >= read_framecnt + STARTUP_FRAMES + i
                /\ content[filled[i]] <= frameNo
                /\ Holding => content[frame_buf] < content[filled[i]]
                /\ \A k \in 1..Len(saved) : saved[k] < content[filled[i]]
            BY Zenon, <4>1 DEF Newer
          <5>2. content[filled[i]] <= frameNo'
            <6>1. content[filled[i]] \in Nat
              BY Zenon, <3>0, <4>1
            <6> QED
              BY <2>f, <5>1, <6>1
          <5> QED
            BY Zenon, <3>1, <3>3, <4>1, <5>1, <5>2
        <4>2. CASE i = Len(filled) + 1
          <5>1. content'[filled'[i]] = frameNo + 1
            BY Zenon, <3>2, <4>2
          <5>2. frameNo + 1 >= read_framecnt + STARTUP_FRAMES + i
            BY <2>t, <2>2, <3>0, <4>2 DEF Newer
          <5>3. Holding => content'[frame_buf] < frameNo + 1
            <6>1. Holding => content[frame_buf] <= frameNo
              BY Zenon DEF Newer
            <6> QED
              BY SMTT(20), <2>t, <3>0, <3>3, <6>1
          <5>4. \A k \in 1..Len(saved) : saved[k] < frameNo + 1
            <6>1. \A k \in 1..Len(saved) : saved[k] <= frameNo
              BY Zenon DEF Newer
            <6> QED
              <7>1. frameNo \in Nat /\ \A k \in 1..Len(saved) : saved[k] \in Nat
                BY Zenon, <2>t, <3>0
              <7> QED
                BY ONLY <6>1, <7>1
          <5> QED
            BY <2>f, <5>1, <5>2, <5>3, <5>4
        <4> QED
          BY Zenon, <3>4, <4>1, <4>2
      <3>7. ASSUME NEW i \in 1..Len(filled'), NEW j \in 1..Len(filled'), i < j
            PROVE  content'[filled'[i]] < content'[filled'[j]]
        <4>1. i \in 1..Len(filled)
          BY <2>2, <3>7
        <4>2. CASE j \in 1..Len(filled)
          BY Zenon, <3>1, <3>7, <4>1, <4>2 DEF Newer
        <4>3. CASE j = Len(filled) + 1
          <5>1. content[filled[i]] <= frameNo
            BY Zenon, <4>1 DEF Newer
          <5> QED
            <6>1. content[filled[i]] < frameNo + 1
              <7>1. content[filled[i]] \in Nat
                BY Zenon, <3>0, <4>1
              <7> QED
                BY <2>f, <5>1, <7>1
            <6> QED
              BY Zenon, <3>1, <3>2, <4>1, <4>3, <6>1
        <4> QED
          BY Zenon, <3>4, <4>2, <4>3
      <3>8. Holding => /\ content'[frame_buf] >= read_framecnt + STARTUP_FRAMES
                       /\ content'[frame_buf] <= frameNo'
        <4>1. Holding => /\ content[frame_buf] >= read_framecnt + STARTUP_FRAMES
                         /\ content[frame_buf] <= frameNo
          BY Zenon DEF Newer
        <4>2. Holding => content'[frame_buf] = content[frame_buf] /\ content[frame_buf] \in Nat
          BY Zenon, <3>0, <3>3
        <4>3. frameNo \in Nat /\ frameNo' = frameNo + 1
          BY Zenon, <2>0, <2>t
        <4> QED
          BY ONLY <4>1, <4>2, <4>3
      <3>9. Unsaved => \A k \in 1..Len(saved) : saved[k] < content'[frame_buf]
        BY Zenon, <3>3 DEF Newer, Unsaved, Holding
      <3>10. \A k \in 1..Len(saved) : saved[k] > STARTUP_FRAMES /\ saved[k] <= frameNo'
        <4>1. \A k \in 1..Len(saved) : saved[k] > STARTUP_FRAMES /\ saved[k] <= frameNo
          BY Zenon DEF Newer
        <4>2. frameNo \in Nat /\ frameNo' = frameNo + 1 /\ saved' = saved
              /\ \A k \in 1..Len(saved) : saved[k] \in Nat
          BY Zenon, <1>0, <2>0, <2>t, <3>0
        <4> QED
          BY ONLY <4>1, <4>2
      <3>11. \A i, j \in 1..Len(saved) : i < j => saved[i] < saved[j]
        BY Zenon DEF Newer
      <3>12. (Holding' <=> Holding) /\ (Unsaved' <=> Unsaved)
        BY Zenon, <1>0 DEF Holding, Unsaved
      <3> QED
        BY Zenon, <1>0, <3>5, <3>6, <3>7, <3>8, <3>9, <3>10, <3>11, <3>12 DEF Newer
    <2>10. RingOne'
      <3>1. Holding => frame_buf \in 1..n_buffers
        BY Zenon DEF Mapped
      <3>2. InRing => content'[frame_buf] = content[frame_buf]
        BY Zenon, <2>3, <2>4, <3>1 DEF Holding, InRing
      <3> QED
        BY Zenon, <1>0, <3>2 DEF RingOne, InRing
    <2> QED
      BY Zenon, <1>c, <2>5, <2>6, <2>7, <2>8, <2>9, <2>10
  <1> QED
    BY Zenon, <1>1, <1>2 DEF Camera

\* The calls before the loop: buffers are granted, queued one by one, and the
\* stream is turned on.
LEMMA SetupIInv == IInv /\ (Open \/ InitDevice \/ StartQueue \/ StartStream) => IInv'
  <1> SUFFICES ASSUME IInv, Open \/ InitDevice \/ StartQueue \/ StartStream
               PROVE  IInv'
    BY Zenon
  <1> USE DEF IInv
  <1>0. /\ UNCHANGED <<filled, frameNo, frame_buf, count, read_framecnt, save_framecnt,
                       slot, tail_idx, head_idx, ringCount, scratch, saved, errors, sleepErrors>>
        /\ pc \in {"open", "init", "queue", "streamon"}
        /\ pc' \in {"init", "queue", "streamon", "select", "fail"}
        /\ (pc = "streamon" <=> pc' = "select")
    BY Zenon DEF Open, InitDevice, StartQueue, StartStream, QueueBuffer, RequestBuffers, StreamOn,
           drvVars, appVars, cntVars, ringVars
  <1>1. filled = <<>> /\ frame_buf = NoBuffer /\ ~streaming
    BY Zenon, <1>0 DEF Mapped, Holding
  <1>2. Accounted' /\ RingOne'
    BY Zenon, <1>0 DEF Accounted, RingOne, Holding, Unsaved, InRing
  <1>3. Newer'
    BY <1>0, <1>1 DEF Newer, Holding, Unsaved
  <1>4. CASE Open \/ StartStream
    <2>0. UNCHANGED <<queued, content, n_buffers>>
      BY Zenon, <1>4 DEF Open, StartStream, StreamOn, drvVars, appVars
    <2>1. streaming' \in BOOLEAN /\ (Open => ~streaming')
      <3>1. CASE Open
        <4>1. UNCHANGED streaming /\ streaming \in BOOLEAN
          BY Zenon, <3>1 DEF Open, drvVars, TypeOK
        <4> QED
          BY Zenon, <1>1, <4>1
      <3>2. CASE StartStream
        <4>1. streaming' = TRUE /\ ~Open
          BY Zenon, <3>2 DEF Open, StartStream, StreamOn
        <4> QED
          BY Zenon, <4>1
      <3> QED
        BY Zenon, <1>4, <3>1, <3>2
    <2>2. TypeOK'
      BY Zenon, <1>0, <2>0, <2>1 DEF TypeOK, Pcs
    <2>3. Mapped'
      BY Zenon, <1>0, <1>1, <1>4, <2>0, <2>1 DEF Mapped, Holding, Open, StartStream
    <2>4. Once' /\ Covered'
      BY Zenon, <1>0, <2>0 DEF Once, Covered
    <2> QED
      BY Zenon, <1>2, <1>3, <2>2, <2>3, <2>4
  <1>5. CASE InitDevice
    <2>0. n_buffers = 0 /\ queued = <<>> /\ UNCHANGED <<queued, n_buffers, streaming>>
      BY Zenon, <1>5 DEF InitDevice, RequestBuffers, appVars, Mapped
    <2>1. PICK n \in 1..DRIVER_MMAP_BUFFERS :
            /\ content' = [b \in 1..n |-> 0]
            /\ pc' = IF n < 2 THEN "fail" ELSE "queue"
      BY Zenon, <1>5 DEF InitDevice, RequestBuffers
    <2>2. n \in Nat /\ 0 \in 0..MaxFrames
      BY MaxFramesAssumption, CaptureAssumption
    <2>3. content' \in Seq(0..MaxFrames) /\ Len(content') = n
      BY <2>1, <2>2
    <2>4. TypeOK'
      BY Zenon, <1>0, <2>0 DEF TypeOK, Pcs
    <2>5. Mapped'
      BY <1>0, <1>1, <2>0, <2>1, <2>2, <2>3, CaptureAssumption DEF Mapped, Holding
    <2>6. Once' /\ Covered'
      BY <1>0, <1>1, <2>0 DEF Once, Covered
    <2> QED
      BY Zenon, <1>2, <1>3, <2>4, <2>5, <2>6
  <1>6. CASE StartQueue
    <2> DEFINE b == n_buffers + 1
    <2>0. /\ queued' = Append(queued, b) /\ n_buffers' = b /\ UNCHANGED <<content, streaming>>
          /\ pc = "queue" /\ pc' = IF b = Len(content) THEN "streamon" ELSE "queue"
      BY Zenon, <1>6 DEF StartQueue, QueueBuffer
    <2>1. /\ n_buffers \in Nat /\ n_buffers < Len(content) /\ Len(content) \in Nat
          /\ Len(content) <= DRIVER_MMAP_BUFFERS /\ DRIVER_MMAP_BUFFERS \in Nat
      BY Zenon, <2>0, Numbers DEF Mapped
    <2>2. b \in 1..DRIVER_MMAP_BUFFERS /\ b <= Len(content) /\ queued \in Seq(1..DRIVER_MMAP_BUFFERS)
      <3>1. queued \in Seq(1..DRIVER_MMAP_BUFFERS)
        BY Zenon DEF TypeOK
      <3> QED
        BY ONLY <2>1, <3>1
    <2>3. /\ queued' \in Seq(1..DRIVER_MMAP_BUFFERS)
          /\ Len(queued) \in Nat /\ Len(queued') = Len(queued) + 1
          /\ \A i \in 1..Len(queued) : queued'[i] = queued[i]
          /\ queued'[Len(queued) + 1] = b
      BY <2>0, <2>2, AppendFacts
    <2>4. TypeOK'
      BY SMTT(20), <1>0, <2>0, <2>1, <2>2, <2>3 DEF TypeOK, Pcs
    <2>5. Mapped'
      BY <1>0, <1>1, <2>0, <2>1, <2>2 DEF Mapped, Holding
    <2>6. \A i \in 1..Len(queued) : queued[i] \in 1..n_buffers /\ queued[i] # b
      BY <2>1 DEF Once
    <2>7. Once'
      <3>1. \A i \in 1..Len(queued') : queued'[i] \in 1..b /\ queued'[i] # NoBuffer
        <4>1. NoBuffer = 0 /\ n_buffers \in Nat /\ Len(queued) \in Nat
          BY Zenon, <2>1, Numbers DEF NoBuffer
        <4> QED
          BY ONLY <2>3, <2>6, <4>1
      <3>2. \A i, j \in 1..Len(queued') : queued'[i] = queued'[j] => i = j
        BY <2>3, <2>6 DEF Once
      <3> QED
        BY <1>0, <1>1, <2>0, <3>1, <3>2 DEF Once
    <2>8. Covered'
      <3> SUFFICES ASSUME NEW x \in 1..b PROVE In(queued', x)
        BY Zenon, <1>0, <2>0 DEF Covered
      <3>1. CASE x = b
        <4>1. Len(queued) + 1 \in 1..Len(queued')
          BY <2>3
        <4> QED
          BY Zenon, <2>3, <3>1, <4>1 DEF In
      <3>2. CASE x # b
        <4>1. x \in 1..n_buffers /\ x # NoBuffer
          BY <2>1, <3>2 DEF NoBuffer
        <4>2. In(queued, x)
          BY <1>1, <2>0, <4>1 DEF Covered, In
        <4>3. PICK i \in 1..Len(queued) : queued[i] = x
          BY Zenon, <4>2 DEF In
        <4>4. i \in 1..Len(queued') /\ queued'[i] = x
          BY <2>3, <4>3
        <4> QED
          BY Zenon, <4>4 DEF In
      <3> QED
        BY Zenon, <3>1, <3>2
    <2> QED
      BY Zenon, <1>2, <1>3, <2>4, <2>5, <2>7, <2>8
  <1> QED
    BY Zenon, <1>4, <1>5, <1>6

\* Steps of the loop that leave the driver and the buffers alone, and exits.
LEMMA LoopIInv ==
  ASSUME IInv,
         \/ Select \/ ReadAgain \/ Sleep \/ SleepInterrupted
         \/ Copy \/ Process \/ Save \/ Advance \/ Fails \/ UNCHANGED vars
  PROVE  IInv'
  <1> USE DEF IInv
  <1>0. UNCHANGED <<streaming, queued, filled, content, frameNo, n_buffers, frame_buf,
                    count, read_framecnt>>
    BY Zenon DEF Select, ReadAgain, Sleep, SleepInterrupted, Copy, Process, Save, Advance,
       Fails, vars,
           drvVars, appVars, cntVars
  <1>1. Once'
    BY Zenon, <1>0 DEF Once
  <1>2. CASE Select \/ ReadAgain \/ Sleep \/ SleepInterrupted \/ Fails \/ UNCHANGED vars
    <2>0. UNCHANGED <<save_framecnt, slot, tail_idx, head_idx, ringCount, scratch, saved>>
      BY Zenon, <1>2 DEF Select, ReadAgain, Sleep, SleepInterrupted, Fails, vars,
           appVars, cntVars, ringVars
    <2>1. /\ pc' \in Pcs
          /\ errors' \in 0..MaxErrors /\ sleepErrors' \in 0..MaxErrors
      <3>1. pc' \in Pcs
        BY Zenon, <1>2 DEF Select, ReadAgain, Sleep, SleepInterrupted, Fails, vars, TypeOK, Pcs
      <3>0. /\ errors \in 0..MaxErrors /\ sleepErrors \in 0..MaxErrors /\ MaxErrors \in Nat
            /\ errors' = errors \/ (errors < MaxErrors /\ errors' = errors + 1)
            /\ \/ sleepErrors' = sleepErrors
               \/ sleepErrors < MaxErrors /\ sleepErrors' = sleepErrors + 1
        BY Zenon, <1>2, CaptureAssumption
        DEF Select, ReadAgain, Sleep, SleepInterrupted, Fails, vars, appVars, TypeOK
      <3>2. errors' \in 0..MaxErrors
        BY <3>0
      <3>3. sleepErrors' \in 0..MaxErrors
        BY <3>0
      <3> QED
        BY Zenon, <3>1, <3>2, <3>3
    <2>2. TypeOK'
      BY Zenon, <1>0, <2>0, <2>1 DEF TypeOK
    <2>3. Mapped'
      BY Zenon, <1>0, <1>2 DEF Select, ReadAgain, Sleep, SleepInterrupted, Fails, vars, Mapped,
         Holding
    <2>4. Covered'
      BY Zenon, <1>0, <1>2 DEF Select, ReadAgain, Sleep, SleepInterrupted, Fails, vars, Covered
    <2>5. Newer'
      BY Zenon, <1>0, <2>0, <1>2
      DEF Select, ReadAgain, Sleep, SleepInterrupted, Fails, vars, Newer, Holding, Unsaved
    <2>6. Accounted'
      <3>0. /\ count \in Nat /\ read_framecnt \in Int /\ save_framecnt \in Nat
            /\ sleepErrors \in Nat
        BY CaptureAssumption, Numbers DEF TypeOK, FRAMES_TO_ACQUIRE
      <3>1. CASE Select \/ ReadAgain
        BY Zenon, <1>0, <2>0, <3>0, <3>1 DEF Select, ReadAgain, appVars, Accounted, Holding,
           Unsaved, InRing
      <3>2. CASE Sleep
        BY <1>0, <2>0, <3>0, <3>2, CaptureAssumption
        DEF Sleep, appVars, Accounted, Holding, Unsaved, InRing
      <3>3. CASE SleepInterrupted
        BY <1>0, <2>0, <3>0, <3>3, CaptureAssumption
        DEF SleepInterrupted, Accounted, Holding, Unsaved, InRing
      <3>4. CASE Fails \/ UNCHANGED vars
        BY Zenon, <1>0, <2>0, <3>4 DEF Fails, vars, appVars, Accounted, Holding, Unsaved, InRing
      <3> QED
        BY Zenon, <1>2, <3>1, <3>2, <3>3, <3>4
    <2>7. RingOne'
      BY Zenon, <1>0, <2>0, <1>2
      DEF Select, ReadAgain, Sleep, SleepInterrupted, Fails, vars, RingOne, InRing
    <2> QED
      BY Zenon, <1>1, <2>2, <2>3, <2>4, <2>5, <2>6, <2>7
  <1>3. CASE Copy \/ Process \/ Save \/ Advance
    <2>0. /\ UNCHANGED <<errors, sleepErrors>>
          /\ pc \in {"copy", "process", "save", "advance"}
          /\ pc' \in {"process", "save", "advance", "requeue"}
      BY Zenon, <1>3 DEF Copy, Process, Save, Advance
    <2>1. Mapped' /\ Covered'
      BY Zenon, <1>0, <2>0 DEF Mapped, Covered, Holding
    <2>2. CASE Copy \/ Process \/ Advance
      <3>0. UNCHANGED <<save_framecnt, saved>> /\ (pc = "advance" <=> pc' = "requeue")
        BY Zenon, <2>2 DEF Copy, Process, Advance, cntVars
      <3>1. Newer'
        BY Zenon, <1>0, <2>0, <2>2, <3>0 DEF Newer, Holding, Unsaved, Copy, Process, Advance
      <3>2. Accounted'
        BY Zenon, <1>0, <2>0, <2>2, <3>0 DEF Accounted, Holding, Unsaved, InRing, Copy, Process,
           Advance
      <3>3. /\ tail_idx \in 0..2 /\ head_idx \in 0..2 /\ ring_size = 3
            /\ slot \in [0..2 -> 0..MaxFrames]
        BY DEF TypeOK, ring_size
      <3>4. content[frame_buf] \in 0..MaxFrames
        <4>1. /\ content \in Seq(0..MaxFrames) /\ frame_buf \in 1..Len(content)
          BY Zenon, <2>0, Numbers DEF Mapped, Holding
        <4>2. \A i \in 1..Len(content) : content[i] \in 0..MaxFrames
          BY <4>1, MaxFramesAssumption
        <4> QED
          BY Zenon, <4>1, <4>2
      <3>5. TypeOK' /\ RingOne'
        <4>1. CASE Copy
          <5>1. /\ slot' = [slot EXCEPT ![tail_idx] = content[frame_buf]]
                /\ tail_idx' = (tail_idx + 1) % 3 /\ ringCount' = ringCount + 1
                /\ pc = "copy" /\ pc' = "process" /\ UNCHANGED <<head_idx, scratch>>
            BY Zenon, <3>3, <4>1 DEF Copy
          <5>2. ringCount = 0 /\ tail_idx = head_idx
            BY Zenon, <5>1 DEF RingOne, InRing
          <5>3. tail_idx' \in 0..2 /\ slot' \in [0..2 -> 0..MaxFrames] /\ ringCount' \in 0..3
            BY <3>3, <3>4, <5>1, <5>2
          <5>4. slot'[head_idx] = content[frame_buf]
            BY Zenon, <3>3, <5>1, <5>2
          <5>5. TypeOK'
            BY Zenon, <1>0, <2>0, <3>0, <3>3, <5>1, <5>3 DEF TypeOK, Pcs, ring_size
          <5> QED
            BY <1>0, <3>3, <5>1, <5>2, <5>4, <5>5 DEF RingOne, InRing
        <4>2. CASE Process
          <5>1. /\ scratch' = slot[head_idx] /\ pc = "process" /\ pc' = "save"
                /\ UNCHANGED <<slot, tail_idx, head_idx, ringCount>>
            BY Zenon, <4>2 DEF Process, ringVars
          <5>2. scratch' \in 0..MaxFrames
            BY Zenon, <3>3, <5>1
          <5>3. TypeOK'
            BY Zenon, <1>0, <2>0, <3>0, <5>1, <5>2 DEF TypeOK, Pcs
          <5> QED
            BY Zenon, <1>0, <5>1, <5>3 DEF RingOne, InRing
        <4>3. CASE Advance
          <5>1. /\ head_idx' = (head_idx + 1) % 3 /\ ringCount' = ringCount - 1
                /\ pc = "advance" /\ pc' = "requeue" /\ UNCHANGED <<slot, tail_idx, scratch>>
            BY Zenon, <3>3, <4>3 DEF Advance
          <5>2. ringCount = 1 /\ tail_idx = (head_idx + 1) % 3
            BY Zenon, <3>3, <5>1 DEF RingOne, InRing
          <5>3. head_idx' \in 0..2 /\ ringCount' \in 0..3 /\ ringCount' = 0
            BY <3>3, <5>1, <5>2
          <5>4. TypeOK'
            BY Zenon, <1>0, <2>0, <3>0, <3>3, <5>1, <5>3 DEF TypeOK, Pcs, ring_size
          <5> QED
            BY Zenon, <1>0, <5>1, <5>2, <5>3, <5>4 DEF RingOne, InRing
        <4> QED
          BY Zenon, <2>2, <4>1, <4>2, <4>3
      <3> QED
        BY Zenon, <1>1, <2>1, <3>1, <3>2, <3>5
    <2>3. CASE Save
      <3>0. /\ pc = "save" /\ pc' = "advance" /\ save_framecnt' = save_framecnt + 1
            /\ saved' = Append(saved, scratch)
            /\ UNCHANGED <<slot, tail_idx, head_idx, ringCount, scratch>>
        BY Zenon, <2>3 DEF Save, ringVars
      <3>1. /\ scratch = content[frame_buf] /\ scratch \in Nat /\ scratch <= frameNo
            /\ scratch >= read_framecnt + STARTUP_FRAMES /\ read_framecnt > 1
            /\ \A k \in 1..Len(saved) : saved[k] < scratch
            /\ \A i \in 1..Len(filled) : scratch < content[filled[i]]
        BY Zenon, <3>0, Numbers DEF RingOne, Newer, Accounted, Holding, Unsaved, InRing
      <3>2. scratch > STARTUP_FRAMES /\ scratch \in 1..MaxFrames
        BY SMTT(20), <3>1, Numbers
      <3>3. saved \in Seq(1..MaxFrames)
        BY Zenon DEF TypeOK
      <3>4. /\ saved' \in Seq(1..MaxFrames)
            /\ Len(saved) \in Nat /\ Len(saved') = Len(saved) + 1
            /\ \A i \in 1..Len(saved) : saved'[i] = saved[i]
            /\ saved'[Len(saved) + 1] = scratch
        BY <3>0, <3>2, <3>3, AppendFacts
      <3>5. \A k \in 1..Len(saved') : k \in 1..Len(saved) \/ k = Len(saved) + 1
        BY <3>4
      <3>6. Accounted'
        <4>0. /\ count \in Nat /\ read_framecnt \in Int /\ save_framecnt \in Nat
              /\ sleepErrors \in Nat /\ CAPTURE_FRAMES \in Nat
          BY CaptureAssumption, Numbers DEF TypeOK, FRAMES_TO_ACQUIRE
        <4> QED
          BY <1>0, <2>0, <3>0, <3>4, <4>0 DEF Accounted, Holding, Unsaved, InRing
      <3>7. save_framecnt' \in 0..FRAMES_TO_ACQUIRE
        BY <3>0, <3>6, CaptureAssumption DEF Accounted, TypeOK, FRAMES_TO_ACQUIRE
      <3>8. TypeOK'
        BY Zenon, <1>0, <2>0, <3>0, <3>4, <3>7 DEF TypeOK, Pcs
      <3>9. RingOne'
        BY Zenon, <3>0 DEF RingOne, InRing
      <3>10. Newer'
        <4>1. ASSUME NEW i \in 1..Len(filled), NEW k \in 1..Len(saved')
              PROVE  saved'[k] < content[filled[i]]
          BY Zenon, <3>1, <3>4, <3>5 DEF Newer
        <4>2. \A k \in 1..Len(saved') : saved'[k] > STARTUP_FRAMES /\ saved'[k] <= frameNo
          BY Zenon, <3>1, <3>2, <3>4, <3>5 DEF Newer
        <4>3. ASSUME NEW i \in 1..Len(saved'), NEW j \in 1..Len(saved'), i < j
              PROVE  saved'[i] < saved'[j]
          <5>1. i \in 1..Len(saved)
            BY <3>4, <4>3
          <5>2. CASE j \in 1..Len(saved)
            BY Zenon, <3>4, <4>3, <5>1, <5>2 DEF Newer
          <5>3. CASE j = Len(saved) + 1
            BY Zenon, <3>1, <3>4, <5>1, <5>3
          <5> QED
            BY Zenon, <3>5, <5>2, <5>3
        <4> QED
          BY Zenon, <1>0, <3>0, <4>1, <4>2, <4>3 DEF Newer, Holding, Unsaved
      <3> QED
        BY Zenon, <1>1, <2>1, <3>6, <3>8, <3>9, <3>10
    <2> QED
      BY Zenon, <1>3, <2>2, <2>3
  <1> QED
    BY Zenon, <1>2, <1>3

\* VIDIOC_DQBUF takes the oldest filled buffer.
LEMMA ReadIInv == IInv /\ ReadFrame => IInv'
  <1> SUFFICES ASSUME IInv, ReadFrame PROVE IInv'
    BY Zenon
  <1> USE DEF IInv
  <1>0. /\ UNCHANGED <<streaming, queued, content, frameNo, n_buffers, count, save_framecnt,
                       slot, tail_idx, head_idx, ringCount, scratch, saved, errors, sleepErrors>>
        /\ pc = "read" /\ pc' = "sleep" /\ filled # <<>>
        /\ frame_buf' = Head(filled) /\ filled' = Tail(filled)
        /\ read_framecnt' = read_framecnt + 1
    BY Zenon DEF ReadFrame, DequeueBuffer, ringVars
  <1>1. frame_buf = NoBuffer
    BY Zenon, <1>0 DEF Mapped, Holding
  <1>2. /\ filled' \in Seq(1..DRIVER_MMAP_BUFFERS) /\ frame_buf' \in 1..DRIVER_MMAP_BUFFERS
        /\ Len(filled) \in Nat /\ Len(filled) > 0 /\ Len(filled') = Len(filled) - 1
        /\ frame_buf' = filled[1]
        /\ \A i \in 1..Len(filled') : i + 1 \in 1..Len(filled) /\ filled'[i] = filled[i + 1]
    BY Zenon, <1>0, TailFacts DEF TypeOK
  <1>3. frame_buf' \in 1..n_buffers
    BY <1>2 DEF Once
  <1>n. /\ count \in Nat /\ read_framecnt \in Int /\ save_framecnt \in Nat /\ sleepErrors \in Nat
        /\ CAPTURE_FRAMES \in Nat /\ STARTUP_FRAMES \in Nat
    BY CaptureAssumption, Numbers DEF TypeOK, FRAMES_TO_ACQUIRE
  <1>4. Accounted'
    BY <1>0, <1>n DEF Accounted, Holding, Unsaved, InRing
  <1>5. TypeOK'
    <2>1. read_framecnt' \in -STARTUP_FRAMES..FRAMES_TO_ACQUIRE
      <3>1. read_framecnt' <= CAPTURE_FRAMES + 1
        BY <1>0, <1>n, <1>4 DEF Accounted
      <3>2. -STARTUP_FRAMES <= read_framecnt
        BY <1>n DEF TypeOK
      <3> QED
        BY <1>0, <1>n, <3>1, <3>2, CaptureAssumption DEF FRAMES_TO_ACQUIRE
    <2>2. frame_buf' \in 0..DRIVER_MMAP_BUFFERS
      BY <1>2, CaptureAssumption
    <2> QED
      BY Zenon, <1>0, <1>2, <2>1, <2>2 DEF TypeOK, Pcs
  <1>6. Mapped'
    BY Zenon, <1>0, <1>3 DEF Mapped, Holding
  <1>7. Once'
    <2>1. \A i \in 1..Len(queued) : queued[i] # frame_buf'
      BY <1>2 DEF Once
    <2>2. \A i \in 1..Len(filled') : filled'[i] \in 1..n_buffers /\ filled'[i] # frame_buf'
      BY SMTT(20), <1>2 DEF Once
    <2>3. \A i, j \in 1..Len(filled') : filled'[i] = filled'[j] => i = j
      BY SMTT(20), <1>2 DEF Once
    <2>4. \A i \in 1..Len(queued), j \in 1..Len(filled') : queued[i] # filled'[j]
      BY Zenon, <1>2 DEF Once
    <2> QED
      BY Zenon, <1>0, <2>1, <2>2, <2>3, <2>4 DEF Once
  <1>8. Covered'
    <2> SUFFICES ASSUME NEW x \in 1..n_buffers, x # frame_buf'
                 PROVE  In(queued, x) \/ In(filled', x)
      BY Zenon, <1>0 DEF Covered
    <2>1. In(queued, x) \/ In(filled, x)
      <3>1. x # NoBuffer
        BY Numbers DEF NoBuffer
      <3> QED
        BY Zenon, <1>0, <1>1, <3>1 DEF Covered
    <2>2. CASE In(filled, x)
      <3>1. PICK i \in 1..Len(filled) : filled[i] = x
        BY Zenon, <2>2 DEF In
      <3>2. i # 1
        BY Zenon, <1>2, <3>1
      <3>3. i - 1 \in 1..Len(filled') /\ (i - 1) + 1 = i
        BY <1>2, <3>1, <3>2
      <3>4. filled'[i - 1] = x
        BY Zenon, <1>2, <3>1, <3>3
      <3> QED
        BY Zenon, <3>3, <3>4 DEF In
    <2> QED
      BY Zenon, <2>1, <2>2
  <1>9. Newer'
    <2>0. 1 \in 1..Len(filled)
      BY <1>2
    <2>1. /\ content[frame_buf'] >= read_framecnt + STARTUP_FRAMES + 1
          /\ content[frame_buf'] <= frameNo
          /\ \A k \in 1..Len(saved) : saved[k] < content[frame_buf']
      BY Zenon, <1>2, <2>0 DEF Newer
    <2>2. content[frame_buf'] >= read_framecnt' + STARTUP_FRAMES
      <3>1. content[frame_buf'] \in Nat
        BY Zenon, <1>3, Numbers
      <3> QED
        BY <1>0, <1>n, <2>1, <3>1
    <2>3. ASSUME NEW i \in 1..Len(filled')
          PROVE  /\ content[filled'[i]] >= read_framecnt' + STARTUP_FRAMES + i
                 /\ content[filled'[i]] <= frameNo
                 /\ content[frame_buf'] < content[filled'[i]]
                 /\ \A k \in 1..Len(saved) : saved[k] < content[filled'[i]]
      <3>1. i + 1 \in 1..Len(filled) /\ filled'[i] = filled[i + 1] /\ 1 < i + 1
        BY <1>2
      <3>2. content[filled[i + 1]] >= read_framecnt + STARTUP_FRAMES + (i + 1)
        BY Zenon, <3>1 DEF Newer
      <3>3. content[filled[i + 1]] \in Nat
        BY Zenon, <3>1, Numbers
      <3>4. content[filled[i + 1]] >= read_framecnt' + STARTUP_FRAMES + i
        BY <1>0, <1>n, <3>2, <3>3
      <3>5. content[filled[1]] < content[filled[i + 1]]
        BY Zenon, <2>0, <3>1 DEF Newer
      <3> QED
        BY Zenon, <1>2, <3>1, <3>4, <3>5 DEF Newer
    <2>4. \A i, j \in 1..Len(filled') : i < j => content[filled'[i]] < content[filled'[j]]
      <3> SUFFICES ASSUME NEW i \in 1..Len(filled'), NEW j \in 1..Len(filled'), i < j
                   PROVE  content[filled'[i]] < content[filled'[j]]
        BY Zenon
      <3>1. /\ i + 1 \in 1..Len(filled) /\ filled'[i] = filled[i + 1]
            /\ j + 1 \in 1..Len(filled) /\ filled'[j] = filled[j + 1]
            /\ i + 1 < j + 1
        BY <1>2
      <3> QED
        BY Zenon, <3>1 DEF Newer
    <2>5. frameNo >= read_framecnt' + STARTUP_FRAMES + Len(filled')
      BY <1>0, <1>2, <1>n, Numbers DEF Newer
    <2> QED
      BY Zenon, <1>0, <2>1, <2>2, <2>3, <2>4, <2>5 DEF Newer, Holding, Unsaved
  <1>10. RingOne'
    BY Zenon, <1>0 DEF RingOne, InRing
  <1> QED
    BY Zenon, <1>4, <1>5, <1>6, <1>7, <1>8, <1>9, <1>10

\* The buffer held is with nobody else, so VIDIOC_QBUF takes it back.
LEMMA HeldCanBeQueued == IInv /\ pc = "requeue" => CanQueue(frame_buf)
  <1> SUFFICES ASSUME IInv, pc = "requeue" PROVE CanQueue(frame_buf)
    BY Zenon
  <1>1. DOMAIN queued = 1..Len(queued) /\ DOMAIN filled = 1..Len(filled)
    BY DEF IInv, TypeOK
  <1> QED
    BY Zenon, <1>1 DEF IInv, Once, CanQueue, Range

\* VIDIOC_QBUF gives the driver the one buffer the program held.
LEMMA RequeueIInv == IInv /\ Requeue => IInv'
  <1> SUFFICES ASSUME IInv, Requeue PROVE IInv'
    BY Zenon
  <1> USE DEF IInv
  <1>0. /\ UNCHANGED <<streaming, filled, content, frameNo, n_buffers, read_framecnt, save_framecnt,
                       slot, tail_idx, head_idx, ringCount, scratch, saved, errors, sleepErrors>>
        /\ pc = "requeue" /\ pc' = "select"
        /\ frame_buf' = NoBuffer /\ queued' = Append(queued, frame_buf) /\ count' = count - 1
    BY Zenon, HeldCanBeQueued DEF Requeue, QueueBuffer, ringVars
  <1>1. frame_buf \in 1..n_buffers /\ n_buffers \in Nat
    BY Zenon, <1>0, Numbers DEF Holding
  <1>2. /\ queued' \in Seq(1..DRIVER_MMAP_BUFFERS)
        /\ Len(queued) \in Nat /\ Len(queued') = Len(queued) + 1
        /\ \A i \in 1..Len(queued) : queued'[i] = queued[i]
        /\ queued'[Len(queued) + 1] = frame_buf
    <2>1. queued \in Seq(1..DRIVER_MMAP_BUFFERS) /\ frame_buf \in 1..DRIVER_MMAP_BUFFERS
      BY SMTT(20), <1>1, CaptureAssumption DEF TypeOK
    <2> QED
      BY <1>0, <2>1, AppendFacts
  <1>n. /\ count \in Nat /\ count > 0 /\ read_framecnt \in Int /\ save_framecnt \in Nat
        /\ sleepErrors \in Nat /\ CAPTURE_FRAMES \in Nat
    BY <1>0, CaptureAssumption, Numbers DEF TypeOK, FRAMES_TO_ACQUIRE, Accounted, Holding
  <1>3. Accounted'
    BY <1>0, <1>n DEF Accounted, Holding, Unsaved, InRing
  <1>4. TypeOK'
    <2>1. count' \in 0..FRAMES_TO_ACQUIRE /\ frame_buf' \in 0..DRIVER_MMAP_BUFFERS
      BY <1>0, <1>n, CaptureAssumption DEF TypeOK, FRAMES_TO_ACQUIRE, NoBuffer
    <2> QED
      BY Zenon, <1>0, <1>2, <2>1 DEF TypeOK, Pcs
  <1>5. Mapped'
    BY Zenon, <1>0 DEF Mapped, Holding
  <1>6. Once'
    <2>1. \A i \in 1..Len(queued') : queued'[i] \in 1..n_buffers /\ queued'[i] # NoBuffer
      BY <1>1, <1>2 DEF Once, NoBuffer
    <2>2. \A i \in 1..Len(filled) : filled[i] # NoBuffer
      BY <1>1 DEF Once, NoBuffer
    <2>3. \A i, j \in 1..Len(queued') : queued'[i] = queued'[j] => i = j
      BY <1>2 DEF Once
    <2>4. \A i \in 1..Len(queued'), j \in 1..Len(filled) : queued'[i] # filled[j]
      BY <1>2 DEF Once
    <2> QED
      BY <1>0, <2>1, <2>2, <2>3, <2>4 DEF Once
  <1>7. Covered'
    <2> SUFFICES ASSUME NEW x \in 1..n_buffers PROVE In(queued', x) \/ In(filled, x)
      BY Zenon, <1>0 DEF Covered
    <2>1. CASE x = frame_buf
      <3>1. Len(queued) + 1 \in 1..Len(queued')
        BY <1>2
      <3> QED
        BY Zenon, <1>2, <2>1, <3>1 DEF In
    <2>2. CASE In(queued, x)
      <3>1. PICK i \in 1..Len(queued) : queued[i] = x
        BY Zenon, <2>2 DEF In
      <3>2. i \in 1..Len(queued') /\ queued'[i] = x
        BY <1>2, <3>1
      <3> QED
        BY Zenon, <3>2 DEF In
    <2> QED
      BY Zenon, <1>0, <2>1, <2>2 DEF Covered
  <1>8. Newer'
    BY Zenon, <1>0 DEF Newer, Holding, Unsaved
  <1>9. RingOne'
    BY Zenon, <1>0 DEF RingOne, InRing
  <1> QED
    BY Zenon, <1>3, <1>4, <1>5, <1>6, <1>7, <1>8, <1>9

\* VIDIOC_STREAMOFF empties both queues; munmap forgets the buffers.
LEMMA StopIInv == IInv /\ (Stop \/ Uninit) => IInv'
  <1> SUFFICES ASSUME IInv, Stop \/ Uninit PROVE IInv'
    BY Zenon
  <1> USE DEF IInv
  <1>0. /\ UNCHANGED <<content, frameNo, frame_buf, count, read_framecnt, save_framecnt,
                       slot, tail_idx, head_idx, ringCount, scratch, saved, errors, sleepErrors>>
        /\ \/ pc = "stop" /\ pc' = "uninit" /\ UNCHANGED n_buffers
           \/ pc = "uninit" /\ pc' = "done" /\ n_buffers' = 0
        /\ queued' = <<>> /\ filled' = <<>> /\ streaming' = FALSE
    <2>1. CASE Stop
      BY Zenon, <2>1 DEF Stop, StreamOff, appVars, cntVars, ringVars
    <2>2. CASE Uninit
      <3>1. UNCHANGED streaming /\ ~streaming /\ streaming \in BOOLEAN
        BY Zenon, <2>2 DEF Uninit, drvVars, Mapped, TypeOK
      <3>2. streaming' = FALSE
        BY Zenon, <3>1
      <3> QED
        BY Zenon, <2>2, <3>2 DEF Uninit, drvVars, cntVars, ringVars, Mapped
    <2> QED
      BY Zenon, <2>1, <2>2
  <1>1. TypeOK'
    <2>1. n_buffers' \in 0..DRIVER_MMAP_BUFFERS
      <3>1. /\ n_buffers \in 0..DRIVER_MMAP_BUFFERS /\ DRIVER_MMAP_BUFFERS \in Nat
            /\ n_buffers' = n_buffers \/ n_buffers' = 0
        BY Zenon, <1>0, CaptureAssumption DEF TypeOK
      <3> QED
        BY ONLY <3>1
    <2>2. queued' \in Seq(1..DRIVER_MMAP_BUFFERS) /\ filled' \in Seq(1..DRIVER_MMAP_BUFFERS)
      BY <1>0
    <2>3. streaming' \in BOOLEAN
      BY Zenon, <1>0
    <2> QED
      BY Zenon, <1>0, <2>1, <2>2, <2>3 DEF TypeOK, Pcs
  <1>2. Mapped'
    <2>1. Len(content) \in Nat /\ n_buffers <= Len(content)
      BY Zenon, Numbers DEF Mapped
    <2>2. n_buffers' <= Len(content)
      BY <1>0, <2>1
    <2>3. frame_buf = NoBuffer
      BY Zenon, <1>0 DEF Mapped, Holding
    <2>4. ~streaming'
      BY Zenon, <1>0
    <2>5. content \in Seq(0..MaxFrames) /\ Len(content) <= DRIVER_MMAP_BUFFERS
      BY Zenon DEF Mapped
    <2> QED
      BY ONLY Zenon, <1>0, <2>2, <2>3, <2>4, <2>5 DEF Mapped, Holding
  <1>3. Once' /\ Covered'
    BY SMTT(20), <1>0 DEF Once, Covered
  <1>4. Newer'
    <2>1. Len(filled') = 0 /\ Len(filled) >= 0
      BY <1>0, Numbers
    <2>2. frameNo >= read_framecnt + STARTUP_FRAMES + 0
      BY <2>1, Numbers DEF Newer
    <2> QED
      BY <1>0, <2>1, <2>2 DEF Newer, Holding, Unsaved
  <1>5. Accounted' /\ RingOne'
    BY Zenon, <1>0 DEF Accounted, RingOne, Holding, Unsaved, InRing
  <1> QED
    BY Zenon, <1>1, <1>2, <1>3, <1>4, <1>5

\* Every step of the program and of the driver keeps it.
LEMMA StepIInv == IInv /\ [Next]_vars => IInv'
  BY Zenon, CameraIInv, SetupIInv, LoopIInv, ReadIInv, RequeueIInv, StopIInv DEF Next, Program

-----------------------------------------------------------------------------
\* Every variable of v4l2_frame_acquisition_loop keeps its range: the ring
\* indices stay in the ring and the counters below FRAMES_TO_ACQUIRE.
THEOREM TypeCorrect == Spec => []TypeOK
  <1>1. IInv => TypeOK
    BY Zenon DEF IInv
  <1> QED
    BY <1>1, InitIInv, StepIInv, PTL DEF Spec

\* For any number of buffers the driver grants, each is in exactly one place
\* while the stream is on: with the driver to be filled, with the driver to
\* be dequeued, or with the program between VIDIOC_DQBUF and VIDIOC_QBUF.
THEOREM BuffersCorrect == Spec => []BuffersPartitioned
  <1>1. IInv => BuffersPartitioned
    <2> SUFFICES ASSUME IInv, streaming PROVE BuffersPartitioned
      BY Zenon DEF BuffersPartitioned
    <2>1. DOMAIN queued = 1..Len(queued) /\ DOMAIN filled = 1..Len(filled)
      BY DEF IInv, TypeOK
    <2>2. IsInjective(queued) /\ IsInjective(filled)
      BY Zenon, <2>1 DEF IInv, Once, IsInjective
    <2>3. /\ Range(queued) \intersect Range(filled) = {}
          /\ frame_buf \notin Range(queued) \union Range(filled)
      BY Zenon, <2>1 DEF IInv, Once, Range
    <2>4. 1..n_buffers \subseteq Range(queued) \union Range(filled) \union {frame_buf}
      BY Zenon, <2>1 DEF IInv, Covered, In, Range
    <2> QED
      BY Zenon, <2>2, <2>3, <2>4 DEF BuffersPartitioned
  <1> QED
    BY <1>1, InitIInv, StepIInv, PTL DEF Spec

\* The files save_image writes hold ever newer frames, none of the startup
\* frames, and CAPTURE_FRAMES of them less those whose sleep was interrupted,
\* for every number of frames, lost frames, failing reads and exits.
THEOREM CaptureCorrect == Spec => []CapturesExactly
  <1>1. IInv => CapturesExactly
    <2> SUFFICES ASSUME IInv PROVE CapturesExactly
      BY Zenon
    <2> USE DEF IInv
    <2>1. pc = "save" => scratch = content[frame_buf]
      BY Zenon DEF RingOne
    <2>2. \A i \in 1..(Len(saved) - 1) : saved[i] < saved[i + 1]
      <3> SUFFICES ASSUME NEW i \in 1..(Len(saved) - 1) PROVE saved[i] < saved[i + 1]
        BY Zenon
      <3>1. i \in 1..Len(saved) /\ i + 1 \in 1..Len(saved) /\ i < i + 1
        BY Numbers
      <3> QED
        BY Zenon, <3>1 DEF Newer
    <2>3. Len(saved) = save_framecnt /\ save_framecnt <= CAPTURE_FRAMES
      BY Zenon DEF Accounted
    <2>4. saved # <<>> => Head(saved) > STARTUP_FRAMES
      <3> SUFFICES ASSUME saved # <<>> PROVE Head(saved) > STARTUP_FRAMES
        BY Zenon
      <3>1. Len(saved) \in Nat /\ Len(saved) > 0 /\ Head(saved) = saved[1]
        BY Zenon, TailFacts DEF TypeOK
      <3> QED
        BY <3>1 DEF Newer
    <2>5. pc = "done" => save_framecnt + sleepErrors >= CAPTURE_FRAMES
      <3>1. /\ save_framecnt \in Nat /\ sleepErrors \in Nat /\ CAPTURE_FRAMES \in Nat
        BY CaptureAssumption DEF TypeOK, FRAMES_TO_ACQUIRE
      <3> QED
        BY <3>1, Numbers DEF Accounted, Holding, Unsaved
    <2> QED
      BY Zenon, <2>1, <2>2, <2>3, <2>4, <2>5 DEF CapturesExactly
  <1> QED
    BY <1>1, InitIInv, StepIInv, PTL DEF Spec

-----------------------------------------------------------------------------
(***************************************************************************)
(* The stand-alone programs (SimpleCapture, SimpleV4l2), for any number of *)
(* buffers, frames and reads that return nothing.                          *)
(***************************************************************************)
\* The queues hold buffers that were granted, and the frames are numbered.
AppTypes ==
  /\ frameNo \in Nat /\ frameNo <= MaxFrames
  /\ content \in Seq(Nat) /\ reads \in Seq(Nat)
  /\ queued \in Seq(1..Len(content)) /\ filled \in Seq(1..Len(content))
  /\ held \in Nat
  /\ streaming \in BOOLEAN

\* no buffer is twice in the queue s
Distinct(s) == \A i, j \in 1..Len(s) : s[i] = s[j] => i = j

\* A buffer is in one place only: with the camera, with the driver or held.
AppOnce ==
  /\ Distinct(queued) /\ Distinct(filled)
  /\ \A b \in 1..Len(content) : ~In(queued, b) \/ ~In(filled, b)
  /\ held # None => held \in 1..Len(content) /\ ~In(queued, held) /\ ~In(filled, held)

\* The frames that wait are newer than those taken, and the newest taken is
\* in the buffer that is held.
AppOrdered ==
  /\ \A j \in 1..Len(filled) : content[filled[j]] <= frameNo
  /\ \A i, j \in 1..Len(filled) : i < j => content[filled[i]] < content[filled[j]]
  /\ \A i \in 1..Len(reads) : reads[i] <= frameNo
  /\ \A i \in 1..Len(reads), j \in 1..Len(filled) : reads[i] < content[filled[j]]
  /\ \A i, j \in 1..Len(reads) : i < j => reads[i] < reads[j]
  /\ held # None => Len(reads) > 0 /\ content[held] = reads[Len(reads)]

DriverInv == AppTypes /\ AppOnce /\ AppOrdered

\* nothing has been asked of the driver yet
Untouched == queued = <<>> /\ filled = <<>> /\ ~streaming /\ held = None /\ reads = <<>>

-----------------------------------------------------------------------------
ScTaken == {"process", "dump", "requeue", "spin"}

\* Which buffers the capture programs have, by the place they are at.
ScBuffers ==
  /\ spc \in {"open", "init"} => Untouched
  /\ spc = "start" =>
       /\ filled = <<>> /\ ~streaming /\ held = None /\ reads = <<>>
       /\ \A i \in 1..Len(queued) : queued[i] = i
  /\ spc \notin {"open", "init", "uninit", "close", "done", "fail"} =>
       IF io = "USERPTR" THEN mapped = 1..MaxBuffers ELSE mapped = 1..Len(content)
  /\ io = "USERPTR" => Len(content) <= MaxBuffers
  /\ io = "READ" => queued = <<>> /\ filled = <<>> /\ ~streaming
  /\ io = "READ" /\ spc \notin {"open", "init", "fail"} => Len(content) = 1
  /\ spc \in {"uninit", "close", "done", "fail"} => ~streaming
  /\ spc # "fail" => (spc \in ScTaken <=> held # None)

\* The number of the frame, and how many are left.
ScCounts ==
  spc # "fail" =>
    /\ framecnt = FirstCnt(prog) + (Len(reads) - IF spc = "process" THEN 1 ELSE 0)
    /\ left = FrameCount[prog] - Len(reads) + (IF spc \in ScTaken \cup {"counted"} THEN 1 ELSE 0)
    /\ spc \in {"stop", "uninit", "close", "done"} => left = 0

\* the first frame that is dumped, unless none is
FirstTag == IF prog # "simple" /\ pixfmt = "YUYV" THEN 0 ELSE FirstCnt(prog) + 1
Dumps == prog # "gprof" /\ pixfmt # "other"
LastTag == IF spc \in {"dump", "spin"} THEN framecnt - 1 ELSE framecnt

\* The files are those of the frames from the first one on, and hold them.
ScFiles ==
  /\ DOMAIN files = IF Dumps THEN FirstTag..LastTag ELSE {}
  /\ \A k \in DOMAIN files :
       k - FirstCnt(prog) \in DOMAIN reads /\ files[k] = reads[k - FirstCnt(prog)]
  /\ spc \in {"dump", "spin"} => Dumps /\ framecnt >= FirstTag
  /\ spc = "dump" /\ pixfmt = "YUYV" => bigbuffer = content[held]

ScInv ==
  prog \in CapturePrograms /\ DriverInv /\ ScBuffers /\ ScCounts /\ ScFiles

-----------------------------------------------------------------------------
V4Buffers ==
  /\ io = "MMAP" /\ spc # "dump"
  /\ spc \in {"open", "format", "request", "map"} => Untouched
  /\ spc \in {"open", "format", "request"} => mapped = {}
  /\ spc = "map" => \E n \in 0..Len(content) : mapped = 1..n
  /\ spc = "queue" =>
       /\ filled = <<>> /\ ~streaming /\ held = None /\ reads = <<>>
       /\ \A i \in 1..Len(queued) : queued[i] = i
  /\ spc \in {"queue", "wait", "drain", "process", "requeue"} => mapped = 1..Len(content)
  /\ spc \in {"wait", "drain"} => held = None
  /\ spc \in {"process", "requeue"} => held # None

V4Counts ==
  /\ left \in Int
  /\ Len(reads) = V4Frames - left + (IF held = None THEN 0 ELSE 1)
  /\ spc = "requeue" => bigbuffer = content[held]
  /\ files = <<>>

V4Inv == prog \in V4Programs /\ DriverInv /\ V4Buffers /\ V4Counts

\* The invariants of the program that runs.
AppInv ==
  \/ app = "capturelib" /\ prog = "none" /\ spc = "open" /\ files = <<>> /\ io = "MMAP"
  \/ app = "simple" /\ ScInv
  \/ app = "v4l2" /\ V4Inv

-----------------------------------------------------------------------------
\* Taking the first buffer off a queue leaves each of the others where it was.
LEMMA TailIn ==
  ASSUME NEW S, NEW s \in Seq(S), s # <<>>, Distinct(s)
  PROVE  /\ Distinct(Tail(s)) /\ ~In(Tail(s), Head(s)) /\ In(s, Head(s))
         /\ \A b : In(Tail(s), b) => In(s, b)
  <1>1. /\ Len(s) \in Nat /\ Len(s) > 0 /\ Len(Tail(s)) = Len(s) - 1 /\ Head(s) = s[1]
        /\ \A i \in 1..Len(Tail(s)) : i + 1 \in 1..Len(s) /\ Tail(s)[i] = s[i + 1]
    BY Zenon, TailFacts
  <1>2. \A i, j \in 1..Len(s) : s[i] = s[j] => i = j
    BY Zenon DEF Distinct
  <1>3. 1 \in 1..Len(s)
    BY ONLY <1>1
  <1>4. ASSUME NEW i \in 1..Len(Tail(s)), NEW j \in 1..Len(Tail(s)), Tail(s)[i] = Tail(s)[j]
        PROVE  i = j
    <2>1. /\ i + 1 \in 1..Len(s) /\ Tail(s)[i] = s[i + 1]
          /\ j + 1 \in 1..Len(s) /\ Tail(s)[j] = s[j + 1]
      BY Zenon, <1>1
    <2>3. i + 1 = j + 1
      BY Zenon, <2>1, <1>2, <1>4
    <2>2. i \in Int /\ j \in Int
      BY <1>1
    <2> QED
      BY ONLY <2>2, <2>3
  <1>5. ASSUME NEW i \in 1..Len(Tail(s)), Tail(s)[i] = Head(s)
        PROVE  FALSE
    <2>1. i + 1 = 1
      BY Zenon, <1>1, <1>2, <1>3, <1>5
    <2> QED
      BY <2>1, <1>1
  <1>6. \A b : In(Tail(s), b) => In(s, b)
    BY Zenon, <1>1 DEF In
  <1>7. In(s, Head(s)) /\ ~In(Tail(s), Head(s))
    BY Zenon, <1>1, <1>3, <1>5 DEF In
  <1>8. Distinct(Tail(s))
    BY Zenon, <1>4 DEF Distinct
  <1> QED
    BY Zenon, <1>6, <1>7, <1>8

\* Appending a buffer to a queue it is not in keeps the queue free of doubles.
LEMMA AppendIn ==
  ASSUME NEW S, NEW s \in Seq(S), NEW e \in S, Distinct(s), ~In(s, e)
  PROVE  /\ Distinct(Append(s, e))
         /\ \A b : In(Append(s, e), b) <=> In(s, b) \/ b = e
  <1>1. /\ Len(s) \in Nat /\ Len(Append(s, e)) = Len(s) + 1
        /\ \A i \in 1..Len(s) : Append(s, e)[i] = s[i]
        /\ Append(s, e)[Len(s) + 1] = e
    BY AppendFacts
  <1>2. \A i : i \in 1..Len(Append(s, e)) <=> i \in 1..Len(s) \/ i = Len(s) + 1
    BY ONLY <1>1
  <1> QED
    BY Zenon, <1>1, <1>2 DEF Distinct, In

\* A step that leaves the queues, the buffers and the frame held alone keeps
\* the invariant of the driver.
LEMMA AppSame ==
  ASSUME DriverInv, streaming' \in BOOLEAN,
         UNCHANGED <<frameNo, content, queued, filled, held, reads>>
  PROVE  DriverInv'
  BY Zenon DEF DriverInv, AppTypes, AppOnce, AppOrdered

\* The entries of a queue.
LEMMA EntryFacts ==
  ASSUME NEW S, NEW s \in Seq(S)
  PROVE  Len(s) \in Nat /\ \A i \in 1..Len(s) : s[i] \in S
  OBVIOUS

\* A buffer that is written to keeps the others.
LEMMA UpdateFacts ==
  ASSUME NEW s \in Seq(Nat), NEW b \in 1..Len(s), NEW v \in Nat
  PROVE  /\ [s EXCEPT ![b] = v] \in Seq(Nat) /\ Len([s EXCEPT ![b] = v]) = Len(s)
         /\ [s EXCEPT ![b] = v][b] = v
         /\ \A x \in 1..Len(s) : x # b => [s EXCEPT ![b] = v][x] = s[x]
  OBVIOUS

\* The frames and the buffers are numbers.
LEMMA AppNumbers ==
  ASSUME DriverInv
  PROVE  /\ Len(content) \in Nat /\ Len(queued) \in Nat /\ Len(filled) \in Nat
         /\ Len(reads) \in Nat
         /\ \A b \in 1..Len(content) : content[b] \in Nat
         /\ \A i \in 1..Len(queued) : queued[i] \in 1..Len(content)
         /\ \A i \in 1..Len(filled) : filled[i] \in 1..Len(content)
         /\ \A i \in 1..Len(filled) : content[filled[i]] \in Nat
         /\ \A i \in 1..Len(reads) : reads[i] \in Nat
  <1>1. /\ content \in Seq(Nat) /\ reads \in Seq(Nat)
        /\ queued \in Seq(1..Len(content)) /\ filled \in Seq(1..Len(content))
    BY Zenon DEF DriverInv, AppTypes
  <1> QED
    BY Zenon, <1>1, EntryFacts

\* The camera fills the buffer that was queued first.
LEMMA AppFill ==
  ASSUME DriverInv, Fill, UNCHANGED <<held, reads>>
  PROVE  DriverInv'
  <1> DEFINE h == Head(queued)
  <1>1. /\ frameNo' = frameNo + 1 /\ frameNo < MaxFrames
        /\ content' = [content EXCEPT ![h] = frameNo']
        /\ queued' = Tail(queued) /\ filled' = Append(filled, h)
        /\ streaming' = streaming /\ queued # <<>> /\ held' = held /\ reads' = reads
    BY Zenon DEF Fill
  <1>2. /\ frameNo \in Nat /\ MaxFrames \in Nat /\ streaming \in BOOLEAN
        /\ content \in Seq(Nat) /\ reads \in Seq(Nat)
        /\ queued \in Seq(1..Len(content)) /\ filled \in Seq(1..Len(content))
        /\ held \in Nat
    BY Zenon, MaxFramesAssumption DEF DriverInv, AppTypes
  <1>3. queued' \in Seq(1..Len(content)) /\ h \in 1..Len(content)
    BY Zenon, <1>1, <1>2, TailFacts
  <1>o. /\ Distinct(queued) /\ Distinct(filled)
        /\ \A b \in 1..Len(content) : ~In(queued, b) \/ ~In(filled, b)
        /\ held # None => held \in 1..Len(content) /\ ~In(queued, held) /\ ~In(filled, held)
    BY Zenon DEF DriverInv, AppOnce
  <1>q. /\ Distinct(queued') /\ ~In(queued', h) /\ In(queued, h)
        /\ \A b : In(queued', b) => In(queued, b)
    BY Zenon, <1>1, <1>2, <1>o, TailIn
  <1>f. /\ Distinct(filled')
        /\ \A b : In(filled', b) <=> In(filled, b) \/ b = h
    BY SMTT(20), <1>1, <1>2, <1>3, <1>o, <1>q, AppendIn
  <1>4. /\ filled' \in Seq(1..Len(content))
        /\ Len(filled) \in Nat /\ Len(filled') = Len(filled) + 1
        /\ \A i \in 1..Len(filled) : filled'[i] = filled[i]
        /\ filled'[Len(filled) + 1] = h
    BY <1>1, <1>2, <1>3, AppendFacts
  <1> HIDE DEF h
  <1>5. /\ content' \in Seq(Nat) /\ Len(content') = Len(content)
        /\ content'[h] = frameNo + 1
        /\ \A b \in 1..Len(content) : b # h => content'[b] = content[b]
    <2>1. frameNo + 1 \in Nat
      BY ONLY <1>2
    <2> QED
      BY SMTT(20), <1>1, <1>2, <1>3, <2>1, UpdateFacts
  <1>7. \A j \in 1..Len(filled') : j \in 1..Len(filled) \/ j = Len(filled) + 1
    BY ONLY <1>4
  <1>8. AppTypes'
    <2>1. frameNo' \in Nat /\ frameNo' <= MaxFrames
      BY ONLY <1>1, <1>2
    <2> QED
      BY Zenon, <2>1, <1>1, <1>2, <1>3, <1>4, <1>5 DEF AppTypes
  <1>9. AppOnce'
    BY Zenon, <1>1, <1>5, <1>o, <1>q, <1>f DEF AppOnce
  <1>10. AppOrdered'
    <2>1. /\ \A j \in 1..Len(filled) : content[filled[j]] <= frameNo
          /\ \A i, j \in 1..Len(filled) : i < j => content[filled[i]] < content[filled[j]]
          /\ \A i \in 1..Len(reads) : reads[i] <= frameNo
          /\ \A i \in 1..Len(reads), j \in 1..Len(filled) : reads[i] < content[filled[j]]
          /\ \A i, j \in 1..Len(reads) : i < j => reads[i] < reads[j]
      BY Zenon DEF DriverInv, AppOrdered
    <2>2. /\ \A i \in 1..Len(filled) : filled[i] \in 1..Len(content)
          /\ \A i \in 1..Len(filled) : content[filled[i]] \in Nat
          /\ \A i \in 1..Len(reads) : reads[i] \in Nat
      BY Zenon, AppNumbers
    <2>3. \A j \in 1..Len(filled) : content'[filled'[j]] = content[filled[j]]
      <3>1. \A j \in 1..Len(filled) : filled[j] # h
        BY Zenon, <1>3, <1>o, <1>q DEF In
      <3> QED
        BY Zenon, <3>1, <2>2, <1>4, <1>5
    <2>4. content'[filled'[Len(filled) + 1]] = frameNo + 1
      BY Zenon, <1>4, <1>5
    <2>a. \A n \in Nat : n <= frameNo => n <= frameNo + 1 /\ n < frameNo + 1
      BY ONLY <1>2
    <2>b. frameNo + 1 <= frameNo + 1
      BY ONLY <1>2
    <2>5. \A j \in 1..Len(filled') : content'[filled'[j]] <= frameNo'
      BY Zenon, <1>1, <1>7, <2>1, <2>2, <2>3, <2>4, <2>a, <2>b
    <2>6. ASSUME NEW i \in 1..Len(filled'), NEW j \in 1..Len(filled'), i < j
          PROVE  content'[filled'[i]] < content'[filled'[j]]
      <3>1. i \in 1..Len(filled)
        BY ONLY <1>4, <2>6
      <3> QED
        BY Zenon, <1>7, <2>1, <2>2, <2>3, <2>4, <2>6, <2>a, <3>1
    <2>7. \A i \in 1..Len(reads) : reads[i] <= frameNo'
      BY Zenon, <1>1, <2>1, <2>2, <2>a
    <2>8. \A i \in 1..Len(reads), j \in 1..Len(filled') : reads[i] < content'[filled'[j]]
      BY Zenon, <1>7, <2>1, <2>2, <2>3, <2>4, <2>a
    <2>9. held # None => Len(reads) > 0 /\ content'[held] = reads[Len(reads)]
      BY Zenon, <1>5, <1>o, <1>q DEF DriverInv, AppOrdered
    <2> QED
      BY Zenon, <1>1, <2>1, <2>5, <2>6, <2>7, <2>8, <2>9 DEF AppOrdered
  <1> QED
    BY Zenon, <1>8, <1>9, <1>10 DEF DriverInv

\* A frame that is lost changes the number of the next one only.
LEMMA AppLose ==
  ASSUME DriverInv, Lose, UNCHANGED <<held, reads>>
  PROVE  DriverInv'
  <1>1. /\ frameNo' = frameNo + 1 /\ frameNo < MaxFrames
        /\ UNCHANGED <<streaming, content, queued, filled, held, reads>>
    BY Zenon DEF Lose
  <1>2. frameNo \in Nat /\ MaxFrames \in Nat
    BY Zenon, MaxFramesAssumption DEF DriverInv, AppTypes
  <1>3. frameNo' \in Nat /\ frameNo' <= MaxFrames
    BY ONLY <1>1, <1>2
  <1>4. AppTypes' /\ AppOnce'
    BY Zenon, <1>1, <1>3 DEF DriverInv, AppTypes, AppOnce
  <1>5. /\ \A j \in 1..Len(filled) : content[filled[j]] <= frameNo'
        /\ \A i \in 1..Len(reads) : reads[i] <= frameNo'
    <2>1. /\ \A j \in 1..Len(filled) : content[filled[j]] <= frameNo
          /\ \A i \in 1..Len(reads) : reads[i] <= frameNo
      BY Zenon DEF DriverInv, AppOrdered
    <2>2. /\ \A i \in 1..Len(filled) : content[filled[i]] \in Nat
          /\ \A i \in 1..Len(reads) : reads[i] \in Nat
      BY Zenon, AppNumbers
    <2> QED
      BY ONLY <1>1, <1>2, <2>1, <2>2
  <1>6. AppOrdered'
    BY Zenon, <1>1, <1>5 DEF DriverInv, AppOrdered
  <1> QED
    BY Zenon, <1>4, <1>6 DEF DriverInv

\* VIDIOC_DQBUF takes the oldest frame that waits.
LEMMA AppDequeue ==
  ASSUME DriverInv, DequeueCall, held = None
  PROVE  DriverInv' /\ held' # None /\ Len(reads') = Len(reads) + 1
  <1> DEFINE h == Head(filled)
             c == content[Head(filled)]
  <1>1. /\ filled # <<>> /\ filled' = Tail(filled) /\ held' = h /\ reads' = Append(reads, c)
        /\ UNCHANGED <<streaming, queued, content, frameNo>>
    BY Zenon DEF DequeueCall, DequeueBuffer
  <1>2. /\ frameNo \in Nat /\ content \in Seq(Nat) /\ reads \in Seq(Nat)
        /\ queued \in Seq(1..Len(content)) /\ filled \in Seq(1..Len(content))
    BY Zenon DEF DriverInv, AppTypes
  <1>o. /\ Distinct(queued) /\ Distinct(filled)
        /\ \A b \in 1..Len(content) : ~In(queued, b) \/ ~In(filled, b)
    BY Zenon DEF DriverInv, AppOnce
  <1>3. /\ filled' \in Seq(1..Len(content)) /\ h \in 1..Len(content)
        /\ Len(filled) \in Nat /\ Len(filled) > 0 /\ Len(filled') = Len(filled) - 1
        /\ h = filled[1]
        /\ \A i \in 1..Len(filled') : i + 1 \in 1..Len(filled) /\ filled'[i] = filled[i + 1]
    BY Zenon, <1>1, <1>2, TailFacts
  <1>f. /\ Distinct(filled') /\ ~In(filled', h) /\ In(filled, h)
        /\ \A b : In(filled', b) => In(filled, b)
    BY Zenon, <1>1, <1>2, <1>o, TailIn
  <1>n. /\ Len(reads) \in Nat /\ Len(content) \in Nat
        /\ \A b \in 1..Len(content) : content[b] \in Nat
        /\ \A i \in 1..Len(reads) : reads[i] \in Nat
    BY Zenon, AppNumbers
  <1>c. c \in Nat
    BY Zenon, <1>n, <1>3
  <1>4. /\ reads' \in Seq(Nat) /\ Len(reads') = Len(reads) + 1
        /\ \A i \in 1..Len(reads) : reads'[i] = reads[i]
        /\ reads'[Len(reads) + 1] = c
    <2> HIDE DEF c
    <2> QED
      BY <1>1, <1>2, <1>c, AppendFacts
  <1>5. h \in Nat /\ h # 0
    BY ONLY <1>3, <1>n
  <1>6. AppTypes'
    BY Zenon, <1>1, <1>2, <1>3, <1>4, <1>5 DEF DriverInv, AppTypes
  <1>7. AppOnce'
    BY Zenon, <1>1, <1>3, <1>o, <1>f DEF AppOnce
  <1>8. AppOrdered'
    <2>1. /\ \A j \in 1..Len(filled) : content[filled[j]] <= frameNo
          /\ \A i, j \in 1..Len(filled) : i < j => content[filled[i]] < content[filled[j]]
          /\ \A i \in 1..Len(reads) : reads[i] <= frameNo
          /\ \A i \in 1..Len(reads), j \in 1..Len(filled) : reads[i] < content[filled[j]]
          /\ \A i, j \in 1..Len(reads) : i < j => reads[i] < reads[j]
      BY Zenon DEF DriverInv, AppOrdered
    <2>2. 1 \in 1..Len(filled) /\ c = content[filled[1]]
      <3>1. 1 \in 1..Len(filled)
        BY ONLY <1>3
      <3> QED
        BY Zenon, <3>1, <1>3
    <2>3. \A j \in 1..Len(filled') : c < content[filled'[j]]
      <3>1. \A j \in 1..Len(filled') : 1 < j + 1
        BY ONLY <1>3
      <3> QED
        BY Zenon, <3>1, <1>3, <2>1, <2>2
    <2>4. \A i \in 1..Len(reads) : reads[i] < c
      BY Zenon, <2>1, <2>2
    <2>5. \A i \in 1..Len(reads') : i \in 1..Len(reads) \/ i = Len(reads) + 1
      BY ONLY <1>4, <1>n
    <2>6. \A j \in 1..Len(filled') : content[filled'[j]] <= frameNo
      BY Zenon, <1>3, <2>1
    <2>7. ASSUME NEW i \in 1..Len(filled'), NEW j \in 1..Len(filled'), i < j
          PROVE  content[filled'[i]] < content[filled'[j]]
      <3>1. i + 1 < j + 1
        BY ONLY <1>3, <2>7
      <3> QED
        BY Zenon, <3>1, <1>3, <2>1
    <2>8. \A i \in 1..Len(reads') : reads'[i] <= frameNo
      BY Zenon, <1>4, <2>1, <2>2, <2>5
    <2>9. \A i \in 1..Len(reads'), j \in 1..Len(filled') : reads'[i] < content[filled'[j]]
      BY Zenon, <1>3, <1>4, <2>1, <2>3, <2>5
    <2>10. ASSUME NEW i \in 1..Len(reads'), NEW j \in 1..Len(reads'), i < j
           PROVE  reads'[i] < reads'[j]
      <3>1. i \in 1..Len(reads)
        BY ONLY <1>4, <1>n, <2>10
      <3> QED
        BY Zenon, <3>1, <1>4, <2>1, <2>4, <2>5, <2>10
    <2>11. Len(reads') > 0 /\ content[held'] = reads'[Len(reads')]
      <3>1. Len(reads') > 0
        BY ONLY <1>4, <1>n
      <3> QED
        BY Zenon, <3>1, <1>1, <1>4
    <2> QED
      BY Zenon, <1>1, <2>6, <2>7, <2>8, <2>9, <2>10, <2>11 DEF AppOrdered
  <1> QED
    BY Zenon, <1>1, <1>4, <1>5, <1>6, <1>7, <1>8 DEF DriverInv, None

\* read() puts the next frame into the only buffer.
LEMMA AppRead ==
  ASSUME DriverInv, ReadCall, queued = <<>>, filled = <<>>, Len(content) = 1
  PROVE  DriverInv' /\ held' # None /\ Len(reads') = Len(reads) + 1 /\ Len(content') = 1
  <1>1. /\ frameNo < MaxFrames /\ frameNo' = frameNo + 1
        /\ content' = [content EXCEPT ![1] = frameNo']
        /\ held' = 1 /\ reads' = Append(reads, frameNo')
        /\ UNCHANGED <<streaming, queued, filled>>
    BY Zenon DEF ReadCall
  <1>2. /\ frameNo \in Nat /\ MaxFrames \in Nat
        /\ content \in Seq(Nat) /\ reads \in Seq(Nat) /\ streaming \in BOOLEAN
    BY Zenon, MaxFramesAssumption DEF DriverInv, AppTypes
  <1>3. frameNo' \in Nat /\ frameNo' <= MaxFrames
    BY ONLY <1>1, <1>2
  <1>4. /\ reads' \in Seq(Nat) /\ Len(reads) \in Nat /\ Len(reads') = Len(reads) + 1
        /\ \A i \in 1..Len(reads) : reads'[i] = reads[i]
        /\ reads'[Len(reads) + 1] = frameNo'
    BY <1>1, <1>2, <1>3, AppendFacts
  <1>5. content' \in Seq(Nat) /\ Len(content') = 1 /\ content'[1] = frameNo'
    <2>1. 1 \in 1..Len(content)
      OBVIOUS
    <2>2. ASSUME NEW b \in 1..Len(content), content' = [content EXCEPT ![b] = frameNo']
          PROVE  content' \in Seq(Nat) /\ Len(content') = Len(content) /\ content'[b] = frameNo'
      BY SMTT(20), <1>2, <1>3, <2>2, UpdateFacts
    <2> QED
      BY Zenon, <2>1, <2>2, <1>1
  <1>6. /\ queued' = <<>> /\ filled' = <<>>
        /\ queued' \in Seq(1..Len(content')) /\ filled' \in Seq(1..Len(content'))
        /\ Len(queued') = 0 /\ Len(filled') = 0 /\ 1..0 = {}
    BY <1>1
  <1>7. AppTypes'
    <2>1. 1 \in Nat
      BY Zenon
    <2> QED
      BY Zenon, <2>1, <1>1, <1>2, <1>3, <1>4, <1>5, <1>6 DEF AppTypes
  <1>8. AppOnce'
    <2>1. 1 \in 1..1
      OBVIOUS
    <2> QED
      BY Zenon, <2>1, <1>1, <1>5, <1>6 DEF AppOnce, Distinct, In
  <1>9. AppOrdered'
    <2>1. /\ \A i \in 1..Len(reads) : reads[i] <= frameNo
          /\ \A i, j \in 1..Len(reads) : i < j => reads[i] < reads[j]
      BY Zenon DEF DriverInv, AppOrdered
    <2>2. \A i \in 1..Len(reads) : reads[i] \in Nat
      BY Zenon, AppNumbers
    <2>3. \A n \in Nat : n <= frameNo => n <= frameNo' /\ n < frameNo'
      BY ONLY <1>1, <1>2
    <2>4. frameNo' <= frameNo' /\ Len(reads') > 0
      BY ONLY <1>3, <1>4
    <2>5. \A i \in 1..Len(reads') : i \in 1..Len(reads) \/ i = Len(reads) + 1
      BY ONLY <1>4
    <2>6. \A i \in 1..Len(reads') : reads'[i] <= frameNo'
      BY Zenon, <1>4, <2>1, <2>2, <2>3, <2>4, <2>5
    <2>7. ASSUME NEW i \in 1..Len(reads'), NEW j \in 1..Len(reads'), i < j
          PROVE  reads'[i] < reads'[j]
      <3>1. i \in 1..Len(reads)
        BY ONLY <1>4, <2>7
      <3> QED
        BY Zenon, <3>1, <1>4, <2>1, <2>2, <2>3, <2>5, <2>7
    <2> QED
      BY Zenon, <1>1, <1>4, <1>5, <1>6, <2>4, <2>6, <2>7 DEF AppOrdered
  <1> QED
    BY <1>1, <1>4, <1>5, <1>7, <1>8, <1>9 DEF DriverInv, None

\* VIDIOC_QBUF hands over a buffer the program has.
LEMMA AppQueue ==
  ASSUME DriverInv, NEW b \in 1..Len(content), QueueBuffer(b),
         ~In(queued, b), ~In(filled, b), reads' = reads, held' = None
  PROVE  DriverInv' /\ Len(queued') = Len(queued) + 1
  <1>1. /\ queued' = Append(queued, b) /\ reads' = reads /\ held' = None
        /\ UNCHANGED <<streaming, filled, content, frameNo>>
    BY Zenon DEF QueueBuffer
  <1>2. queued \in Seq(1..Len(content))
    BY Zenon DEF DriverInv, AppTypes
  <1>3. queued' \in Seq(1..Len(content)) /\ Len(queued') = Len(queued) + 1
    BY Zenon, <1>1, <1>2, AppendFacts
  <1>o. /\ Distinct(queued) /\ Distinct(filled)
        /\ \A x \in 1..Len(content) : ~In(queued, x) \/ ~In(filled, x)
    BY Zenon DEF DriverInv, AppOnce
  <1>4. /\ Distinct(queued')
        /\ \A x : In(queued', x) <=> In(queued, x) \/ x = b
    BY <1>1, <1>2, <1>o, AppendIn
  <1>5. AppTypes'
    <2>1. None \in Nat
      BY Zenon DEF None
    <2> QED
      BY Zenon, <2>1, <1>1, <1>3 DEF DriverInv, AppTypes
  <1>6. AppOnce'
    BY Zenon, <1>1, <1>4, <1>o DEF AppOnce
  <1>7. AppOrdered'
    BY Zenon, <1>1 DEF DriverInv, AppOrdered
  <1> QED
    BY Zenon, <1>3, <1>5, <1>6, <1>7 DEF DriverInv

\* VIDIOC_STREAMOFF empties the queues, VIDIOC_REQBUFS finds them empty.
LEMMA AppEmpties ==
  ASSUME DriverInv, streaming' \in BOOLEAN, queued' = <<>>, filled' = <<>>,
         frameNo' = frameNo, held' = held, reads' = reads,
         \/ content' = content
         \/ content' \in Seq(Nat) /\ held = None
  PROVE  DriverInv'
  <1>1. /\ queued' \in Seq(1..Len(content')) /\ filled' \in Seq(1..Len(content'))
        /\ Len(queued') = 0 /\ Len(filled') = 0 /\ 1..0 = {}
    OBVIOUS
  <1>2. AppTypes'
    BY Zenon, <1>1 DEF DriverInv, AppTypes
  <1>3. AppOnce'
    BY Zenon, <1>1 DEF DriverInv, AppOnce, Distinct, In
  <1>4. AppOrdered'
    BY Zenon, <1>1 DEF DriverInv, AppOrdered
  <1> QED
    BY Zenon, <1>2, <1>3, <1>4 DEF DriverInv

\* The driver accepts the buffer that is held (VIDIOC_QBUF).
LEMMA AppHeld ==
  ASSUME DriverInv
  PROVE  \A b : CanQueue(b) <=> ~In(queued, b) /\ ~In(filled, b)
  <1>1. /\ DOMAIN queued = 1..Len(queued) /\ DOMAIN filled = 1..Len(filled)
    <2>1. queued \in Seq(1..Len(content)) /\ filled \in Seq(1..Len(content))
      BY Zenon DEF DriverInv, AppTypes
    <2> QED
      BY ONLY <2>1
  <1> QED
    BY Zenon, <1>1 DEF CanQueue, Range, In

-----------------------------------------------------------------------------
\* Opening and setting up the device (open_device, init_device).
LEMMA ScSetupInv ==
  ASSUME ScInv, open_device \/ init_device
  PROVE  ScInv'
  <1>0. /\ prog \in CapturePrograms /\ DriverInv /\ ScBuffers /\ ScCounts /\ ScFiles
    BY Zenon DEF ScInv
  <1>1. CASE open_device
    <2>1. /\ spc = "open" /\ spc' = "init"
          /\ UNCHANGED <<streaming, queued, filled, content, frameNo>>
          /\ UNCHANGED <<prog, io, pixfmt>>
          /\ UNCHANGED <<mapped, held, left, framecnt, bigbuffer, reads, files, again>>
      BY Zenon, <1>1 DEF open_device, Goto, Keep, drvVars
    <2>2. DriverInv'
      <3>1. streaming' \in BOOLEAN
        BY Zenon, <1>0, <2>1 DEF DriverInv, AppTypes
      <3> QED
        BY Zenon, <3>1, <1>0, <2>1, AppSame
    <2>3. ScBuffers'
      BY Zenon, <1>0, <2>1 DEF ScBuffers, Untouched, ScTaken
    <2>4. ScCounts'
      BY Zenon, <1>0, <2>1 DEF ScCounts, ScTaken
    <2>5. ScFiles'
      BY Zenon, <1>0, <2>1 DEF ScFiles, Dumps, FirstTag, LastTag
    <2> QED
      BY Zenon, <1>0, <2>1, <2>2, <2>3, <2>4, <2>5 DEF ScInv
  <1>2. CASE init_device
    <2>1. /\ spc = "init" /\ (init_read \/ init_mmap \/ init_userp)
          /\ UNCHANGED <<prog, io, pixfmt>>
          /\ UNCHANGED <<held, left, framecnt, bigbuffer, reads, files, again>>
      BY Zenon, <1>2 DEF init_device, Keep
    <2>2. Untouched
      BY Zenon, <1>0, <2>1 DEF ScBuffers
    <2>3. PICK n \in Nat :
            /\ n <= MaxBuffers
            /\ content' = [b \in 1..n |-> 0] /\ UNCHANGED <<streaming, queued, filled, frameNo>>
            /\ spc' = "start" \/ spc' = "fail"
            /\ spc' = "start" =>
                 IF io = "USERPTR" THEN mapped' = 1..MaxBuffers ELSE mapped' = 1..n
            /\ io = "READ" => n = 1
      <3>0. MaxBuffers \in Nat /\ 1 <= MaxBuffers /\ 1..1 = {1}
        BY CaptureAppAssumption
      <3>1. CASE init_read
        BY Zenon, <3>0, <3>1 DEF init_read, RequestBuffers, Goto
      <3>2. CASE init_mmap
        <4>1. PICK n \in 1..MaxBuffers :
                /\ RequestBuffers(n)
                /\ mapped' = IF n < 2 THEN {} ELSE 1..n
                /\ Goto(IF n < 2 THEN "fail" ELSE "start")
          BY Zenon, <3>2 DEF init_mmap
        <4>2. n \in Nat /\ n <= MaxBuffers
          BY <3>0
        <4> QED
          BY Zenon, <3>2, <4>1, <4>2 DEF init_mmap, RequestBuffers, Goto
      <3>3. CASE init_userp
        <4>1. PICK n \in 1..MaxBuffers : RequestBuffers(n)
          BY Zenon, <3>3 DEF init_userp
        <4>2. n \in Nat /\ n <= MaxBuffers
          BY <3>0
        <4> QED
          BY Zenon, <3>3, <4>1, <4>2 DEF init_userp, RequestBuffers, Goto
      <3> QED
        BY Zenon, <2>1, <3>1, <3>2, <3>3
    <2>4. content' \in Seq(Nat) /\ Len(content') = n
      <3>1. content' = [b \in 1..n |-> 0]
        BY Zenon, <2>3
      <3> QED
        BY ONLY <3>1, n \in Nat
    <2>5. DriverInv'
      <3>1. streaming' \in BOOLEAN /\ queued' = <<>> /\ filled' = <<>> /\ held = None
        BY Zenon, <1>0, <2>2, <2>3 DEF DriverInv, AppTypes, Untouched
      <3> QED
        BY Zenon, <3>1, <1>0, <2>1, <2>3, <2>4, AppEmpties
    <2>6. ScBuffers'
      <3>1. Len(<<>>) = 0 /\ 1..0 = {}
        OBVIOUS
      <3> QED
        BY Zenon, <3>1, <1>0, <2>1, <2>2, <2>3, <2>4 DEF ScBuffers, Untouched, ScTaken
    <2>7. ScCounts'
      BY Zenon, <1>0, <2>1, <2>3 DEF ScCounts, ScTaken
    <2>8. ScFiles'
      BY Zenon, <1>0, <2>1, <2>3 DEF ScFiles, Dumps, FirstTag, LastTag
    <2> QED
      BY Zenon, <1>0, <2>1, <2>5, <2>6, <2>7, <2>8 DEF ScInv
  <1> QED
    BY Zenon, <1>1, <1>2

\* Queueing the buffers one by one and starting the stream (start_capturing).
LEMMA ScStartInv ==
  ASSUME ScInv, start_capturing
  PROVE  ScInv'
  <1>0. /\ prog \in CapturePrograms /\ DriverInv /\ ScBuffers /\ ScCounts /\ ScFiles
    BY Zenon DEF ScInv
  <1>1. /\ spc = "start" /\ UNCHANGED <<prog, io, pixfmt>>
        /\ UNCHANGED <<mapped, held, left, framecnt, bigbuffer, reads, files, again>>
    BY Zenon DEF start_capturing, start_queue, start_stream, Keep
  <1>2. /\ filled = <<>> /\ ~streaming /\ held = None /\ reads = <<>>
        /\ \A i \in 1..Len(queued) : queued[i] = i
    BY Zenon, <1>0, <1>1 DEF ScBuffers
  <1>3. streaming \in BOOLEAN /\ queued \in Seq(1..Len(content)) /\ content \in Seq(Nat)
    BY Zenon, <1>0 DEF DriverInv, AppTypes
  <1>4. CASE start_queue /\ Len(queued) + 1 \in DOMAIN content
    <2> DEFINE b == Len(queued) + 1
    <2>1. QueueBuffer(b) /\ spc' = spc /\ io # "READ"
      BY Zenon, <1>4 DEF start_queue
    <2>2. /\ b \in 1..Len(content) /\ Len(queued) \in Nat
          /\ ~In(queued, b) /\ ~In(filled, b)
      <3>1. DOMAIN content = 1..Len(content) /\ Len(queued) \in Nat
        BY ONLY <1>3
      <3>2. \A i \in 1..Len(queued) : i # Len(queued) + 1
        BY ONLY <3>1
      <3>3. Len(<<>>) = 0 /\ 1..0 = {}
        OBVIOUS
      <3> QED
        BY Zenon, <3>1, <3>2, <3>3, <1>2, <1>4 DEF In
    <2>3. DriverInv' /\ Len(queued') = Len(queued) + 1
      <3> HIDE DEF b
      <3>1. reads' = reads /\ held' = None
        BY Zenon, <1>1, <1>2
      <3> QED
        BY Zenon, <3>1, <1>0, <2>1, <2>2, AppQueue
    <2>4. UNCHANGED <<streaming, filled, content, frameNo>> /\ queued' = Append(queued, b)
      BY Zenon, <2>1 DEF QueueBuffer
    <2>5. \A i \in 1..Len(queued') : queued'[i] = i
      <3>1. /\ \A i \in 1..Len(queued) : queued'[i] = queued[i]
            /\ queued'[Len(queued) + 1] = b
        BY <1>3, <2>2, <2>4, AppendFacts
      <3>2. \A i \in 1..Len(queued') : i \in 1..Len(queued) \/ i = Len(queued) + 1
        BY ONLY <2>2, <2>3
      <3> QED
        BY Zenon, <3>1, <3>2, <1>2
    <2>6. ScBuffers'
      BY Zenon, <1>0, <1>1, <1>2, <2>1, <2>4, <2>5 DEF ScBuffers, ScTaken
    <2>7. ScCounts' /\ ScFiles'
      BY Zenon, <1>0, <1>1, <2>1, <2>4 DEF ScCounts, ScTaken, ScFiles, Dumps, FirstTag, LastTag
    <2> QED
      BY Zenon, <1>0, <1>1, <2>3, <2>6, <2>7 DEF ScInv
  <1>5. CASE start_queue /\ Len(queued) + 1 \notin DOMAIN content
    <2>1. spc' = "fail" /\ UNCHANGED <<streaming, queued, filled, content, frameNo>>
      BY Zenon, <1>5 DEF start_queue, Goto, drvVars
    <2>2. DriverInv'
      BY Zenon, <1>0, <1>1, <1>3, <2>1, AppSame
    <2>3. ScBuffers' /\ ScCounts' /\ ScFiles'
      BY Zenon, <1>0, <1>1, <1>2, <2>1
         DEF ScBuffers, ScCounts, ScTaken, ScFiles, Dumps, FirstTag, LastTag
    <2> QED
      BY Zenon, <1>0, <1>1, <2>2, <2>3 DEF ScInv
  <1>6. CASE start_stream
    <2>1. /\ spc' = "select" /\ UNCHANGED <<queued, filled, content, frameNo>>
          /\ streaming' \in BOOLEAN /\ (io = "READ" => streaming' = streaming)
      BY Zenon, <1>3, <1>6 DEF start_stream, Goto, drvVars, StreamOn
    <2>2. DriverInv'
      BY Zenon, <1>0, <1>1, <2>1, AppSame
    <2>3. ScBuffers' /\ ScCounts' /\ ScFiles'
      BY Zenon, <1>0, <1>1, <1>2, <2>1
         DEF ScBuffers, ScCounts, ScTaken, ScFiles, Dumps, FirstTag, LastTag
    <2> QED
      BY Zenon, <1>0, <1>1, <2>2, <2>3 DEF ScInv
  <1> QED
    BY Zenon, <1>4, <1>5, <1>6 DEF start_capturing

\* A frame is taken from the driver, or none is (read_frame).
LEMMA ScReadInv ==
  ASSUME ScInv, FrameIn \/ ReadsNothing
  PROVE  ScInv'
  <1>0. /\ prog \in CapturePrograms /\ DriverInv /\ ScBuffers /\ ScCounts /\ ScFiles
    BY Zenon DEF ScInv
  <1>1. CASE ReadsNothing
    <2>1. /\ spc = "read" /\ spc' = "select" /\ UNCHANGED <<prog, io, pixfmt>>
          /\ UNCHANGED <<streaming, queued, filled, content, frameNo>>
          /\ UNCHANGED <<mapped, held, left, framecnt, bigbuffer, reads, files>>
      BY Zenon, <1>1 DEF ReadsNothing, Goto, Keep, drvVars
    <2>2. DriverInv'
      <3>1. streaming' \in BOOLEAN
        BY Zenon, <1>0, <2>1 DEF DriverInv, AppTypes
      <3> QED
        BY Zenon, <3>1, <1>0, <2>1, AppSame
    <2>3. ScBuffers'
      BY Zenon, <1>0, <2>1 DEF ScBuffers, ScTaken
    <2>4. ScCounts' /\ ScFiles'
      BY Zenon, <1>0, <2>1 DEF ScCounts, ScTaken, ScFiles, Dumps, FirstTag, LastTag
    <2> QED
      BY Zenon, <1>0, <2>1, <2>2, <2>3, <2>4 DEF ScInv
  <1>2. CASE FrameIn
    <2>1. /\ spc = "read" /\ spc' = "process" /\ UNCHANGED <<prog, io, pixfmt>>
          /\ UNCHANGED <<mapped, left, framecnt, bigbuffer, files>>
          /\ IF io = "READ" THEN ReadCall ELSE DequeueCall
      BY Zenon, <1>2 DEF FrameIn, Goto, Keep
    <2>2. held = None
      BY Zenon, <1>0, <2>1 DEF ScBuffers, ScTaken
    <2>3. /\ DriverInv' /\ held' # None /\ Len(reads') = Len(reads) + 1
          /\ Len(content') = Len(content) /\ streaming' = streaming
          /\ (io = "READ" => queued' = queued /\ filled' = filled)
      <3>1. CASE io = "READ"
        <4>1. queued = <<>> /\ filled = <<>> /\ Len(content) = 1
          BY Zenon, <1>0, <2>1, <3>1 DEF ScBuffers
        <4>2. ReadCall
          BY Zenon, <2>1, <3>1
        <4> QED
          BY Zenon, <4>1, <4>2, <1>0, AppRead DEF ReadCall
      <3>2. CASE io # "READ"
        <4>1. DequeueCall
          BY Zenon, <2>1, <3>2
        <4> QED
          BY Zenon, <4>1, <1>0, <2>2, <3>2, AppDequeue DEF DequeueCall, DequeueBuffer
      <3> QED
        BY Zenon, <3>1, <3>2
    <2>4. /\ Len(reads) \in Nat /\ reads \in Seq(Nat) /\ reads' \in Seq(Nat)
          /\ \A i \in DOMAIN reads : i \in DOMAIN reads' /\ reads'[i] = reads[i]
      <3>1. reads \in Seq(Nat) /\ reads' \in Seq(Nat)
        BY Zenon, <1>0, <2>3 DEF DriverInv, AppTypes
      <3>2. PICK x : reads' = Append(reads, x)
        BY Zenon, <2>1 DEF ReadCall, DequeueCall
      <3> QED
        BY ONLY <3>1, <3>2
    <2>5. ScBuffers'
      BY Zenon, <1>0, <2>1, <2>3 DEF ScBuffers, ScTaken
    <2>6. ScCounts'
      <3>1. /\ framecnt = FirstCnt(prog) + (Len(reads) - 0)
            /\ left = FrameCount[prog] - Len(reads) + 0
        BY Zenon, <1>0, <2>1 DEF ScCounts, ScTaken
      <3>2. FirstCnt(prog) \in Int /\ FrameCount[prog] \in Nat
        BY <1>0, FrameCountAssumption DEF FirstCnt
      <3>3. /\ framecnt = FirstCnt(prog) + (Len(reads') - 1)
            /\ left = FrameCount[prog] - Len(reads') + 1
        <4>1. Len(reads) \in Nat /\ Len(reads') = Len(reads) + 1
          BY Zenon, <2>3, <2>4
        <4> QED
          BY ONLY SMTT(20), <3>1, <3>2, <4>1
      <3> QED
        BY Zenon, <3>3, <2>1 DEF ScCounts, ScTaken
    <2>7. ScFiles'
      BY Zenon, <1>0, <2>1, <2>4 DEF ScFiles, Dumps, FirstTag, LastTag
    <2> QED
      BY Zenon, <1>0, <2>1, <2>3, <2>5, <2>6, <2>7 DEF ScInv
  <1> QED
    BY Zenon, <1>1, <1>2

\* A frame is given back and counted, and the loop goes on or ends (mainloop).
LEMMA ScLoopInv ==
  ASSUME ScInv, FrameOut \/ SleepsAndCounts \/ Selects
  PROVE  ScInv'
  <1>0. /\ prog \in CapturePrograms /\ DriverInv /\ ScBuffers /\ ScCounts /\ ScFiles
    BY Zenon DEF ScInv
  <1>t. streaming \in BOOLEAN
    BY Zenon, <1>0 DEF DriverInv, AppTypes
  <1>1. CASE FrameOut
    <2>1. /\ spc = "requeue" /\ spc' = "counted" /\ UNCHANGED <<prog, io, pixfmt>>
          /\ UNCHANGED <<mapped, left, framecnt, bigbuffer, reads, files>> /\ held' = None
          /\ IF io = "READ" THEN UNCHANGED drvVars ELSE CanQueue(held) /\ QueueBuffer(held)
      BY Zenon, <1>1 DEF FrameOut, Goto, Keep
    <2>2. held # None
      BY Zenon, <1>0, <2>1 DEF ScBuffers, ScTaken
    <2>3. /\ DriverInv'
          /\ Len(content') = Len(content) /\ streaming' = streaming /\ filled' = filled
          /\ (io = "READ" => queued' = queued)
      <3>1. CASE io = "READ"
        <4>1. UNCHANGED <<streaming, queued, filled, content, frameNo>>
          BY Zenon, <2>1, <3>1 DEF drvVars
        <4>2. None \in Nat
          BY Zenon DEF None
        <4> QED
          BY Zenon, <4>1, <4>2, <1>0, <2>1 DEF DriverInv, AppTypes, AppOnce, AppOrdered
      <3>2. CASE io # "READ"
        <4>1. QueueBuffer(held)
          BY Zenon, <2>1, <3>2
        <4>2. held \in 1..Len(content) /\ ~In(queued, held) /\ ~In(filled, held)
          BY Zenon, <1>0, <2>2 DEF DriverInv, AppOnce
        <4> QED
          BY Zenon, <4>1, <4>2, <1>0, <2>1, <3>2, AppQueue DEF QueueBuffer
      <3> QED
        BY Zenon, <3>1, <3>2
    <2>4. ScBuffers'
      BY Zenon, <1>0, <2>1, <2>3 DEF ScBuffers, ScTaken
    <2>5. ScCounts' /\ ScFiles'
      BY Zenon, <1>0, <2>1 DEF ScCounts, ScTaken, ScFiles, Dumps, FirstTag, LastTag
    <2> QED
      BY Zenon, <1>0, <2>1, <2>3, <2>4, <2>5 DEF ScInv
  <1>2. CASE SleepsAndCounts
    <2>1. /\ spc = "counted" /\ spc' = "select" /\ left' = left - 1
          /\ UNCHANGED <<prog, io, pixfmt>>
          /\ UNCHANGED <<streaming, queued, filled, content, frameNo>>
          /\ UNCHANGED <<mapped, held, framecnt, bigbuffer, reads, files>>
      BY Zenon, <1>2 DEF SleepsAndCounts, Goto, Keep, drvVars
    <2>2. DriverInv'
      BY Zenon, <1>t, <1>0, <2>1, AppSame
    <2>3. ScBuffers'
      BY Zenon, <1>0, <2>1 DEF ScBuffers, ScTaken
    <2>4. ScCounts'
      <3>1. left = FrameCount[prog] - Len(reads) + 1
        BY Zenon, <1>0, <2>1 DEF ScCounts, ScTaken
      <3>2. FrameCount[prog] \in Nat /\ Len(reads) \in Nat
        BY Zenon, <1>0, AppNumbers, FrameCountAssumption
      <3>3. left' = FrameCount[prog] - Len(reads) + 0
        BY ONLY <3>1, <3>2, <2>1
      <3> QED
        BY Zenon, <3>3, <1>0, <2>1 DEF ScCounts, ScTaken
    <2>5. ScFiles'
      BY Zenon, <1>0, <2>1 DEF ScFiles, Dumps, FirstTag, LastTag
    <2> QED
      BY Zenon, <1>0, <2>1, <2>2, <2>3, <2>4, <2>5 DEF ScInv
  <1>3. CASE Selects
    <2>1. /\ spc = "select" /\ (spc' = "read" \/ (left = 0 /\ spc' = "stop"))
          /\ UNCHANGED <<prog, io, pixfmt>>
          /\ UNCHANGED <<streaming, queued, filled, content, frameNo>>
          /\ UNCHANGED <<mapped, held, left, framecnt, bigbuffer, reads, files>>
      BY Zenon, <1>3 DEF Selects, Goto, Keep, drvVars
    <2>2. DriverInv'
      BY Zenon, <1>t, <1>0, <2>1, AppSame
    <2>3. ScBuffers'
      BY Zenon, <1>0, <2>1 DEF ScBuffers, ScTaken
    <2>4. ScCounts' /\ ScFiles'
      BY Zenon, <1>0, <2>1 DEF ScCounts, ScTaken, ScFiles, Dumps, FirstTag, LastTag
    <2> QED
      BY Zenon, <1>0, <2>1, <2>2, <2>3, <2>4 DEF ScInv
  <1> QED
    BY Zenon, <1>1, <1>2, <1>3

\* The stream is stopped, the buffers freed, the device closed; or the program
\* exits with an error (stop_capturing, uninit_device, close_device, errno_exit).
LEMMA ScStopInv ==
  ASSUME ScInv, Shutdowns \/ errno_exit \/ TimesOut
  PROVE  ScInv'
  <1>0. /\ prog \in CapturePrograms /\ DriverInv /\ ScBuffers /\ ScCounts /\ ScFiles
    BY Zenon DEF ScInv
  <1>t. streaming \in BOOLEAN
    BY Zenon, <1>0 DEF DriverInv, AppTypes
  <1>1. CASE stop_capturing
    <2>1. /\ spc = "stop" /\ spc' = "uninit" /\ UNCHANGED <<prog, io, pixfmt>>
          /\ UNCHANGED <<mapped, held, left, framecnt, bigbuffer, reads, files>>
          /\ IF io = "READ" THEN UNCHANGED drvVars ELSE StreamOff
      BY Zenon, <1>1 DEF stop_capturing, Goto, Keep
    <2>2. /\ UNCHANGED <<content, frameNo>> /\ queued' = <<>> /\ filled' = <<>>
          /\ streaming' = FALSE
      <3>1. CASE io = "READ"
        BY Zenon, <3>1, <1>0, <1>t, <2>1 DEF ScBuffers, drvVars
      <3>2. CASE io # "READ"
        BY Zenon, <3>2, <2>1 DEF StreamOff
      <3> QED
        BY Zenon, <3>1, <3>2
    <2>3. DriverInv'
      BY Zenon, <1>0, <2>1, <2>2, AppEmpties
    <2>4. ScBuffers'
      BY Zenon, <1>0, <2>1, <2>2 DEF ScBuffers, ScTaken
    <2>5. ScCounts' /\ ScFiles'
      BY Zenon, <1>0, <2>1, <2>2 DEF ScCounts, ScTaken, ScFiles, Dumps, FirstTag, LastTag
    <2> QED
      BY Zenon, <1>0, <2>1, <2>3, <2>4, <2>5 DEF ScInv
  <1>2. CASE uninit_device \/ close_device
    <2>1. /\ (spc = "uninit" /\ spc' = "close") \/ (spc = "close" /\ spc' = "done")
          /\ UNCHANGED <<prog, io, pixfmt>>
          /\ UNCHANGED <<streaming, queued, filled, content, frameNo>>
          /\ UNCHANGED <<held, left, framecnt, bigbuffer, reads, files>>
      BY Zenon, <1>2 DEF uninit_device, close_device, Goto, Keep, drvVars
    <2>2. DriverInv'
      BY Zenon, <1>t, <1>0, <2>1, AppSame
    <2>3. ScBuffers'
      BY Zenon, <1>0, <2>1 DEF ScBuffers, ScTaken
    <2>4. ScCounts' /\ ScFiles'
      BY Zenon, <1>0, <2>1 DEF ScCounts, ScTaken, ScFiles, Dumps, FirstTag, LastTag
    <2> QED
      BY Zenon, <1>0, <2>1, <2>2, <2>3, <2>4 DEF ScInv
  <1>3. CASE errno_exit \/ TimesOut
    <2>1. /\ spc \notin {"dump", "spin"} /\ spc' = "fail" /\ streaming' = FALSE
          /\ UNCHANGED <<prog, io, pixfmt>>
          /\ UNCHANGED <<queued, filled, content, frameNo>>
          /\ UNCHANGED <<mapped, held, left, framecnt, bigbuffer, reads, files>>
      BY Zenon, <1>3 DEF errno_exit, TimesOut, Exit, Goto, Keep
    <2>2. DriverInv'
      BY Zenon, <1>0, <2>1, AppSame
    <2>3. ScBuffers'
      BY Zenon, <1>0, <2>1 DEF ScBuffers, ScTaken
    <2>4. ScCounts' /\ ScFiles'
      BY Zenon, <1>0, <2>1 DEF ScCounts, ScTaken, ScFiles, Dumps, FirstTag, LastTag
    <2> QED
      BY Zenon, <1>0, <2>1, <2>2, <2>3, <2>4 DEF ScInv
  <1> QED
    BY Zenon, <1>1, <1>2, <1>3 DEF Shutdowns

\* A frame is counted and kept or not (process_image of the four programs).
LEMMA ScProcessInv ==
  ASSUME ScInv,
         \/ process_image /\ prog = "simple"
         \/ process_image_1800 /\ prog = "1800"
         \/ process_image_syslog /\ prog = "syslog"
         \/ process_image_gprof /\ prog = "gprof"
  PROVE  ScInv'
  <1>0. /\ prog \in CapturePrograms /\ DriverInv /\ ScBuffers /\ ScCounts /\ ScFiles
    BY Zenon DEF ScInv
  <1>1. Counted
    BY Zenon DEF process_image, process_image_1800, process_image_syslog, process_image_gprof
  <1>2. /\ spc = "process" /\ framecnt' = framecnt + 1 /\ UNCHANGED <<prog, io, pixfmt>>
        /\ UNCHANGED <<streaming, queued, filled, content, frameNo>>
        /\ UNCHANGED <<mapped, held, left, reads, files, again>>
    BY Zenon, <1>1 DEF Counted, drvVars, Keep
  <1>3. held # None /\ Len(reads) \in Nat /\ Len(reads) > 0
    <2>1. held # None
      BY Zenon, <1>0, <1>2 DEF ScBuffers, ScTaken
    <2> QED
      BY Zenon, <2>1, <1>0, AppNumbers DEF DriverInv, AppOrdered
  <1>4. /\ FirstCnt(prog) = (IF prog = "simple" THEN 0 ELSE -8)
        /\ framecnt = FirstCnt(prog) + (Len(reads) - 1)
    BY Zenon, <1>0, <1>2 DEF FirstCnt, ScCounts
  <1>5. /\ FirstCnt(prog) \in Int /\ framecnt \in Int
        /\ framecnt' = FirstCnt(prog) + (Len(reads) - 0)
        /\ framecnt' >= FirstCnt(prog) + 1 /\ framecnt' - 1 = framecnt
    <2>1. framecnt' = framecnt + 1
      BY Zenon, <1>2
    <2> QED
      BY ONLY <1>3, <1>4, <2>1
  <1>6. \/ /\ spc' = "dump" /\ Dumps /\ framecnt' >= FirstTag
           /\ pixfmt = "YUYV" => bigbuffer' = content[held]
        \/ /\ spc' = "requeue" /\ (Dumps => framecnt' < FirstTag)
    <2>1. CASE process_image /\ prog = "simple"
      <3>1. FirstTag = FirstCnt(prog) + 1
        BY Zenon, <2>1 DEF FirstTag
      <3> QED
        BY Zenon, <2>1, <3>1, <1>5 DEF process_image, ConvertTo, Goto, Dumps
    <2>2. CASE process_image_gprof /\ prog = "gprof"
      BY Zenon, <2>2 DEF process_image_gprof, Goto, Dumps
    <2>3. CASE /\ process_image_1800 \/ process_image_syslog
               /\ prog # "simple" /\ prog # "gprof"
      <3>1. ConvertTo(framecnt' > -1)
        BY Zenon, <2>3 DEF process_image_1800, process_image_syslog
      <3>2. CASE pixfmt = "YUYV"
        <4>1. FirstTag = 0 /\ Dumps
          BY Zenon, <3>2, <2>3 DEF FirstTag, Dumps
        <4>2. /\ framecnt' > -1 => framecnt' >= 0
              /\ ~(framecnt' > -1) => framecnt' < 0
          <5>1. framecnt' = framecnt + 1 /\ framecnt \in Int
            BY Zenon, <1>2, <1>5
          <5> QED
            BY ONLY <5>1
        <4> QED
          BY Zenon, <3>1, <3>2, <4>1, <4>2 DEF ConvertTo, Goto
      <3>3. CASE pixfmt # "YUYV"
        <4>1. FirstTag = FirstCnt(prog) + 1
          BY Zenon, <3>3 DEF FirstTag
        <4> QED
          BY Zenon, <2>3, <3>1, <3>3, <4>1, <1>5 DEF ConvertTo, Goto, Dumps
      <3> QED
        BY Zenon, <3>2, <3>3
    <2> QED
      BY Zenon, <2>1, <2>2, <2>3
  <1>7. DriverInv'
    <2>1. streaming \in BOOLEAN
      BY Zenon, <1>0 DEF DriverInv, AppTypes
    <2> QED
      BY Zenon, <2>1, <1>0, <1>2, AppSame
  <1>8. ScBuffers'
    BY Zenon, <1>0, <1>2, <1>6 DEF ScBuffers, ScTaken
  <1>9. ScCounts'
    BY Zenon, <1>0, <1>2, <1>5, <1>6 DEF ScCounts, ScTaken
  <1>10. ScFiles'
    <2>1. DOMAIN files = IF Dumps THEN FirstTag..framecnt ELSE {}
      BY Zenon, <1>0, <1>2 DEF ScFiles, LastTag
    <2>2. FirstTag' = FirstTag /\ Dumps' = Dumps
      BY Zenon, <1>2 DEF FirstTag, Dumps
    <2>3. FirstTag \in Int
      BY <1>5 DEF FirstTag
    <2>4. CASE spc' = "dump"
      <3>1. LastTag' = framecnt
        BY Zenon, <2>4, <1>5 DEF LastTag
      <3> QED
        BY Zenon, <1>0, <1>2, <1>6, <2>1, <2>2, <2>4, <3>1 DEF ScFiles
    <2>5. CASE spc' = "requeue"
      <3>1. LastTag' = framecnt'
        BY Zenon, <2>5 DEF LastTag
      <3>2. Dumps => FirstTag..framecnt = FirstTag..framecnt'
        <4>1. Dumps => framecnt' < FirstTag
          BY Zenon, <1>6, <2>5
        <4>2. framecnt' < FirstTag => FirstTag..framecnt = FirstTag..framecnt'
          <5>1. framecnt' = framecnt + 1
            BY Zenon, <1>2
          <5> QED
            BY ONLY <5>1, <1>5, <2>3
        <4> QED
          BY Zenon, <4>1, <4>2
      <3> QED
        BY Zenon, <1>0, <1>2, <2>1, <2>2, <2>5, <3>1, <3>2 DEF ScFiles
    <2> QED
      BY Zenon, <1>6, <2>4, <2>5
  <1> QED
    BY Zenon, <1>0, <1>2, <1>7, <1>8, <1>9, <1>10 DEF ScInv

\* The frame is written to the file of its number, or the write repeats for
\* ever (dump_pgm, dump_ppm).
LEMMA ScDumpInv ==
  ASSUME ScInv, dump \/ dump_spins
  PROVE  ScInv'
  <1>0. /\ prog \in CapturePrograms /\ DriverInv /\ ScBuffers /\ ScCounts /\ ScFiles
    BY Zenon DEF ScInv
  <1>1. /\ spc = "dump" /\ UNCHANGED <<prog, io, pixfmt>>
        /\ UNCHANGED <<streaming, queued, filled, content, frameNo>>
        /\ UNCHANGED <<mapped, held, left, framecnt, bigbuffer, reads>>
    BY Zenon DEF dump, dump_spins, drvVars, Keep
  <1>2. spc' = "requeue" \/ spc' = "spin"
    BY Zenon DEF dump, dump_spins, Goto
  <1>3. DriverInv'
    <2>1. streaming \in BOOLEAN
      BY Zenon, <1>0 DEF DriverInv, AppTypes
    <2> QED
      BY Zenon, <2>1, <1>0, <1>1, AppSame
  <1>4. ScBuffers'
    BY Zenon, <1>0, <1>1, <1>2 DEF ScBuffers, ScTaken
  <1>5. ScCounts'
    BY Zenon, <1>0, <1>1, <1>2 DEF ScCounts, ScTaken
  <1>6. ScFiles'
    <2>1. CASE dump_spins
      <3>1. spc' = "spin" /\ files' = files
        BY Zenon, <2>1 DEF dump_spins, Goto, Keep
      <3> QED
        BY Zenon, <1>0, <1>1, <3>1 DEF ScFiles, Dumps, FirstTag, LastTag
    <2>2. CASE dump
      <3> DEFINE v == reads[Len(reads)]
      <3>1. held # None /\ Len(reads) \in Nat /\ Len(reads) > 0 /\ content[held] = v
        <4>1. held # None
          BY Zenon, <1>0, <1>1 DEF ScBuffers, ScTaken
        <4> QED
          BY Zenon, <4>1, <1>0, AppNumbers DEF DriverInv, AppOrdered
      <3>2. spc' = "requeue" /\ files' = [x \in DOMAIN files \union {framecnt} |-> IF x = framecnt THEN v ELSE files[x]]
        BY Zenon, <2>2, <1>0, <1>1, <3>1 DEF dump, Goto, WriteFile, ScFiles
      <3>3. /\ Dumps /\ framecnt >= FirstTag /\ DOMAIN files = FirstTag..(framecnt - 1)
            /\ \A k \in DOMAIN files :
                 k - FirstCnt(prog) \in DOMAIN reads /\ files[k] = reads[k - FirstCnt(prog)]
        BY Zenon, <1>0, <1>1 DEF ScFiles, LastTag
      <3>4. /\ framecnt = FirstCnt(prog) + (Len(reads) - 0) /\ FirstCnt(prog) \in Int
        <4>1. FirstCnt(prog) \in Int
          BY DEF FirstCnt
        <4> QED
          BY Zenon, <4>1, <1>0, <1>1 DEF ScCounts
      <3>5. framecnt \in Int /\ FirstTag \in Int /\ framecnt - FirstCnt(prog) = Len(reads)
        <4>1. FirstTag \in Int
          BY <3>4 DEF FirstTag
        <4> QED
          BY ONLY <4>1, <3>4, <3>1
      <3>6. DOMAIN files' = FirstTag..framecnt
        <4>1. DOMAIN files' = {framecnt} \cup DOMAIN files
          BY Zenon, <3>2
        <4>2. FirstTag..framecnt = {framecnt} \cup FirstTag..(framecnt - 1)
          BY <3>3, <3>5
        <4> QED
          BY Zenon, <4>1, <4>2, <3>3
      <3>7. Len(reads) \in DOMAIN reads
        <4>1. reads \in Seq(Nat)
          BY Zenon, <1>0 DEF DriverInv, AppTypes
        <4> QED
          BY ONLY <4>1, <3>1
      <3>8. \A k \in DOMAIN files' : k = framecnt \/ k \in DOMAIN files
        BY Zenon, <3>2
      <3>9. /\ files'[framecnt] = v
            /\ \A k \in DOMAIN files : k # framecnt => files'[k] = files[k]
        BY Zenon, <3>2
      <3>10. LastTag' = framecnt /\ FirstTag' = FirstTag /\ Dumps' = Dumps
        BY Zenon, <1>1, <3>2 DEF LastTag, FirstTag, Dumps
      <3> QED
        BY Zenon, <1>1, <3>2, <3>3, <3>5, <3>6, <3>7, <3>8, <3>9, <3>10 DEF ScFiles
    <2> QED
      BY Zenon, <2>1, <2>2
  <1> QED
    BY Zenon, <1>0, <1>1, <1>3, <1>4, <1>5, <1>6 DEF ScInv

\* The camera delivers on its own, and never into the buffer that is held.
LEMMA AppCamera ==
  ASSUME DriverInv, CameraRuns
  PROVE  /\ DriverInv' /\ streaming /\ streaming' = streaming
         /\ Len(content') = Len(content)
         /\ held # None => content'[held] = content[held]
         /\ UNCHANGED <<prog, io, spc, mapped, held, left, framecnt, pixfmt, bigbuffer>>
         /\ UNCHANGED <<reads, files>>
  <1>1. /\ UNCHANGED <<prog, io, spc, mapped, held, left, framecnt, pixfmt, bigbuffer>>
        /\ UNCHANGED <<reads, files>> /\ UNCHANGED <<held, reads>>
    BY Zenon DEF CameraRuns, scVars
  <1>2. DriverInv'
    BY Zenon, <1>1, AppFill, AppLose DEF CameraRuns
  <1>3. held # None => content'[held] = content[held]
    BY Zenon, <1>1, <1>2 DEF DriverInv, AppOrdered
  <1>4. streaming /\ streaming' = streaming /\ Len(content') = Len(content)
    <2>1. CASE Fill
      <3>1. /\ content \in Seq(Nat) /\ frameNo \in Nat
            /\ queued \in Seq(1..Len(content)) /\ queued # <<>>
        BY Zenon, <2>1 DEF Fill, DriverInv, AppTypes
      <3>2. DOMAIN content' = DOMAIN content
        BY Zenon, <2>1 DEF Fill
      <3>3. content' \in Seq(Nat)
        BY Zenon, <1>2 DEF DriverInv, AppTypes
      <3>4. Len(content') = Len(content)
        BY ONLY <3>1, <3>2, <3>3
      <3> QED
        BY Zenon, <3>4, <2>1 DEF Fill
    <2>2. CASE Lose
      BY Zenon, <2>2 DEF Lose
    <2> QED
      BY Zenon, <2>1, <2>2 DEF CameraRuns
  <1> QED
    BY Zenon, <1>1, <1>2, <1>3, <1>4

\* The camera keeps the invariant of the capture programs.
LEMMA ScCameraInv ==
  ASSUME ScInv, CameraRuns
  PROVE  ScInv'
  <1>0. /\ prog \in CapturePrograms /\ DriverInv /\ ScBuffers /\ ScCounts /\ ScFiles
    BY Zenon DEF ScInv
  <1>1. /\ DriverInv' /\ streaming /\ streaming' = streaming
        /\ Len(content') = Len(content)
        /\ (held # None => content'[held] = content[held])
        /\ UNCHANGED <<prog, io, spc, mapped, held, left, framecnt, pixfmt, bigbuffer>>
        /\ UNCHANGED <<reads, files>>
    BY Zenon, <1>0, AppCamera
  <1>2. ScBuffers'
    BY Zenon, <1>0, <1>1 DEF ScBuffers, ScTaken, Untouched
  <1>3. ScCounts'
    BY Zenon, <1>0, <1>1 DEF ScCounts, ScTaken
  <1>4. ScFiles'
    BY Zenon, <1>0, <1>1 DEF ScFiles, Dumps, FirstTag, LastTag, ScBuffers, ScTaken
  <1> QED
    BY Zenon, <1>0, <1>1, <1>2, <1>3, <1>4 DEF ScInv

\* Every step of the capture programs keeps their invariant.
LEMMA ScStepInv ==
  ASSUME ScInv, ScNext
  PROVE  ScInv'
  <1>1. CASE main_simple
    BY Zenon, <1>1, ScSetupInv, ScStartInv, ScReadInv, ScLoopInv, ScStopInv, ScProcessInv,
       ScDumpInv
       DEF main_simple, Setup, mainloop, read_frame, ReadSteps
  <1>2. CASE main_1800
    BY Zenon, <1>2, ScSetupInv, ScStartInv, ScReadInv, ScLoopInv, ScStopInv, ScProcessInv,
       ScDumpInv
       DEF main_1800, Setup, mainloop_1800, read_frame_1800, ReadSteps
  <1>3. CASE main_syslog
    BY Zenon, <1>3, ScSetupInv, ScStartInv, ScReadInv, ScLoopInv, ScStopInv, ScProcessInv,
       ScDumpInv
       DEF main_syslog, Setup, mainloop_syslog, read_frame_syslog, ReadSteps
  <1>4. CASE main_gprof
    BY Zenon, <1>4, ScSetupInv, ScStartInv, ScReadInv, ScLoopInv, ScStopInv, ScProcessInv,
       ScDumpInv
       DEF main_gprof, Setup, mainloop_gprof, read_frame_gprof, ReadSteps
  <1> QED
    BY Zenon, <1>1, <1>2, <1>3, <1>4, ScStopInv, ScCameraInv DEF ScNext, Capturing

-----------------------------------------------------------------------------
\* Opening the camera, and every way a setup ends early (simplev4l2.c,
\* simplev4l2nb.c: the label cleanup), poll and the steps that only move on.
LEMMA V4MovesInv ==
  ASSUME V4Inv,
         v4l2_open \/ v4l2_format \/ Setup_fails \/ v4l2nb_poll \/ process_frame \/ v4l2_leave
  PROVE  V4Inv'
  <1>0. /\ prog \in V4Programs /\ DriverInv /\ V4Buffers /\ V4Counts
    BY Zenon DEF V4Inv
  <1>t. streaming \in BOOLEAN
    BY Zenon, <1>0 DEF DriverInv, AppTypes
  <1>1. /\ UNCHANGED <<prog, io, pixfmt>>
        /\ UNCHANGED <<streaming, queued, filled, content, frameNo>>
        /\ UNCHANGED <<mapped, held, left, reads, files>>
    BY Zenon DEF v4l2_open, v4l2_format, Setup_fails, v4l2nb_poll, process_frame, v4l2_leave,
       V4Rest, Keep, drvVars
  <1>2. \/ spc = "open" /\ spc' \in {"format", "fail"}
        \/ spc = "format" /\ spc' \in {"request", "cleanup"}
        \/ spc' \in {"cleanup", "streamoff"}
        \/ spc = "wait" /\ spc' = "drain"
        \/ spc = "process" /\ spc' = "requeue" /\ bigbuffer' = content[held]
    BY Zenon DEF v4l2_open, v4l2_format, Setup_fails, v4l2nb_poll, process_frame, v4l2_leave,
       Goto, Cleanup
  <1>3. DriverInv'
    BY Zenon, <1>t, <1>0, <1>1, AppSame
  <1>4. V4Buffers'
    BY Zenon, <1>0, <1>1, <1>2 DEF V4Buffers, Untouched
  <1>5. V4Counts'
    BY Zenon, <1>0, <1>1, <1>2 DEF V4Counts
  <1> QED
    BY Zenon, <1>0, <1>1, <1>3, <1>4, <1>5 DEF V4Inv

\* The buffers are requested and mapped (VIDIOC_REQBUFS, VIDIOC_QUERYBUF).
LEMMA V4MapInv ==
  ASSUME V4Inv, v4l2_request \/ v4l2nb_request \/ v4l2_map
  PROVE  V4Inv'
  <1>0. /\ prog \in V4Programs /\ DriverInv /\ V4Buffers /\ V4Counts
    BY Zenon DEF V4Inv
  <1>t. streaming \in BOOLEAN
    BY Zenon, <1>0 DEF DriverInv, AppTypes
  <1>1. CASE v4l2_request \/ v4l2nb_request
    <2>1. /\ spc = "request" /\ spc' \in {"cleanup", "map"} /\ UNCHANGED <<prog, io, pixfmt>>
          /\ UNCHANGED <<mapped, held, left, reads, files>>
          /\ UNCHANGED <<streaming, queued, filled, frameNo>>
      BY Zenon, <1>1 DEF v4l2_request, v4l2nb_request, V4Rest, Keep, Goto, Cleanup, RequestBuffers
    <2>2. PICK n \in Nat : content' = [b \in 1..n |-> 0]
      <3>0. MaxBuffers \in Nat
        BY Zenon, CaptureAppAssumption
      <3>1. CASE v4l2_request
        <4>1. PICK n \in 0..(MaxBuffers + 1) : RequestBuffers(n)
          BY Zenon, <3>1 DEF v4l2_request
        <4>2. n \in Nat
          BY <3>0
        <4> QED
          BY Zenon, <4>1, <4>2 DEF RequestBuffers
      <3>2. CASE v4l2nb_request
        <4>1. PICK n \in 0..(MaxBuffers + 1) :
                RequestBuffers(IF n > MaxBuffers THEN MaxBuffers ELSE n)
          BY Zenon, <3>2 DEF v4l2nb_request
        <4>2. (IF n > MaxBuffers THEN MaxBuffers ELSE n) \in Nat
          BY <3>0
        <4> QED
          BY Zenon, <4>1, <4>2 DEF RequestBuffers
      <3> QED
        BY Zenon, <1>1, <3>1, <3>2
    <2>3. content' \in Seq(Nat) /\ Len(content') \in Nat
      <3>1. content' \in Seq(Nat)
        BY ONLY <2>2, n \in Nat
      <3> QED
        BY ONLY <3>1
    <2>4. Untouched /\ mapped = {}
      BY Zenon, <1>0, <2>1 DEF V4Buffers
    <2>5. DriverInv'
      BY Zenon, <1>0, <1>t, <2>1, <2>3, <2>4, AppEmpties DEF Untouched
    <2>6. V4Buffers'
      <3>1. 0 \in 0..Len(content') /\ mapped' = 1..0
        BY <2>1, <2>3, <2>4
      <3> QED
        BY Zenon, <3>1, <1>0, <2>1, <2>4 DEF V4Buffers, Untouched
    <2>7. V4Counts'
      BY Zenon, <1>0, <2>1 DEF V4Counts
    <2> QED
      BY Zenon, <1>0, <2>1, <2>5, <2>6, <2>7 DEF V4Inv
  <1>2. CASE v4l2_map
    <2>1. /\ spc = "map" /\ UNCHANGED <<prog, io, pixfmt>>
          /\ UNCHANGED <<streaming, queued, filled, content, frameNo>>
          /\ UNCHANGED <<held, left, reads, files>>
          /\ \/ spc' = "map" /\ \E b \in 1..Len(content) : mapped' = 1..b
             \/ spc' = "queue" /\ mapped' = 1..Len(content)
      BY Zenon, <1>2 DEF v4l2_map, V4Rest, Keep, Goto, drvVars
    <2>2. \A b \in 1..Len(content) : b \in 0..Len(content)
      <3>1. Len(content) \in Nat
        BY Zenon, <1>0, AppNumbers
      <3> QED
        BY ONLY <3>1
    <2>3. Untouched
      BY Zenon, <1>0, <2>1 DEF V4Buffers
    <2>4. DriverInv'
      BY Zenon, <1>0, <1>t, <2>1, AppSame
    <2>5. V4Buffers'
      <3>1. Len(<<>>) = 0 /\ 1..0 = {}
        OBVIOUS
      <3> QED
        BY Zenon, <3>1, <1>0, <2>1, <2>2, <2>3 DEF V4Buffers, Untouched
    <2>6. V4Counts'
      BY Zenon, <1>0, <2>1 DEF V4Counts
    <2> QED
      BY Zenon, <1>0, <2>1, <2>4, <2>5, <2>6 DEF V4Inv
  <1> QED
    BY Zenon, <1>1, <1>2

\* Every buffer is queued, and the stream starts (VIDIOC_QBUF, VIDIOC_STREAMON).
LEMMA V4QueueInv ==
  ASSUME V4Inv, v4l2_queue
  PROVE  V4Inv'
  <1>0. /\ prog \in V4Programs /\ DriverInv /\ V4Buffers /\ V4Counts
    BY Zenon DEF V4Inv
  <1>1. /\ spc = "queue" /\ UNCHANGED <<prog, io, pixfmt>>
        /\ UNCHANGED <<mapped, held, left, reads, files>>
        /\ UNCHANGED <<filled, content, frameNo>>
    BY Zenon DEF v4l2_queue, V4Rest, Keep, QueueBuffer, StreamOn
  <1>2. /\ filled = <<>> /\ ~streaming /\ held = None /\ reads = <<>>
        /\ \A i \in 1..Len(queued) : queued[i] = i
    BY Zenon, <1>0, <1>1 DEF V4Buffers
  <1>3. streaming \in BOOLEAN /\ queued \in Seq(1..Len(content)) /\ content \in Seq(Nat)
    BY Zenon, <1>0 DEF DriverInv, AppTypes
  <1>4. V4Counts'
    <2>1. spc' # "requeue"
      BY Zenon, <1>1 DEF v4l2_queue, Goto
    <2> QED
      BY Zenon, <2>1, <1>0, <1>1 DEF V4Counts
  <1>5. CASE Len(queued) < Len(content)
    <2> DEFINE b == Len(queued) + 1
    <2>1. QueueBuffer(b) /\ spc' = "queue"
      BY Zenon, <1>1, <1>5 DEF v4l2_queue
    <2>2. /\ b \in 1..Len(content) /\ Len(queued) \in Nat
          /\ ~In(queued, b) /\ ~In(filled, b)
      <3>1. Len(content) \in Nat /\ Len(queued) \in Nat
        BY ONLY <1>3
      <3>2. /\ \A i \in 1..Len(queued) : i # Len(queued) + 1
            /\ Len(queued) + 1 \in 1..Len(content)
        BY ONLY <3>1, <1>5
      <3>3. Len(<<>>) = 0 /\ 1..0 = {}
        OBVIOUS
      <3> QED
        BY Zenon, <3>1, <3>2, <3>3, <1>2 DEF In
    <2>3. DriverInv' /\ Len(queued') = Len(queued) + 1
      <3> HIDE DEF b
      <3>1. reads' = reads /\ held' = None
        BY Zenon, <1>1, <1>2
      <3> QED
        BY Zenon, <3>1, <1>0, <2>1, <2>2, AppQueue
    <2>4. queued' = Append(queued, b) /\ streaming' = streaming
      BY Zenon, <2>1 DEF QueueBuffer
    <2>5. \A i \in 1..Len(queued') : queued'[i] = i
      <3>1. /\ \A i \in 1..Len(queued) : queued'[i] = queued[i]
            /\ queued'[Len(queued) + 1] = b
        BY <1>3, <2>2, <2>4, AppendFacts
      <3>2. \A i \in 1..Len(queued') : i \in 1..Len(queued) \/ i = Len(queued) + 1
        BY ONLY <2>2, <2>3
      <3> QED
        BY Zenon, <3>1, <3>2, <1>2
    <2>6. V4Buffers'
      BY Zenon, <1>0, <1>1, <1>2, <2>1, <2>4, <2>5 DEF V4Buffers
    <2> QED
      BY Zenon, <1>0, <1>1, <1>4, <2>3, <2>6 DEF V4Inv
  <1>6. CASE ~(Len(queued) < Len(content))
    <2>1. StreamOn /\ spc' = "wait"
      BY Zenon, <1>6 DEF v4l2_queue, Goto
    <2>2. DriverInv'
      BY Zenon, <1>0, <1>1, <2>1, AppSame DEF StreamOn
    <2>3. V4Buffers'
      BY Zenon, <1>0, <1>1, <1>2, <2>1 DEF V4Buffers
    <2> QED
      BY Zenon, <1>0, <1>1, <1>4, <2>2, <2>3 DEF V4Inv
  <1> QED
    BY Zenon, <1>5, <1>6

\* A frame is dequeued (VIDIOC_DQBUF), or none is ready.
LEMMA V4TakeInv ==
  ASSUME V4Inv, v4l2_dequeue \/ v4l2nb_drain
  PROVE  V4Inv'
  <1>0. /\ prog \in V4Programs /\ DriverInv /\ V4Buffers /\ V4Counts
    BY Zenon DEF V4Inv
  <1>1. /\ spc \in {"wait", "drain"} /\ UNCHANGED <<prog, io, pixfmt>>
        /\ UNCHANGED <<mapped, left, files>>
        /\ \/ DequeueCall /\ spc' = "process"
           \/ spc' = "wait" /\ UNCHANGED <<drvVars, held, reads>>
    BY Zenon DEF v4l2_dequeue, v4l2nb_drain, Keep, Goto
  <1>2. held = None /\ mapped = 1..Len(content)
    BY Zenon, <1>0, <1>1 DEF V4Buffers
  <1>3. CASE DequeueCall /\ spc' = "process"
    <2>1. DriverInv' /\ held' # None /\ Len(reads') = Len(reads) + 1 /\ content' = content
      BY Zenon, <1>0, <1>2, <1>3, AppDequeue DEF DequeueCall, DequeueBuffer
    <2>2. V4Buffers'
      BY Zenon, <1>0, <1>1, <1>2, <1>3, <2>1 DEF V4Buffers
    <2>3. Len(reads') = V4Frames - left + 1
      <3>1. Len(reads) = V4Frames - left + 0 /\ left \in Int
        BY Zenon, <1>0, <1>2 DEF V4Counts
      <3>2. Len(reads') = Len(reads) + 1
        BY Zenon, <2>1
      <3> QED
        BY ONLY <3>1, <3>2, V4FramesAssumption
    <2>4. V4Counts'
      BY Zenon, <1>0, <1>1, <1>3, <2>1, <2>3 DEF V4Counts
    <2> QED
      BY Zenon, <1>0, <1>1, <2>1, <2>2, <2>4 DEF V4Inv
  <1>4. CASE spc' = "wait" /\ UNCHANGED <<drvVars, held, reads>>
    <2>1. UNCHANGED <<streaming, queued, filled, content, frameNo>> /\ streaming' \in BOOLEAN
      BY Zenon, <1>0, <1>4 DEF drvVars, DriverInv, AppTypes
    <2>2. DriverInv'
      BY Zenon, <1>0, <1>4, <2>1, AppSame
    <2>3. V4Buffers' /\ V4Counts'
      BY Zenon, <1>0, <1>1, <1>2, <1>4, <2>1 DEF V4Buffers, V4Counts
    <2> QED
      BY Zenon, <1>0, <1>1, <2>2, <2>3 DEF V4Inv
  <1> QED
    BY Zenon, <1>1, <1>3, <1>4

\* The buffer is given back (VIDIOC_QBUF) and the frame counted.
LEMMA V4RequeueInv ==
  ASSUME V4Inv, v4l2_requeue
  PROVE  V4Inv'
  <1>0. /\ prog \in V4Programs /\ DriverInv /\ V4Buffers /\ V4Counts
    BY Zenon DEF V4Inv
  <1>1. /\ spc = "requeue" /\ spc' \in {"wait", "drain"} /\ UNCHANGED <<prog, io, pixfmt>>
        /\ UNCHANGED <<mapped, reads, files>> /\ held' = None /\ left' = left - 1
        /\ QueueBuffer(held)
    BY Zenon DEF v4l2_requeue, Keep, Goto
  <1>2. held # None /\ mapped = 1..Len(content)
    BY Zenon, <1>0, <1>1 DEF V4Buffers
  <1>3. DriverInv' /\ content' = content
    <2>1. held \in 1..Len(content) /\ ~In(queued, held) /\ ~In(filled, held)
      BY Zenon, <1>0, <1>2 DEF DriverInv, AppOnce
    <2> QED
      BY Zenon, <2>1, <1>0, <1>1, AppQueue DEF QueueBuffer
  <1>4. V4Buffers'
    BY Zenon, <1>0, <1>1, <1>2, <1>3 DEF V4Buffers
  <1>5. left' \in Int /\ Len(reads') = V4Frames - left' + 0
    <2>1. Len(reads) = V4Frames - left + 1 /\ left \in Int
      BY Zenon, <1>0, <1>2 DEF V4Counts
    <2>2. left' = left - 1 /\ Len(reads') = Len(reads)
      BY Zenon, <1>1
    <2> QED
      BY ONLY <2>1, <2>2, V4FramesAssumption
  <1>6. V4Counts'
    BY Zenon, <1>0, <1>1, <1>5 DEF V4Counts
  <1> QED
    BY Zenon, <1>0, <1>1, <1>3, <1>4, <1>6 DEF V4Inv

\* The stream is stopped, or fails to, and everything is unmapped.
LEMMA V4StopInv ==
  ASSUME V4Inv, v4l2_streamoff \/ v4l2_cleanup
  PROVE  V4Inv'
  <1>0. /\ prog \in V4Programs /\ DriverInv /\ V4Buffers /\ V4Counts
    BY Zenon DEF V4Inv
  <1>t. streaming \in BOOLEAN
    BY Zenon, <1>0 DEF DriverInv, AppTypes
  <1>1. /\ spc' \in {"cleanup", "done"} /\ UNCHANGED <<prog, io, pixfmt>>
        /\ UNCHANGED <<held, left, reads, files, content, frameNo>>
        /\ streaming' \in BOOLEAN
        /\ \/ queued' = <<>> /\ filled' = <<>>
           \/ UNCHANGED <<queued, filled>>
    BY Zenon, <1>t
       DEF v4l2_streamoff, v4l2_cleanup, V4Rest, Keep, Goto, Cleanup, StreamOff, drvVars
  <1>2. DriverInv'
    BY Zenon, <1>0, <1>1, AppSame, AppEmpties
  <1>3. V4Buffers' /\ V4Counts'
    BY Zenon, <1>0, <1>1 DEF V4Buffers, V4Counts
  <1> QED
    BY Zenon, <1>0, <1>1, <1>2, <1>3 DEF V4Inv

\* Every step of the minimal programs keeps their invariant.
LEMMA V4StepInv ==
  ASSUME V4Inv, V4Next
  PROVE  V4Inv'
  <1>0. /\ prog \in V4Programs /\ DriverInv /\ V4Buffers /\ V4Counts
    BY Zenon DEF V4Inv
  <1>1. CASE CameraRuns
    <2>1. /\ DriverInv' /\ streaming /\ streaming' = streaming
          /\ Len(content') = Len(content)
          /\ (held # None => content'[held] = content[held])
          /\ UNCHANGED <<prog, io, spc, mapped, held, left, framecnt, pixfmt, bigbuffer>>
          /\ UNCHANGED <<reads, files>>
      BY Zenon, <1>0, <1>1, AppCamera
    <2>2. V4Buffers'
      BY Zenon, <1>0, <2>1 DEF V4Buffers, Untouched
    <2>3. V4Counts'
      BY Zenon, <1>0, <2>1 DEF V4Counts, V4Buffers
    <2> QED
      BY Zenon, <1>0, <2>1, <2>2, <2>3 DEF V4Inv
  <1> QED
    BY Zenon, <1>1, V4MovesInv, V4MapInv, V4QueueInv, V4TakeInv, V4RequeueInv, V4StopInv
       DEF V4Next, V4Steps

-----------------------------------------------------------------------------
\* Before its first call each program satisfies its invariant.
LEMMA AppInitInv == MCInit => AppInv
  <1> SUFFICES ASSUME MCInit PROVE AppInv
    BY Zenon
  <1>1. /\ streaming = FALSE /\ queued = <<>> /\ filled = <<>> /\ content = <<>> /\ frameNo = 0
    BY Zenon DEF MCInit, Init, DrvInit
  <1>2. /\ 0 \in Nat /\ 0 <= MaxFrames /\ <<>> \in Seq(Nat) /\ Len(<<>>) = 0 /\ 1..0 = {}
        /\ \A S : <<>> \in Seq(S)
    BY MaxFramesAssumption
  <1>3. reads = <<>> /\ held = None => DriverInv
    BY Zenon, <1>1, <1>2 DEF DriverInv, AppTypes, AppOnce, AppOrdered, Distinct, In, None
  <1>4. CASE app = "capturelib" /\ Idle
    BY Zenon, <1>4 DEF AppInv, Idle
  <1>5. CASE app = "simple" /\ ScInit
    <2>0. prog \in CapturePrograms
      BY Zenon, <1>5 DEF ScInit
    <2>1. DriverInv
      BY Zenon, <1>3, <1>5 DEF ScInit
    <2>2. ScBuffers
      <3>1. 0 <= MaxBuffers
        BY CaptureAppAssumption
      <3> QED
        BY Zenon, <3>1, <1>1, <1>2, <1>5 DEF ScInit, ScBuffers, Untouched, ScTaken
    <2>3. ScCounts
      <3>1. FirstCnt(prog) \in Int /\ FrameCount[prog] \in Nat
        BY <2>0, FrameCountAssumption DEF FirstCnt
      <3>2. /\ FirstCnt(prog) = FirstCnt(prog) + (0 - 0)
            /\ FrameCount[prog] = FrameCount[prog] - 0 + 0
        BY ONLY <3>1
      <3>3. Len(reads) = 0
        BY Zenon, <1>5 DEF ScInit
      <3>4. spc = "open" /\ left = FrameCount[prog] /\ framecnt = FirstCnt(prog)
        BY Zenon, <1>5 DEF ScInit
      <3> QED
        BY Zenon, <3>2, <3>3, <3>4 DEF ScCounts, ScTaken
    <2>4. ScFiles
      <3>1. FirstTag..LastTag = {}
        <4>1. framecnt = FirstCnt(prog) /\ LastTag = framecnt
          BY Zenon, <1>5 DEF ScInit, LastTag
        <4> QED
          BY <4>1 DEF FirstTag, FirstCnt
      <3>2. DOMAIN files = {}
        <4>1. files = <<>>
          BY Zenon, <1>5 DEF ScInit
        <4> QED
          BY ONLY <4>1
      <3> QED
        BY Zenon, <3>1, <3>2, <1>5 DEF ScInit, ScFiles
    <2> QED
      BY Zenon, <1>5, <2>0, <2>1, <2>2, <2>3, <2>4 DEF AppInv, ScInv
  <1>6. CASE app = "v4l2" /\ V4Init
    <2>1. DriverInv /\ V4Buffers
      BY Zenon, <1>1, <1>3, <1>6 DEF V4Init, V4Buffers, Untouched
    <2>2. V4Frames \in Int /\ 0 = V4Frames - V4Frames + 0
      BY V4FramesAssumption
    <2>3. V4Counts
      <3>1. Len(reads) = 0
        BY Zenon, <1>6 DEF V4Init
      <3>2. spc = "open" /\ left = V4Frames /\ held = None /\ files = <<>>
        BY Zenon, <1>6 DEF V4Init
      <3> QED
        BY Zenon, <2>2, <3>1, <3>2 DEF V4Counts
    <2> QED
      BY Zenon, <1>6, <2>1, <2>3 DEF V4Init, AppInv, V4Inv
  <1> QED
    BY Zenon, <1>4, <1>5, <1>6 DEF MCInit

\* Every step of the program that runs keeps its invariant.
LEMMA AppStepInv == AppInv /\ [MCNext]_allVars => AppInv'
  <1> SUFFICES ASSUME AppInv, [MCNext]_allVars PROVE AppInv'
    BY Zenon
  <1>1. CASE app = "capturelib" /\ Next /\ UNCHANGED <<app, scVars>>
    BY Zenon, <1>1 DEF AppInv, scVars
  <1>2. CASE app = "simple" /\ ScNext /\ UNCHANGED <<app, pc, appVars>>
    BY Zenon, <1>2, ScStepInv DEF AppInv
  <1>3. CASE app = "v4l2" /\ V4Next /\ UNCHANGED <<app, pc, appVars>>
    BY Zenon, <1>3, V4StepInv DEF AppInv
  <1>4. CASE UNCHANGED allVars
    <2>1. /\ app' = app /\ UNCHANGED <<prog, io, spc, mapped, held, left, framecnt, pixfmt>>
          /\ UNCHANGED <<bigbuffer, reads, files>>
          /\ UNCHANGED <<streaming, queued, filled, content, frameNo>>
      BY Zenon, <1>4 DEF allVars, vars, scVars, drvVars
    <2>t. DriverInv => streaming' \in BOOLEAN
      BY Zenon, <2>1 DEF DriverInv, AppTypes
    <2>2. CASE app = "simple" /\ ScInv
      <3>1. DriverInv'
        BY Zenon, <2>1, <2>2, <2>t, AppSame DEF ScInv
      <3>3. ScBuffers'
        BY Zenon, <2>1, <2>2 DEF ScInv, ScBuffers, Untouched, ScTaken
      <3>2. ScCounts' /\ ScFiles'
        BY Zenon, <2>1, <2>2 DEF ScInv, ScCounts, ScTaken, ScFiles, Dumps, FirstTag, LastTag
      <3> QED
        BY Zenon, <2>1, <2>2, <3>1, <3>2, <3>3 DEF AppInv, ScInv
    <2>3. CASE app = "v4l2" /\ V4Inv
      <3>1. DriverInv'
        BY Zenon, <2>1, <2>3, <2>t, AppSame DEF V4Inv
      <3>2. V4Buffers' /\ V4Counts'
        BY Zenon, <2>1, <2>3 DEF V4Inv, V4Buffers, Untouched, V4Counts
      <3> QED
        BY Zenon, <2>1, <2>3, <3>1, <3>2 DEF AppInv, V4Inv
    <2> QED
      BY Zenon, <2>1, <2>2, <2>3 DEF AppInv
  <1> QED
    BY Zenon, <1>1, <1>2, <1>3, <1>4 DEF MCNext

\* A camera program never processes a frame in a buffer that the driver may
\* fill, and while the stream is on the driver has no buffer of a program's own
\* memory that is not allocated, for any number of buffers and frames
\* (BuffersSafe).
THEOREM ProgramBuffersSafe == MCSpec => []BuffersSafe
  <1>1. AppInv => BuffersSafe
    <2>1. CASE app = "capturelib" /\ spc = "open" /\ io = "MMAP"
      BY Zenon, <2>1 DEF BuffersSafe, HeldAlone, FilledWhileAllocated
    <2>2. CASE ScInv
      <3>0. DriverInv /\ ScBuffers
        BY Zenon, <2>2 DEF ScInv
      <3>1. HeldAlone
        <4> SUFFICES ASSUME spc \in {"process", "dump"}, io # "READ"
                     PROVE  held \in mapped /\ CanQueue(held)
          BY Zenon DEF HeldAlone
        <4>1. held # None
          BY Zenon, <3>0 DEF ScBuffers, ScTaken
        <4>2. held \in 1..Len(content) /\ ~In(queued, held) /\ ~In(filled, held)
          BY Zenon, <3>0, <4>1 DEF DriverInv, AppOnce
        <4>3. IF io = "USERPTR" THEN mapped = 1..MaxBuffers /\ Len(content) <= MaxBuffers
                                ELSE mapped = 1..Len(content)
          BY Zenon, <3>0 DEF ScBuffers
        <4>4. held \in mapped
          <5>1. Len(content) \in Nat /\ MaxBuffers \in Nat
            BY Zenon, <3>0, AppNumbers, CaptureAppAssumption
          <5>2. Len(content) <= MaxBuffers => held \in 1..MaxBuffers
            BY ONLY <5>1, <4>2
          <5> QED
            BY Zenon, <5>2, <4>2, <4>3
        <4> QED
          BY Zenon, <4>2, <4>4, <3>0, AppHeld
      <3>2. FilledWhileAllocated
        <4> SUFFICES ASSUME streaming, io = "USERPTR"
                     PROVE  (Range(queued) \union Range(filled)) \subseteq mapped
          BY Zenon DEF FilledWhileAllocated
        <4>1. mapped = 1..MaxBuffers /\ Len(content) <= MaxBuffers
          BY Zenon, <3>0 DEF ScBuffers, Untouched
        <4>2. \A b \in 1..Len(content) : b \in mapped
          <5>1. Len(content) \in Nat /\ MaxBuffers \in Nat
            BY Zenon, <3>0, AppNumbers, CaptureAppAssumption
          <5> QED
            BY ONLY <5>1, <4>1
        <4>3. /\ DOMAIN queued = 1..Len(queued) /\ DOMAIN filled = 1..Len(filled)
              /\ \A i \in 1..Len(queued) : queued[i] \in 1..Len(content)
              /\ \A i \in 1..Len(filled) : filled[i] \in 1..Len(content)
          <5>1. queued \in Seq(1..Len(content)) /\ filled \in Seq(1..Len(content))
            BY Zenon, <3>0 DEF DriverInv, AppTypes
          <5>2. DOMAIN queued = 1..Len(queued) /\ DOMAIN filled = 1..Len(filled)
            BY ONLY <5>1
          <5> QED
            BY Zenon, <5>1, <5>2, EntryFacts
        <4> QED
          BY Zenon, <4>2, <4>3 DEF Range
      <3> QED
        BY Zenon, <3>1, <3>2 DEF BuffersSafe
    <2>3. CASE V4Inv
      <3>0. DriverInv /\ V4Buffers /\ spc # "dump"
        BY Zenon, <2>3 DEF V4Inv, V4Buffers
      <3>1. spc = "process" => held \in mapped /\ ~In(queued, held) /\ ~In(filled, held)
        BY Zenon, <3>0 DEF DriverInv, AppOnce, V4Buffers
      <3> QED
        BY Zenon, <3>0, <3>1, AppHeld DEF BuffersSafe, HeldAlone, FilledWhileAllocated, V4Buffers
    <2> QED
      BY Zenon, <2>1, <2>2, <2>3 DEF AppInv
  <1> QED
    BY <1>1, AppInitInv, AppStepInv, PTL DEF MCSpec

\* The frames of a program are in the order of the camera.
LEMMA AppReadsIncrease ==
  ASSUME DriverInv
  PROVE  \A i \in 1..(Len(reads) - 1) : reads[i] < reads[i + 1]
  <1>1. Len(reads) \in Nat
    BY Zenon, AppNumbers
  <1>2. \A i \in 1..(Len(reads) - 1) :
          i \in 1..Len(reads) /\ i + 1 \in 1..Len(reads) /\ i < i + 1
    BY ONLY <1>1
  <1> QED
    BY Zenon, <1>2 DEF DriverInv, AppOrdered

\* Every frame is taken once and in the order of the camera, is filed under
\* its number without a gap, and a program that ends normally has taken as
\* many as it was asked for, for any frame_count (FramesInOrder).
THEOREM ProgramFramesInOrder == MCSpec => []FramesInOrder
  <1>1. AppInv => FramesInOrder
    <2>1. CASE prog = "none" /\ files = <<>>
      <3>1. DOMAIN files = {}
        BY <2>1
      <3> QED
        BY Zenon, <2>1, <3>1 DEF FramesInOrder, FilesExact, V4InOrder, CapturePrograms, V4Programs
    <2>2. CASE ScInv
      <3>0. /\ prog \in CapturePrograms /\ DriverInv /\ ScBuffers /\ ScCounts /\ ScFiles
        BY Zenon, <2>2 DEF ScInv
      <3>1. V4InOrder
        BY Zenon, <3>0 DEF V4InOrder, CapturePrograms, V4Programs
      <3>2. ASSUME NEW k \in DOMAIN files, spc \in {"done", "select"}, NEW j \in k..framecnt
            PROVE  j \in DOMAIN files
        <4>1. DOMAIN files = FirstTag..framecnt
          BY Zenon, <3>0, <3>2 DEF ScFiles, LastTag
        <4>2. FirstTag \in Int
          BY DEF FirstTag, FirstCnt
        <4>3. framecnt \in Int
          <5>1. framecnt = FirstCnt(prog) + (Len(reads) - 0) /\ Len(reads) \in Nat
            BY Zenon, <3>0, <3>2, AppNumbers DEF ScCounts
          <5> QED
            BY <5>1 DEF FirstCnt
        <4>4. k \in FirstTag..framecnt
          BY Zenon, <4>1
        <4>5. j \in FirstTag..framecnt
          BY ONLY <4>2, <4>3, <4>4, j \in k..framecnt
        <4> QED
          BY Zenon, <4>1, <4>5
      <3>3. spc = "done" => Len(reads) = FrameCount[prog]
        <4> SUFFICES ASSUME spc = "done" PROVE Len(reads) = FrameCount[prog]
          BY Zenon
        <4>1. left = FrameCount[prog] - Len(reads) + 0 /\ left = 0
          BY Zenon, <3>0 DEF ScCounts, ScTaken
        <4>2. FrameCount[prog] \in Nat /\ Len(reads) \in Nat
          BY Zenon, <3>0, AppNumbers, FrameCountAssumption
        <4> QED
          BY ONLY <4>1, <4>2
      <3>4. FilesExact
        BY Zenon, <3>0, <3>2, <3>3, AppReadsIncrease DEF FilesExact, ScFiles
      <3> QED
        BY Zenon, <3>1, <3>4 DEF FramesInOrder
    <2>3. CASE V4Inv
      <3>0. prog \in V4Programs /\ DriverInv /\ V4Buffers /\ V4Counts
        BY Zenon, <2>3 DEF V4Inv
      <3>1. FilesExact
        <4>1. files = <<>>
          BY Zenon, <3>0 DEF V4Counts
        <4>2. DOMAIN files = {}
          BY ONLY <4>1
        <4> QED
          BY Zenon, <4>2, <3>0 DEF FilesExact, CapturePrograms, V4Programs
      <3>2. spc = "requeue" => bigbuffer = reads[Len(reads)]
        BY Zenon, <3>0 DEF V4Counts, V4Buffers, DriverInv, AppOrdered
      <3> QED
        BY Zenon, <3>0, <3>1, <3>2, AppReadsIncrease DEF FramesInOrder, V4InOrder, V4Counts
    <2> QED
      BY Zenon, <2>1, <2>2, <2>3 DEF AppInv
  <1> QED
    BY <1>1, AppInitInv, AppStepInv, PTL DEF MCSpec

=============================================================================
