--------------------------- MODULE StorageProofs ---------------------------
(***************************************************************************)
(* Proofs about what is kept: the frames that seqv4l2.c converts and       *)
(* stores, for any rates of the code's ratio, any number of stores and     *)
(* reads and any backlog, and the files that raidlib.c stripes, for any    *)
(* file and any size of a sector.                                          *)
(***************************************************************************)
EXTENDS SeqV4L2, Redundancy, TLAPS

\* Service_1 is released five times as often as Service_2 and Service_3.
LEMMA FramesFive == Frames = 5
  <1>1. S1Rate \in Nat \ {0} /\ S2Rate = 5 * S1Rate
    BY Zenon, SeqV4L2Assumption
  <1>2. \A r \in Nat \ {0} : (5 * r) \div r = 5
    BY SMTT(30)
  <1> QED
    BY Zenon, <1>1, <1>2 DEF Frames

\* The three services of the program are three.
LEMMA ThreeServices == 1 \in Services /\ 2 \in Services /\ 3 \in Services
  BY DEF Services

-----------------------------------------------------------------------------
\* Where the services can be, and when main has joined them.
Places ==
  /\ svcPc[1] # "work"
  /\ \A s \in {2, 3} : svcPc[s] \in {"test", "wait", "check", "work", "exit"}
  /\ \A s \in Services : s <= joined => svcPc[s] = "exit"
  /\ dev = "closed" => joined = 3

\* The ring holds the last two frames read, each in the slot of its number.
Ring ==
  /\ reads >= 1
  /\ tail_idx = reads % 3
  /\ slot[(reads - 1) % 3] = reads - 1
  /\ reads >= 2 => slot[(reads - 2) % 3] = reads - 2

\* The head has moved by five for each conversion, and by two in one that is
\* under way.  A conversion that began on time has the newest frame.
HeadMoves ==
  /\ svcPc[2] = "work" => process_framecnt >= 1
  /\ head_idx = (5 * Converted + (IF svcPc[2] = "work" THEN 2 ELSE 0)) % 3
  /\ proc.reads <= reads
  /\ process_framecnt > 0 /\ proc.reads = 5 * process_framecnt + 1 =>
       proc.frame = 5 * process_framecnt

\* The flags are raised together, no service ends before, and until then
\* Service_2 and Service_3 have been released equally often.
Releases ==
  /\ abort[2] <=> abort[3]
  /\ \A s \in Services : svcPc[s] = "exit" => abort[s]
  /\ ~abort[2] =>
       sem[2] + process_framecnt + (IF svcPc[2] = "check" THEN 1 ELSE 0)
         = sem[3] + save_framecnt + (IF svcPc[3] = "check" THEN 1 ELSE 0)
  /\ save_framecnt <= Converted

\* What a conversion in time leaves in the scratchpad reaches the file.
Stored ==
  /\ InTime /\ svcPc[2] # "work" => scratch = 5 * process_framecnt
  /\ InTime /\ svcPc[3] = "work" /\ save_framecnt = Converted /\ svcPc[2] # "work"
       => file = 5 * save_framecnt

IInv == TypeOK /\ Places /\ Ring /\ HeadMoves /\ Releases /\ Stored

\* The inductive invariant holds when main has started the services.
LEMMA InitIInv == Init => IInv
  <1> SUFFICES ASSUME Init PROVE IInv
    BY Zenon
  <1> USE DEF Init
  <1>1. TypeOK
    <2>1. slot \in [0..(ring_size - 1) -> Int] /\ Torn \in Int
      BY DEF Torn
    <2>2. abortTest \in BOOLEAN /\ armed \in BOOLEAN /\ pending \in BOOLEAN
      BY Zenon
    <2>3. 1 \in 0..(ring_size - 1) /\ 0 \in 0..(ring_size - 1) /\ 0 \in 0..3
      BY DEF ring_size
    <2> QED
      BY Zenon, <2>1, <2>2, <2>3 DEF TypeOK
  <1>2. Places
    BY DEF Places, Services
  <1>3. Ring
    BY DEF Ring, ring_size, Torn
  <1>4. HeadMoves /\ Releases
    BY DEF HeadMoves, Releases, Converted, Services
  <1>5. Stored
    BY DEF Stored, InTime, Services
  <1> QED
    BY Zenon, <1>1, <1>2, <1>3, <1>4, <1>5 DEF IInv

\* A conversion in time works on the newest frame of its period, and the ring
\* still holds that frame.
LEMMA ConversionIntact ==
  ASSUME IInv, InTime, svcPc[2] = "work"
  PROVE  proc.frame = 5 * process_framecnt /\ slot[head_idx] = proc.frame
  <1> USE FramesFive DEF IInv
  <1>1. /\ process_framecnt > 0 /\ proc.reads = 5 * process_framecnt + 1
        /\ reads < proc.reads + 2 /\ proc.reads <= reads
        /\ process_framecnt \in Nat /\ reads \in Nat
    BY Zenon DEF InTime, HeadMoves, TypeOK
  <1>2. proc.frame = 5 * process_framecnt
    BY Zenon, <1>1 DEF HeadMoves
  <1>3. head_idx = (5 * (process_framecnt - 1) + 2) % 3
    BY Zenon DEF HeadMoves, Converted
  <1>4. head_idx = (5 * process_framecnt) % 3
    BY <1>1, <1>3
  <1>5. CASE reads = 5 * process_framecnt + 1
    <2>1. reads - 1 = 5 * process_framecnt
      BY <1>1, <1>5
    <2> QED
      BY Zenon, <1>2, <1>4, <2>1 DEF Ring
  <1>6. CASE reads = 5 * process_framecnt + 2
    <2>1. reads - 2 = 5 * process_framecnt /\ reads >= 2
      BY <1>1, <1>6
    <2> QED
      BY Zenon, <1>2, <1>4, <2>1 DEF Ring
  <1> QED
    BY <1>1, <1>5, <1>6

-----------------------------------------------------------------------------
\* The handler, the timer and main leave the ring, the conversion and the
\* stores alone, and release Service_2 and Service_3 together.
LEMMA TimerIInv ==
  ASSUME IInv, Tick \/ Sequencer
  PROVE  IInv'
  <1> USE ThreeServices DEF IInv
  <1>0. /\ UNCHANGED <<abortTest, svcPc, s1Vars, s2Vars, s3Vars, mainVars>>
        /\ sem' \in [Services -> Nat]
        /\ \/ sem'[2] = sem[2] /\ sem'[3] = sem[3]
           \/ sem'[2] = sem[2] + 1 /\ sem'[3] = sem[3] + 1
    <2>1. CASE Tick \/ Enter
      BY Zenon, <2>1 DEF Tick, Enter, TypeOK
    <2>2. CASE ShutdownPost
      BY <2>2 DEF ShutdownPost, TypeOK
    <2>3. CASE ReleaseDue
      <3>1. Due(2, seqCnt + 1) <=> Due(3, seqCnt + 1)
        BY DEF Due
      <3> QED
        BY SMTT(20), <2>3, <3>1 DEF ReleaseDue, TypeOK
    <2> QED
      BY Zenon, <2>1, <2>2, <2>3 DEF Sequencer
  <1>1. /\ abort' \in [Services -> BOOLEAN]
        /\ abort'[2] <=> abort'[3]
        /\ \A s \in Services : abort[s] => abort'[s]
    <2>1. CASE Enter
      <3>1. abort' \in [Services -> BOOLEAN]
        BY Zenon, <2>1 DEF Enter, TypeOK
      <3>2. \A s \in Services : abort'[s] <=> abort[s] \/ abortTest
        BY Zenon, <2>1 DEF Enter
      <3> QED
        BY Zenon, <3>1, <3>2 DEF Releases
    <2>2. CASE ~Enter
      BY Zenon, <2>2 DEF Tick, Sequencer, ShutdownPost, ReleaseDue, TypeOK, Releases
    <2> QED
      BY Zenon, <2>1, <2>2
  <1>2. TypeOK'
    <2>1. armed' \in BOOLEAN /\ pending' \in BOOLEAN
      BY Zenon DEF Tick, Sequencer, Enter, ShutdownPost, ReleaseDue, TypeOK
    <2>2. seqCnt' \in Nat /\ hPc' \in {"idle", "enter", "post", "release"}
      BY DEF Tick, Sequencer, Enter, ShutdownPost, ReleaseDue, TypeOK
    <2> QED
      BY Zenon, <1>0, <1>1, <2>1, <2>2 DEF TypeOK, s1Vars, s2Vars, s3Vars, mainVars
  <1>3. Places' /\ Ring' /\ HeadMoves' /\ Stored'
    BY Zenon, <1>0 DEF Places, Ring, HeadMoves, Stored, InTime, Converted, s1Vars, s2Vars, s3Vars,
       mainVars
  <1>4. Releases'
    <2>1. /\ svcPc' = svcPc /\ process_framecnt' = process_framecnt
          /\ save_framecnt' = save_framecnt /\ Converted' = Converted
      BY Zenon, <1>0 DEF Converted, s2Vars, s3Vars
    <2>2. /\ sem[2] \in Nat /\ sem[3] \in Nat
          /\ process_framecnt \in Nat /\ save_framecnt \in Nat
      BY Zenon DEF TypeOK
    <2>3. ~abort'[2] => ~abort[2]
      BY Zenon, <1>1
    <2>4. ~abort'[2] =>
            sem'[2] + process_framecnt + (IF svcPc[2] = "check" THEN 1 ELSE 0)
              = sem'[3] + save_framecnt + (IF svcPc[3] = "check" THEN 1 ELSE 0)
      BY <1>0, <2>2, <2>3 DEF Releases
    <2> QED
      BY Zenon, <1>1, <2>1, <2>4 DEF Releases
  <1> QED
    BY Zenon, <1>2, <1>3, <1>4

\* A failed read ends the process, and main only joins and closes.
LEMMA MainIInv ==
  ASSUME IInv, ReadFails \/ Join \/ Shutdown \/ UNCHANGED vars
  PROVE  IInv'
  <1> USE DEF IInv
  <1>0. UNCHANGED <<sem, abort, abortTest, timerVars, svcPc, s1Vars, s2Vars, s3Vars>>
    BY Zenon DEF ReadFails, Join, Shutdown, vars
  <1>1. joined' \in 0..3 /\ dev' \in {"streaming", "closed", "failed"}
    BY DEF ReadFails, Join, Shutdown, vars, mainVars, TypeOK
  <1>2. TypeOK'
    BY Zenon, <1>0, <1>1 DEF TypeOK, timerVars, s1Vars, s2Vars, s3Vars
  <1>3. Places'
    BY <1>0 DEF ReadFails, Join, Shutdown, vars, mainVars, Places, TypeOK, Services
  <1>4. Ring' /\ HeadMoves' /\ Releases' /\ Stored'
    BY Zenon, <1>0 DEF Ring, HeadMoves, Releases, Stored, InTime, Converted, s1Vars, s2Vars,
       s3Vars
  <1> QED
    BY Zenon, <1>2, <1>3, <1>4

\* The loop test, sem_wait and the break that every service has: a release
\* taken is a release that no longer waits, and a service ends only when its
\* flag is up.
LEMMA CommonIInv ==
  ASSUME IInv, NEW s \in Services, Test(s) \/ Take(s) \/ Break(s),
         UNCHANGED <<abort, timerVars, mainVars>>
  PROVE  IInv'
  <1> USE ThreeServices DEF IInv
  <1>0. /\ UNCHANGED <<abortTest, s1Vars, s2Vars, s3Vars>>
        /\ sem' \in [Services -> Nat]
        /\ svcPc' \in [Services -> {"test", "wait", "check", "select", "copy", "work",
                                    "done", "exit"}]
        /\ \A u \in Services : u # s => svcPc'[u] = svcPc[u] /\ sem'[u] = sem[u]
        /\ svcPc[s] \in {"test", "wait", "check"}
        /\ svcPc'[s] \in {"wait", "check", "exit"}
        /\ svcPc'[s] = "exit" => abort[s]
        /\ \/ /\ svcPc[s] = "test" /\ sem'[s] = sem[s] /\ svcPc'[s] # "check"
           \/ /\ svcPc[s] = "wait" /\ sem[s] > 0 /\ sem'[s] = sem[s] - 1 /\ svcPc'[s] = "check"
           \/ /\ svcPc[s] = "check" /\ sem'[s] = sem[s] /\ abort[s]
    <2>1. CASE Test(s)
      BY Zenon, <2>1 DEF Test, Goto, TypeOK
    <2>2. CASE Take(s)
      BY <2>2 DEF Take, Goto, TypeOK
    <2>3. CASE Break(s)
      BY Zenon, <2>3 DEF Break, Goto, TypeOK
    <2> QED
      BY Zenon, <2>1, <2>2, <2>3
  <1>1. TypeOK'
    BY Zenon, <1>0 DEF TypeOK, timerVars, s1Vars, s2Vars, s3Vars, mainVars
  <1>2. Places'
    BY Zenon, <1>0 DEF Places, mainVars
  <1>w. \A u \in Services : svcPc'[u] = "work" <=> svcPc[u] = "work"
    BY Zenon, <1>0
  <1>c. Converted' = Converted
    BY Zenon, <1>0, <1>w DEF Converted, s2Vars
  <1>3. Ring' /\ HeadMoves'
    BY Zenon, <1>0, <1>w, <1>c DEF Ring, HeadMoves, s1Vars, s2Vars
  <1>4. Releases'
    <2>1. /\ process_framecnt' = process_framecnt
          /\ save_framecnt' = save_framecnt
      BY Zenon, <1>0 DEF s2Vars, s3Vars
    <2>2. /\ sem[2] \in Nat /\ sem[3] \in Nat
          /\ process_framecnt \in Nat /\ save_framecnt \in Nat
      BY Zenon DEF TypeOK
    <2>3. \A u \in Services : svcPc'[u] = "exit" => abort[u]
      BY Zenon, <1>0 DEF Releases
    <2>4. ~abort[2] =>
            sem'[2] + process_framecnt + (IF svcPc'[2] = "check" THEN 1 ELSE 0)
              = sem'[3] + save_framecnt + (IF svcPc'[3] = "check" THEN 1 ELSE 0)
      BY <1>0, <2>2 DEF Releases
    <2> QED
      BY Zenon, <1>c, <2>1, <2>3, <2>4 DEF Releases
  <1>5. Stored'
    <2>1. InTime' <=> InTime
      BY Zenon, <1>0 DEF InTime, s1Vars, s2Vars
    <2> QED
      BY Zenon, <1>0, <1>w, <1>c, <2>1 DEF Stored, s2Vars, s3Vars
  <1> QED
    BY Zenon, <1>1, <1>2, <1>3, <1>4, <1>5

\* Service_1: the copy overwrites the oldest slot of the ring only.
LEMMA AcquisitionIInv ==
  ASSUME IInv, StartRead \/ StartCopy \/ EndCopy \/ EndRead,
         UNCHANGED <<abort, timerVars, mainVars>>
  PROVE  IInv'
  <1> USE ThreeServices DEF IInv
  <1>0. /\ UNCHANGED <<sem, s2Vars, s3Vars>>
        /\ svcPc' \in [Services -> {"test", "wait", "check", "select", "copy", "work",
                                    "done", "exit"}]
        /\ svcPc'[2] = svcPc[2] /\ svcPc'[3] = svcPc[3]
        /\ svcPc[1] # "exit" /\ svcPc'[1] \notin {"exit", "work"}
    <2>1. UNCHANGED <<sem, s2Vars, s3Vars>>
      BY Zenon DEF StartRead, StartCopy, EndCopy, EndRead
    <2>2. /\ svcPc[1] \in {"check", "select", "copy", "done"}
          /\ \E q \in {"select", "copy", "done", "test"} : Goto(1, q)
      BY Zenon DEF StartRead, StartCopy, EndCopy, EndRead, Proceed
    <2> QED
      BY <2>1, <2>2 DEF Goto, TypeOK
  <1>1. Ring' /\ reads' >= reads /\ reads' \in Nat /\ slot' \in [0..2 -> Int] /\ tail_idx' \in 0..2
    <2>0. /\ reads \in Nat /\ reads >= 1 /\ tail_idx = reads % 3
          /\ slot \in [0..2 -> Int] /\ tail_idx \in 0..2
      BY DEF TypeOK, Ring, ring_size
    <2>1. CASE StartRead \/ EndRead
      BY <2>0, <2>1 DEF StartRead, EndRead, s1Vars, Ring
    <2>2. CASE StartCopy
      <3>1. slot' \in [0..2 -> Int] /\ \A i \in 0..2 : i # reads % 3 => slot'[i] = slot[i]
        BY <2>0, <2>2 DEF StartCopy, Torn
      <3>2. /\ (reads - 1) % 3 # reads % 3 /\ (reads - 1) % 3 \in 0..2
            /\ (reads - 2) % 3 # reads % 3 /\ (reads - 2) % 3 \in 0..2
        BY <2>0
      <3> QED
        BY <2>0, <2>2, <3>1, <3>2 DEF StartCopy, Ring
    <2>3. CASE EndCopy
      <3>1. /\ slot' \in [0..2 -> Int]
            /\ \A i \in 0..2 : slot'[i] = IF i = reads % 3 THEN reads ELSE slot[i]
        BY <2>0, <2>3 DEF EndCopy
      <3>2. /\ (reads - 1) % 3 # reads % 3 /\ (reads - 1) % 3 \in 0..2
            /\ reads % 3 \in 0..2
            /\ ((reads % 3) + 1) % 3 = (reads + 1) % 3 /\ (reads + 1) % 3 \in 0..2
        BY <2>0
      <3>3. reads' = reads + 1 /\ reads' - 1 = reads /\ reads' - 2 = reads - 1
        BY <2>0, <2>3 DEF EndCopy
      <3>4. tail_idx' = reads' % 3 /\ tail_idx' \in 0..2
        BY Zenon, <2>0, <2>3, <3>2, <3>3 DEF EndCopy, ring_size
      <3>5. slot'[(reads' - 1) % 3] = reads' - 1 /\ slot'[(reads' - 2) % 3] = reads' - 2
        BY Zenon, <3>1, <3>2, <3>3 DEF Ring
      <3> QED
        BY <2>0, <3>1, <3>3, <3>4, <3>5 DEF Ring
    <2> QED
      BY Zenon, <2>1, <2>2, <2>3
  <1>2. TypeOK'
    <2>1. S1Cnt' \in Nat
      BY SMTT(20) DEF StartRead, StartCopy, EndCopy, EndRead, s1Vars, TypeOK
    <2>2. abortTest' \in BOOLEAN
      BY Zenon DEF StartRead, StartCopy, EndCopy, EndRead, TypeOK
    <2> QED
      BY <1>0, <1>1, <2>1, <2>2 DEF TypeOK, timerVars, s2Vars, s3Vars, mainVars, ring_size
  <1>3. Places'
    BY <1>0 DEF Places, mainVars, Services
  <1>c. Converted' = Converted
    BY Zenon, <1>0 DEF Converted, s2Vars
  <1>4. HeadMoves'
    BY <1>0, <1>1, <1>c DEF HeadMoves, s2Vars, TypeOK
  <1>5. Releases'
    BY <1>0, <1>c DEF Releases, s2Vars, s3Vars, Services
  <1>6. Stored'
    <2>1. InTime' => InTime
      BY SMTT(20), <1>0, <1>1 DEF InTime, s2Vars, TypeOK
    <2> QED
      BY Zenon, <1>0, <1>c, <2>1 DEF Stored, s2Vars, s3Vars
  <1> QED
    BY Zenon, <1>1, <1>2, <1>3, <1>4, <1>5, <1>6

\* Service_2: a conversion begins on the newest frame of its period when it
\* is in time, and ends with that frame in the scratchpad.
LEMMA ProcessingIInv ==
  ASSUME IInv, StartProcess \/ EndProcess,
         UNCHANGED <<abort, timerVars, mainVars>>
  PROVE  IInv'
  <1> USE ThreeServices DEF IInv
  <1>t. /\ reads \in Nat /\ process_framecnt \in Nat /\ save_framecnt \in Nat
        /\ slot \in [0..2 -> Int] /\ head_idx \in 0..2
        /\ proc \in [frame : Int, reads : Nat] /\ sem \in [Services -> Nat]
    BY DEF TypeOK, ring_size
  <1>0. /\ UNCHANGED <<sem, abortTest, s1Vars, s3Vars>>
        /\ svcPc' \in [Services -> {"test", "wait", "check", "select", "copy", "work",
                                    "done", "exit"}]
        /\ svcPc'[1] = svcPc[1] /\ svcPc'[3] = svcPc[3]
        /\ svcPc[2] \in {"check", "work"}
        /\ svcPc'[2] = IF svcPc[2] = "check" THEN "work" ELSE "test"
    <2>1. UNCHANGED <<sem, abortTest, s1Vars, s3Vars>>
      BY Zenon DEF StartProcess, EndProcess
    <2>2. \/ svcPc[2] = "check" /\ Goto(2, "work")
          \/ svcPc[2] = "work" /\ Goto(2, "test")
      BY Zenon DEF StartProcess, EndProcess, Proceed
    <2> QED
      BY SMTT(20), <2>1, <2>2 DEF Goto, TypeOK
  <1>1. CASE StartProcess
    <2>0. /\ svcPc[2] = "check" /\ ~abort[2] /\ svcPc'[2] = "work"
          /\ process_framecnt' = process_framecnt + 1
          /\ head_idx' = (head_idx + 2) % 3
          /\ proc' = [frame |-> slot[head_idx'], reads |-> reads]
          /\ scratch' = Torn
      BY Zenon, <1>0, <1>1 DEF StartProcess, Proceed, ring_size
    <2>1. head_idx' \in 0..2 /\ proc' \in [frame : Int, reads : Nat] /\ scratch' \in Int
      BY <1>t, <2>0 DEF Torn
    <2>2. TypeOK'
      BY <1>0, <2>0, <2>1 DEF TypeOK, timerVars, s1Vars, s3Vars, mainVars, ring_size
    <2>c. Converted' = process_framecnt /\ Converted = process_framecnt
      BY <1>t, <2>0 DEF Converted
    <2>3. head_idx' = (5 * process_framecnt + 2) % 3
      <3>1. head_idx = (5 * process_framecnt + 0) % 3
        BY Zenon, <2>0, <2>c DEF HeadMoves
      <3>2. \A n \in Nat : (((5 * n + 0) % 3) + 2) % 3 = (5 * n + 2) % 3
        OBVIOUS
      <3> QED
        BY Zenon, <1>t, <2>0, <3>1, <3>2
    <2>4. reads = 5 * process_framecnt' + 1 => proc'.frame = 5 * process_framecnt'
      <3> SUFFICES ASSUME reads = 5 * (process_framecnt + 1) + 1
                   PROVE  slot[head_idx'] = 5 * (process_framecnt + 1)
        BY Zenon, <2>0
      <3>1. head_idx' = (reads - 1) % 3
        BY <1>t, <2>3
      <3> QED
        BY <1>t, <3>1 DEF Ring
    <2>5. HeadMoves'
      BY <1>0, <1>t, <2>0, <2>c, <2>3, <2>4 DEF HeadMoves, s1Vars
    <2>6. Ring'
      BY Zenon, <1>0 DEF Ring, s1Vars
    <2>7. Places'
      BY <1>0, <2>0 DEF Places, mainVars, Services
    <2>8. Releases'
      <3>1. sem' = sem /\ save_framecnt' = save_framecnt
        BY Zenon, <1>0 DEF s3Vars
      <3>2. \A s \in Services : svcPc'[s] = "exit" => abort'[s]
        BY <1>0, <2>0 DEF Releases, Services
      <3>3. sem[2] \in Nat /\ sem[3] \in Nat
        BY Zenon, <1>t
      <3>4. sem[2] + process_framecnt + 1
              = sem[3] + save_framecnt + (IF svcPc[3] = "check" THEN 1 ELSE 0)
        BY Zenon, <2>0 DEF Releases
      <3>5. save_framecnt <= process_framecnt
        BY Zenon, <2>c DEF Releases
      <3> QED
        BY <1>0, <1>t, <2>0, <2>c, <3>1, <3>2, <3>3, <3>4, <3>5 DEF Releases
    <2>9. Stored'
      BY Zenon, <2>0 DEF Stored
    <2> QED
      BY Zenon, <2>2, <2>5, <2>6, <2>7, <2>8, <2>9
  <1>2. CASE EndProcess
    <2>0. /\ svcPc[2] = "work" /\ svcPc'[2] = "test"
          /\ process_framecnt' = process_framecnt /\ proc' = proc
          /\ head_idx' = (head_idx + 3) % 3
          /\ scratch' = IF slot[head_idx] = proc.frame THEN proc.frame ELSE Torn
          /\ process_framecnt >= 1
      BY Zenon, <1>0, <1>2 DEF EndProcess, ring_size, HeadMoves
    <2>1. head_idx' \in 0..2 /\ scratch' \in Int
      BY <1>t, <2>0 DEF Torn
    <2>2. TypeOK'
      BY <1>0, <2>0, <2>1 DEF TypeOK, timerVars, s1Vars, s3Vars, mainVars, ring_size
    <2>c. Converted' = process_framecnt /\ Converted = process_framecnt - 1
      BY <1>t, <2>0 DEF Converted
    <2>3. head_idx = (5 * (process_framecnt - 1) + 2) % 3
      BY Zenon, <2>0, <2>c DEF HeadMoves
    <2>4. head_idx' = (5 * process_framecnt + 0) % 3 /\ head_idx = (5 * process_framecnt) % 3
      BY <1>t, <2>0, <2>3
    <2>5. HeadMoves'
      BY Zenon, <1>0, <1>t, <2>0, <2>c, <2>4 DEF HeadMoves, s1Vars
    <2>6. Ring'
      BY Zenon, <1>0 DEF Ring, s1Vars
    <2>7. Places'
      BY <1>0, <2>0 DEF Places, mainVars, Services
    <2>8. Releases'
      <3>1. sem' = sem /\ save_framecnt' = save_framecnt
        BY Zenon, <1>0 DEF s3Vars
      <3>2. \A s \in Services : svcPc'[s] = "exit" => abort'[s]
        BY <1>0, <2>0 DEF Releases, Services
      <3>3. save_framecnt <= Converted'
        BY <1>t, <2>c DEF Releases
      <3> QED
        BY Zenon, <1>0, <2>0, <3>1, <3>2, <3>3 DEF Releases
    <2>9. Stored'
      <3>1. save_framecnt' # Converted'
        BY <1>0, <1>t, <2>c DEF Releases, s3Vars
      <3>2. ASSUME InTime' PROVE scratch' = 5 * process_framecnt'
        <4>1. InTime
          BY Zenon, <1>0, <2>0, <3>2 DEF InTime, s1Vars
        <4> QED
          BY Zenon, <2>0, <4>1, ConversionIntact
      <3> QED
        BY Zenon, <3>1, <3>2 DEF Stored
    <2> QED
      BY Zenon, <2>2, <2>5, <2>6, <2>7, <2>8, <2>9
  <1> QED
    BY Zenon, <1>1, <1>2

\* Service_3: it runs only while Service_2 waits with no release left, and
\* both have been released equally often, so the conversion it stores has
\* ended.
LEMMA StorageIInv ==
  ASSUME IInv, StartStore \/ EndStore, CoreFree(3),
         UNCHANGED <<abort, timerVars, mainVars>>
  PROVE  IInv'
  <1> USE ThreeServices DEF IInv
  <1>t. /\ process_framecnt \in Nat /\ save_framecnt \in Nat
        /\ sem[2] \in Nat /\ sem[3] \in Nat /\ scratch \in Int /\ file \in Int
    BY Zenon DEF TypeOK
  <1>0. /\ UNCHANGED <<sem, s1Vars, s2Vars>>
        /\ svcPc' \in [Services -> {"test", "wait", "check", "select", "copy", "work",
                                    "done", "exit"}]
        /\ svcPc'[1] = svcPc[1] /\ svcPc'[2] = svcPc[2]
        /\ svcPc[3] \in {"check", "work"}
        /\ svcPc'[3] = IF svcPc[3] = "check" THEN "work" ELSE "test"
    <2>1. UNCHANGED <<sem, s1Vars, s2Vars>>
      BY Zenon DEF StartStore, EndStore
    <2>2. \/ svcPc[3] = "check" /\ Goto(3, "work")
          \/ svcPc[3] = "work" /\ Goto(3, "test")
      BY Zenon DEF StartStore, EndStore, Proceed
    <2> QED
      BY <2>1, <2>2 DEF Goto, TypeOK
  <1>1. TypeOK'
    <2>1. save_framecnt' \in Nat /\ file' \in Int
      BY <1>t DEF StartStore, EndStore, Torn
    <2>2. abortTest' \in BOOLEAN
      BY Zenon DEF StartStore, EndStore, TypeOK
    <2> QED
      BY Zenon, <1>0, <2>1, <2>2 DEF TypeOK, timerVars, s1Vars, s2Vars, mainVars
  <1>2. Places'
    BY <1>0 DEF Places, mainVars, Services
  <1>c. Converted' = Converted /\ process_framecnt' = process_framecnt
    BY Zenon, <1>0 DEF Converted, s2Vars
  <1>3. Ring' /\ HeadMoves'
    BY Zenon, <1>0, <1>c DEF Ring, HeadMoves, s1Vars, s2Vars
  <1>4. InTime' <=> InTime
    BY Zenon, <1>0 DEF InTime, s1Vars, s2Vars
  <1>5. \A s \in Services : svcPc'[s] = "exit" => abort'[s]
    BY <1>0 DEF Releases, Services
  <1>6. CASE StartStore
    <2>0. /\ svcPc[3] = "check" /\ svcPc'[3] = "work" /\ ~abort[3] /\ ~abort[2]
          /\ save_framecnt' = save_framecnt + 1 /\ file' = scratch
      BY Zenon, <1>0, <1>6 DEF StartStore, Proceed, Releases
    <2>1. svcPc[2] = "wait" /\ sem[2] = 0
      <3>1. 2 \in 1..(3 - 1)
        OBVIOUS
      <3> QED
        BY Zenon, <2>0, <3>1 DEF CoreFree, Blocked, Places, Releases
    <2>2. process_framecnt = sem[3] + save_framecnt + 1 /\ Converted = process_framecnt
      BY <1>t, <2>0, <2>1 DEF Releases, Converted
    <2>3. Releases'
      BY <1>0, <1>t, <1>c, <1>5, <2>0, <2>1, <2>2 DEF Releases
    <2>4. Stored'
      BY Zenon, <1>0, <1>t, <1>c, <1>4, <2>0, <2>1, <2>2 DEF Stored, s2Vars
    <2> QED
      BY Zenon, <1>1, <1>2, <1>3, <2>3, <2>4
  <1>7. CASE EndStore
    <2>0. svcPc[3] = "work" /\ svcPc'[3] = "test" /\ save_framecnt' = save_framecnt
      BY Zenon, <1>0, <1>7 DEF EndStore
    <2>1. Releases'
      BY Zenon, <1>0, <1>c, <1>5, <2>0 DEF Releases
    <2>2. Stored'
      BY Zenon, <1>0, <1>c, <1>4, <2>0 DEF Stored, s2Vars
    <2> QED
      BY Zenon, <1>1, <1>2, <1>3, <2>1, <2>2
  <1> QED
    BY Zenon, <1>6, <1>7

\* Every step preserves the inductive invariant.
LEMMA StepIInv == IInv /\ [Next]_vars => IInv'
  <1> SUFFICES ASSUME IInv, [Next]_vars PROVE IInv'
    BY Zenon
  <1>1. ASSUME NEW s \in Services, Service(s) PROVE IInv'
    BY Zenon, <1>1, CommonIInv, AcquisitionIInv, ProcessingIInv, StorageIInv
    DEF Service, ServiceBody
  <1> QED
    BY Zenon, <1>1, TimerIInv, MainIInv DEF Next

-----------------------------------------------------------------------------
\* The state of seqv4l2.c stays well typed: in particular the indices stay in
\* the ring.
THEOREM TypeCorrect == Spec => []TypeOK
  <1>1. IInv => TypeOK
    BY Zenon DEF IInv
  <1> QED
    BY <1>1, InitIInv, StepIInv, PTL DEF Spec

\* The head and the tail of the ring of capturelib.c agree with the frames
\* read and converted, and a conversion that is in time works on the newest
\* frame of its period, which stays intact in its slot.
THEOREM NewestConverted == Spec => []ConvertsNewestFrame
  <1>1. IInv => ConvertsNewestFrame
    <2> SUFFICES ASSUME IInv PROVE ConvertsNewestFrame
      BY Zenon
    <2> USE FramesFive DEF IInv
    <2>1. /\ tail_idx = reads % ring_size
          /\ head_idx = (Frames * Converted + (IF svcPc[2] = "work" THEN 2 ELSE 0)) % ring_size
      BY Zenon DEF Ring, HeadMoves, ring_size
    <2> QED
      BY Zenon, <2>1, ConversionIntact DEF ConvertsNewestFrame
  <1> QED
    BY <1>1, InitIInv, StepIInv, PTL DEF Spec

\* Storage never overtakes conversion, by the priorities of Service_2 and
\* Service_3 alone, and a file written in time holds the newest frame of its
\* period.
THEOREM NewestStored == Spec => []StoresNewestFrame
  <1>1. IInv => StoresNewestFrame
    BY Zenon, FramesFive DEF IInv, Releases, Stored, StoresNewestFrame
  <1> QED
    BY <1>1, InitIInv, StepIInv, PTL DEF Spec

\* main closes the device only when Service_1, which reads from it, has ended.
THEOREM ClosedAfterUse == Spec => [](dev = "closed" => svcPc[1] = "exit")
  <1>1. IInv => (dev = "closed" => svcPc[1] = "exit")
    BY ThreeServices DEF IInv, Places, TypeOK
  <1> QED
    BY <1>1, InitIInv, StepIInv, PTL DEF Spec

-----------------------------------------------------------------------------
(* raidlib.c: the stripes of a file are the file and zeros after it, a       *)
(* sector that is lost is the exclusive or of the parity and the others,     *)
(* and the whole stripes and the rest of the last are the file again.        *)

\* A part of a sequence.
LEMMA SubSeqFacts ==
  ASSUME NEW B, NEW s \in Seq(B), NEW m \in Nat, NEW n \in Nat, 1 <= m, n <= Len(s)
  PROVE  /\ SubSeq(s, m, n) \in Seq(B)
         /\ m <= n + 1 =>
              /\ Len(SubSeq(s, m, n)) = (n - m) + 1
              /\ \A i \in 1..((n - m) + 1) : SubSeq(s, m, n)[i] = s[(m + i) - 1]
<1>1. SubSeq(s, m, n) \in Seq(B)
  OBVIOUS
<1>2. m <= n + 1 => Len(SubSeq(s, m, n)) = (n - m) + 1
  OBVIOUS
<1>3. m <= n + 1 => \A i \in 1..((n - m) + 1) : SubSeq(s, m, n)[i] = s[(m + i) - 1]
  OBVIOUS
<1> QED
  BY Zenon, <1>1, <1>2, <1>3

\* One sequence after another.
LEMMA ConcatFacts ==
  ASSUME NEW B, NEW s \in Seq(B), NEW t \in Seq(B)
  PROVE  /\ s \o t \in Seq(B) /\ Len(s) \in Nat /\ Len(t) \in Nat
         /\ Len(s \o t) = Len(s) + Len(t)
         /\ \A i \in 1..Len(s) : (s \o t)[i] = s[i]
         /\ \A i \in 1..Len(t) : (s \o t)[Len(s) + i] = t[i]
  OBVIOUS

\* b is what follows the first n entries of s
Follows(s, n, b) == \A i \in 1..Len(b) : b[i] = s[n + i]

\* What follows n entries and what follows that, one after the other.
LEMMA FollowsOn ==
  ASSUME NEW B, NEW s, NEW n \in Nat, NEW a \in Seq(B), NEW b \in Seq(B),
         Follows(s, n, a), Follows(s, n + Len(a), b)
  PROVE  /\ a \o b \in Seq(B) /\ Len(a \o b) = Len(a) + Len(b)
         /\ Follows(s, n, a \o b)
<1> DEFINE t == a \o b
<1>1. /\ t \in Seq(B) /\ Len(a) \in Nat /\ Len(b) \in Nat
      /\ Len(t) = Len(a) + Len(b)
  BY ConcatFacts
<1>2. /\ \A i \in 1..Len(a) : t[i] = a[i]
      /\ \A i \in 1..Len(b) : t[Len(a) + i] = b[i]
  BY ConcatFacts
<1> HIDE DEF t
<1>3. ASSUME NEW i \in 1..Len(t) PROVE t[i] = s[n + i]
  <2>1. CASE i <= Len(a)
    <3>1. i \in 1..Len(a)
      BY ONLY <1>1, <2>1, i \in 1..Len(t)
    <3> QED
      BY Zenon, <3>1, <1>2 DEF Follows
  <2>2. CASE ~(i <= Len(a))
    <3> DEFINE j == i - Len(a)
    <3>1. j \in 1..Len(b) /\ Len(a) + j = i /\ (n + Len(a)) + j = n + i
      BY ONLY <1>1, <2>2, i \in 1..Len(t), n \in Nat
    <3> HIDE DEF j
    <3> QED
      BY Zenon, <3>1, <1>2 DEF Follows
  <2> QED
    BY Zenon, <2>1, <2>2
<1> QED
  BY Zenon, <1>1, <1>3 DEF t, Follows

\* What follows nothing, and is as long as s, is s.
LEMMA FollowsAll ==
  ASSUME NEW B, NEW s \in Seq(B), NEW t \in Seq(B), Len(t) = Len(s), Follows(s, 0, t)
  PROVE  t = s
<1>1. \A i \in 1..Len(s) : t[i] = s[i]
  BY DEF Follows
<1> QED
  BY <1>1

\* A function on 1..n is a sequence.
LEMMA FunctionSeq ==
  ASSUME NEW B, NEW n \in Nat, NEW f \in [1..n -> B]
  PROVE  f \in Seq(B) /\ Len(f) = n
  OBVIOUS

\* The exclusive or of four bytes and of three of them is the fourth.
LEMMA XorRestores ==
  ASSUME NEW a, NEW b, NEW c, NEW d
  PROVE  /\ Xor(Xor(Xor(a, b), Xor(c, d)), Xor(Xor(b, c), d)) = a
         /\ Xor(Xor(Xor(a, b), Xor(c, d)), Xor(Xor(a, c), d)) = b
         /\ Xor(Xor(Xor(a, b), Xor(c, d)), Xor(Xor(a, b), d)) = c
         /\ Xor(Xor(Xor(a, b), Xor(c, d)), Xor(Xor(a, b), c)) = d
<1>1. Xor(Xor(Xor(a, b), Xor(c, d)), Xor(Xor(b, c), d)) = a
  BY DEF Xor
<1>2. Xor(Xor(Xor(a, b), Xor(c, d)), Xor(Xor(a, c), d)) = b
  BY DEF Xor
<1>3. Xor(Xor(Xor(a, b), Xor(c, d)), Xor(Xor(a, b), d)) = c
  BY DEF Xor
<1>4. Xor(Xor(Xor(a, b), Xor(c, d)), Xor(Xor(a, b), c)) = d
  BY DEF Xor
<1> QED
  BY Zenon, <1>1, <1>2, <1>3, <1>4

\* what a sector's buffer may hold
Sectors(B) == [1..SECTOR_SIZE -> B]

\* rebuildLBA gives any one of four sectors back from the others and the
\* parity that xorLBA has made of them.
THEOREM RebuildRestores ==
  ASSUME NEW B, NEW a \in Sectors(B), NEW b \in Sectors(B),
         NEW c \in Sectors(B), NEW d \in Sectors(B)
  PROVE  /\ rebuildLBA(b, c, d, xorLBA(a, b, c, d)) = a
         /\ rebuildLBA(a, c, d, xorLBA(a, b, c, d)) = b
         /\ rebuildLBA(a, b, d, xorLBA(a, b, c, d)) = c
         /\ rebuildLBA(a, b, c, xorLBA(a, b, c, d)) = d
<1> DEFINE q == xorLBA(a, b, c, d)
<1>1. ASSUME NEW x, NEW y, NEW z, NEW l \in [1..SECTOR_SIZE -> B],
             \A i \in 1..SECTOR_SIZE :
               Xor(Xor(Xor(a[i], b[i]), Xor(c[i], d[i])), Xor(Xor(x[i], y[i]), z[i])) = l[i]
      PROVE  rebuildLBA(x, y, z, q) = l
  <2>1. rebuildLBA(x, y, z, q) = [i \in 1..SECTOR_SIZE |->
          Xor(Xor(Xor(a[i], b[i]), Xor(c[i], d[i])), Xor(Xor(x[i], y[i]), z[i]))]
    BY DEF rebuildLBA, xorLBA, XorSectors
  <2>2. l = [i \in 1..SECTOR_SIZE |-> l[i]]
    OBVIOUS
  <2> QED
    BY Zenon, <1>1, <2>1, <2>2
<1> HIDE DEF q
<1>2. rebuildLBA(b, c, d, q) = a
  <2>1. ASSUME NEW i \in 1..SECTOR_SIZE
        PROVE  Xor(Xor(Xor(a[i], b[i]), Xor(c[i], d[i])), Xor(Xor(b[i], c[i]), d[i])) = a[i]
    BY ONLY XorRestores
  <2> QED
    BY ONLY Zenon, <1>1, <2>1, a \in Sectors(B) DEF Sectors
<1>3. rebuildLBA(a, c, d, q) = b
  <2>1. ASSUME NEW i \in 1..SECTOR_SIZE
        PROVE  Xor(Xor(Xor(a[i], b[i]), Xor(c[i], d[i])), Xor(Xor(a[i], c[i]), d[i])) = b[i]
    BY ONLY XorRestores
  <2> QED
    BY ONLY Zenon, <1>1, <2>1, b \in Sectors(B) DEF Sectors
<1>4. rebuildLBA(a, b, d, q) = c
  <2>1. ASSUME NEW i \in 1..SECTOR_SIZE
        PROVE  Xor(Xor(Xor(a[i], b[i]), Xor(c[i], d[i])), Xor(Xor(a[i], b[i]), d[i])) = c[i]
    BY ONLY XorRestores
  <2> QED
    BY ONLY Zenon, <1>1, <2>1, c \in Sectors(B) DEF Sectors
<1>5. rebuildLBA(a, b, c, q) = d
  <2>1. ASSUME NEW i \in 1..SECTOR_SIZE
        PROVE  Xor(Xor(Xor(a[i], b[i]), Xor(c[i], d[i])), Xor(Xor(a[i], b[i]), c[i])) = d[i]
    BY ONLY XorRestores
  <2> QED
    BY ONLY Zenon, <1>1, <2>1, d \in Sectors(B) DEF Sectors
<1> QED
  BY Zenon, <1>2, <1>3, <1>4, <1>5 DEF q

\* The c-th sector of a stripe.
LEMMA SectorFacts ==
  ASSUME NEW B, NEW s \in Seq(B), Len(s) = 4 * SECTOR_SIZE, NEW c \in 1..4
  PROVE  /\ Sector(s, c) \in [1..SECTOR_SIZE -> B]
         /\ Sector(s, c) \in Seq(B) /\ Len(Sector(s, c)) = SECTOR_SIZE
         /\ Follows(s, (c - 1) * SECTOR_SIZE, Sector(s, c))
<1> DEFINE S == SECTOR_SIZE
           m == (c - 1) * S + 1
           n == c * S
<1>1. S \in Nat /\ S > 0
  BY SectorAssumption
<1> HIDE DEF S
<1>2. m \in Nat /\ n \in Nat /\ 1 <= m /\ n <= 4 * S /\ (n - m) + 1 = S /\ m <= n + 1
      /\ \A i \in Nat : (m + i) - 1 = (c - 1) * S + i
  <2>1. c = 1 \/ c = 2 \/ c = 3 \/ c = 4
    OBVIOUS
  <2> QED
    BY ONLY <1>1, <2>1
<1>3. Sector(s, c) = SubSeq(s, m, n)
  BY DEF Sector, S
<1> HIDE DEF m, n
<1>4. Len(s) = 4 * S
  BY DEF S
<1>5. Sector(s, c) \in Seq(B) /\ Len(Sector(s, c)) = S
  <2>1. n <= Len(s)
    BY ONLY <1>2, <1>4
  <2>2. SubSeq(s, m, n) \in Seq(B) /\ Len(SubSeq(s, m, n)) = (n - m) + 1
    BY ONLY Zenon, <2>1, <1>2, s \in Seq(B), SubSeqFacts
  <2> QED
    BY Zenon, <2>2, <1>2, <1>3
<1>7. ASSUME NEW i \in 1..S PROVE Sector(s, c)[i] = s[(c - 1) * S + i]
  <2>1. n <= Len(s)
    BY ONLY <1>2, <1>4
  <2>2. \A j \in 1..((n - m) + 1) : SubSeq(s, m, n)[j] = s[(m + j) - 1]
    BY ONLY <2>1, <1>2, s \in Seq(B), SubSeqFacts
  <2>3. i \in Nat
    BY ONLY <1>1, i \in 1..S
  <2>4. (m + i) - 1 = (c - 1) * S + i
    BY Zenon, <2>3, <1>2
  <2> QED
    BY Zenon, <2>2, <2>4, <1>2, <1>3
<1>8. Sector(s, c) \in [1..S -> B]
  BY <1>5
<1>9. Follows(s, (c - 1) * S, Sector(s, c))
  BY Zenon, <1>5, <1>7 DEF Follows
<1> QED
  BY Zenon, <1>5, <1>8, <1>9 DEF S

\* A stripe is its four sectors, one after the other.
LEMMA SectorsJoin ==
  ASSUME NEW B, NEW s \in Seq(B), Len(s) = 4 * SECTOR_SIZE
  PROVE  ((Sector(s, 1) \o Sector(s, 2)) \o Sector(s, 3)) \o Sector(s, 4) = s
<1> DEFINE S == SECTOR_SIZE
           a == Sector(s, 1)
           b == Sector(s, 2)
           c == Sector(s, 3)
           d == Sector(s, 4)
           ab == a \o b
           abc == ab \o c
           abcd == abc \o d
<1>1. S \in Nat /\ S > 0
  BY SectorAssumption
<1>2. \A k \in 1..4 : /\ Sector(s, k) \in Seq(B) /\ Len(Sector(s, k)) = S
                      /\ Follows(s, (k - 1) * S, Sector(s, k))
  BY Zenon, SectorFacts
<1>3. 1 \in 1..4 /\ 2 \in 1..4 /\ 3 \in 1..4 /\ 4 \in 1..4
  OBVIOUS
<1>4. /\ a \in Seq(B) /\ Len(a) = S /\ Follows(s, (1 - 1) * S, a)
      /\ b \in Seq(B) /\ Len(b) = S /\ Follows(s, (2 - 1) * S, b)
      /\ c \in Seq(B) /\ Len(c) = S /\ Follows(s, (3 - 1) * S, c)
      /\ d \in Seq(B) /\ Len(d) = S /\ Follows(s, (4 - 1) * S, d)
  BY Zenon, <1>2, <1>3
<1>5. Len(s) = 4 * S
  OBVIOUS
<1> HIDE DEF S, a, b, c, d
<1>6. /\ (1 - 1) * S = 0 /\ (2 - 1) * S = 0 + S /\ (3 - 1) * S = 0 + (S + S)
      /\ (4 - 1) * S = 0 + ((S + S) + S) /\ ((S + S) + S) + S = 4 * S /\ 0 \in Nat
  BY ONLY <1>1
<1>7. ab \in Seq(B) /\ Len(ab) = S + S /\ Follows(s, 0, ab)
  <2>1. Follows(s, 0, a) /\ Follows(s, 0 + Len(a), b)
    BY Zenon, <1>4, <1>6
  <2>2. ab \in Seq(B) /\ Len(ab) = Len(a) + Len(b) /\ Follows(s, 0, ab)
    BY Zenon, <2>1, <1>4, <1>6, FollowsOn
  <2> QED
    BY Zenon, <2>2, <1>4, <1>6
<1> HIDE DEF ab
<1>8. abc \in Seq(B) /\ Len(abc) = (S + S) + S /\ Follows(s, 0, abc)
  <2>1. Follows(s, 0, ab) /\ Follows(s, 0 + Len(ab), c)
    BY Zenon, <1>4, <1>6, <1>7
  <2>2. abc \in Seq(B) /\ Len(abc) = Len(ab) + Len(c) /\ Follows(s, 0, abc)
    BY Zenon, <2>1, <1>4, <1>6, <1>7, FollowsOn
  <2> QED
    BY Zenon, <2>2, <1>4, <1>6, <1>7
<1> HIDE DEF abc
<1>9. abcd \in Seq(B) /\ Len(abcd) = ((S + S) + S) + S /\ Follows(s, 0, abcd)
  <2>1. Follows(s, 0, abc) /\ Follows(s, 0 + Len(abc), d)
    BY Zenon, <1>4, <1>6, <1>8
  <2>2. abcd \in Seq(B) /\ Len(abcd) = Len(abc) + Len(d) /\ Follows(s, 0, abcd)
    BY Zenon, <2>1, <1>4, <1>6, <1>8, FollowsOn
  <2> QED
    BY Zenon, <2>2, <1>4, <1>6, <1>8
<1> HIDE DEF abcd
<1>10. abcd = s
  BY Zenon, <1>5, <1>6, <1>9, FollowsAll
<1> QED
  BY Zenon, <1>10 DEF abcd, abc, ab, a, b, c, d

\* The stripes of a file: the file, and zeros after it.
LEMMA StripesFacts ==
  ASSUME NEW B, NEW input \in Seq(B)
  PROVE  /\ Len(Stripes(input)) = Len(input) \div (4 * SECTOR_SIZE) + 1
         /\ Len(Stripes(input)) \in Nat
         /\ \A k \in 1..Len(Stripes(input)) :
              /\ Stripes(input)[k] \in Seq(B \cup {{}})
              /\ Len(Stripes(input)[k]) = 4 * SECTOR_SIZE
              /\ \A i \in 1..4 * SECTOR_SIZE : (k - 1) * (4 * SECTOR_SIZE) + i <= Len(input)
                   => Stripes(input)[k][i] = input[(k - 1) * (4 * SECTOR_SIZE) + i]
<1> DEFINE size == 4 * SECTOR_SIZE
           n == Len(input) \div size + 1
           Z == B \cup {{}}
           zeroed(k) == [i \in 1..size |-> IF (k - 1) * size + i <= Len(input)
                                           THEN input[(k - 1) * size + i] ELSE {}]
<1>1. size \in Nat /\ size > 0
  BY SectorAssumption
<1>2. Stripes(input) = [k \in 1..n |-> zeroed(k)]
  BY Zenon DEF Stripes
<1> HIDE DEF size
<1>3. n \in Nat
  BY <1>1
<1>4. ASSUME NEW k \in 1..n
      PROVE  /\ zeroed(k) \in Seq(Z) /\ Len(zeroed(k)) = size
             /\ \A i \in 1..size : (k - 1) * size + i <= Len(input)
                                     => zeroed(k)[i] = input[(k - 1) * size + i]
  <2> DEFINE at == (k - 1) * size
  <2>1. at \in Nat
    <3>1. k - 1 \in Nat
      BY <1>3
    <3>2. \A x, y \in Nat : x * y \in Nat
      OBVIOUS
    <3> QED
      BY Zenon, <3>1, <3>2, <1>1
  <2>2. \A i \in 1..size : at + i <= Len(input) => input[at + i] \in Z
    <3> HIDE DEF at
    <3> QED
      BY <1>1, <2>1
  <2>3. zeroed(k) \in [1..size -> Z]
    BY Zenon, <2>2
  <2>4. zeroed(k) \in Seq(Z) /\ Len(zeroed(k)) = size
    <3> HIDE DEF zeroed
    <3> QED
      BY Zenon, <1>1, <2>3, FunctionSeq
  <2> QED
    BY Zenon, <2>4
<1> HIDE DEF zeroed, n
<1>5. Stripes(input) \in [1..n -> Seq(Z)] /\ Len(Stripes(input)) = n
  <2>1. Stripes(input) \in [1..n -> Seq(Z)]
    BY Zenon, <1>2, <1>4
  <2> QED
    BY Zenon, <2>1, <1>3, FunctionSeq
<1>6. \A k \in 1..n : Stripes(input)[k] = zeroed(k)
  BY Zenon, <1>2
<1>7. \A k \in 1..n : /\ Stripes(input)[k] \in Seq(Z) /\ Len(Stripes(input)[k]) = size
                      /\ \A i \in 1..size : (k - 1) * size + i <= Len(input)
                           => Stripes(input)[k][i] = input[(k - 1) * size + i]
  BY Zenon, <1>4, <1>6
<1> QED
  BY Zenon, <1>3, <1>5, <1>7 DEF size, n

\* What stripeFile leaves in the chunk files: the sectors of every stripe and
\* their parity, whatever was in the files before.
LEMMA WrittenFacts ==
  ASSUME NEW B, NEW input \in Seq(B), NEW D, NEW chunks \in [1..5 -> Seq(D)],
         NEW k \in 1..Len(Stripes(input))
  PROVE  /\ \A c \in 1..4 : stripeFile(chunks, input)[c][k] = Sector(Stripes(input)[k], c)
         /\ stripeFile(chunks, input)[5][k] =
              xorLBA(Sector(Stripes(input)[k], 1), Sector(Stripes(input)[k], 2),
                     Sector(Stripes(input)[k], 3), Sector(Stripes(input)[k], 4))
         /\ DOMAIN stripeFile(chunks, input) = 1..5
<1> DEFINE stripes == Stripes(input)
           n == Len(stripes)
           sector(j, c) ==
             IF c <= 4 THEN Sector(stripes[j], c)
             ELSE xorLBA(Sector(stripes[j], 1), Sector(stripes[j], 2),
                         Sector(stripes[j], 3), Sector(stripes[j], 4))
           new(c) == [j \in 1..n |-> sector(j, c)]
           old(c) == SubSeq(chunks[c], n + 1, Len(chunks[c]))
<1>1. stripeFile(chunks, input) = [c \in 1..5 |-> new(c) \o old(c)]
  BY Zenon DEF stripeFile
<1>2. n \in Nat
  BY Zenon, StripesFacts
<1> HIDE DEF n, stripes
<1>3. ASSUME NEW c \in 1..5
      PROVE  stripeFile(chunks, input)[c][k] = sector(k, c)
  <2> DEFINE E == D \cup {sector(j, c) : j \in 1..n}
  <2>1. new(c) \in [1..n -> E]
    BY Zenon
  <2>2. new(c) \in Seq(E) /\ Len(new(c)) = n
    <3> HIDE DEF new, E
    <3> QED
      BY Zenon, <1>2, <2>1, FunctionSeq
  <2>3. old(c) \in Seq(E)
    <3>1. chunks[c] \in Seq(E)
      <4>1. chunks[c] \in Seq(D) /\ D \subseteq E
        BY Zenon
      <4> HIDE DEF E
      <4> QED
        BY <4>1
    <3> HIDE DEF E
    <3>2. 1 <= n + 1 /\ n + 1 \in Nat /\ Len(chunks[c]) \in Nat /\ Len(chunks[c]) <= Len(chunks[c])
      BY <1>2, <3>1
    <3> QED
      BY SMTT(15), <3>1, <3>2, SubSeqFacts
  <2>4. k \in 1..Len(new(c))
    BY Zenon, <2>2 DEF n, stripes
  <2>5. (new(c) \o old(c))[k] = new(c)[k]
    <3> HIDE DEF new, old, E
    <3> QED
      BY ONLY SMTT(15), <2>2, <2>3, <2>4, ConcatFacts
  <2>6. new(c)[k] = sector(k, c)
    BY Zenon DEF n, stripes
  <2> QED
    BY Zenon, <1>1, <2>5, <2>6
<1>4. \A c \in 1..4 : c \in 1..5 /\ c <= 4
  OBVIOUS
<1>5. 5 \in 1..5 /\ ~(5 <= 4)
  OBVIOUS
<1>6. \A c \in 1..4 : stripeFile(chunks, input)[c][k] = Sector(stripes[k], c)
  BY Zenon, <1>3, <1>4
<1>7. stripeFile(chunks, input)[5][k] =
        xorLBA(Sector(stripes[k], 1), Sector(stripes[k], 2),
               Sector(stripes[k], 3), Sector(stripes[k], 4))
  BY Zenon, <1>3, <1>5
<1>8. DOMAIN stripeFile(chunks, input) = 1..5
  BY Zenon, <1>1
<1> QED
  BY Zenon, <1>6, <1>7, <1>8 DEF stripes

\* the chunk files without the erased one
Survive(left, chunks, input, erased) ==
    \A c \in 1..5 : c # erased => left[c] = stripeFile(chunks, input)[c]

\* A stripe read back from the chunk files with one of them lost (none, if
\* erased is 0) is the stripe that was written.
LEMMA StripeRestored ==
  ASSUME NEW B, NEW input \in Seq(B), NEW D, NEW chunks \in [1..5 -> Seq(D)],
         NEW k \in 1..Len(Stripes(input)), NEW erased \in 0..5, NEW left,
         Survive(left, chunks, input, erased)
  PROVE  RestoreStripe(left, k, erased) = Stripes(input)[k]
<1> DEFINE st == Stripes(input)[k]
           Z == B \cup {{}}
           par == xorLBA(Sector(st, 1), Sector(st, 2), Sector(st, 3), Sector(st, 4))
           s(c) == left[c][k]
           rebuilt == <<rebuildLBA(s(2), s(3), s(4), s(5)), rebuildLBA(s(1), s(3), s(4), s(5)),
                        rebuildLBA(s(1), s(2), s(4), s(5)), rebuildLBA(s(1), s(2), s(3), s(5))>>
           r(c) == IF c = erased THEN rebuilt[c] ELSE s(c)
<1>1. RestoreStripe(left, k, erased) = ((r(1) \o r(2)) \o r(3)) \o r(4)
  BY Zenon DEF RestoreStripe
<1> HIDE DEF r, rebuilt
<1>2. st \in Seq(Z) /\ Len(st) = 4 * SECTOR_SIZE
  <2>1. \A j \in 1..Len(Stripes(input)) :
          Stripes(input)[j] \in Seq(Z) /\ Len(Stripes(input)[j]) = 4 * SECTOR_SIZE
    BY Zenon, StripesFacts
  <2> QED
    BY Zenon, <2>1
<1>w. /\ \A c \in 1..4 : stripeFile(chunks, input)[c][k] = Sector(st, c)
      /\ stripeFile(chunks, input)[5][k] = par
  BY Zenon, WrittenFacts
<1>3. ASSUME NEW c \in 1..4, c # erased PROVE s(c) = Sector(st, c)
  <2>1. c \in 1..5
    OBVIOUS
  <2>2. left[c] = stripeFile(chunks, input)[c]
    BY Zenon, <2>1, <1>3 DEF Survive
  <2> QED
    BY Zenon, <2>2, <1>w
<1>4. ASSUME 5 # erased PROVE s(5) = par
  <2>1. 5 \in 1..5
    OBVIOUS
  <2>2. left[5] = stripeFile(chunks, input)[5]
    BY Zenon, <2>1, <1>4 DEF Survive
  <2> QED
    BY Zenon, <2>2, <1>w
<1> HIDE DEF st, s
<1>5. /\ Sector(st, 1) \in [1..SECTOR_SIZE -> Z] /\ Sector(st, 2) \in [1..SECTOR_SIZE -> Z]
      /\ Sector(st, 3) \in [1..SECTOR_SIZE -> Z] /\ Sector(st, 4) \in [1..SECTOR_SIZE -> Z]
  <2>1. \A c \in 1..4 : Sector(st, c) \in [1..SECTOR_SIZE -> Z]
    BY Zenon, <1>2, SectorFacts
  <2> QED
    BY <2>1
<1> DEFINE w == Sector(st, 1)
           x == Sector(st, 2)
           y == Sector(st, 3)
           z == Sector(st, 4)
<1>6. /\ rebuildLBA(x, y, z, par) = w /\ rebuildLBA(w, y, z, par) = x
      /\ rebuildLBA(w, x, z, par) = y /\ rebuildLBA(w, x, y, par) = z
  <2> HIDE DEF w, x, y, z
  <2>1. w \in Sectors(Z) /\ x \in Sectors(Z) /\ y \in Sectors(Z) /\ z \in Sectors(Z)
    BY Zenon, <1>5 DEF w, x, y, z, Sectors
  <2>2. par = xorLBA(w, x, y, z)
    BY Zenon DEF w, x, y, z
  <2> HIDE DEF Z
  <2>3. /\ rebuildLBA(x, y, z, xorLBA(w, x, y, z)) = w
        /\ rebuildLBA(w, y, z, xorLBA(w, x, y, z)) = x
        /\ rebuildLBA(w, x, z, xorLBA(w, x, y, z)) = y
        /\ rebuildLBA(w, x, y, xorLBA(w, x, y, z)) = z
    BY ONLY <2>1, RebuildRestores
  <2> QED
    BY Zenon, <2>2, <2>3
<1> HIDE DEF par
<1>7. /\ 1 # erased => s(1) = w
      /\ 2 # erased => s(2) = x
      /\ 3 # erased => s(3) = y
      /\ 4 # erased => s(4) = z
  BY <1>3
<1> HIDE DEF w, x, y, z
<1>8. r(1) = w
  <2>1. CASE 1 # erased
    BY Zenon, <2>1, <1>7 DEF r
  <2>2. CASE 1 = erased
    <3>1. r(1) = rebuildLBA(s(2), s(3), s(4), s(5))
      BY <2>2 DEF r, rebuilt
    <3> QED
      BY <2>2, <3>1, <1>4, <1>6, <1>7
  <2> QED
    BY Zenon, <2>1, <2>2
<1>9. r(2) = x
  <2>1. CASE 2 # erased
    BY Zenon, <2>1, <1>7 DEF r
  <2>2. CASE 2 = erased
    <3>1. r(2) = rebuildLBA(s(1), s(3), s(4), s(5))
      BY <2>2 DEF r, rebuilt
    <3> QED
      BY <2>2, <3>1, <1>4, <1>6, <1>7
  <2> QED
    BY Zenon, <2>1, <2>2
<1>10. r(3) = y
  <2>1. CASE 3 # erased
    BY Zenon, <2>1, <1>7 DEF r
  <2>2. CASE 3 = erased
    <3>1. r(3) = rebuildLBA(s(1), s(2), s(4), s(5))
      BY <2>2 DEF r, rebuilt
    <3> QED
      BY <2>2, <3>1, <1>4, <1>6, <1>7
  <2> QED
    BY Zenon, <2>1, <2>2
<1>11. r(4) = z
  <2>1. CASE 4 # erased
    BY Zenon, <2>1, <1>7 DEF r
  <2>2. CASE 4 = erased
    <3>1. r(4) = rebuildLBA(s(1), s(2), s(3), s(5))
      BY <2>2 DEF r, rebuilt
    <3> QED
      BY <2>2, <3>1, <1>4, <1>6, <1>7
  <2> QED
    BY Zenon, <2>1, <2>2
<1>12. ((Sector(st, 1) \o Sector(st, 2)) \o Sector(st, 3)) \o Sector(st, 4) = st
  BY Zenon, <1>2, SectorsJoin
<1> QED
  BY Zenon, <1>1, <1>8, <1>9, <1>10, <1>11, <1>12 DEF st, w, x, y, z

\* Division with a remainder.
LEMMA Remainder ==
  ASSUME NEW x \in Nat, NEW y \in Nat, y > 0
  PROVE  /\ x \div y \in Nat /\ x % y \in 0..(y - 1)
         /\ x = (x \div y) * y + (x % y)
  OBVIOUS

\* The stripe, and the place in it, of byte i of cnt whole stripes.
LEMMA StripeOf ==
  ASSUME NEW size \in Nat, size > 0, NEW cnt \in Nat, NEW i \in 1..(cnt * size)
  PROVE  /\ (i - 1) \div size + 1 \in 1..cnt
         /\ ((i - 1) % size) + 1 \in 1..size
         /\ (((i - 1) \div size + 1) - 1) * size + (((i - 1) % size) + 1) = i
<1>1. cnt * size \in Nat
  OBVIOUS
<1>2. i - 1 \in Nat /\ i - 1 < cnt * size
  BY <1>1
<1> DEFINE q == (i - 1) \div size
           r == (i - 1) % size
<1>3. q \in Nat /\ r \in 0..(size - 1) /\ i - 1 = (q * size) + r
  BY ONLY <1>2, Remainder, size \in Nat, size > 0
<1> HIDE DEF q, r
<1>4. q < cnt
  <2>1. q * size < cnt * size
    <3> DEFINE a == q * size
               b == cnt * size
    <3>1. a \in Nat /\ b \in Nat
      BY <1>3
    <3> HIDE DEF a, b
    <3> QED
      BY <3>1, <1>2, <1>3 DEF a, b
  <2>2. \A x, y, z \in Nat : x >= y => x * z >= y * z
    OBVIOUS
  <2>3. q >= cnt => q * size >= cnt * size
    BY <1>3, <2>2
  <2> QED
    BY <2>1, <2>3, <1>3
<1>5. (q + 1) - 1 = q /\ q * size \in Nat
  BY <1>3
<1>6. ((q + 1) - 1) * size + (r + 1) = i
  <2> DEFINE a == q * size
  <2>1. a \in Nat /\ ((q + 1) - 1) * size = a /\ i - 1 = a + r
    BY <1>3, <1>5
  <2> HIDE DEF a
  <2> QED
    BY <2>1, <1>3
<1> QED
  BY <1>3, <1>4, <1>6 DEF q, r

\* stripeFile and restoreFile of raidlib.c: a file of any length and contents,
\* striped over whatever the chunk files held before, comes back byte for byte
\* with any one chunk file lost, for every size of a sector.
THEOREM StripesRestore ==
  ASSUME NEW B, NEW input \in Seq(B), NEW D, NEW chunks \in [1..5 -> Seq(D)],
         NEW erased \in 0..5
  PROVE  stripetest(chunks, input, erased) = input
<1> DEFINE written == stripeFile(chunks, input)
           left == [written EXCEPT ![IF erased = 0 THEN 1 ELSE erased] =
                       IF erased = 0 THEN @ ELSE <<>>]
           size == 4 * SECTOR_SIZE
           L == Len(input)
           cnt == L \div size
           Z == B \cup {{}}
           full == restoreFull(left, cnt, erased)
           last == restoreLast(left, cnt, L % size, erased)
<1>1. stripetest(chunks, input, erased) = full \o last
  BY Zenon DEF stripetest, restoreFile
<1> HIDE DEF full, last, left
<1>2. size \in Nat /\ size > 0 /\ L \in Nat
  BY SectorAssumption
<1>3. Len(Stripes(input)) = cnt + 1
  BY Zenon, StripesFacts
<1>4. cnt \in Nat
  <2> HIDE DEF size, L
  <2> QED
    BY Zenon, <1>2, Remainder
<1>5. Survive(left, chunks, input, erased)
  <2>1. DOMAIN written = 1..5
    <3>1. 1 \in 1..Len(Stripes(input))
      <4> HIDE DEF cnt
      <4> QED
        BY ONLY <1>3, <1>4
    <3> QED
      BY Zenon, <3>1, WrittenFacts
  <2>2. CASE erased = 0
    BY <2>1, <2>2 DEF Survive, left
  <2>3. CASE erased # 0
    BY <2>1, <2>3 DEF Survive, left
  <2> QED
    BY Zenon, <2>2, <2>3
<1>6. ASSUME NEW k \in 1..(cnt + 1) PROVE RestoreStripe(left, k, erased) = Stripes(input)[k]
  <2>1. k \in 1..Len(Stripes(input))
    BY Zenon, <1>3
  <2> QED
    BY Zenon, <1>5, <2>1, StripeRestored
<1>7. cnt * size \in Nat /\ L % size \in 0..(size - 1) /\ L = cnt * size + (L % size)
  <2> HIDE DEF size, L
  <2>1. cnt \in Nat /\ L % size \in 0..(size - 1) /\ L = cnt * size + (L % size)
    BY ONLY Zenon, <1>2, Remainder
  <2> HIDE DEF cnt
  <2> QED
    BY ONLY <2>1, <1>2
<1> DEFINE all == cnt * size
           rest == L % size
           stripe(k) == Stripes(input)[k]
<1>8. ASSUME NEW k \in 1..(cnt + 1)
      PROVE  /\ stripe(k) \in Seq(Z) /\ Len(stripe(k)) = size
             /\ \A i \in 1..size : (k - 1) * size + i <= L
                                    => stripe(k)[i] = input[(k - 1) * size + i]
  <2>1. \A j \in 1..Len(Stripes(input)) :
          /\ Stripes(input)[j] \in Seq(Z) /\ Len(Stripes(input)[j]) = size
          /\ \A i \in 1..size : (j - 1) * size + i <= L
                                 => Stripes(input)[j][i] = input[(j - 1) * size + i]
    BY ZenonT(30), StripesFacts
  <2> QED
    BY Zenon, <2>1, <1>3
<1>9. full \in Seq(Z) /\ Len(full) = all /\ Follows(input, 0, full)
  <2> DEFINE f(i) == RestoreStripe(left, (i - 1) \div size + 1, erased)[((i - 1) % size) + 1]
  <2>1. full = [i \in 1..all |-> f(i)]
    BY Zenon DEF restoreFull, full
  <2>2. ASSUME NEW i \in 1..all PROVE f(i) = input[i] /\ f(i) \in Z
    <3> DEFINE k == (i - 1) \div size + 1
               j == ((i - 1) % size) + 1
    <3>1. k \in 1..cnt /\ j \in 1..size /\ (k - 1) * size + j = i
      <4> HIDE DEF size, cnt
      <4> QED
        BY ONLY Zenon, <1>2, <1>4, i \in 1..all, StripeOf
    <3> HIDE DEF k, j, cnt, L
    <3>2. k \in 1..(cnt + 1) /\ i <= L /\ i \in 1..L
      <4> HIDE DEF all, rest, size
      <4>1. all \in Nat /\ rest \in 0..(size - 1) /\ L = all + rest
        BY Zenon, <1>7 DEF all, rest
      <4> QED
        BY ONLY <4>1, <3>1, <1>4, <1>2, i \in 1..all
    <3>3. RestoreStripe(left, k, erased)[j] = stripe(k)[j]
      BY Zenon, <3>2, <1>6
    <3>4. stripe(k)[j] = input[i]
      BY Zenon, <1>8, <3>1, <3>2
    <3>5. input[i] \in Z
      BY <3>2 DEF L
    <3> QED
      BY Zenon, <3>3, <3>4, <3>5 DEF k, j
  <2> HIDE DEF f, all
  <2>3. full \in [1..all -> Z]
    BY Zenon, <2>1, <2>2
  <2>4. all \in Nat
    BY Zenon, <1>7 DEF all
  <2>5. full \in Seq(Z) /\ Len(full) = all
    BY Zenon, <2>3, <2>4, FunctionSeq
  <2>6. \A i \in 1..all : full[i] = input[i] /\ 0 + i = i
    <3>1. \A i \in 1..all : 0 + i = i
      OBVIOUS
    <3> QED
      BY Zenon, <2>1, <2>2, <3>1
  <2> QED
    BY Zenon, <2>5, <2>6 DEF Follows
<1>10. last \in Seq(Z) /\ Len(last) = rest /\ Follows(input, all, last)
  <2>1. CASE rest = 0
    <3>1. last = <<>>
      BY Zenon, <2>1 DEF restoreLast, last
    <3> HIDE DEF all, rest
    <3> QED
      BY <3>1, <2>1 DEF Follows
  <2>2. CASE rest # 0
    <3>1. cnt + 1 \in 1..(cnt + 1) /\ (cnt + 1) - 1 = cnt
      <4> HIDE DEF cnt
      <4> QED
        BY ONLY <1>4
    <3>2. last = SubSeq(stripe(cnt + 1), 1, rest)
      BY Zenon, <2>2, <3>1, <1>6 DEF restoreLast, last
    <3>3. /\ stripe(cnt + 1) \in Seq(Z) /\ Len(stripe(cnt + 1)) = size
          /\ \A i \in 1..size : all + i <= L => stripe(cnt + 1)[i] = input[all + i]
      BY Zenon, <3>1, <1>8
    <3> DEFINE s == stripe(cnt + 1)
    <3>4. all \in Nat /\ rest \in 0..(size - 1) /\ L = all + rest
      BY Zenon, <1>7
    <3> HIDE DEF s, all, rest, size, L
    <3>5. /\ SubSeq(s, 1, rest) \in Seq(Z) /\ Len(SubSeq(s, 1, rest)) = rest
          /\ \A i \in 1..rest : SubSeq(s, 1, rest)[i] = s[i]
      <4>1. s \in Seq(Z) /\ rest \in Nat /\ 1 <= rest /\ rest <= Len(s)
        BY <3>3, <3>4, <2>2, <1>2 DEF s
      <4> HIDE DEF Z
      <4> QED
        BY ONLY <4>1
    <3>6. \A i \in 1..rest : i \in 1..size /\ all + i <= L
      BY ONLY <3>4, <1>2
    <3> QED
      BY Zenon, <3>2, <3>3, <3>5, <3>6 DEF s, Follows
  <2> QED
    BY Zenon, <2>1, <2>2
<1> HIDE DEF all, rest
<1>11. /\ full \o last \in Seq(Z) /\ Len(full \o last) = all + rest
       /\ Follows(input, 0, full \o last)
  <2>1. 0 \in Nat /\ 0 + Len(full) = all
    BY ONLY <1>9, <1>7 DEF all
  <2>2. Follows(input, 0 + Len(full), last)
    BY Zenon, <2>1, <1>10
  <2>3. /\ full \o last \in Seq(Z) /\ Len(full \o last) = Len(full) + Len(last)
        /\ Follows(input, 0, full \o last)
    BY Zenon, <2>1, <2>2, <1>9, <1>10, FollowsOn
  <2> QED
    BY Zenon, <2>3, <1>9, <1>10
<1>12. input \in Seq(Z)
  OBVIOUS
<1>13. Len(full \o last) = Len(input)
  BY Zenon, <1>11, <1>7 DEF all, rest
<1> QED
  BY Zenon, <1>1, <1>11, <1>12, <1>13, FollowsAll

=============================================================================
