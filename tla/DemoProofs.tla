----------------------------- MODULE DemoProofs -----------------------------
(***************************************************************************)
(* Proofs about twoprocs.c, incdecthread.c, the timer programs and the     *)
(* sieve, for every number of rounds, threads and semaphores, every        *)
(* period, limit and size: the inductive invariant of each part, its       *)
(* preservation by every step, and the properties that follow from it.     *)
(***************************************************************************)
EXTENDS Pairs, Timers, Sieve, WellFoundedInduction, TLAPS

-----------------------------------------------------------------------------
(* Pairs: in a run of twoprocs.c every post is in a semaphore or with one    *)
(* of the partners, and an interrupted run leaves at most one more than it   *)
(* found.  gsum is never beyond what one thread alone has stored.            *)

One(b) == IF b THEN 1 ELSE 0

\* The posts of syncC that an earlier run has left: those there are, less the
\* parent's posts and plus the child's waits
FoundC == syncSem["C"] - (tpI["parent"] + One(tpParent = "wait"))
                       + (tpI["child"] + One(tpChild = "post"))

InRun == tpParent \in {"post", "wait", "reap"}

\* Every post that is not in a semaphore is with the parent or the child.
PostsKept ==
  /\ InRun => /\ FoundC \in 0..tpFound
              /\ syncSem["C"] + syncSem["P"] + One(tpChild = "post") + One(tpParent # "wait")
                   = tpFound + 1
  /\ tpFound <= tpKills /\ Posts("C") + Posts("P") <= tpKills + 1
  /\ tpParent \in {"openC", "openP", "fork", "killed"} => Posts("C") + Posts("P") <= tpKills
  /\ tpParent = "openC" => tpFound = 0
  /\ tpParent = "openP" => tpFound = Posts("C")
  /\ tpParent = "fork" => tpFound = Posts("C") + Posts("P")
  /\ tpParent \in {"openP", "fork", "post", "wait", "reap", "unlinkC"} => syncSem["C"] >= 0
  /\ tpParent \in {"fork", "post", "wait", "reap", "unlinkC", "unlinkP"} => syncSem["P"] >= 0

RoundsKept ==
  /\ tpParent \in {"openC", "openP", "fork"} => \A who \in Procs : tpI[who] = 0
  /\ tpParent \in {"post", "wait"} => tpI["parent"] < TpRounds
  /\ tpChild \in {"wait", "post"} => InRun /\ tpI["child"] < TpRounds
  /\ InRun /\ tpChild = "none" => tpI["child"] = 0
  /\ tpParent \in {"openC", "openP", "fork", "killed"} => tpChild = "none"
  /\ tpChild # "none" =>
       tpI["parent"] - tpFound <= tpI["child"] /\ tpI["child"] <= tpI["parent"] + 1 + tpFound

\* Stores to gsum that thread t has made
Stored(t) == idI[t] + One(idPc[t] = "atomic")

SumsKnown ==
  /\ agsum = idI["inc"] - idI["dec"]
  /\ -Stored("dec") <= gsum /\ gsum <= Stored("inc")
  /\ \A t \in IncDec :
       /\ idPc[t] = "store" => -Stored("dec") <= idReg[t] /\ idReg[t] <= Stored("inc")
       /\ idPc[t] \in {"load", "store", "atomic"} => idI[t] < COUNT
       /\ idPc[t] = "exit" => idI[t] = COUNT
       /\ idPc[t] = "none" => idI[t] = 0
  /\ idMain = "createInc" => idPc["inc"] = "none"
  /\ idMain \in {"createInc", "createDec"} => idPc["dec"] = "none"
  /\ idMain = "joinDec" => idPc["inc"] = "exit"
  /\ idMain = "exit" => \/ \A t \in IncDec : idPc[t] = "none"
                        \/ \A t \in IncDec : idPc[t] = "exit"

PairsInv == PairsTypeOK /\ PostsKept /\ RoundsKept /\ SumsKnown

\* It holds where the programs start and where they have ended.
LEMMA PairsInitInv ==
  ASSUME NEW tp \in {"openC", "exit"}, NEW id \in {"createInc", "exit"}, PairsInitAt(tp, id)
  PROVE  PairsInv
<1> USE PairsAssumption DEF PairsInitAt, Procs, IncDec, NoSem
<1>1. PairsTypeOK
  BY DEF PairsTypeOK
<1>2. PostsKept /\ RoundsKept
  BY DEF PostsKept, RoundsKept, InRun, Posts, One
<1>3. SumsKnown
  BY DEF SumsKnown, Stored, One
<1> QED
  BY Zenon, <1>1, <1>2, <1>3 DEF PairsInv

\* The types that every step uses.
LEMMA PairsTypes ==
  ASSUME PairsInv
  PROVE  /\ TpRounds \in Nat /\ TpRounds > 0 /\ TpMaxKills \in Nat /\ COUNT \in Nat /\ COUNT > 0
         /\ tpI \in [Procs -> 0..TpRounds] /\ tpI["parent"] \in Nat /\ tpI["child"] \in Nat
         /\ syncSem \in [{"C", "P"} -> Int]
         /\ syncSem["C"] \in Int /\ syncSem["C"] >= -1 /\ syncSem["P"] \in Int /\ syncSem["P"] >= -1
         /\ tpFound \in Nat /\ tpKills \in Nat
         /\ idI \in [IncDec -> 0..COUNT] /\ idI["inc"] \in Nat /\ idI["dec"] \in Nat
         /\ idReg \in [IncDec -> Int] /\ gsum \in Int /\ agsum \in Int
         /\ idPc \in [IncDec -> {"none", "load", "store", "atomic", "exit"}]
BY PairsAssumption DEF PairsInv, PairsTypeOK, Procs, IncDec, NoSem

\* What the posts in circulation say of the rounds while a run is on.
LEMMA RoundsFollow ==
  ASSUME NEW C \in Int, C >= 0, NEW P \in Int, P >= 0, NEW found \in Nat,
         NEW pI \in Nat, NEW cI \in Nat, NEW waits \in {0, 1}, NEW posts \in {0, 1},
         C - (pI + waits) + (cI + posts) \in 0..found,
         C + P + posts + (1 - waits) = found + 1
  PROVE  pI - found <= cI /\ cI <= pI + 1 + found
OBVIOUS

\* The parts of a twoprocs step: it keeps the types of its variables and
\* leaves the other program alone.
LEMMA TwoProcsTypes ==
  ASSUME PairsInv, TwoProcsNext, PostsKept', RoundsKept',
         syncSem' \in [{"C", "P"} -> Int], syncSem'["C"] >= -1, syncSem'["P"] >= -1,
         tpI' \in [Procs -> 0..TpRounds], tpFound' \in Nat, tpKills' \in 0..TpMaxKills,
         tpParent' \in {"openC", "openP", "fork", "post", "wait", "reap", "unlinkC", "unlinkP",
                        "killed", "exit"},
         tpChild' \in {"none", "wait", "post", "exit"}
  PROVE  PairsInv'
<1> USE PairsTypes
<1>1. Posts("C")' + Posts("P")' <= TpMaxKills + 1 /\ tpFound' <= TpMaxKills
  BY DEF PostsKept, Posts, NoSem
<1>2. syncSem' \in [{"C", "P"} -> NoSem..(TpRounds + TpMaxKills)]
  <2>1. syncSem'["C"] <= TpRounds + TpMaxKills /\ syncSem'["P"] <= TpRounds + TpMaxKills
    BY <1>1 DEF Posts, NoSem
  <2> QED
    BY <2>1 DEF NoSem
<1>3. UNCHANGED idVars
  BY Zenon DEF TwoProcsNext
<1>4. PairsTypeOK'
  BY <1>1, <1>2, <1>3 DEF PairsInv, PairsTypeOK, idVars
<1>5. SumsKnown'
  BY Zenon, <1>3 DEF PairsInv, SumsKnown, Stored, idVars
<1> QED
  BY Zenon, <1>4, <1>5 DEF PairsInv

\* Opening takes over what is there, and an interrupted run leaves at most one
\* post more than it found.
LEMMA TwoProcsOpens ==
  ASSUME PairsInv, TwoProcsNext,
         SemOpen("C", "openC", "openP") \/ SemOpen("P", "openP", "fork") \/ tpFork
           \/ tpInterrupt \/ tpAgain
  PROVE  PairsInv'
<1> USE PairsTypes
<1>0. PostsKept /\ RoundsKept
  BY Zenon DEF PairsInv
<1>1. CASE SemOpen("C", "openC", "openP")
  <2> USE DEF SemOpen, Procs, NoSem
  <2>1. /\ syncSem' \in [{"C", "P"} -> Int] /\ syncSem'["C"] >= -1 /\ syncSem'["P"] >= -1
        /\ tpI' \in [Procs -> 0..TpRounds] /\ tpKills' \in 0..TpMaxKills
        /\ tpParent' \in {"openP", "fork", "post", "killed", "openC"} /\ tpChild' \in {"none", "wait", "post", "exit"}
    BY <1>1 DEF PairsInv, PairsTypeOK
  <2>2. PostsKept' /\ tpFound' \in Nat
    BY <1>0, <1>1 DEF PostsKept, RoundsKept, InRun, Posts, FoundC, One
  <2>3. RoundsKept'
    BY Zenon, <1>0, <1>1 DEF RoundsKept, InRun
  <2> QED
    BY Zenon, <2>1, <2>2, <2>3, TwoProcsTypes
<1>2. CASE SemOpen("P", "openP", "fork")
  <2> USE DEF SemOpen, Procs, NoSem
  <2>1. /\ syncSem' \in [{"C", "P"} -> Int] /\ syncSem'["C"] >= -1 /\ syncSem'["P"] >= -1
        /\ tpI' \in [Procs -> 0..TpRounds] /\ tpKills' \in 0..TpMaxKills
        /\ tpParent' \in {"openP", "fork", "post", "killed", "openC"} /\ tpChild' \in {"none", "wait", "post", "exit"}
    BY <1>2 DEF PairsInv, PairsTypeOK
  <2>2. PostsKept' /\ tpFound' \in Nat
    BY <1>0, <1>2 DEF PostsKept, RoundsKept, InRun, Posts, FoundC, One
  <2>3. RoundsKept'
    BY Zenon, <1>0, <1>2 DEF RoundsKept, InRun
  <2> QED
    BY Zenon, <2>1, <2>2, <2>3, TwoProcsTypes
<1>3. CASE tpFork
  <2> USE DEF tpFork, Procs, NoSem
  <2>1. /\ syncSem' \in [{"C", "P"} -> Int] /\ syncSem'["C"] >= -1 /\ syncSem'["P"] >= -1
        /\ tpI' \in [Procs -> 0..TpRounds] /\ tpKills' \in 0..TpMaxKills
        /\ tpParent' \in {"openP", "fork", "post", "killed", "openC"} /\ tpChild' \in {"none", "wait", "post", "exit"}
    BY Zenon, <1>3 DEF PairsInv, PairsTypeOK
  <2>2. PostsKept' /\ tpFound' \in Nat
    BY <1>0, <1>3 DEF PostsKept, RoundsKept, InRun, Posts, FoundC, One
  <2>3. RoundsKept'
    BY <1>0, <1>3 DEF RoundsKept, InRun
  <2> QED
    BY Zenon, <2>1, <2>2, <2>3, TwoProcsTypes
<1>4. CASE tpInterrupt
  <2> USE DEF tpInterrupt, Procs, NoSem
  <2>1. /\ syncSem' \in [{"C", "P"} -> Int] /\ syncSem'["C"] >= -1 /\ syncSem'["P"] >= -1
        /\ tpI' \in [Procs -> 0..TpRounds] /\ tpKills' \in 0..TpMaxKills
        /\ tpParent' \in {"openP", "fork", "post", "killed", "openC"} /\ tpChild' \in {"none", "wait", "post", "exit"}
    BY <1>4 DEF PairsInv, PairsTypeOK
  <2>2. PostsKept' /\ tpFound' \in Nat
    BY <1>0, <1>4 DEF PostsKept, RoundsKept, InRun, Posts, FoundC, One
  <2>3. RoundsKept'
    BY Zenon, <1>0, <1>4 DEF RoundsKept, InRun
  <2> QED
    BY Zenon, <2>1, <2>2, <2>3, TwoProcsTypes
<1>5. CASE tpAgain
  <2> USE DEF tpAgain, Procs, NoSem
  <2>1. /\ syncSem' \in [{"C", "P"} -> Int] /\ syncSem'["C"] >= -1 /\ syncSem'["P"] >= -1
        /\ tpI' \in [Procs -> 0..TpRounds] /\ tpKills' \in 0..TpMaxKills
        /\ tpParent' \in {"openP", "fork", "post", "killed", "openC"} /\ tpChild' \in {"none", "wait", "post", "exit"}
    BY <1>5 DEF PairsInv, PairsTypeOK
  <2>2. PostsKept' /\ tpFound' \in Nat
    BY <1>0, <1>5 DEF PostsKept, RoundsKept, InRun, Posts, FoundC, One
  <2>3. RoundsKept'
    BY Zenon, <1>0, <1>5 DEF RoundsKept, InRun
  <2> QED
    BY Zenon, <2>1, <2>2, <2>3, TwoProcsTypes
<1> QED
  BY Zenon, <1>1, <1>2, <1>3, <1>4, <1>5

\* While a run is on, every post is in a semaphore or with a partner.
LEMMA TwoProcsRun ==
  ASSUME PairsInv, TwoProcsNext, parentProc \/ childProc
  PROVE  PairsInv'
<1> USE PairsTypes DEF parentProc, childProc, SemPost, SemWait, NextRound, Procs, NoSem
<1>0. PostsKept /\ RoundsKept
  BY Zenon DEF PairsInv
<1>1. CASE childProc /\ tpChild = "wait"
  <2>1. /\ syncSem' \in [{"C", "P"} -> Int] /\ syncSem'["C"] >= -1 /\ syncSem'["P"] >= -1
        /\ tpI' \in [Procs -> 0..TpRounds] /\ tpKills' \in 0..TpMaxKills /\ tpFound' \in Nat
        /\ tpParent' \in {"post", "wait", "reap", "unlinkC", "unlinkP", "exit"} /\ tpChild' \in {"none", "wait", "post", "exit"}
    <3>1. syncSem' \in [{"C", "P"} -> Int] /\ syncSem'["C"] >= -1 /\ syncSem'["P"] >= -1
      BY <1>1
    <3>2. tpI["child"] < TpRounds \/ tpI'["child"] = tpI["child"]
      BY Zenon, <1>0, <1>1 DEF RoundsKept
    <3>3. tpI["parent"] < TpRounds \/ tpI'["parent"] = tpI["parent"]
      BY Zenon, <1>0, <1>1 DEF RoundsKept
    <3>4. tpI' \in [Procs -> 0..TpRounds]
      BY Zenon, <1>1, <3>2, <3>3
    <3>5. UNCHANGED <<tpKills, tpFound>>
      BY Zenon, <1>1
    <3>6. /\ tpParent' \in {"post", "wait", "reap", "unlinkC", "unlinkP", "exit"}
          /\ tpChild' \in {"none", "wait", "post", "exit"}
      BY Zenon, <1>0, <1>1 DEF PairsInv, PairsTypeOK, RoundsKept, InRun
    <3> QED
      BY Zenon, <3>1, <3>4, <3>5, <3>6 DEF PairsInv, PairsTypeOK
  <2>2. PostsKept'
    BY <1>0, <1>1 DEF PostsKept, RoundsKept, InRun, Posts, FoundC, One
  <2>3. RoundsKept'
    <3>1. tpChild' # "none" =>
            tpI'["parent"] - tpFound' <= tpI'["child"] /\ tpI'["child"] <= tpI'["parent"] + 1 + tpFound'
      <4>1. /\ FoundC' \in 0..tpFound' /\ syncSem'["C"] >= 0 /\ syncSem'["P"] >= 0
            /\ syncSem'["C"] + syncSem'["P"] + One(tpChild = "post")' + One(tpParent # "wait")' = tpFound' + 1
        BY Zenon, <1>0, <1>1, <2>2 DEF PostsKept, RoundsKept, InRun
      <4>2. One(tpParent # "wait")' = 1 - One(tpParent = "wait")' /\ One(tpParent = "wait")' \in {0, 1}
            /\ One(tpChild = "post")' \in {0, 1}
        BY DEF One
      <4>3. /\ syncSem'["C"] \in Int /\ syncSem'["P"] \in Int /\ tpFound' \in Nat
            /\ tpI'["parent"] \in Nat /\ tpI'["child"] \in Nat
        BY <2>1 DEF Procs
      <4>4. syncSem'["C"] - (tpI'["parent"] + One(tpParent = "wait")') + (tpI'["child"] + One(tpChild = "post")')
              \in 0..tpFound'
        BY Zenon, <4>1 DEF FoundC
      <4> QED
        BY <4>1, <4>2, <4>3, <4>4, RoundsFollow
    <3> QED
      BY Zenon, <1>0, <1>1, <3>1 DEF RoundsKept, InRun
  <2> QED
    BY Zenon, <2>1, <2>2, <2>3, TwoProcsTypes
<1>2. CASE childProc /\ tpChild = "post"
  <2>1. /\ syncSem' \in [{"C", "P"} -> Int] /\ syncSem'["C"] >= -1 /\ syncSem'["P"] >= -1
        /\ tpI' \in [Procs -> 0..TpRounds] /\ tpKills' \in 0..TpMaxKills /\ tpFound' \in Nat
        /\ tpParent' \in {"post", "wait", "reap", "unlinkC", "unlinkP", "exit"} /\ tpChild' \in {"none", "wait", "post", "exit"}
    <3>1. syncSem' \in [{"C", "P"} -> Int] /\ syncSem'["C"] >= -1 /\ syncSem'["P"] >= -1
      BY <1>2
    <3>2. tpI["child"] < TpRounds \/ tpI'["child"] = tpI["child"]
      BY Zenon, <1>0, <1>2 DEF RoundsKept
    <3>3. tpI["parent"] < TpRounds \/ tpI'["parent"] = tpI["parent"]
      BY Zenon, <1>0, <1>2 DEF RoundsKept
    <3>4. tpI' \in [Procs -> 0..TpRounds]
      BY <1>2, <3>2, <3>3
    <3>5. UNCHANGED <<tpKills, tpFound>>
      BY Zenon, <1>2
    <3>6. /\ tpParent' \in {"post", "wait", "reap", "unlinkC", "unlinkP", "exit"}
          /\ tpChild' \in {"none", "wait", "post", "exit"}
      BY Zenon, <1>0, <1>2 DEF PairsInv, PairsTypeOK, RoundsKept, InRun
    <3> QED
      BY Zenon, <3>1, <3>4, <3>5, <3>6 DEF PairsInv, PairsTypeOK
  <2>2. PostsKept'
    BY <1>0, <1>2 DEF PostsKept, RoundsKept, InRun, Posts, FoundC, One
  <2>3. RoundsKept'
    <3>1. tpChild' # "none" =>
            tpI'["parent"] - tpFound' <= tpI'["child"] /\ tpI'["child"] <= tpI'["parent"] + 1 + tpFound'
      <4>1. /\ FoundC' \in 0..tpFound' /\ syncSem'["C"] >= 0 /\ syncSem'["P"] >= 0
            /\ syncSem'["C"] + syncSem'["P"] + One(tpChild = "post")' + One(tpParent # "wait")' = tpFound' + 1
        BY Zenon, <1>0, <1>2, <2>2 DEF PostsKept, RoundsKept, InRun
      <4>2. One(tpParent # "wait")' = 1 - One(tpParent = "wait")' /\ One(tpParent = "wait")' \in {0, 1}
            /\ One(tpChild = "post")' \in {0, 1}
        BY DEF One
      <4>3. /\ syncSem'["C"] \in Int /\ syncSem'["P"] \in Int /\ tpFound' \in Nat
            /\ tpI'["parent"] \in Nat /\ tpI'["child"] \in Nat
        BY <2>1 DEF Procs
      <4>4. syncSem'["C"] - (tpI'["parent"] + One(tpParent = "wait")') + (tpI'["child"] + One(tpChild = "post")')
              \in 0..tpFound'
        BY Zenon, <4>1 DEF FoundC
      <4> QED
        BY <4>1, <4>2, <4>3, <4>4, RoundsFollow
    <3> QED
      BY Zenon, <1>0, <1>2, <3>1 DEF RoundsKept, InRun
  <2> QED
    BY Zenon, <2>1, <2>2, <2>3, TwoProcsTypes
<1>3. CASE parentProc /\ tpParent = "post"
  <2>1. /\ syncSem' \in [{"C", "P"} -> Int] /\ syncSem'["C"] >= -1 /\ syncSem'["P"] >= -1
        /\ tpI' \in [Procs -> 0..TpRounds] /\ tpKills' \in 0..TpMaxKills /\ tpFound' \in Nat
        /\ tpParent' \in {"post", "wait", "reap", "unlinkC", "unlinkP", "exit"} /\ tpChild' \in {"none", "wait", "post", "exit"}
    <3>1. syncSem' \in [{"C", "P"} -> Int] /\ syncSem'["C"] >= -1 /\ syncSem'["P"] >= -1
      BY <1>3
    <3>2. tpI["child"] < TpRounds \/ tpI'["child"] = tpI["child"]
      BY Zenon, <1>0, <1>3 DEF RoundsKept
    <3>3. tpI["parent"] < TpRounds \/ tpI'["parent"] = tpI["parent"]
      BY Zenon, <1>0, <1>3 DEF RoundsKept
    <3>4. tpI' \in [Procs -> 0..TpRounds]
      BY Zenon, <1>3, <3>2, <3>3
    <3>5. UNCHANGED <<tpKills, tpFound>>
      BY Zenon, <1>3
    <3>6. /\ tpParent' \in {"post", "wait", "reap", "unlinkC", "unlinkP", "exit"}
          /\ tpChild' \in {"none", "wait", "post", "exit"}
      BY Zenon, <1>0, <1>3 DEF PairsInv, PairsTypeOK, RoundsKept, InRun
    <3> QED
      BY Zenon, <3>1, <3>4, <3>5, <3>6 DEF PairsInv, PairsTypeOK
  <2>2. PostsKept'
    BY <1>0, <1>3 DEF PostsKept, RoundsKept, InRun, Posts, FoundC, One
  <2>3. RoundsKept'
    <3>1. tpChild' # "none" =>
            tpI'["parent"] - tpFound' <= tpI'["child"] /\ tpI'["child"] <= tpI'["parent"] + 1 + tpFound'
      <4>1. /\ FoundC' \in 0..tpFound' /\ syncSem'["C"] >= 0 /\ syncSem'["P"] >= 0
            /\ syncSem'["C"] + syncSem'["P"] + One(tpChild = "post")' + One(tpParent # "wait")' = tpFound' + 1
        BY Zenon, <1>0, <1>3, <2>2 DEF PostsKept, RoundsKept, InRun
      <4>2. One(tpParent # "wait")' = 1 - One(tpParent = "wait")' /\ One(tpParent = "wait")' \in {0, 1}
            /\ One(tpChild = "post")' \in {0, 1}
        BY DEF One
      <4>3. /\ syncSem'["C"] \in Int /\ syncSem'["P"] \in Int /\ tpFound' \in Nat
            /\ tpI'["parent"] \in Nat /\ tpI'["child"] \in Nat
        BY <2>1 DEF Procs
      <4>4. syncSem'["C"] - (tpI'["parent"] + One(tpParent = "wait")') + (tpI'["child"] + One(tpChild = "post")')
              \in 0..tpFound'
        BY Zenon, <4>1 DEF FoundC
      <4> QED
        BY <4>1, <4>2, <4>3, <4>4, RoundsFollow
    <3> QED
      BY Zenon, <1>0, <1>3, <3>1 DEF RoundsKept, InRun
  <2> QED
    BY Zenon, <2>1, <2>2, <2>3, TwoProcsTypes
<1>4. CASE parentProc /\ tpParent = "wait"
  <2>1. /\ syncSem' \in [{"C", "P"} -> Int] /\ syncSem'["C"] >= -1 /\ syncSem'["P"] >= -1
        /\ tpI' \in [Procs -> 0..TpRounds] /\ tpKills' \in 0..TpMaxKills /\ tpFound' \in Nat
        /\ tpParent' \in {"post", "wait", "reap", "unlinkC", "unlinkP", "exit"} /\ tpChild' \in {"none", "wait", "post", "exit"}
    <3>1. syncSem' \in [{"C", "P"} -> Int] /\ syncSem'["C"] >= -1 /\ syncSem'["P"] >= -1
      BY <1>4
    <3>2. tpI["child"] < TpRounds \/ tpI'["child"] = tpI["child"]
      BY Zenon, <1>0, <1>4 DEF RoundsKept
    <3>3. tpI["parent"] < TpRounds \/ tpI'["parent"] = tpI["parent"]
      BY Zenon, <1>0, <1>4 DEF RoundsKept
    <3>4. tpI' \in [Procs -> 0..TpRounds]
      BY <1>4, <3>2, <3>3
    <3>5. UNCHANGED <<tpKills, tpFound>>
      BY Zenon, <1>4
    <3>6. /\ tpParent' \in {"post", "wait", "reap", "unlinkC", "unlinkP", "exit"}
          /\ tpChild' \in {"none", "wait", "post", "exit"}
      BY Zenon, <1>0, <1>4 DEF PairsInv, PairsTypeOK, RoundsKept, InRun
    <3> QED
      BY Zenon, <3>1, <3>4, <3>5, <3>6 DEF PairsInv, PairsTypeOK
  <2>2. PostsKept'
    BY <1>0, <1>4 DEF PostsKept, RoundsKept, InRun, Posts, FoundC, One
  <2>3. RoundsKept'
    <3>1. tpChild' # "none" =>
            tpI'["parent"] - tpFound' <= tpI'["child"] /\ tpI'["child"] <= tpI'["parent"] + 1 + tpFound'
      <4>1. /\ FoundC' \in 0..tpFound' /\ syncSem'["C"] >= 0 /\ syncSem'["P"] >= 0
            /\ syncSem'["C"] + syncSem'["P"] + One(tpChild = "post")' + One(tpParent # "wait")' = tpFound' + 1
        BY Zenon, <1>0, <1>4, <2>2 DEF PostsKept, RoundsKept, InRun
      <4>2. One(tpParent # "wait")' = 1 - One(tpParent = "wait")' /\ One(tpParent = "wait")' \in {0, 1}
            /\ One(tpChild = "post")' \in {0, 1}
        BY DEF One
      <4>3. /\ syncSem'["C"] \in Int /\ syncSem'["P"] \in Int /\ tpFound' \in Nat
            /\ tpI'["parent"] \in Nat /\ tpI'["child"] \in Nat
        BY <2>1 DEF Procs
      <4>4. syncSem'["C"] - (tpI'["parent"] + One(tpParent = "wait")') + (tpI'["child"] + One(tpChild = "post")')
              \in 0..tpFound'
        BY Zenon, <4>1 DEF FoundC
      <4> QED
        BY <4>1, <4>2, <4>3, <4>4, RoundsFollow
    <3> QED
      BY Zenon, <1>0, <1>4, <3>1 DEF RoundsKept, InRun
  <2> QED
    BY Zenon, <2>1, <2>2, <2>3, TwoProcsTypes
<1>5. CASE parentProc /\ tpParent \in {"reap", "unlinkC", "unlinkP"}
  <2>1. /\ syncSem' \in [{"C", "P"} -> Int] /\ syncSem'["C"] >= -1 /\ syncSem'["P"] >= -1
        /\ tpI' \in [Procs -> 0..TpRounds] /\ tpKills' \in 0..TpMaxKills /\ tpFound' \in Nat
        /\ tpParent' \in {"post", "wait", "reap", "unlinkC", "unlinkP", "exit"} /\ tpChild' \in {"none", "wait", "post", "exit"}
    <3>1. syncSem' \in [{"C", "P"} -> Int] /\ syncSem'["C"] >= -1 /\ syncSem'["P"] >= -1
      BY <1>5
    <3>2. tpI["child"] < TpRounds \/ tpI'["child"] = tpI["child"]
      BY Zenon, <1>0, <1>5 DEF RoundsKept
    <3>3. tpI["parent"] < TpRounds \/ tpI'["parent"] = tpI["parent"]
      BY Zenon, <1>0, <1>5 DEF RoundsKept
    <3>4. tpI' \in [Procs -> 0..TpRounds]
      BY Zenon, <1>5, <3>2, <3>3
    <3>5. UNCHANGED <<tpKills, tpFound>>
      BY Zenon, <1>5
    <3>6. /\ tpParent' \in {"post", "wait", "reap", "unlinkC", "unlinkP", "exit"}
          /\ tpChild' \in {"none", "wait", "post", "exit"}
      BY Zenon, <1>0, <1>5 DEF PairsInv, PairsTypeOK, RoundsKept, InRun
    <3> QED
      BY Zenon, <3>1, <3>4, <3>5, <3>6 DEF PairsInv, PairsTypeOK
  <2>2. PostsKept'
    BY <1>0, <1>5 DEF PostsKept, RoundsKept, InRun, Posts, FoundC, One
  <2>3. RoundsKept'
    <3>1. tpChild' # "none" =>
            tpI'["parent"] - tpFound' <= tpI'["child"] /\ tpI'["child"] <= tpI'["parent"] + 1 + tpFound'
      BY Zenon, <1>0, <1>5 DEF RoundsKept
    <3> QED
      BY Zenon, <1>0, <1>5, <3>1 DEF RoundsKept, InRun
  <2> QED
    BY Zenon, <2>1, <2>2, <2>3, TwoProcsTypes
<1> QED
  BY Zenon, <1>1, <1>2, <1>3, <1>4, <1>5

\* The sums without quantifiers, as the steps use them.
SumOf(t) ==
  /\ idPc[t] = "store" => -Stored("dec") <= idReg[t] /\ idReg[t] <= Stored("inc")
  /\ idPc[t] \in {"load", "store", "atomic"} => idI[t] < COUNT
  /\ idPc[t] = "exit" => idI[t] = COUNT
  /\ idPc[t] = "none" => idI[t] = 0

SumsAll ==
  /\ agsum = idI["inc"] - idI["dec"]
  /\ -Stored("dec") <= gsum /\ gsum <= Stored("inc")
  /\ SumOf("inc") /\ SumOf("dec")

SumsMain ==
  /\ idMain = "createInc" => idPc["inc"] = "none"
  /\ idMain \in {"createInc", "createDec"} => idPc["dec"] = "none"
  /\ idMain = "joinDec" => idPc["inc"] = "exit"
  /\ idMain = "exit" => \/ idPc["inc"] = "none" /\ idPc["dec"] = "none"
                        \/ idPc["inc"] = "exit" /\ idPc["dec"] = "exit"

\* The two forms say the same, before a step and after it.
LEMMA SumsFacts ==
  /\ SumsKnown <=> SumsAll /\ SumsMain
  /\ SumsKnown' <=> SumsAll' /\ SumsMain'
<1>1. SumsKnown <=> SumsAll /\ SumsMain
  BY Zenon DEF SumsKnown, SumsAll, SumsMain, SumOf, IncDec
<1>2. SumsKnown' <=> SumsAll' /\ SumsMain'
  BY Zenon DEF SumsKnown, SumsAll, SumsMain, SumOf, IncDec
<1> QED
  BY Zenon, <1>1, <1>2

\* A thread stores what it read, with its own round added.
LEMMA IncDecThreadInv ==
  ASSUME PairsInv, NEW t \in IncDec, incdecThread(t), UNCHANGED tpVars
  PROVE  PairsInv'
<1> USE PairsTypes DEF incdecThread, agsumAtomic, INCDEC_AMOUNT, IncDec
<1>0. SumsAll /\ SumsMain
  BY Zenon, SumsFacts DEF PairsInv
<1>1. PostsKept' /\ RoundsKept'
  BY DEF PairsInv, PostsKept, RoundsKept, InRun, FoundC, One, Posts, tpVars
<1>2. CASE idPc[t] = "load"
  <2>1. SumsAll' /\ SumsMain'
    <3>1. CASE t = "inc"
      BY <1>0, <1>2, <3>1 DEF SumsAll, SumsMain, SumOf, Stored, One
    <3>2. CASE t = "dec"
      BY <1>0, <1>2, <3>2 DEF SumsAll, SumsMain, SumOf, Stored, One
    <3> QED
      BY Zenon, <3>1, <3>2
  <2>2. idI' \in [IncDec -> 0..COUNT] /\ idReg' \in [IncDec -> Int] /\ gsum' \in Int /\ agsum' \in Int
    BY <1>0, <1>2 DEF SumsAll, SumOf
  <2>3. PairsTypeOK'
    BY <1>2, <2>2 DEF PairsInv, PairsTypeOK, tpVars
  <2> QED
    BY Zenon, <1>1, <2>1, <2>3, SumsFacts DEF PairsInv
<1>3. CASE idPc[t] = "store"
  <2>1. SumsAll' /\ SumsMain'
    <3>1. CASE t = "inc"
      BY <1>0, <1>3, <3>1 DEF SumsAll, SumsMain, SumOf, Stored, One
    <3>2. CASE t = "dec"
      BY <1>0, <1>3, <3>2 DEF SumsAll, SumsMain, SumOf, Stored, One
    <3> QED
      BY Zenon, <3>1, <3>2
  <2>2. idI' \in [IncDec -> 0..COUNT] /\ idReg' \in [IncDec -> Int] /\ gsum' \in Int /\ agsum' \in Int
    BY <1>0, <1>3 DEF SumsAll, SumOf
  <2>3. PairsTypeOK'
    BY <1>3, <2>2 DEF PairsInv, PairsTypeOK, tpVars
  <2> QED
    BY Zenon, <1>1, <2>1, <2>3, SumsFacts DEF PairsInv
<1>4. CASE idPc[t] = "atomic"
  <2>1. SumsAll' /\ SumsMain'
    <3>1. CASE t = "inc"
      BY <1>0, <1>4, <3>1 DEF SumsAll, SumsMain, SumOf, Stored, One
    <3>2. CASE t = "dec"
      BY <1>0, <1>4, <3>2 DEF SumsAll, SumsMain, SumOf, Stored, One
    <3> QED
      BY Zenon, <3>1, <3>2
  <2>2. idI' \in [IncDec -> 0..COUNT] /\ idReg' \in [IncDec -> Int] /\ gsum' \in Int /\ agsum' \in Int
    BY <1>0, <1>4 DEF SumsAll, SumOf
  <2>3. PairsTypeOK'
    BY <1>4, <2>2 DEF PairsInv, PairsTypeOK, tpVars
  <2> QED
    BY Zenon, <1>1, <2>1, <2>3, SumsFacts DEF PairsInv
<1> QED
  BY Zenon, <1>2, <1>3, <1>4

\* main only moves a thread to its start, or waits for its end.
LEMMA IncDecMainInv ==
  ASSUME PairsInv, incdecMain, UNCHANGED tpVars
  PROVE  PairsInv'
<1> USE PairsTypes DEF incdecMain, IncDec
<1>1. PostsKept' /\ RoundsKept'
  BY DEF PairsInv, PostsKept, RoundsKept, InRun, FoundC, One, Posts, tpVars
<1>2. SumsAll /\ SumsMain
  BY Zenon, SumsFacts DEF PairsInv
<1>3. SumsAll' /\ SumsMain'
  BY <1>2 DEF SumsAll, SumsMain, SumOf, Stored, One
<1>4. PairsTypeOK'
  BY Zenon DEF PairsInv, PairsTypeOK, tpVars
<1> QED
  BY Zenon, <1>1, <1>3, <1>4, SumsFacts DEF PairsInv

\* Every step of either program keeps it.
LEMMA PairsStepInv == PairsInv /\ [PairsNext]_pairVars => PairsInv'
<1>1. ASSUME PairsInv, UNCHANGED pairVars PROVE PairsInv'
  BY <1>1 DEF pairVars, tpVars, idVars, PairsInv, PairsTypeOK, PostsKept, RoundsKept, SumsKnown,
     InRun, FoundC, One, Posts, Stored
<1>2. ASSUME PairsInv, TwoProcsNext PROVE PairsInv'
  BY Zenon, <1>2, TwoProcsOpens, TwoProcsRun DEF TwoProcsNext, tpMain
<1>3. ASSUME PairsInv, IncDecNext PROVE PairsInv'
  BY Zenon, <1>3, IncDecThreadInv, IncDecMainInv DEF IncDecNext
<1> QED
  BY Zenon, <1>1, <1>2, <1>3 DEF PairsNext

\* It keeps the partners together and bounds the sums.
LEMMA PairsInvSafe == PairsInv => HandshakeKept /\ SumsBounded
<1> SUFFICES ASSUME PairsInv PROVE HandshakeKept /\ SumsBounded
  BY Zenon
<1>1. HandshakeKept
  BY Zenon DEF PairsInv, PostsKept, RoundsKept, HandshakeKept
<1>2. SumsBounded
  BY PairsTypes DEF PairsInv, SumsKnown, SumsBounded, Stored, One, IncDec
<1> QED
  BY Zenon, <1>1, <1>2

\* For any number of rounds and of interrupted runs: parent and child of
\* twoprocs.c are apart by no more than the posts they found; and however the
\* threads of incdecthread/pthread.c interleave, agsum is 0 in the end and gsum
\* is off by at most the rounds of one thread.
THEOREM PairsCorrect == PairsSpec => [](HandshakeKept /\ SumsBounded)
<1>1. PairsInitAt("openC", "createInc") => PairsInv
  BY Zenon, PairsInitInv
<1> QED
  BY <1>1, PairsStepInv, PairsInvSafe, PTL DEF PairsSpec

-----------------------------------------------------------------------------
(* Timers: the task that lives is the one the timer is connected with; and   *)
(* the time measured differs from the ticks that were timed by no more than  *)
(* the jitter accumulated.                                                   *)

\* The watchdog: the task that lives is the one the timer is connected with.
OneLives == live # {} => live = {monitored_tid} /\ mon_tid = monitored_tid

\* Ticks that were timed, and how far the measured time is from them
Timed == tick_count - One(inHandler)
Measured == rtclk_last_time - rtclk_start_time

TicksKnown ==
  /\ rtclk_time # 0 \/ tick_count # 0 => timerProg \in TickProgs
  /\ inHandler => tick_count > 0
  /\ timerPc \in {"start", "armed"} => rtclk_start_time = 0
  /\ timerPc = "startRead" => rtclk_start_time # 0
  /\ ~racedStart =>
       /\ rtclk_time # 0 => rtclk_time = rtclk_last_time
       /\ timerPc \in {"start", "armed", "startRead"} => rtclk_last_time = 0
       /\ rtclk_last_time = 0 => rtclk_time = 0 /\ Timed = 0
       /\ rtclk_last_time # 0 => Abs(Measured - Timed * TickPeriod) <= accum_jitter

TimersInv == TimersTypeOK /\ OneLives /\ TicksKnown

\* It holds where main starts and where it has ended.
LEMMA TimersInitInv ==
  ASSUME NEW at \in {"start", "exit"}, TimersInitAt(at) PROVE TimersInv
<1> USE TimersAssumption DEF TimersInitAt, TickProgs
<1>1. armed \in BOOLEAN /\ pending \in BOOLEAN /\ abort_test \in BOOLEAN
      /\ inHandler \in BOOLEAN /\ racedStart \in BOOLEAN
  BY Zenon
<1>2. /\ test_iterations \in -1..MaxIterations /\ expcount \in 0..(TARDY_TERMINATOR + 3)
      /\ live \subseteq TaskIds
      /\ rtclk \in 1..MaxClock /\ rtclk_time \in 0..MaxClock
      /\ rtclk_start_time \in 0..MaxClock /\ rtclk_last_time \in 0..MaxClock
  OBVIOUS
<1>3. TimersTypeOK
  BY Zenon, <1>1, <1>2 DEF TimersTypeOK
<1>4. OneLives
  BY Zenon DEF OneLives
<1>5. TicksKnown
  <2>1. ~inHandler /\ ~racedStart
    BY Zenon
  <2>2. tick_count = 0
    BY Zenon
  <2>3. Timed = 0
    <3>1. One(inHandler) = 0
      BY ONLY <2>1, Zenon DEF One
    <3> QED
      BY ONLY <2>2, <3>1 DEF Timed
  <2> QED
    BY Zenon, <2>1, <2>3 DEF TicksKnown
<1> QED
  BY Zenon, <1>3, <1>4, <1>5 DEF TimersInv

\* The next multiple of a period.
LEMMA NextMultiple ==
  ASSUME NEW n \in Int, NEW d \in Int PROVE (n + 1) * d = n * d + d /\ n * d \in Int
OBVIOUS

\* One interval more: the error grows by no more than the jitter of the interval.
LEMMA JitterAccumulates ==
  ASSUME NEW m \in Int, NEW e \in Int, NEW d \in Int, NEW j \in Int, Abs(m - e) <= j
  PROVE  Abs((m + d) - (e + TickPeriod)) <= j + Abs(d - TickPeriod)
BY TimersAssumption DEF Abs

\* The variables of the ticks and of the watchdog are apart.
LEMMA TicksUnchanged ==
  ASSUME TimersInv, UNCHANGED tickVars, UNCHANGED timerProg,
         timerPc' = timerPc \/ timerPc' \notin {"start", "armed", "startRead"}
  PROVE  TicksKnown'
BY Zenon DEF TimersInv, TicksKnown, Timed, Measured, One, tickVars

\* A step that leaves the watchdog alone keeps its task.
LEMMA WdUnchanged == TimersInv /\ UNCHANGED wdVars => OneLives'
BY Zenon DEF TimersInv, OneLives, wdVars

\* The task is deleted before another is spawned.
LEMMA SpawnedOne ==
  ASSUME Spawned({}) PROVE OneLives' /\ live' \subseteq TaskIds
BY Zenon DEF Spawned, OneLives

\* The watchdog.
LEMMA WatchdogInv ==
  ASSUME TimersInv, WdMain \/ WdHandler \/ Monitored
  PROVE  TimersInv'
<1> USE TimersAssumption
<1>0. /\ UNCHANGED <<timerProg, pitVars, tickVars>> /\ OneLives /\ TimersTypeOK
      /\ expcount \in 0..(TARDY_TERMINATOR + 3)
      /\ timerPc \in {"start", "armed", "startRead", "check", "pause", "paused", "exit"}
  BY Zenon DEF TimersInv, TimersTypeOK, WdMain, WdHandler, Monitored
<1>1. /\ OneLives' /\ live' \subseteq TaskIds
      /\ monitored_tid' \in {0} \cup TaskIds /\ mon_tid' \in {0} \cup TaskIds
      /\ delay' \in {"early", "late"}
  <2>1. CASE WdMain
    BY Zenon, <1>0, <2>1, SpawnedOne DEF WdMain, soft_wd_test, wdVars, OneLives, Spawned,
       TimersTypeOK
  <2>2. CASE WdHandler /\ expcount' <= TARDY_TERMINATOR
    <3>1. DeleteLate = {}
      BY Zenon, <1>0 DEF DeleteLate, OneLives
    <3> QED
      BY Zenon, <1>0, <2>2, <3>1, SpawnedOne
      DEF WdHandler, monitor_interval_expired, Spawned, TimersTypeOK
  <2>3. CASE WdHandler /\ ~(expcount' <= TARDY_TERMINATOR)
    BY Zenon, <1>0, <2>3 DEF WdHandler, monitor_interval_expired, OneLives, TimersTypeOK
  <2>4. CASE Monitored
    BY Zenon, <1>0, <2>4 DEF Monitored, monitored, OneLives, TimersTypeOK
  <2> QED
    BY Zenon, <2>1, <2>2, <2>3, <2>4
<1>2. armed' \in BOOLEAN /\ pending' \in BOOLEAN
  BY <1>0, Zenon DEF WdMain, WdHandler, Monitored, soft_wd_test, monitor_interval_expired,
     monitored,
     StaysArmed, TimersTypeOK
<1>3. expcount' \in 0..(TARDY_TERMINATOR + 3)
  BY <1>0 DEF WdMain, WdHandler, Monitored, soft_wd_test, monitor_interval_expired, monitored,
     wdVars
<1>4. /\ timerPc' \in {"start", "armed", "startRead", "check", "pause", "paused", "exit"}
      /\ timerPc' = timerPc \/ timerPc' \notin {"start", "armed", "startRead"}
  BY Zenon, <1>0 DEF WdMain, WdHandler, Monitored, soft_wd_test, monitor_interval_expired,
     monitored, Woken
<1>5. TicksKnown'
  BY Zenon, <1>0, <1>4, TicksUnchanged
<1>6. TimersTypeOK'
  BY ONLY <1>0, <1>1, <1>2, <1>3, <1>4, Zenon DEF TimersTypeOK, pitVars, tickVars
<1> QED
  BY Zenon, <1>1, <1>5, <1>6 DEF TimersInv

\* The interval timer and what is common to the programs.
LEMMA PitInv ==
  ASSUME TimersInv, Expire \/ Pauses \/ PitMain \/ PitHandler
  PROVE  TimersInv'
<1> USE TimersAssumption
<1>0. /\ UNCHANGED <<timerProg, wdVars, tickVars>> /\ TimersTypeOK
      /\ test_iterations \in -1..MaxIterations
      /\ timerPc \in {"start", "armed", "startRead", "check", "pause", "paused", "exit"}
  BY Zenon DEF TimersInv, TimersTypeOK, Expire, Pauses, EnterPause, PitMain, PitHandler
<1>1. OneLives'
  BY Zenon, <1>0, WdUnchanged
<1>2. armed' \in BOOLEAN /\ pending' \in BOOLEAN /\ abort_test' \in BOOLEAN
  BY <1>0, Zenon DEF Expire, Pauses, EnterPause, PitMain, PitHandler, pit_main, delay_test,
     AbortSet,
     pitVars, TimersTypeOK
<1>3. test_iterations' \in -1..MaxIterations
  BY <1>0 DEF Expire, Pauses, EnterPause, PitMain, PitHandler, delay_test, pitVars
<1>4. /\ timerPc' \in {"start", "armed", "startRead", "check", "pause", "paused", "exit"}
      /\ timerPc' = timerPc \/ timerPc' \notin {"start", "armed", "startRead"}
  BY Zenon, <1>0 DEF Expire, Pauses, EnterPause, PitMain, PitHandler, pit_main, delay_test, Woken
<1>5. TicksKnown'
  BY Zenon, <1>0, <1>4, TicksUnchanged
<1>6. TimersTypeOK'
  BY ONLY <1>0, <1>2, <1>3, <1>4, Zenon DEF TimersTypeOK, wdVars, tickVars
<1> QED
  BY Zenon, <1>1, <1>5, <1>6 DEF TimersInv

\* The numbers of the ticks, as the steps use them.
LEMMA TickTypes ==
  ASSUME TimersInv
  PROVE  /\ TickPeriod \in Nat /\ TickPeriod > 0 /\ MaxClock \in Nat /\ MaxClock > 0
         /\ rtclk \in 1..MaxClock /\ due \in Nat /\ tick_count \in Nat
         /\ rtclk_time \in 0..MaxClock /\ rtclk_start_time \in 0..MaxClock
         /\ rtclk_last_time \in 0..MaxClock /\ accum_jitter \in Nat
         /\ TicksKnown /\ TimersTypeOK
         /\ timerPc \in {"start", "armed", "startRead", "check", "pause", "paused", "exit"}
BY TimersAssumption DEF TimersInv, TimersTypeOK

\* The handler times the tick it has counted.
LEMMA TimeTickKnown ==
  ASSUME TimersInv, TimeTick, UNCHANGED timerProg, timerProg \in TickProgs
  PROVE  TicksKnown' /\ accum_jitter' \in Nat
<1> USE TickTypes
<1>0. /\ inHandler /\ ~inHandler' /\ rtclk_time' = rtclk /\ rtclk_last_time' = rtclk
      /\ timerPc' = timerPc \/ timerPc' \in {"exit", "check"}
      /\ UNCHANGED <<pending, rtclk, due, tick_count, rtclk_start_time>>
  BY Zenon DEF TimeTick, Woken
<1>1. tick_count > 0
  BY Zenon, <1>0 DEF TicksKnown
<1>2. CASE rtclk_last_time = 0
  <2>1. racedStart' = TRUE /\ accum_jitter' \in Nat
    BY <1>2 DEF TimeTick
  <2> QED
    BY Zenon, <1>0, <2>1 DEF TicksKnown
<1>3. CASE rtclk_last_time # 0
  <2>0. accum_jitter' = accum_jitter + Abs(rtclk - rtclk_last_time - TickPeriod)
    BY Zenon, <1>3 DEF TimeTick, JitterOf
  <2>1. UNCHANGED racedStart
    BY Zenon, <1>3 DEF TimeTick
  <2>2. accum_jitter' \in Nat
    BY <2>0 DEF Abs
  <2>3. ASSUME ~racedStart
        PROVE  Abs(rtclk_last_time' - rtclk_start_time' - Timed' * TickPeriod) <= accum_jitter'
    <3>1. Timed = tick_count - 1 /\ Timed' = tick_count /\ Timed \in Int
      BY <1>0 DEF Timed, One
    <3>2. Abs(Measured - Timed * TickPeriod) <= accum_jitter
      BY Zenon, <1>3, <2>3 DEF TicksKnown
    <3>3. (Timed + 1) * TickPeriod = Timed * TickPeriod + TickPeriod /\ Timed * TickPeriod \in Int
      BY <3>1, NextMultiple
    <3>4. Timed + 1 = Timed'
      BY <3>1
    <3>5. Measured \in Int /\ rtclk - rtclk_last_time \in Int /\ accum_jitter \in Int
      BY DEF Measured
    <3>6. Abs((Measured + (rtclk - rtclk_last_time)) - (Timed * TickPeriod + TickPeriod))
            <= accum_jitter + Abs(rtclk - rtclk_last_time - TickPeriod)
      <4>1. Timed * TickPeriod \in Int
        BY Zenon, <3>3
      <4> QED
        BY ONLY <3>2, <3>5, <4>1, JitterAccumulates, Zenon
    <3>7. Measured + (rtclk - rtclk_last_time) = rtclk_last_time' - rtclk_start_time'
      BY <1>0 DEF Measured
    <3>8. Timed' * TickPeriod = Timed * TickPeriod + TickPeriod
      BY Zenon, <3>3, <3>4
    <3>9. rtclk_last_time' - rtclk_start_time' - Timed' * TickPeriod
            = (Measured + (rtclk - rtclk_last_time)) - (Timed * TickPeriod + TickPeriod)
      BY ONLY Zenon, <3>7, <3>8
    <3> QED
      BY ONLY Zenon, <2>0, <3>6, <3>9
  <2>4. timerPc' \notin {"start", "armed", "startRead"} \/ racedStart
    BY Zenon, <1>0, <1>3 DEF TicksKnown
  <2> QED
    BY <1>0, <1>1, <2>1, <2>2, <2>3, <2>4 DEF TicksKnown, Measured
<1> QED
  BY Zenon, <1>2, <1>3

\* The tick programs: the clock, main, the two parts of the handler and Ctrl-C.
LEMMA TicksInv ==
  ASSUME TimersInv, ClockTick \/ Ticks
  PROVE  TimersInv'
<1> USE TickTypes
<1>0. UNCHANGED <<timerProg, wdVars, pitVars>> /\ timerProg \in TickProgs
  BY Zenon DEF ClockTick, Ticks
<1>1. OneLives'
  BY Zenon, <1>0, WdUnchanged
<1>2. /\ armed' \in BOOLEAN /\ pending' \in BOOLEAN
      /\ inHandler' \in BOOLEAN /\ racedStart' \in BOOLEAN
  BY Zenon DEF ClockTick, Ticks, ptimer_test, linux_main, vx_ptimer_test, CountTick, TimeTick,
     ptimer_shutdown, tickVars, TimersTypeOK
<1>3. timerPc' \in {"start", "armed", "startRead", "check", "pause", "paused", "exit"}
  BY Zenon DEF ClockTick, Ticks, ptimer_test, CountTick, TimeTick, ptimer_shutdown, Woken
<1>4. /\ TicksKnown'
      /\ rtclk' \in 1..MaxClock /\ due' \in Nat /\ tick_count' \in Nat
      /\ rtclk_time' \in 0..MaxClock /\ rtclk_start_time' \in 0..MaxClock
      /\ rtclk_last_time' \in 0..MaxClock /\ accum_jitter' \in Nat
  <2>1. CASE ClockTick
    BY <1>0, <2>1 DEF ClockTick, TicksKnown, Timed, Measured, One
  <2>2. CASE ptimer_test
    <3>1. /\ UNCHANGED <<rtclk, tick_count, rtclk_time, accum_jitter, inHandler, racedStart>> /\ ~inHandler
          /\ due' \in Nat /\ rtclk_start_time' \in 0..MaxClock /\ rtclk_last_time' \in 0..MaxClock
      BY <2>2 DEF ptimer_test
    <3>2. CASE timerPc = "startRead"
      <4>1. /\ timerPc' = "check" /\ rtclk_last_time' = rtclk_start_time /\ UNCHANGED rtclk_start_time
            /\ rtclk_start_time # 0
        BY Zenon, <2>2, <3>2 DEF ptimer_test, TicksKnown
      <4>2. ASSUME ~racedStart PROVE rtclk_time = 0 /\ Timed = 0 /\ Timed' = 0 /\ Measured' = 0
        BY <3>1, <3>2, <4>1, <4>2 DEF TicksKnown, Timed, Measured, One
      <4>3. ASSUME ~racedStart PROVE Abs(Measured' - Timed' * TickPeriod) <= accum_jitter'
        BY <3>1, <4>2, <4>3 DEF Abs
      <4>4. TicksKnown'
        BY Zenon, <1>0, <3>1, <4>1, <4>2, <4>3 DEF TicksKnown
      <4> QED
        BY Zenon, <3>1, <4>4
    <3>3. CASE timerPc # "startRead"
      <4>1. UNCHANGED rtclk_last_time /\ (timerPc = "armed" \/ UNCHANGED rtclk_start_time)
        BY Zenon, <2>2, <3>3 DEF ptimer_test
      <4>2. CASE timerPc = "armed"
        <5>1. timerPc' = "startRead" /\ rtclk_start_time' # 0
          BY <2>2, <4>2 DEF ptimer_test
        <5> QED
          BY Zenon, <1>0, <3>1, <4>1, <4>2, <5>1 DEF TicksKnown, Timed, One
      <4>3. CASE timerPc # "armed"
        <5>1. /\ timerPc' \in {"armed", "paused"} /\ (timerPc' = "armed" => timerPc = "start")
              /\ UNCHANGED rtclk_start_time
          BY Zenon, <2>2, <3>3, <4>1, <4>3 DEF ptimer_test
        <5> QED
          BY Zenon, <1>0, <3>1, <4>1, <5>1 DEF TicksKnown, Timed, Measured, One
      <4> QED
        BY Zenon, <4>2, <4>3
    <3> QED
      BY Zenon, <3>2, <3>3
  <2>3. CASE CountTick
    <3>1. Timed' = Timed /\ Measured' = Measured
      BY <2>3 DEF CountTick, Timed, Measured, One
    <3> QED
      BY <1>0, <2>3, <3>1 DEF CountTick, TicksKnown
  <2>4. CASE TimeTick
    <3>1. TicksKnown' /\ accum_jitter' \in Nat
      BY Zenon, <1>0, <2>4, TimeTickKnown
    <3>2. rtclk_time' = rtclk /\ rtclk_last_time' = rtclk /\ UNCHANGED <<rtclk, due, tick_count, rtclk_start_time>>
      BY Zenon, <2>4 DEF TimeTick
    <3> QED
      BY <3>1, <3>2
  <2>5. CASE ptimer_shutdown
    BY Zenon, <1>0, <2>5, TicksUnchanged DEF ptimer_shutdown, tickVars
  <2> QED
    BY Zenon, <2>1, <2>2, <2>3, <2>4, <2>5 DEF Ticks
<1>5. TimersTypeOK'
  BY ONLY <1>0, <1>2, <1>3, <1>4, TimersInv, TickTypes, Zenon DEF TimersTypeOK, wdVars, pitVars
<1> QED
  BY Zenon, <1>1, <1>4, <1>5 DEF TimersInv

\* Every step of the four programs keeps it.
LEMMA TimersStepInv == TimersInv /\ [TimersNext]_timerVars => TimersInv'
<1>1. ASSUME TimersInv, UNCHANGED timerVars PROVE TimersInv'
  <2>1. UNCHANGED <<timerProg, armed, pending, timerPc, wdVars, pitVars, tickVars>>
    BY Zenon, <1>1 DEF timerVars
  <2>2. armed' = armed /\ pending' = pending /\ abort_test' = abort_test
        /\ inHandler' = inHandler /\ racedStart' = racedStart
    BY Zenon, <2>1 DEF pitVars, tickVars
  <2>3. armed' \in BOOLEAN /\ pending' \in BOOLEAN /\ abort_test' \in BOOLEAN
        /\ inHandler' \in BOOLEAN /\ racedStart' \in BOOLEAN
    BY ONLY TimersInv, <2>2, Zenon DEF TimersInv, TimersTypeOK
  <2>4. TimersTypeOK'
    BY Zenon, <1>1, <2>1, <2>3 DEF TimersInv, TimersTypeOK, wdVars, pitVars, tickVars
  <2> QED
    BY Zenon, <1>1, <2>1, <2>4, WdUnchanged, TicksUnchanged DEF TimersInv
<1> QED
  BY Zenon, <1>1, WatchdogInv, PitInv, TicksInv DEF TimersNext

\* It says that one task is monitored and that the report is consistent.
LEMMA TimersInvSafe == TimersInv => TimersConsistent
<1> SUFFICES ASSUME TimersInv PROVE TimersConsistent
  BY Zenon
<1> USE TickTypes
<1>1. OneMonitored
  BY Zenon DEF TimersInv, OneLives, OneMonitored
<1>2. ASSUME rtclk_time # 0, ~racedStart
      PROVE  Abs(rtclk_time - rtclk_start_time - tick_count * TickPeriod)
               <= accum_jitter + (IF inHandler THEN TickPeriod ELSE 0)
  <2>1. rtclk_time = rtclk_last_time /\ Abs(Measured - Timed * TickPeriod) <= accum_jitter
    BY Zenon, <1>2 DEF TicksKnown
  <2>2. Measured = rtclk_time - rtclk_start_time /\ Measured \in Int
    BY <2>1 DEF Measured
  <2>3. CASE ~inHandler
    BY <2>1, <2>2, <2>3 DEF Timed, One
  <2>4. CASE inHandler
    <3>1. tick_count - 1 \in Int /\ tick_count = (tick_count - 1) + 1 /\ Timed = tick_count - 1
      BY <2>4 DEF Timed, One
    <3>2. /\ ((tick_count - 1) + 1) * TickPeriod = (tick_count - 1) * TickPeriod + TickPeriod
          /\ (tick_count - 1) * TickPeriod \in Int
      BY <3>1, NextMultiple
    <3>3. tick_count * TickPeriod = Timed * TickPeriod + TickPeriod /\ Timed * TickPeriod \in Int
      BY Zenon, <3>1, <3>2
    <3>4. \A e \in Int : Abs(Measured - e) <= accum_jitter
                           => Abs(Measured - (e + TickPeriod)) <= accum_jitter + TickPeriod
      BY <2>2 DEF Abs
    <3> QED
      BY Zenon, <2>1, <2>2, <2>4, <3>3, <3>4
  <2> QED
    BY Zenon, <2>3, <2>4
<1> QED
  BY Zenon, <1>1, <1>2 DEF TimersConsistent, ReportConsistent

\* For any period, limit and number of expirations: the watchdog never has two
\* monitored tasks, and what the tick programs report is consistent.
THEOREM TimersCorrect == TimersSpec => []TimersConsistent
<1>1. TimersInitAt("start") => TimersInv
  BY Zenon, TimersInitInv
<1> QED
  BY <1>1, TimersStepInv, TimersInvSafe, PTL DEF TimersSpec

-----------------------------------------------------------------------------
(* erast.c: the sieve leaves exactly the primes.  A thread that writes its  *)
(* byte back under the semaphore of the byte's region clears one bit and no *)
(* other; the shares of the threads are all the multiples of p; and what    *)
(* lies below the root of MAX has had its round, so a number that is still   *)
(* set at the end has no factor.                                            *)

\* A nonempty set of naturals has a least member.
LEMMA NatMin ==
  ASSUME NEW S, S \subseteq Nat, S # {}
  PROVE  \E m \in S : \A n \in S : m <= n
<1>1. PICK m \in S : \A n \in S : ~(<<n, m>> \in OpToRel(<, Nat))
  BY Zenon, WFMin, NatLessThanWellFounded
<1>2. \A n \in S : ~(n < m)
  BY Zenon, <1>1 DEF OpToRel
<1> QED
  BY <1>2

\* Division with remainder.
LEMMA Division ==
  ASSUME NEW n \in Nat, NEW d \in Nat, d > 0
  PROVE  /\ n \div d \in Nat
         /\ n % d \in 0..(d - 1)
         /\ n = d * (n \div d) + (n % d)
<1>1. n \div d \in Nat
  OBVIOUS
<1>2. n % d \in 0..(d - 1)
  OBVIOUS
<1>3. n = d * (n \div d) + (n % d)
  OBVIOUS
<1> QED
  BY ONLY <1>1, <1>2, <1>3

\* Products of naturals: what the proofs use of them.
LEMMA Products ==
  ASSUME NEW a \in Nat, NEW b \in Nat, NEW c \in Nat
  PROVE  /\ a * b \in Nat /\ a * b = b * a
         /\ (a * b) * c = a * (b * c)
         /\ (a + b) * c = (a * c) + (b * c)
         /\ a <= b => a * c <= b * c
<1>1. a * b \in Nat /\ a * b = b * a
  OBVIOUS
<1>2. (a * b) * c = a * (b * c)
  OBVIOUS
<1>3. (a + b) * c = (a * c) + (b * c)
  OBVIOUS
<1>4. a <= b => a * c <= b * c
  OBVIOUS
<1> QED
  BY ONLY <1>1, <1>2, <1>3, <1>4

\* Squares grow with their roots.
LEMMA Squares ==
  ASSUME NEW a \in Nat, NEW b \in Nat, a <= b
  PROVE  a * a <= b * b
  OBVIOUS

\* A factor leaves no remainder, and a product of two numbers above 1 exceeds
\* both.
LEMMA Factors ==
  ASSUME NEW a \in Nat, NEW b \in Nat
  PROVE  /\ b > 0 => (a * b) % b = 0
         /\ (a > 1 /\ b > 1) => (a < a * b /\ b < a * b)
<1>1. b > 0 => (a * b) % b = 0
  OBVIOUS
<1>2. (a > 1 /\ b > 1) => (a < a * b /\ b < a * b)
  OBVIOUS
<1> QED
  BY ONLY <1>1, <1>2

\* A product of two numbers above 1 is not prime.
LEMMA Composite ==
  ASSUME NEW a \in Nat, NEW b \in Nat, a > 1, b > 1
  PROVE  a * b \in Nat /\ ~Prime(a * b)
<1>1. a * b \in Nat /\ (a * b) % b = 0 /\ b < a * b
  BY Factors, Products
<1>2. b \in 2..((a * b) - 1)
  BY ONLY <1>1, b \in Nat, b > 1
<1> QED
  BY Zenon, <1>1, <1>2 DEF Prime

\* A number above 1 that is not prime has a prime factor no larger than its
\* root: the sieve may stop at the root of MAX.
LEMMA PrimeFactor ==
  ASSUME NEW n \in Nat, n > 1, ~Prime(n)
  PROVE  \E d, k \in Nat : d > 1 /\ k > 1 /\ n = k * d /\ Prime(d) /\ d * d <= n
<1> DEFINE S == {d \in 2..(n - 1) : n % d = 0}
<1>1. S \subseteq Nat /\ S # {}
  <2>1. \E d \in 2..(n - 1) : n % d = 0
    BY Zenon DEF Prime
  <2>2. 2..(n - 1) \subseteq Nat
    OBVIOUS
  <2> QED
    BY Zenon, <2>1, <2>2
<1>2. PICK d \in S : \A e \in S : d <= e
  BY Zenon, <1>1, NatMin
<1>3. d \in Nat /\ d > 1 /\ d < n /\ n % d = 0
  BY <1>2
<1> DEFINE k == n \div d
<1>4. k \in Nat /\ n = d * k
  <2>1. d > 0
    BY ONLY <1>3
  <2>2. k \in Nat /\ n = d * k + (n % d)
    BY Zenon, <2>1, <1>3, Division
  <2>3. d * k \in Nat
    BY Zenon, <2>2, <1>3, Products
  <2> HIDE DEF k
  <2> QED
    BY ONLY <2>2, <2>3, <1>3
<1> HIDE DEF k
<1>5. k > 1
  BY ONLY <1>3, <1>4, n > 1
<1>6. k < n /\ n % k = 0
  <2>1. (d * k) % k = 0 /\ k < d * k
    BY ONLY <1>3, <1>4, <1>5, Factors
  <2> QED
    BY Zenon, <2>1, <1>4
<1>7. d <= k
  <2>1. k \in 2..(n - 1)
    BY ONLY <1>4, <1>5, <1>6, n \in Nat
  <2> QED
    BY Zenon, <2>1, <1>6, <1>2
<1>8. n = k * d /\ d * d <= n
  <2>1. d * d <= k * d /\ k * d = d * k
    BY ONLY <1>3, <1>4, <1>7, Products
  <2> QED
    BY Zenon, <2>1, <1>4
<1>9. Prime(d)
  <2>1. SUFFICES ASSUME NEW e \in 2..(d - 1), d % e = 0 PROVE FALSE
    BY Zenon, <1>3 DEF Prime
  <2>2. e \in Nat /\ e > 0 /\ e > 1 /\ e < d
    BY ONLY <1>3, e \in 2..(d - 1)
  <2> DEFINE c == d \div e
  <2>3. c \in Nat /\ d = e * c + (d % e)
    BY Zenon, <2>2, <1>3, Division
  <2> HIDE DEF c
  <2>4. d = c * e
    <3>1. e * c \in Nat /\ e * c = c * e
      BY Zenon, <2>2, <2>3, Products
    <3> QED
      BY ONLY <3>1, <2>3, d % e = 0, d \in Nat
  <2>5. n = (k * c) * e /\ k * c \in Nat
    <3>1. (k * c) * e = k * (c * e) /\ k * c \in Nat
      BY ONLY <1>4, <2>2, <2>3, Products
    <3> QED
      BY Zenon, <3>1, <2>4, <1>8
  <2>6. n % e = 0
    <3>1. ((k * c) * e) % e = 0
      BY Zenon, <2>2, <2>5, Factors
    <3> QED
      BY Zenon, <3>1, <2>5
  <2>7. e \in 2..(n - 1)
    BY ONLY <2>2, <1>3, n \in Nat
  <2>8. d <= e
    BY Zenon, <2>6, <2>7, <1>2
  <2> QED
    BY ONLY <2>8, <2>2, <1>3
<1> QED
  BY Zenon, <1>3, <1>4, <1>5, <1>8, <1>9

-----------------------------------------------------------------------------
\* The m-th multiple of p that falls to thread t
Share(t, m) == ((2 + threadID(t)) + m * NUM_THREADS) * p

\* Every multiple of q above q itself is cleared
Gone(q) == \A k \in Nat : k > 1 => k * q \notin isprime

\* Thread t stands at its i-th multiple, and those before it are cleared
StandsAt(t, i) ==
  /\ gridJ[t] = (2 + i * NUM_THREADS) * p
  /\ \A m \in Nat : m < i => Share(t, m) \notin isprime

\* Thread t clears its multiples of p, or it is over and they are cleared
Clearing(t) ==
  \/ grid[t] \in {"loop", "write"} /\ \E i \in Nat : StandsAt(t, i)
  \/ grid[t] = "exit" /\ \A m \in Nat : Share(t, m) \notin isprime

\* Where the threads are in each phase of main
SievePhases ==
  /\ sievePc \in {"init", "next"} => created = 0
  /\ sievePc = "init" => p = 2
  /\ sievePc = "create" => \A t \in SieveThreads :
       IF t < created THEN Clearing(t) ELSE grid[t] \in {"none", "exit"}
  /\ sievePc = "join" => \A t \in SieveThreads :
       Clearing(t) /\ (t < created => grid[t] = "exit")
  /\ sievePc = "next" => \A t \in SieveThreads : Clearing(t) /\ grid[t] = "exit"
  /\ sievePc \in {"init", "done"} => \A t \in SieveThreads : grid[t] \in {"none", "exit"}

\* A thread between its read and its write holds the semaphore of its byte,
\* alone, and the byte it has read is still the byte of the array
SieveLocks ==
  /\ \A t \in SieveThreads : grid[t] = "write" =>
       /\ LockOf(Multiple(t)) \notin freeLocks
       /\ oldByte[t] = {n \in isprime : ByteOf(n) = ByteOf(Multiple(t))}
  /\ \A t, u \in SieveThreads :
       (grid[t] = "write" /\ grid[u] = "write" /\ t # u)
         => LockOf(Multiple(t)) # LockOf(Multiple(u))
  /\ \A t \in SieveThreads : grid[t] = "write" => gridJ[t] <= MAX

\* No prime is cleared, and the multiples of what lies below p are
SieveBits ==
  /\ sievePc # "init" => isprime \subseteq 2..MAX
  /\ sievePc # "init" => \A n \in 2..(MAX - 1) : Prime(n) => n \in isprime
  /\ sievePc \notin {"init", "done"} => \A q \in isprime : q < p => Gone(q)

SieveInv ==
  /\ SieveTypeOK /\ DOMAIN oldByte = SieveThreads
  /\ SievePhases /\ SieveLocks /\ SieveBits /\ SieveExact

\* threadID numbers the threads without repetition from 0: it meets every
\* number below NUM_THREADS.
LEMMA ThreadIDOnto ==
  /\ \A t \in SieveThreads : threadID(t) \in 0..(NUM_THREADS - 1)
  /\ \A r \in 0..(NUM_THREADS - 1) : \E t \in SieveThreads : threadID(t) = r
<1>1. NUM_THREADS \in Nat /\ NUM_THREADS > 0 /\ NUM_THREADS % 2 = 0
  BY SieveAssumption
<1>2. \A t \in SieveThreads : threadID(t) \in 0..(NUM_THREADS - 1)
  BY <1>1 DEF SieveThreads, threadID
<1>3. ASSUME NEW r \in 0..(NUM_THREADS - 1)
      PROVE  \E t \in SieveThreads : threadID(t) = r
  <2>1. CASE r % 2 = 0
    <3>1. r + 1 \in SieveThreads /\ (r + 1) % 2 # 0 /\ (r + 1) - 1 = r
      BY <1>1, <2>1 DEF SieveThreads
    <3> QED
      BY Zenon, <3>1 DEF threadID
  <2>2. CASE r % 2 # 0
    <3> DEFINE t == (NUM_THREADS - 1) - r
    <3>1. t \in SieveThreads /\ t % 2 = 0 /\ (NUM_THREADS - 1) - t = r
      BY <1>1, <2>2 DEF SieveThreads
    <3> HIDE DEF t
    <3> QED
      BY Zenon, <3>1 DEF threadID
  <2> QED
    BY Zenon, <2>1, <2>2
<1> QED
  BY Zenon, <1>2, <1>3

\* A thread's multiples: they are composite, they grow, the next one is what
\* Multiple says, and a step of the loop moves gridJ to the next.
LEMMA ShareFacts ==
  ASSUME NEW t \in SieveThreads, NEW m \in Nat, p \in Nat, p > 1
  PROVE  /\ Share(t, m) \in Nat /\ ~Prime(Share(t, m))
         /\ \A i \in Nat : m <= i => Share(t, m) <= Share(t, i)
         /\ gridJ[t] = (2 + m * NUM_THREADS) * p =>
              /\ Multiple(t) = Share(t, m)
              /\ gridJ[t] + NUM_THREADS * p = (2 + (m + 1) * NUM_THREADS) * p
              /\ gridJ[t] \in Nat /\ gridJ[t] <= Multiple(t)
<1> DEFINE a == threadID(t)
           NT == NUM_THREADS
<1>1. a \in Nat /\ NT \in Nat /\ NT > 0
  <2>1. NT \in Nat /\ NT > 0
    BY SieveAssumption
  <2>2. a \in 0..(NT - 1)
    BY Zenon, ThreadIDOnto
  <2> HIDE DEF a, NT
  <2> QED
    BY ONLY <2>1, <2>2
<1>s. \A i : Share(t, i) = ((2 + a) + i * NT) * p
  BY Zenon DEF Share
<1>j. Multiple(t) = gridJ[t] + a * p
  BY Zenon DEF Multiple
<1> HIDE DEF a, NT
<1>2. \A i \in Nat : i * NT \in Nat /\ (m <= i => m * NT <= i * NT)
  BY ONLY <1>1, m \in Nat, Products
<1>3. (2 + a) + m * NT \in Nat /\ (2 + a) + m * NT > 1
  BY ONLY <1>1, <1>2, m \in Nat
<1>4. Share(t, m) \in Nat /\ ~Prime(Share(t, m))
  BY Zenon, <1>s, <1>3, Composite
<1>5. ASSUME NEW i \in Nat, m <= i
      PROVE  Share(t, m) <= Share(t, i)
  <2>1. (2 + a) + i * NT \in Nat /\ (2 + a) + m * NT <= (2 + a) + i * NT
    BY ONLY <1>1, <1>2, <1>5, m \in Nat
  <2>2. ((2 + a) + m * NT) * p <= ((2 + a) + i * NT) * p
    BY ONLY <2>1, <1>3, p \in Nat, Products
  <2> QED
    BY <2>2, <1>s
<1>6. ASSUME gridJ[t] = (2 + m * NT) * p
      PROVE  /\ Multiple(t) = Share(t, m)
             /\ gridJ[t] + NT * p = (2 + (m + 1) * NT) * p
             /\ gridJ[t] \in Nat /\ gridJ[t] <= Multiple(t)
  <2>1. 2 + m * NT \in Nat /\ (m + 1) * NT = m * NT + NT
    <3>1. (m + 1) * NT = (m * NT) + (1 * NT)
      BY ONLY <1>1, m \in Nat, Products
    <3> QED
      BY ONLY <3>1, <1>1, <1>2, m \in Nat
  <2>2. /\ (2 + m * NT) * p \in Nat /\ a * p \in Nat /\ NT * p \in Nat
        /\ ((2 + m * NT) + a) * p = (2 + m * NT) * p + a * p
        /\ ((2 + m * NT) + NT) * p = (2 + m * NT) * p + NT * p
    BY ONLY <2>1, <1>1, p \in Nat, Products
  <2>3. /\ (2 + m * NT) + a = (2 + a) + m * NT
        /\ (2 + m * NT) + NT = 2 + (m + 1) * NT
    BY ONLY <2>1, <1>1, <1>2, m \in Nat
  <2>4. Multiple(t) = Share(t, m)
    BY Zenon, <2>2, <2>3, <1>6, <1>s, <1>j
  <2>5. gridJ[t] + NT * p = (2 + (m + 1) * NT) * p
    BY Zenon, <2>2, <2>3, <1>6
  <2>6. gridJ[t] \in Nat
    BY Zenon, <2>2, <1>6
  <2>7. gridJ[t] <= Multiple(t)
    BY ONLY <2>2, <2>6, <1>j
  <2> QED
    BY Zenon, <2>4, <2>5, <2>6, <2>7
<1> QED
  BY Zenon, <1>4, <1>5, <1>6 DEF NT

\* SieveInv in the state a run begins in, and in that of a run that is over.
LEMMA SieveInitInv ==
  ASSUME NEW at \in {"init", "done"}, SieveInitAt(at)
  PROVE  SieveInv
<1> USE DEF SieveInitAt
<1>1. MAX \in Nat /\ MAX > 3 /\ NUM_THREADS \in Nat /\ NUM_LOCKS \in Nat
  BY SieveAssumption
<1>2. \A n \in 0..MAX : Prime(n) => n \in 2..MAX
  <2>1. \A n \in 0..MAX : n > 1 => n \in 2..MAX
    BY ONLY <1>1
  <2> QED
    BY Zenon, <2>1 DEF Prime
<1>3. isprime \subseteq 0..MAX
  BY <1>1
<1>4. SieveTypeOK
  <2>1. created \in 0..NUM_THREADS /\ p \in 2..MAX
    BY <1>1
  <2>2. 0 \in 0..(NUM_THREADS + 1) * MAX
    BY ONLY <1>1
  <2>3. gridJ \in [SieveThreads -> 0..(NUM_THREADS + 1) * MAX]
    BY Zenon, <2>2
  <2>4. grid \in [SieveThreads -> {"none", "loop", "write", "exit"}]
    BY Zenon
  <2>5. \A t \in SieveThreads : oldByte[t] \subseteq 0..MAX
    BY Zenon
  <2> QED
    BY Zenon, <1>3, <2>1, <2>3, <2>4, <2>5 DEF SieveTypeOK
<1>5. \A t \in SieveThreads : grid[t] = "none"
  BY Zenon
<1>6. SievePhases
  BY <1>5 DEF SievePhases
<1>7. SieveLocks
  BY <1>5 DEF SieveLocks
<1>8. at = "done" => isprime = {n \in 0..MAX : Prime(n)}
  BY Zenon
<1>9. SieveBits
  <2>1. 2..(MAX - 1) \subseteq 0..MAX
    BY ONLY <1>1
  <2> QED
    BY Zenon, <2>1, <1>2, <1>8 DEF SieveBits
<1>10. SieveExact
  BY Zenon, <1>8 DEF SieveExact, chk_isprime
<1>11. DOMAIN oldByte = SieveThreads
  BY Zenon
<1> QED
  BY Zenon, <1>4, <1>6, <1>7, <1>9, <1>10, <1>11 DEF SieveInv

\* A thread that does not move keeps what it has cleared.
LEMMA ClearingKept ==
  ASSUME NEW u \in SieveThreads, Clearing(u), grid'[u] = grid[u],
         gridJ'[u] = gridJ[u], p' = p, isprime' \subseteq isprime
  PROVE  Clearing(u)'
<1>1. \A m : Share(u, m)' = Share(u, m)
  BY Zenon DEF Share
<1>2. ASSUME NEW i \in Nat, StandsAt(u, i)
      PROVE  StandsAt(u, i)'
  BY Zenon, <1>1, <1>2 DEF StandsAt
<1> QED
  BY Zenon, <1>1, <1>2 DEF Clearing

\* Nor do the threads' bytes and semaphores change while the array, the
\* semaphores and the threads do not.
LEMMA LocksKept ==
  ASSUME SieveLocks,
         UNCHANGED <<MAX, isprime, freeLocks, p, grid, gridJ, oldByte>>
  PROVE  SieveLocks'
<1>1. \A u : Multiple(u)' = Multiple(u)
  BY Zenon DEF Multiple
<1>2. /\ MAX' = MAX /\ isprime' = isprime /\ freeLocks' = freeLocks
      /\ grid' = grid /\ gridJ' = gridJ /\ oldByte' = oldByte
  BY Zenon
<1> QED
  BY Zenon, <1>1, <1>2 DEF SieveLocks

\* A thread that has begun a round and not ended it: main waits for it.
LEMMA RunningFacts ==
  ASSUME SieveInv, NEW t \in SieveThreads, grid[t] \in {"loop", "write"}
  PROVE  /\ sievePc \in {"create", "join"} /\ Clearing(t)
         /\ sievePc = "create" => t < created
         /\ sievePc = "join" => ~(t < created)
         /\ \E i \in Nat : StandsAt(t, i)
<1>1. sievePc \in {"create", "join"}
  BY Zenon DEF SieveInv, SieveTypeOK, SievePhases
<1>2. /\ Clearing(t) /\ sievePc = "create" => t < created
      /\ sievePc = "join" => ~(t < created)
  BY Zenon, <1>1 DEF SieveInv, SievePhases
<1> QED
  BY Zenon, <1>1, <1>2 DEF SieveInv, SievePhases, Clearing

\* What the types say in the form the steps use.
LEMMA SieveFacts ==
  ASSUME SieveInv
  PROVE  /\ MAX \in Nat /\ MAX > 3 /\ p \in Nat /\ p > 1 /\ p <= MAX
         /\ NUM_THREADS \in Nat /\ NUM_THREADS > 1 /\ NUM_LOCKS \in Nat
         /\ created \in Nat
<1>1. MAX \in SieveSizes /\ p \in 2..MAX /\ created \in 0..NUM_THREADS
  BY Zenon DEF SieveInv, SieveTypeOK
<1> QED
  BY ONLY <1>1, SieveAssumption

\* A step of a thread that leaves the phases of the others alone.
LEMMA PhasesOfStep ==
  ASSUME SieveInv, NEW t \in SieveThreads, grid[t] \in {"loop", "write"},
         NEW s \in {"loop", "write", "exit"}, grid' = [grid EXCEPT ![t] = s],
         \A u \in SieveThreads : u # t => gridJ'[u] = gridJ[u],
         UNCHANGED <<MAX, sievePc, created, p>>, isprime' \subseteq isprime,
         Clearing(t)'
  PROVE  SievePhases' /\ grid' \in [SieveThreads -> {"none", "loop", "write", "exit"}]
<1>1. grid \in [SieveThreads -> {"none", "loop", "write", "exit"}]
  BY Zenon DEF SieveInv, SieveTypeOK
<1>2. grid' \in [SieveThreads -> {"none", "loop", "write", "exit"}]
  BY Zenon, <1>1
<1>3. \A u \in SieveThreads : u # t => grid'[u] = grid[u]
  BY Zenon, <1>1
<1>4. \A u \in SieveThreads : u # t => (Clearing(u) => Clearing(u)')
  BY Zenon, <1>3, ClearingKept
<1>5. /\ sievePc \in {"create", "join"}
      /\ sievePc = "create" => t < created
      /\ sievePc = "join" => ~(t < created)
  BY Zenon, RunningFacts
<1>6. SievePhases'
  <2>1. CASE sievePc = "create"
    <3>1. \A u \in SieveThreads :
            IF u < created THEN Clearing(u) ELSE grid[u] \in {"none", "exit"}
      BY Zenon, <2>1 DEF SieveInv, SievePhases
    <3>2. \A u \in SieveThreads :
            IF u < created' THEN Clearing(u)' ELSE grid'[u] \in {"none", "exit"}
      BY Zenon, <3>1, <1>3, <1>4, <1>5, <2>1
    <3>3. sievePc' = "create"
      BY Zenon, <2>1
    <3> QED
      BY <3>2, <3>3 DEF SievePhases
  <2>2. CASE sievePc = "join"
    <3>1. \A u \in SieveThreads : Clearing(u) /\ (u < created => grid[u] = "exit")
      BY Zenon, <2>2 DEF SieveInv, SievePhases
    <3>2. \A u \in SieveThreads : Clearing(u)' /\ (u < created' => grid'[u] = "exit")
      BY Zenon, <3>1, <1>3, <1>4, <1>5, <2>2
    <3>3. sievePc' = "join"
      BY Zenon, <2>2
    <3> QED
      BY <3>2, <3>3 DEF SievePhases
  <2> QED
    BY Zenon, <1>5, <2>1, <2>2
<1> QED
  BY Zenon, <1>2, <1>6

\* A thread finds that it has passed MAX, or takes the semaphore of its byte
\* and reads it.
LEMMA GridReadInv ==
  ASSUME SieveInv, NEW t \in SieveThreads, GridRead(t),
         UNCHANGED <<MAX, sievePc, created, p>>
  PROVE  SieveInv'
<1> USE DEF GridRead
<1>1. grid[t] = "loop" /\ isprime' = isprime /\ gridJ' = gridJ
  BY Zenon
<1>2. /\ sievePc \in {"create", "join"} /\ Clearing(t)
      /\ \E i \in Nat : StandsAt(t, i)
  BY Zenon, <1>1, RunningFacts
<1>3. SieveTypeOK /\ SieveLocks /\ SieveBits /\ DOMAIN oldByte = SieveThreads
  BY Zenon DEF SieveInv
<1>4. SieveBits'
  <2>1. \A q : Gone(q)' = Gone(q)
    BY Zenon, <1>1 DEF Gone
  <2> QED
    BY Zenon, <1>1, <1>3, <2>1 DEF SieveBits
<1>5. SieveExact'
  BY Zenon, <1>2 DEF SieveExact
<1>6. \A u : Multiple(u)' = Multiple(u) /\ \A m : Share(u, m)' = Share(u, m)
  BY Zenon, <1>1 DEF Multiple, Share
<1>7. grid \in [SieveThreads -> {"none", "loop", "write", "exit"}]
  BY Zenon, <1>3 DEF SieveTypeOK
<1>8. CASE gridJ[t] >= MAX + 1 \/ Multiple(t) > MAX + 1
  <2>1. grid' = [grid EXCEPT ![t] = "exit"] /\ freeLocks' = freeLocks /\ oldByte' = oldByte
    BY Zenon, <1>8
  <2>2. PICK i \in Nat : StandsAt(t, i)
    BY Zenon, <1>2
  <2>3. \A m \in Nat : Share(t, m) \notin isprime
    <3>1. SUFFICES ASSUME NEW m \in Nat, ~(m < i) PROVE Share(t, m) \notin isprime
      BY Zenon, <2>2 DEF StandsAt
    <3>2. p \in Nat /\ p > 1 /\ MAX \in Nat
      BY Zenon, SieveFacts
    <3>3. gridJ[t] = (2 + i * NUM_THREADS) * p
      BY Zenon, <2>2 DEF StandsAt
    <3>4. /\ Share(t, i) \in Nat /\ Multiple(t) = Share(t, i)
          /\ gridJ[t] \in Nat /\ gridJ[t] <= Multiple(t)
          /\ Share(t, m) \in Nat
      BY Zenon, <3>2, <3>3, ShareFacts
    <3>5. i <= m
      BY ONLY i \in Nat, m \in Nat, <3>1
    <3>6. Share(t, i) <= Share(t, m)
      BY <3>2, <3>5, ShareFacts
    <3>7. Share(t, m) \notin 2..MAX
      BY ONLY <3>2, <3>4, <3>6, <1>8
    <3>8. isprime \subseteq 2..MAX
      BY Zenon, <1>2, <1>3 DEF SieveBits
    <3> QED
      BY Zenon, <3>7, <3>8
  <2>4. grid'[t] = "exit"
    BY Zenon, <2>1, <1>7
  <2>5. Clearing(t)'
    BY Zenon, <2>3, <2>4, <1>1, <1>6 DEF Clearing
  <2>6. SievePhases' /\ grid' \in [SieveThreads -> {"none", "loop", "write", "exit"}]
    BY Zenon, <2>1, <2>5, <1>1, PhasesOfStep
  <2>7. SieveTypeOK' /\ (DOMAIN oldByte = SieveThreads)'
    BY Zenon, <2>1, <2>6, <1>1, <1>3 DEF SieveTypeOK
  <2>8. \A u \in SieveThreads : grid'[u] = "write" => grid[u] = "write"
    BY Zenon, <2>1, <1>7
  <2>9. SieveLocks'
    BY Zenon, <2>1, <2>8, <1>1, <1>3, <1>6 DEF SieveLocks
  <2> QED
    BY Zenon, <1>4, <1>5, <2>6, <2>7, <2>9 DEF SieveInv
<1>9. CASE ~(gridJ[t] >= MAX + 1 \/ Multiple(t) > MAX + 1)
  <2> DEFINE byte == {n \in isprime : ByteOf(n) = ByteOf(Multiple(t))}
  <2>1. /\ grid' = [grid EXCEPT ![t] = "write"]
        /\ LockOf(Multiple(t)) \in freeLocks
        /\ freeLocks' = freeLocks \ {LockOf(Multiple(t))}
        /\ oldByte' = [oldByte EXCEPT ![t] = byte]
    BY Zenon, <1>9 DEF SemFree
  <2>2. grid'[t] = "write" /\ \A u \in SieveThreads : u # t => grid'[u] = grid[u]
    BY Zenon, <2>1, <1>7
  <2>3. oldByte'[t] = byte /\ \A u \in SieveThreads : u # t => oldByte'[u] = oldByte[u]
    BY Zenon, <2>1, <1>3
  <2>4. Clearing(t)'
    <3>1. PICK i \in Nat : StandsAt(t, i)
      BY Zenon, <1>2
    <3>2. StandsAt(t, i)'
      BY Zenon, <3>1, <1>1, <1>6 DEF StandsAt
    <3> QED
      BY Zenon, <3>2, <2>2 DEF Clearing
  <2>5. SievePhases' /\ grid' \in [SieveThreads -> {"none", "loop", "write", "exit"}]
    BY Zenon, <2>1, <2>4, <1>1, PhasesOfStep
  <2>6. SieveTypeOK' /\ (DOMAIN oldByte = SieveThreads)'
    <3>1. byte \subseteq 0..MAX
      BY Zenon, <1>3 DEF SieveTypeOK
    <3>2. \A u \in SieveThreads : oldByte'[u] \subseteq 0..MAX
      BY Zenon, <3>1, <2>3, <1>3 DEF SieveTypeOK
    <3>3. freeLocks' \subseteq 0..NUM_LOCKS - 1
      BY Zenon, <2>1, <1>3 DEF SieveTypeOK
    <3>4. DOMAIN oldByte' = SieveThreads
      BY Zenon, <2>1, <1>3
    <3> QED
      BY Zenon, <3>2, <3>3, <3>4, <2>5, <1>1, <1>3 DEF SieveTypeOK
  <2>7. SieveLocks'
    <3>1. ASSUME NEW u \in SieveThreads, grid'[u] = "write"
          PROVE  /\ (LockOf(Multiple(u)) \notin freeLocks)'
                 /\ (oldByte[u] = {n \in isprime : ByteOf(n) = ByteOf(Multiple(u))})'
                 /\ u # t => LockOf(Multiple(u)) # LockOf(Multiple(t))
      <4>1. CASE u = t
        BY Zenon, <4>1, <2>1, <2>3, <1>1, <1>6
      <4>2. CASE u # t
        <5>1. grid[u] = "write"
          BY Zenon, <4>2, <3>1, <2>2
        <5>2. /\ LockOf(Multiple(u)) \notin freeLocks
              /\ oldByte[u] = {n \in isprime : ByteOf(n) = ByteOf(Multiple(u))}
          BY Zenon, <5>1, <1>3 DEF SieveLocks
        <5> QED
          BY Zenon, <5>2, <4>2, <2>1, <2>3, <1>1, <1>6
      <4> QED
        BY Zenon, <4>1, <4>2
    <3>2. ASSUME NEW u \in SieveThreads, NEW v \in SieveThreads,
                 grid'[u] = "write", grid'[v] = "write", u # v
          PROVE  (LockOf(Multiple(u)) # LockOf(Multiple(v)))'
      <4>1. CASE u = t \/ v = t
        BY Zenon, <4>1, <3>1, <3>2, <1>6
      <4>2. CASE u # t /\ v # t
        BY Zenon, <4>2, <3>2, <2>2, <1>3, <1>6 DEF SieveLocks
      <4> QED
        BY Zenon, <4>1, <4>2
    <3>3. ASSUME NEW u \in SieveThreads, grid'[u] = "write"
          PROVE  gridJ[u] <= MAX
      <4>1. CASE u = t
        <5>1. gridJ[t] \in 0..(NUM_THREADS + 1) * MAX
          BY Zenon, <1>3 DEF SieveTypeOK
        <5>2. (NUM_THREADS + 1) * MAX \in Int /\ MAX \in Nat
          BY SieveFacts
        <5> QED
          BY ONLY <5>1, <5>2, <1>9, <4>1
      <4>2. CASE u # t
        BY <4>2, <3>3, <2>2, <1>3 DEF SieveLocks
      <4> QED
        BY Zenon, <4>1, <4>2
    <3>4. \A u \in SieveThreads : grid'[u] = "write" => gridJ'[u] <= MAX'
      BY <3>3, <1>1
    <3> QED
      BY Zenon, <3>1, <3>2, <3>4 DEF SieveLocks
  <2> QED
    BY Zenon, <1>4, <1>5, <2>5, <2>6, <2>7 DEF SieveInv
<1> QED
  BY Zenon, <1>8, <1>9

\* A thread writes its byte back without the bit of its multiple, posts the
\* semaphore and steps: what changes in the array is that bit alone.
LEMMA GridWriteInv ==
  ASSUME SieveInv, NEW t \in SieveThreads, GridWrite(t),
         UNCHANGED <<MAX, sievePc, created, p>>
  PROVE  SieveInv'
<1> DEFINE n0 == Multiple(t)
<1>1. /\ grid[t] = "write" /\ oldByte' = oldByte
      /\ isprime' = {n \in isprime : ByteOf(n) # ByteOf(n0)} \cup (oldByte[t] \ {n0})
      /\ freeLocks' = freeLocks \cup {LockOf(n0)}
      /\ gridJ' = [gridJ EXCEPT ![t] = gridJ[t] + NUM_THREADS * p]
      /\ grid' = [grid EXCEPT ![t] = "loop"]
  BY Zenon DEF GridWrite, Posted
<1>2. SieveTypeOK /\ SieveLocks /\ SieveBits /\ DOMAIN oldByte = SieveThreads
  BY Zenon DEF SieveInv
<1>3. sievePc \in {"create", "join"}
  BY Zenon, <1>1, RunningFacts
<1>4. PICK i \in Nat : StandsAt(t, i)
  BY Zenon, <1>1, RunningFacts
<1>5. MAX \in Nat /\ p \in Nat /\ p > 1 /\ p <= MAX /\ NUM_THREADS \in Nat
  BY Zenon, SieveFacts
<1>6. gridJ[t] = (2 + i * NUM_THREADS) * p
  BY Zenon, <1>4 DEF StandsAt
<1>7. /\ n0 \in Nat /\ ~Prime(n0) /\ n0 = Share(t, i)
      /\ gridJ[t] \in Nat
      /\ gridJ[t] + NUM_THREADS * p = (2 + (i + 1) * NUM_THREADS) * p
  <2>1. Multiple(t) = Share(t, i)
    BY Zenon, <1>5, <1>6, ShareFacts
  <2>2. Share(t, i) \in Nat /\ ~Prime(Share(t, i))
    BY Zenon, <1>5, ShareFacts
  <2>3. gridJ[t] \in Nat /\ gridJ[t] + NUM_THREADS * p = (2 + (i + 1) * NUM_THREADS) * p
    BY Zenon, <1>5, <1>6, ShareFacts
  <2> QED
    BY Zenon, <2>1, <2>2, <2>3
<1>8. isprime' = isprime \ {n0}
  <2>1. oldByte[t] = {n \in isprime : ByteOf(n) = ByteOf(n0)}
    BY Zenon, <1>1, <1>2 DEF SieveLocks
  <2> HIDE DEF n0
  <2> QED
    BY Zenon, <2>1, <1>1
<1>9. /\ grid \in [SieveThreads -> {"none", "loop", "write", "exit"}]
      /\ gridJ \in [SieveThreads -> 0..(NUM_THREADS + 1) * MAX]
  BY Zenon, <1>2 DEF SieveTypeOK
<1>10. /\ grid'[t] = "loop" /\ gridJ'[t] = gridJ[t] + NUM_THREADS * p
       /\ \A u \in SieveThreads : u # t => (grid'[u] = grid[u] /\ gridJ'[u] = gridJ[u])
  BY Zenon, <1>1, <1>9
<1>11. \A u : \A m : Share(u, m)' = Share(u, m)
  BY Zenon DEF Share
<1>12. \A u \in SieveThreads : u # t => Multiple(u)' = Multiple(u)
  BY Zenon, <1>10 DEF Multiple
<1> HIDE DEF n0
<1>13. Clearing(t)'
  <2>1. i + 1 \in Nat /\ \A m \in Nat : m < i + 1 => (m < i \/ m = i)
    BY ONLY i \in Nat
  <2>2. \A m \in Nat : m < i => Share(t, m) \notin isprime
    BY Zenon, <1>4 DEF StandsAt
  <2>3. \A m \in Nat : m < i + 1 => Share(t, m) \notin isprime'
    BY Zenon, <2>1, <2>2, <1>7, <1>8
  <2>4. StandsAt(t, i + 1)'
    BY Zenon, <2>3, <1>7, <1>10, <1>11 DEF StandsAt
  <2> QED
    BY Zenon, <2>1, <2>4, <1>10 DEF Clearing
<1>14. SievePhases' /\ grid' \in [SieveThreads -> {"none", "loop", "write", "exit"}]
  <2>1. isprime' \subseteq isprime
    BY Zenon, <1>8
  <2>2. \A u \in SieveThreads : u # t => gridJ'[u] = gridJ[u]
    BY Zenon, <1>10
  <2> QED
    BY Zenon, <2>1, <2>2, <1>1, <1>13, PhasesOfStep
<1>15. SieveTypeOK'
  <2>1. isprime' \subseteq 0..MAX
    BY Zenon, <1>2, <1>8 DEF SieveTypeOK
  <2>2. freeLocks' \subseteq 0..NUM_LOCKS - 1
    <3>1. CODE_LENGTH \in Nat /\ CODE_LENGTH > 0 /\ NUM_LOCKS \in Nat /\ NUM_LOCKS > 0
      BY SieveAssumption
    <3>2. n0 \div CODE_LENGTH \in Nat
      BY Zenon, <3>1, <1>7, Division
    <3>3. LockOf(n0) \in 0..NUM_LOCKS - 1
      BY Zenon, <3>1, <3>2, Division DEF LockOf, ByteOf
    <3> QED
      BY Zenon, <3>3, <1>1, <1>2 DEF SieveTypeOK, n0
  <2>3. gridJ' \in [SieveThreads -> 0..(NUM_THREADS + 1) * MAX]
    <3>1. gridJ[t] + NUM_THREADS * p \in 0..(NUM_THREADS + 1) * MAX
      <4>1. gridJ[t] <= MAX
        BY <1>1, <1>2 DEF SieveLocks
      <4>2. /\ p * NUM_THREADS <= MAX * NUM_THREADS
            /\ p * NUM_THREADS = NUM_THREADS * p /\ NUM_THREADS * p \in Nat
            /\ MAX * NUM_THREADS = NUM_THREADS * MAX
            /\ (NUM_THREADS + 1) * MAX = NUM_THREADS * MAX + 1 * MAX
        BY ONLY <1>5, Products
      <4>3. NUM_THREADS * MAX \in Nat
        BY ONLY <1>5, Products
      <4> QED
        BY ONLY <4>1, <4>2, <4>3, <1>5, <1>7
    <3> QED
      BY Zenon, <3>1, <1>1, <1>9
  <2> QED
    BY Zenon, <2>1, <2>2, <2>3, <1>1, <1>2, <1>14 DEF SieveTypeOK
<1>16. SieveLocks'
  <2>1. ASSUME NEW u \in SieveThreads, grid'[u] = "write"
        PROVE  /\ (LockOf(Multiple(u)) \notin freeLocks)'
               /\ (oldByte[u] = {n \in isprime : ByteOf(n) = ByteOf(Multiple(u))})'
               /\ u # t /\ grid[u] = "write"
    <3>1. u # t /\ grid[u] = "write"
      BY <2>1, <1>10
    <3>2. /\ LockOf(Multiple(u)) \notin freeLocks
          /\ oldByte[u] = {n \in isprime : ByteOf(n) = ByteOf(Multiple(u))}
      BY Zenon, <3>1, <1>2 DEF SieveLocks
    <3>3. LockOf(Multiple(u)) # LockOf(n0)
      BY Zenon, <3>1, <1>1, <1>2 DEF SieveLocks, n0
    <3>4. ByteOf(Multiple(u)) # ByteOf(n0)
      BY Zenon, <3>3 DEF LockOf
    <3>5. {n \in isprime : ByteOf(n) = ByteOf(Multiple(u))}
            = {n \in isprime' : ByteOf(n) = ByteOf(Multiple(u))}
      BY Zenon, <3>4, <1>8
    <3>6. Multiple(u)' = Multiple(u)
      BY Zenon, <3>1, <1>12
    <3>7. freeLocks' = freeLocks \cup {LockOf(n0)}
      BY Zenon, <1>1 DEF n0
    <3> QED
      BY Zenon, <3>1, <3>2, <3>3, <3>5, <3>6, <3>7, <1>1
  <2>2. ASSUME NEW u \in SieveThreads, NEW v \in SieveThreads,
               grid'[u] = "write", grid'[v] = "write", u # v
        PROVE  (LockOf(Multiple(u)) # LockOf(Multiple(v)))'
    BY Zenon, <2>1, <2>2, <1>2, <1>12 DEF SieveLocks
  <2>3. ASSUME NEW u \in SieveThreads, grid'[u] = "write"
        PROVE  gridJ'[u] <= MAX'
    <3>1. gridJ'[u] = gridJ[u] /\ grid[u] = "write" /\ MAX' = MAX
      BY Zenon, <2>1, <2>3, <1>10
    <3>2. gridJ[u] <= MAX
      BY <3>1, <1>2 DEF SieveLocks
    <3> QED
      BY ONLY <3>1, <3>2
  <2> QED
    BY Zenon, <2>1, <2>2, <2>3 DEF SieveLocks
<1>17. SieveBits'
  <2>1. isprime \subseteq 2..MAX /\ \A n \in 2..(MAX - 1) : Prime(n) => n \in isprime
    BY Zenon, <1>2, <1>3 DEF SieveBits
  <2>2. \A n \in 2..(MAX - 1) : Prime(n) => n \in isprime'
    BY Zenon, <2>1, <1>7, <1>8
  <2>3. \A q \in isprime : q < p => Gone(q)
    BY Zenon, <1>2, <1>3 DEF SieveBits
  <2>4. \A q \in isprime' : q < p' => Gone(q)'
    BY Zenon, <2>3, <1>8 DEF Gone
  <2> QED
    BY Zenon, <2>1, <2>2, <2>4, <1>8 DEF SieveBits
<1>18. SieveExact'
  BY Zenon, <1>3 DEF SieveExact
<1> QED
  BY Zenon, <1>1, <1>2, <1>14, <1>15, <1>16, <1>17, <1>18 DEF SieveInv

\* main sets the bits before the first round.
LEMMA FirstBitsInv ==
  ASSUME SieveInv, FirstBits, UNCHANGED <<MAX, oldByte>>
  PROVE  SieveInv'
<1>1. /\ sievePc = "init" /\ sievePc' = "create" /\ freeLocks' = 0..NUM_LOCKS - 1
      /\ isprime' = {n \in 2..MAX : n < CODE_LENGTH \/ n < MAX \/ n \in isprime}
      /\ created' = created /\ p' = p /\ grid' = grid /\ gridJ' = gridJ
  BY Zenon DEF FirstBits
<1>2. SieveTypeOK /\ SievePhases /\ SieveLocks /\ DOMAIN oldByte = SieveThreads
  BY Zenon DEF SieveInv
<1>3. created = 0 /\ p = 2 /\ \A t \in SieveThreads : grid[t] \in {"none", "exit"}
  BY Zenon, <1>1, <1>2 DEF SievePhases
<1>4. MAX \in Nat /\ NUM_THREADS \in Nat
  BY Zenon, SieveFacts
<1>5. isprime' \subseteq 2..MAX /\ \A n \in 2..(MAX - 1) : n \in isprime'
  <2>1. \A n \in 2..(MAX - 1) : n \in 2..MAX /\ n < MAX
    BY ONLY <1>4
  <2> QED
    BY Zenon, <2>1, <1>1
<1>6. SieveTypeOK'
  <2>1. 2..MAX \subseteq 0..MAX
    BY ONLY <1>4
  <2>2. isprime' \subseteq 0..MAX
    BY Zenon, <2>1, <1>5
  <2> QED
    BY Zenon, <2>2, <1>1, <1>2 DEF SieveTypeOK
<1>7. SievePhases'
  <2>1. \A t \in SieveThreads : ~(t < 0)
    BY ONLY <1>4 DEF SieveThreads
  <2>2. \A t \in SieveThreads : ~(t < created') /\ grid'[t] \in {"none", "exit"}
    BY Zenon, <2>1, <1>1, <1>3
  <2> QED
    BY <2>2, <1>1 DEF SievePhases
<1>8. SieveLocks'
  <2>1. \A t \in SieveThreads : grid'[t] # "write"
    BY <1>1, <1>3
  <2> QED
    BY Zenon, <2>1 DEF SieveLocks
<1>9. SieveBits'
  <2>1. \A q \in 2..MAX : ~(q < 2)
    BY ONLY <1>4
  <2>2. \A q \in isprime' : ~(q < p')
    BY Zenon, <2>1, <1>1, <1>3, <1>5
  <2> QED
    BY Zenon, <2>2, <1>5 DEF SieveBits
<1>10. SieveExact'
  BY <1>1 DEF SieveExact
<1> QED
  BY Zenon, <1>2, <1>6, <1>7, <1>8, <1>9, <1>10 DEF SieveInv

\* main creates the next thread of the round, or goes on to join them.
LEMMA CreateGridInv ==
  ASSUME SieveInv, CreateGrid, UNCHANGED <<MAX, oldByte>>
  PROVE  SieveInv'
<1> USE DEF CreateGrid
<1>1. /\ sievePc = "create" /\ isprime' = isprime /\ freeLocks' = freeLocks /\ p' = p
      /\ MAX' = MAX /\ oldByte' = oldByte
  BY Zenon
<1>2. SieveTypeOK /\ SievePhases /\ SieveLocks /\ SieveBits /\ DOMAIN oldByte = SieveThreads
  BY Zenon DEF SieveInv
<1>3. \A t \in SieveThreads :
        IF t < created THEN Clearing(t) ELSE grid[t] \in {"none", "exit"}
  BY Zenon, <1>1, <1>2 DEF SievePhases
<1>4. /\ grid \in [SieveThreads -> {"none", "loop", "write", "exit"}]
      /\ gridJ \in [SieveThreads -> 0..(NUM_THREADS + 1) * MAX]
      /\ created \in 0..NUM_THREADS
  BY Zenon, <1>2 DEF SieveTypeOK
<1>5. /\ MAX \in Nat /\ p \in Nat /\ p <= MAX /\ p > 1
      /\ NUM_THREADS \in Nat /\ NUM_THREADS > 1
  BY Zenon, SieveFacts
<1>6. /\ isprime \subseteq 2..MAX
      /\ \A n \in 2..(MAX - 1) : Prime(n) => n \in isprime
      /\ \A q \in isprime : q < p => Gone(q)
  BY <1>1, <1>2 DEF SieveBits
<1>7. ASSUME sievePc' # "done" PROVE SieveBits' /\ SieveExact'
  <2>1. \A q : Gone(q)' = Gone(q)
    BY Zenon, <1>1 DEF Gone
  <2> QED
    BY Zenon, <2>1, <1>1, <1>6, <1>7 DEF SieveBits, SieveExact
<1>8. CASE created < NUM_THREADS
  <2>1. /\ grid' = [grid EXCEPT ![created] = "loop"]
        /\ gridJ' = [gridJ EXCEPT ![created] = 2 * p]
        /\ created' = created + 1 /\ sievePc' = "create"
    BY Zenon, <1>1, <1>8
  <2>2. created \in SieveThreads /\ created + 1 \in 0..NUM_THREADS /\ ~(created < created)
    BY ONLY <1>4, <1>5, <1>8 DEF SieveThreads
  <2>3. /\ grid'[created] = "loop" /\ gridJ'[created] = 2 * p
        /\ \A u \in SieveThreads : u # created => (grid'[u] = grid[u] /\ gridJ'[u] = gridJ[u])
    BY Zenon, <2>1, <2>2, <1>4
  <2>4. grid[created] \in {"none", "exit"}
    BY Zenon, <2>2, <1>3
  <2>5. SieveTypeOK'
    <3>1. 2 * p \in 0..(NUM_THREADS + 1) * MAX
      <4>1. /\ 2 * MAX <= (NUM_THREADS + 1) * MAX
            /\ (NUM_THREADS + 1) * MAX \in Nat
        <5>1. NUM_THREADS + 1 \in Nat /\ 2 <= NUM_THREADS + 1
          BY ONLY <1>5
        <5> QED
          BY ONLY <5>1, <1>5, Products
      <4> QED
        BY ONLY <4>1, <1>5
    <3>2. gridJ' \in [SieveThreads -> 0..(NUM_THREADS + 1) * MAX]
      BY Zenon, <3>1, <2>1, <1>4
    <3>3. grid' \in [SieveThreads -> {"none", "loop", "write", "exit"}]
      BY Zenon, <2>1, <1>4
    <3> QED
      BY <3>2, <3>3, <2>1, <2>2, <1>1, <1>2 DEF SieveTypeOK
  <2>6. \A c \in SieveThreads : c = created => Clearing(c)'
    <3>1. (2 + 0 * NUM_THREADS) * p = 2 * p /\ \A m \in Nat : ~(m < 0)
      BY ONLY <1>5
    <3>2. ASSUME NEW c \in SieveThreads, gridJ'[c] = 2 * p, grid'[c] = "loop"
          PROVE  Clearing(c)'
      <4>1. StandsAt(c, 0)'
        BY Zenon, <3>1, <3>2, <1>1 DEF StandsAt
      <4> QED
        BY <4>1, <3>2 DEF Clearing
    <3> QED
      BY Zenon, <3>2, <2>3
  <2>7. SievePhases'
    <3>1. ASSUME NEW t \in SieveThreads
          PROVE  IF t < created' THEN Clearing(t)' ELSE grid'[t] \in {"none", "exit"}
      <4>1. /\ t < created + 1 => (t < created \/ t = created)
            /\ ~(t < created + 1) => (~(t < created) /\ t # created)
        BY ONLY <1>4, <1>5, t \in SieveThreads DEF SieveThreads
      <4>2. CASE t = created
        BY Zenon, <4>1, <4>2, <2>1, <2>6
      <4>3. CASE t # created /\ t < created
        <5>1. Clearing(t)'
          BY Zenon, <4>3, <2>3, <1>1, <1>3, ClearingKept
        <5> QED
          BY Zenon, <5>1, <4>1, <4>3, <2>1
      <4>4. CASE t # created /\ ~(t < created)
        BY Zenon, <4>1, <4>4, <2>1, <2>3, <1>3
      <4> QED
        BY Zenon, <4>2, <4>3, <4>4
    <3> QED
      BY <3>1, <2>1 DEF SievePhases
  <2>8. SieveLocks'
    <3>1. \A u \in SieveThreads : grid'[u] = "write" => (u # created /\ grid[u] = "write")
      BY <2>3
    <3>2. \A u \in SieveThreads : u # created => Multiple(u)' = Multiple(u)
      BY Zenon, <2>3, <1>1 DEF Multiple
    <3>3. ASSUME NEW u \in SieveThreads, grid'[u] = "write"
          PROVE  /\ (LockOf(Multiple(u)) \notin freeLocks)'
                 /\ (oldByte[u] = {n \in isprime : ByteOf(n) = ByteOf(Multiple(u))})'
      <4>1. grid[u] = "write" /\ Multiple(u)' = Multiple(u)
        BY Zenon, <3>1, <3>2, <3>3
      <4>2. /\ LockOf(Multiple(u)) \notin freeLocks
            /\ oldByte[u] = {n \in isprime : ByteOf(n) = ByteOf(Multiple(u))}
        BY Zenon, <4>1, <1>2 DEF SieveLocks
      <4> QED
        BY Zenon, <4>1, <4>2, <1>1
    <3>4. ASSUME NEW u \in SieveThreads, NEW v \in SieveThreads,
                 grid'[u] = "write", grid'[v] = "write", u # v
          PROVE  (LockOf(Multiple(u)) # LockOf(Multiple(v)))'
      BY Zenon, <3>1, <3>2, <3>4, <1>2 DEF SieveLocks
    <3>5. \A u \in SieveThreads : grid'[u] = "write" => gridJ'[u] <= MAX'
      BY <3>1, <2>3, <1>1, <1>2 DEF SieveLocks
    <3> QED
      BY Zenon, <3>3, <3>4, <3>5 DEF SieveLocks
  <2> QED
    BY <2>1, <2>5, <2>7, <2>8, <1>1, <1>2, <1>7 DEF SieveInv
<1>9. CASE ~(created < NUM_THREADS)
  <2>1. sievePc' = "join" /\ created' = 0 /\ grid' = grid /\ gridJ' = gridJ
    BY Zenon, <1>9
  <2>2. \A t \in SieveThreads : t < created /\ ~(t < 0)
    BY ONLY <1>4, <1>5, <1>9 DEF SieveThreads
  <2>3. \A t \in SieveThreads : Clearing(t)'
    BY Zenon, <2>1, <2>2, <1>1, <1>3, ClearingKept
  <2>4. SievePhases'
    BY <2>1, <2>2, <2>3 DEF SievePhases
  <2>5. SieveTypeOK'
    BY <2>1, <1>1, <1>2, <1>5 DEF SieveTypeOK
  <2>6. SieveLocks'
    BY Zenon, <2>1, <1>1, <1>2, LocksKept
  <2> QED
    BY <2>1, <2>4, <2>5, <2>6, <1>1, <1>2, <1>7 DEF SieveInv
<1> QED
  BY Zenon, <1>8, <1>9

\* main joins the threads of the round in turn.
LEMMA JoinGridInv ==
  ASSUME SieveInv, JoinGrid, UNCHANGED <<MAX, oldByte>>
  PROVE  SieveInv'
<1> USE DEF JoinGrid
<1>1. /\ sievePc = "join" /\ isprime' = isprime /\ freeLocks' = freeLocks /\ p' = p
      /\ grid' = grid /\ gridJ' = gridJ /\ MAX' = MAX /\ oldByte' = oldByte
  BY Zenon
<1>2. SieveTypeOK /\ SievePhases /\ SieveLocks /\ SieveBits /\ DOMAIN oldByte = SieveThreads
  BY Zenon DEF SieveInv
<1>3. \A t \in SieveThreads : Clearing(t) /\ (t < created => grid[t] = "exit")
  BY Zenon, <1>1, <1>2 DEF SievePhases
<1>4. created \in 0..NUM_THREADS /\ NUM_THREADS \in Nat
  BY Zenon, <1>2, SieveFacts DEF SieveTypeOK
<1>5. \A t \in SieveThreads : Clearing(t)'
  BY Zenon, <1>1, <1>3, ClearingKept
<1>6. SieveLocks'
  BY Zenon, <1>1, <1>2, LocksKept
<1>7. sievePc' \in {"join", "next"}
  BY <1>1
<1>8. SieveBits' /\ SieveExact'
  <2>1. \A q : Gone(q)' = Gone(q)
    BY Zenon, <1>1 DEF Gone
  <2> QED
    BY <2>1, <1>1, <1>2, <1>7 DEF SieveBits, SieveExact
<1>9. SievePhases' /\ created' \in 0..NUM_THREADS
  <2>1. CASE created < NUM_THREADS
    <3>1. grid[created] = "exit" /\ created' = created + 1 /\ sievePc' = "join"
      BY Zenon, <1>1, <2>1
    <3>2. created + 1 \in 0..NUM_THREADS
      BY ONLY <1>4, <2>1
    <3>3. \A t \in SieveThreads : t < created + 1 => (t < created \/ t = created)
      BY ONLY <1>4 DEF SieveThreads
    <3>4. \A t \in SieveThreads : t < created' => grid'[t] = "exit"
      BY Zenon, <3>1, <3>3, <1>1, <1>3
    <3> QED
      BY <3>1, <3>2, <3>4, <1>5 DEF SievePhases
  <2>2. CASE ~(created < NUM_THREADS)
    <3>1. sievePc' = "next" /\ created' = 0
      BY Zenon, <2>2
    <3>2. \A t \in SieveThreads : t < created
      BY ONLY <1>4, <2>2 DEF SieveThreads
    <3>3. \A t \in SieveThreads : grid'[t] = "exit"
      BY Zenon, <3>2, <1>1, <1>3
    <3> QED
      BY <3>1, <3>3, <1>4, <1>5 DEF SievePhases
  <2> QED
    BY Zenon, <2>1, <2>2
<1>10. SieveTypeOK'
  BY <1>1, <1>2, <1>7, <1>9 DEF SieveTypeOK
<1> QED
  BY Zenon, <1>1, <1>2, <1>6, <1>8, <1>9, <1>10 DEF SieveInv

\* A round that is over has cleared every multiple of p: the threads' shares,
\* taken from both ends in pairs, leave none out.
LEMMA RoundClears ==
  ASSUME SieveInv, sievePc = "next"
  PROVE  Gone(p)
<1>1. SUFFICES ASSUME NEW k \in Nat, k > 1 PROVE k * p \notin isprime
  BY Zenon DEF Gone
<1> DEFINE m == (k - 2) \div NUM_THREADS
           r == (k - 2) % NUM_THREADS
<1>2. p \in Nat /\ NUM_THREADS \in Nat /\ NUM_THREADS > 1
  BY Zenon, SieveFacts
<1>3. m \in Nat /\ r \in 0..(NUM_THREADS - 1) /\ k - 2 = NUM_THREADS * m + r
  <2>1. k - 2 \in Nat /\ NUM_THREADS > 0
    BY ONLY <1>1, <1>2, k \in Nat
  <2> QED
    BY Zenon, <2>1, <1>2, Division
<1>4. PICK t \in SieveThreads : threadID(t) = r
  BY Zenon, <1>3, ThreadIDOnto
<1> HIDE DEF m, r
<1>5. (2 + r) + m * NUM_THREADS = k
  <2>1. NUM_THREADS * m \in Nat /\ NUM_THREADS * m = m * NUM_THREADS
    BY Zenon, <1>2, <1>3, Products
  <2> QED
    BY ONLY <2>1, <1>2, <1>3, k \in Nat
<1>6. Share(t, m) = k * p
  BY Zenon, <1>4, <1>5 DEF Share
<1>7. Clearing(t) /\ grid[t] = "exit"
  BY Zenon DEF SieveInv, SievePhases
<1>8. Share(t, m) \notin isprime
  BY <1>3, <1>7 DEF Clearing
<1> QED
  BY Zenon, <1>6, <1>8

\* main goes to the next number whose bit is set: another round, or the end,
\* and at the end what is set is prime.
LEMMA NextPrimeInv ==
  ASSUME SieveInv, NextPrime, UNCHANGED <<MAX, oldByte>>
  PROVE  SieveInv'
<1> DEFINE found == {n \in (p + 1)..MAX : chk_isprime(n)}
<1>1. /\ sievePc = "next" /\ isprime' = isprime /\ freeLocks' = freeLocks
      /\ created' = created /\ grid' = grid /\ gridJ' = gridJ /\ MAX' = MAX
      /\ oldByte' = oldByte
      /\ p' = IF found = {} THEN p ELSE CHOOSE n \in found : \A m \in found : n <= m
      /\ sievePc' = IF p' * p' <= MAX THEN "create" ELSE "done"
  BY Zenon DEF NextPrime
<1>2. SieveTypeOK /\ SievePhases /\ SieveBits /\ DOMAIN oldByte = SieveThreads
  BY Zenon DEF SieveInv
<1>3. created = 0 /\ \A t \in SieveThreads : grid[t] = "exit"
  BY Zenon, <1>1, <1>2 DEF SievePhases
<1>4. MAX \in Nat /\ p \in Nat /\ p > 1 /\ p <= MAX /\ NUM_THREADS \in Nat
  BY Zenon, SieveFacts
<1>5. /\ isprime \subseteq 2..MAX
      /\ \A n \in 2..(MAX - 1) : Prime(n) => n \in isprime
      /\ \A q \in isprime : q < p => Gone(q)
  BY <1>1, <1>2 DEF SieveBits
<1>6. /\ p' \in p..MAX /\ p' \in Nat /\ p' > 1 /\ p' <= MAX
      /\ \A q \in isprime : q < p' => (q < p \/ q = p)
  <2>1. CASE found = {}
    <3>1. p' = p
      BY Zenon, <2>1, <1>1
    <3> QED
      BY <3>1, <1>4
  <2>2. CASE found # {}
    <3>1. found \subseteq Nat
      BY ONLY <1>4
    <3>2. \E n \in found : \A m \in found : n <= m
      <4> HIDE DEF found
      <4> QED
        BY Zenon, <3>1, <2>2, NatMin
    <3>3. p' = CHOOSE n \in found : \A m \in found : n <= m
      BY Zenon, <2>2, <1>1
    <3>4. p' \in found /\ \A m \in found : p' <= m
      <4> HIDE DEF found
      <4> QED
        BY <3>2, <3>3
    <3>5. p' \in (p + 1)..MAX
      BY Zenon, <3>4
    <3>6. \A q \in isprime : q \in (p + 1)..MAX => p' <= q
      BY Zenon, <3>4 DEF chk_isprime
    <3>7. \A q \in isprime : q \in Nat /\ q <= MAX
      BY <1>4, <1>5
    <3> QED
      BY ONLY <3>5, <3>6, <3>7, <1>4
  <2> QED
    BY Zenon, <2>1, <2>2
<1>7. \A q \in isprime : q < p' => Gone(q)
  BY Zenon, <1>1, <1>5, <1>6, RoundClears
<1>8. sievePc' \in {"create", "done"}
  BY Zenon, <1>1
<1>9. SievePhases'
  <2>1. \A t \in SieveThreads : ~(t < created') /\ grid'[t] = "exit"
    <3>1. \A t \in SieveThreads : ~(t < 0)
      BY ONLY <1>4 DEF SieveThreads
    <3> QED
      BY Zenon, <3>1, <1>1, <1>3
  <2> QED
    BY <2>1, <1>8 DEF SievePhases
<1>10. SieveLocks'
  <2>1. \A t \in SieveThreads : grid'[t] # "write"
    BY <1>1, <1>3
  <2> QED
    BY Zenon, <2>1 DEF SieveLocks
<1>11. SieveBits'
  <2>1. \A q : Gone(q)' = Gone(q)
    BY Zenon, <1>1 DEF Gone
  <2> QED
    BY Zenon, <2>1, <1>1, <1>5, <1>7 DEF SieveBits
<1>12. SieveTypeOK'
  <2>1. p' \in 2..MAX
    BY ONLY <1>4, <1>6
  <2> QED
    BY <2>1, <1>1, <1>2, <1>8 DEF SieveTypeOK
<1>13. SieveExact'
  <2>1. SUFFICES ASSUME sievePc' = "done", NEW n \in 0..MAX, ~(n = MAX /\ Prime(n))
                 PROVE  n \in isprime <=> Prime(n)
    BY Zenon, <1>1 DEF SieveExact, chk_isprime
  <2>2. ASSUME Prime(n) PROVE n \in isprime
    <3>1. n > 1 /\ n # MAX
      BY Zenon, <2>1, <2>2 DEF Prime
    <3>2. n \in 2..(MAX - 1)
      BY ONLY <3>1, <1>4, n \in 0..MAX
    <3> QED
      BY Zenon, <3>2, <2>2, <1>5
  <2>3. ASSUME n \in isprime, ~Prime(n) PROVE FALSE
    <3>1. n \in 2..MAX
      BY Zenon, <2>3, <1>5
    <3>2. n \in Nat /\ n > 1 /\ n <= MAX
      BY ONLY <3>1, <1>4
    <3>3. PICK d \in Nat, k \in Nat :
            d > 1 /\ k > 1 /\ n = k * d /\ Prime(d) /\ d * d <= n
      BY Zenon, <3>2, <2>3, PrimeFactor
    <3>4. ~(p' * p' <= MAX)
      BY Zenon, <2>1, <1>1
    <3>5. d < p'
      <4>1. ASSUME p' <= d PROVE FALSE
        <5>1. p' * p' <= d * d
          BY ONLY Zenon, <4>1, <1>6, d \in Nat, Squares
        <5> DEFINE a == p' * p'
                   b == d * d
        <5>2. a \in Int /\ b \in Int
          BY ONLY <1>6, d \in Nat
        <5>3. a <= b
          BY ONLY <5>1
        <5>4. b <= n
          BY Zenon, <3>3
        <5>5. ~(a <= MAX)
          BY Zenon, <3>4
        <5> HIDE DEF a, b
        <5> QED
          BY ONLY <5>2, <5>3, <5>4, <5>5, <3>2, <1>4
      <4> QED
        BY <4>1, <1>6
    <3>6. d \in isprime
      <4>1. d < k * d
        BY ONLY <3>3, Factors
      <4>2. d \in 2..(MAX - 1)
        BY ONLY <4>1, <3>2, <3>3, <1>4
      <4> QED
        BY Zenon, <4>2, <3>3, <1>5
    <3>7. Gone(d)
      BY Zenon, <3>5, <3>6, <1>7
    <3> QED
      BY Zenon, <3>3, <3>7, <2>3 DEF Gone
  <2> QED
    BY Zenon, <2>2, <2>3
<1> QED
  BY Zenon, <1>1, <1>2, <1>9, <1>10, <1>11, <1>12, <1>13 DEF SieveInv

\* Every step of the sieve keeps SieveInv.
LEMMA SieveStepInv ==
  ASSUME SieveInv, [SieveNext]_sieveVars
  PROVE  SieveInv'
<1>1. CASE sieve_main
  <2>1. UNCHANGED <<MAX, oldByte>> /\ (FirstBits \/ CreateGrid \/ JoinGrid \/ NextPrime)
    BY Zenon, <1>1 DEF sieve_main
  <2> QED
    BY Zenon, <2>1, FirstBitsInv, CreateGridInv, JoinGridInv, NextPrimeInv
<1>2. CASE \E t \in SieveThreads : invalidate_thread(t)
  <2>1. PICK t \in SieveThreads : invalidate_thread(t)
    BY Zenon, <1>2
  <2>2. UNCHANGED <<MAX, sievePc, created, p>> /\ (GridRead(t) \/ GridWrite(t))
    BY Zenon, <2>1 DEF invalidate_thread
  <2> QED
    BY Zenon, <2>2, GridReadInv, GridWriteInv
<1>3. CASE UNCHANGED sieveVars
  <2>1. /\ MAX' = MAX /\ isprime' = isprime /\ freeLocks' = freeLocks
        /\ sievePc' = sievePc /\ created' = created /\ p' = p /\ grid' = grid
        /\ gridJ' = gridJ /\ oldByte' = oldByte
    BY Zenon, <1>3 DEF sieveVars
  <2>2. SieveLocks'
    BY Zenon, <2>1, LocksKept DEF SieveInv
  <2>3. \A t \in SieveThreads : Clearing(t) => Clearing(t)'
    BY Zenon, <2>1, ClearingKept
  <2>4. SievePhases'
    BY Zenon, <2>1, <2>3 DEF SieveInv, SievePhases
  <2>5. SieveBits'
    <3>1. \A q : Gone(q)' = Gone(q)
      BY Zenon, <2>1 DEF Gone
    <3> QED
      BY Zenon, <3>1, <2>1 DEF SieveInv, SieveBits
  <2>6. SieveExact'
    BY Zenon, <2>1 DEF SieveInv, SieveExact, chk_isprime
  <2>7. SieveTypeOK' /\ (DOMAIN oldByte = SieveThreads)'
    BY Zenon, <2>1 DEF SieveInv, SieveTypeOK
  <2> QED
    BY Zenon, <2>2, <2>4, <2>5, <2>6, <2>7 DEF SieveInv
<1> QED
  BY Zenon, <1>1, <1>2, <1>3 DEF SieveNext
\* erast.c: when the sieve is over the bits that are set are those of the
\* primes up to MAX (but for MAX itself when it is prime), for every size of
\* the array, every even number of threads, every number of semaphores and in
\* every interleaving of the threads' reads and writes of shared bytes.
THEOREM SieveCorrect == SieveSpec => []SieveExact
<1>1. SieveInitAt("init") => SieveInv
  BY Zenon, SieveInitInv
<1>2. SieveInv /\ [SieveNext]_sieveVars => SieveInv'
  BY Zenon, SieveStepInv
<1>3. SieveInv => SieveExact
  BY Zenon DEF SieveInv
<1> QED
  BY <1>1, <1>2, <1>3, PTL DEF SieveSpec

=============================================================================
