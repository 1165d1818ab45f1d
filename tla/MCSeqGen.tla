------------------------------ MODULE MCSeqGen ------------------------------
(***************************************************************************)
(* One of the thread-driven sequencers runs: seqgen2.c as SeqGen has it,   *)
(* or one of SeqVariants.  The other is a process that does not exist.     *)
(***************************************************************************)
EXTENDS SeqVariants

MCRate == <<1, 2, 3>>

seqgen2Runs == Init /\ S!SvcInit /\ variant = "none" /\ qpc = "sleep" /\ qidx = 1 /\ qcnt = 0
                    /\ created = 0 /\ vjoined = 0 /\ running = FALSE

variantRuns ==
  /\ \E v \in Variants : VarInit(v)
  /\ SvcInit /\ seqPc = "sleep" /\ idx = 1 /\ seqCnt = 0 /\ joined = 0 /\ alive = FALSE

MCInit == seqgen2Runs \/ variantRuns
MCNext == (Next /\ UNCHANGED varVars) \/ (VarNext /\ UNCHANGED vars)
MCSpec == MCInit /\ [][MCNext]_<<vars, varVars>> /\ Fairness /\ VarFairness

\* However the shutdown races the services, each of the four programs comes
\* to its end or to rest with a service stranded; only seqgenex0, whose
\* services are pinned below its sequencer, always joins every thread.
SequencersEnd == ComesToRest /\ Ex0Completes /\ VariantsEnd

=============================================================================
