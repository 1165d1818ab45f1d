------------------------------ MODULE BtEngine ------------------------------
(***************************************************************************)
(* The chip's DMA engine: it runs the program that was loaded, one         *)
(* instruction at a time, and stops on a word that is no instruction.      *)
(***************************************************************************)
EXTENDS BtRegs

VARIABLES
    mc_prog,    \* the program loaded: <<fsize, replace_write_with_skip>>
    mc_pc,      \* address of the next instruction
    mc_lines,   \* how often each line was written since the last interrupt
    mc_field,   \* lines of the current field so far, skipped ones included
    mc_fields,  \* line counts of the fields since the last interrupt
    mc_irqs,    \* frame interrupts raised, modulo NUMFRAMES
    mc_fault    \* the engine met a word that is no instruction

mcvars == <<mc_prog, mc_pc, mc_lines, mc_field, mc_fields, mc_irqs, mc_fault>>

McInit ==
    /\ mc_prog \in DOMAIN Microcode
    /\ mc_pc = <<load_frame_mc(mc_prog[1]), 0>>
    /\ mc_lines = <<>>
    /\ mc_field = 0
    /\ mc_fields = <<>>
    /\ mc_irqs = 0
    /\ mc_fault = FALSE

Op == Word(mc_prog, mc_pc)[1]
Advance(n) == mc_pc' = <<mc_pc[1], mc_pc[2] + n>>

McSync ==
    /\ ~mc_fault /\ Op \in {"FM1", "VRE"}
    /\ Advance(2)
    /\ mc_fields' = IF Op = "VRE" THEN Append(mc_fields, mc_field) ELSE mc_fields
    /\ mc_field' = 0
    /\ UNCHANGED <<mc_prog, mc_lines, mc_irqs, mc_fault>>

McWriteLine ==
    /\ ~mc_fault /\ Op = "WRITE"
    /\ LET dst == Word(mc_prog, <<mc_pc[1], mc_pc[2] + 1>>)
       IN  mc_lines' = (dst :> 1 + (IF dst \in DOMAIN mc_lines
                                    THEN mc_lines[dst] ELSE 0)) @@ mc_lines
    /\ mc_field' = mc_field + 1
    /\ Advance(2)
    /\ UNCHANGED <<mc_prog, mc_fields, mc_irqs, mc_fault>>

McSkip ==
    /\ ~mc_fault /\ Op \in {"SOL", "EOL"}
    /\ mc_field' = IF Op = "EOL" THEN mc_field + 1 ELSE mc_field
    /\ Advance(1)
    /\ UNCHANGED <<mc_prog, mc_lines, mc_fields, mc_irqs, mc_fault>>

(* The interrupt: the lines and fields of the next frame start afresh.     *)
McFrameIrq ==
    /\ ~mc_fault /\ Op = "VRO_IRQ"
    /\ Advance(2)
    /\ mc_irqs' = (mc_irqs + 1) % NUMFRAMES
    /\ mc_lines' = <<>>
    /\ mc_fields' = <<>>
    /\ mc_field' = 0
    /\ UNCHANGED <<mc_prog, mc_fault>>

McJump ==
    /\ ~mc_fault /\ Op = "JUMP"
    /\ mc_pc' = <<Word(mc_prog, <<mc_pc[1], mc_pc[2] + 1>>)[2], 0>>
    /\ UNCHANGED <<mc_prog, mc_lines, mc_field, mc_fields, mc_irqs, mc_fault>>

McFault ==
    /\ ~mc_fault /\ Op = "ZERO"
    /\ mc_fault' = TRUE
    /\ UNCHANGED <<mc_prog, mc_pc, mc_lines, mc_field, mc_fields, mc_irqs>>

McNext == McSync \/ McWriteLine \/ McSkip \/ McFrameIrq \/ McJump \/ McFault

---------------------------------------------------------------------------
(* Lines of a frame buffer that a complete frame has to fill.              *)
LinesOf(fsize, i) ==
    IF fsize = "320x240" THEN {<<"ADDR", "frame", i, 320 * n>> : n \in 0 .. 239}
                         ELSE {<<"ADDR", "y8", i, 80 * n>> : n \in 0 .. 239}

Supported == mc_prog[1] \in {"320x240", "320x240_GS"}

(* When the microcode of a 320x240 mode raises its frame interrupt, every  *)
(* line of exactly one frame buffer has been written exactly once since    *)
(* the last interrupt, and the two buffers take turns starting with 0:     *)
(* what pci_inta_isr assumes when it flips current_frame.                  *)
McFrameComplete ==
    Supported /\ ~mc_prog[2] /\ Op = "VRO_IRQ" =>
        mc_lines = [l \in LinesOf(mc_prog[1], mc_irqs) |-> 1]

(* Both fields of a frame give the chip as many lines as the capture       *)
(* window has (120 after scaling; 240 in the test program), also when      *)
(* replace_write_with_skip turned the writes into skips: one line too many *)
(* or too few would lose field sync (SCERR).                               *)
McFieldsBalanced ==
    Op = "VRO_IRQ" /\ (Supported \/ mc_prog[1] = "test") =>
        LET n == IF Supported THEN 120 ELSE 240
        IN  mc_fields = <<n>> /\ mc_field = n

(* The supported modes and the test program never run into a word the      *)
(* driver did not write.  (80x60 and 640x480, which the file header calls  *)
(* untested, do: their line instructions are stored in another array.)     *)
McNoFault == Supported \/ mc_prog[1] = "test" => ~mc_fault

(* The microcode drives the chip as the handler assumes: complete frames   *)
(* in turn, balanced fields, and no word that is not an instruction.       *)
MicrocodeSound == McFrameComplete /\ McFieldsBalanced /\ McNoFault

=============================================================================
