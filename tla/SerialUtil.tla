----------------------------- MODULE SerialUtil -----------------------------
(***************************************************************************)
(* The serial shell (Linux_serial/serialutil.c): its input modes, the      *)
(* block-and-acknowledge file transfer, and the SIGINT menu, which can run *)
(* at any point of the session and makes a pending select fail.            *)
(***************************************************************************)
EXTENDS Naturals

CONSTANTS SerBlocks,   \* bound on blocks asked for in file_tx_setup
          SerMaxSig    \* bound on SIGINTs in a session
ASSUME SerAssumption == SerBlocks \in Nat /\ SerMaxSig \in Nat

VARIABLES
    ser_line, ser_hex, ser_file,   \* line_input_mode, hex_input_mode, file_tx_mode
    ser_cmdmode,   \* command_mode: newline is sent as carriage return
    ser_pc,        \* loop, select, block, ack, exit
    ser_left,      \* file_tx_num_blks
    ser_avail,     \* whole blocks still in the file
    ser_dev,       \* blocks the device has and has not acknowledged
    ser_rx,        \* bytes from the device that were not read
    ser_unacked,   \* blocks sent since the last acknowledgement was read
    ser_raw,       \* the terminal is in character (not line) mode
    ser_sigs       \* SIGINTs so far

servars == <<ser_line, ser_hex, ser_file, ser_cmdmode, ser_pc, ser_left,
             ser_avail, ser_dev, ser_rx, ser_unacked, ser_raw, ser_sigs>>
serModes == <<ser_line, ser_hex, ser_file, ser_cmdmode, ser_raw>>

(* initiate_serial_session with its type argument.                         *)
SerInitAt(pc) ==
    /\ \E type \in {"cmd", "hex", "tty"} :
           ser_line = (type = "cmd") /\ ser_hex = (type = "hex")
    /\ ser_file = FALSE /\ ser_cmdmode = TRUE /\ ser_raw = FALSE
    /\ ser_pc = pc /\ ser_left = 0 /\ ser_avail = 0
    /\ ser_dev = 0 /\ ser_rx = 0 /\ ser_unacked = 0
    /\ ser_sigs = 0

---------------------------------------------------------------------------
(* file_tx_setup: the mode is dropped when the file cannot be opened.      *)
file_tx_setup ==
    \/ /\ ser_file' = TRUE
       /\ ser_left' \in 0 .. SerBlocks
       /\ ser_avail' \in 0 .. SerBlocks
       /\ ser_unacked' = 0
    \/ ser_file' = FALSE /\ UNCHANGED <<ser_left, ser_avail, ser_unacked>>

SerNoTx == UNCHANGED <<ser_file, ser_left, ser_avail, ser_unacked>>

(* The top of the session loop picks the branch.                           *)
SerLoop ==
    /\ ser_pc = "loop"
    /\ ser_pc' = IF ser_file THEN "block" ELSE "select"
    /\ SerNoTx
    /\ UNCHANGED <<ser_line, ser_hex, ser_cmdmode, ser_raw, ser_dev, ser_rx, ser_sigs>>

(* select returns with device output (handle_input reads all of it) or a   *)
(* line or character to send on.                                           *)
SerInput ==
    /\ ser_pc = "select"
    /\ ser_rx' \in {0, ser_rx}
    /\ ser_pc' = "loop"
    /\ SerNoTx
    /\ UNCHANGED <<ser_line, ser_hex, ser_cmdmode, ser_raw, ser_dev, ser_sigs>>

(* An escape command of the teletype branch (tcsetattr first, then         *)
(* file_tx_setup).                                                         *)
SerEscape ==
    /\ ser_pc = "select" /\ ~ser_line /\ ~ser_hex
    /\ \/ /\ ser_line' = TRUE /\ ser_raw' = FALSE /\ ser_pc' = "loop"
          /\ SerNoTx /\ UNCHANGED <<ser_hex, ser_cmdmode>>
       \/ /\ ser_hex' = TRUE /\ ser_raw' = FALSE /\ ser_pc' = "loop"
          /\ SerNoTx /\ UNCHANGED <<ser_line, ser_cmdmode>>
       \/ /\ file_tx_setup /\ ser_raw' = FALSE /\ ser_pc' = "loop"
          /\ UNCHANGED <<ser_line, ser_hex, ser_cmdmode>>
       \/ /\ ser_cmdmode' = ~ser_cmdmode /\ ser_pc' = "loop"
          /\ SerNoTx /\ UNCHANGED <<ser_line, ser_hex, ser_raw>>
       \/ /\ ser_pc' = "exit"
          /\ SerNoTx /\ UNCHANGED <<ser_line, ser_hex, ser_cmdmode, ser_raw>>
    /\ UNCHANGED <<ser_dev, ser_rx, ser_sigs>>

---------------------------------------------------------------------------
SerBlockNoWait ==
    /\ ser_pc = "block" /\ ser_file /\ ser_left > 0
    /\ IF ser_avail = 0
       THEN /\ ser_file' = FALSE
            /\ UNCHANGED <<ser_pc, ser_left, ser_avail, ser_dev, ser_unacked>>
       ELSE /\ ser_avail' = ser_avail - 1
            /\ ser_left' = ser_left - 1
            /\ ser_dev' = ser_dev + 1
            /\ ser_unacked' = ser_unacked + 1
            /\ ser_pc' = "block"
            /\ UNCHANGED ser_file
    /\ UNCHANGED <<ser_line, ser_hex, ser_cmdmode, ser_raw, ser_rx, ser_sigs>>

(* One turn of the transfer loop: read a block and send it, or give up     *)
(* when the file is too short.                                             *)
SerBlock ==
    /\ ser_pc = "block" /\ ser_file /\ ser_left > 0
    /\ IF ser_avail = 0
       THEN /\ ser_file' = FALSE
            /\ UNCHANGED <<ser_pc, ser_left, ser_avail, ser_dev, ser_unacked>>
       ELSE /\ ser_avail' = ser_avail - 1
            /\ ser_left' = ser_left - 1
            /\ ser_dev' = ser_dev + 1
            /\ ser_unacked' = ser_unacked + 1
            /\ ser_pc' = "ack"
            /\ UNCHANGED ser_file
    /\ UNCHANGED <<ser_line, ser_hex, ser_cmdmode, ser_raw, ser_rx, ser_sigs>>

(* The wait for the acknowledgement: any byte counts, the right one or     *)
(* not, and handle_input drains what else has come.                        *)
SerAck ==
    /\ ser_pc = "ack" /\ ser_rx > 0
    /\ ser_rx' = 0
    /\ ser_unacked' = ser_unacked - 1
    /\ ser_pc' = "block"
    /\ UNCHANGED <<serModes, ser_left, ser_avail, ser_dev, ser_sigs>>

SerFileSent ==
    /\ ser_pc = "block" /\ ~(ser_file /\ ser_left > 0)
    /\ ser_file' = FALSE
    /\ ser_pc' = "loop"
    /\ UNCHANGED <<ser_line, ser_hex, ser_cmdmode, ser_raw, ser_left, ser_avail,
                   ser_dev, ser_rx, ser_unacked, ser_sigs>>

(* The device acknowledges a block (external).                             *)
SerDevice ==
    /\ ser_dev > 0
    /\ ser_dev' = ser_dev - 1
    /\ ser_rx' = ser_rx + 1
    /\ UNCHANGED <<serModes, ser_pc, ser_left, ser_avail, ser_unacked, ser_sigs>>

(* user_control_c: the menu, then the interrupted select returns ERROR and *)
(* its branch is left.                                                     *)
user_control_c ==
    /\ ser_pc # "exit" /\ ser_sigs < SerMaxSig
    /\ ser_sigs' = ser_sigs + 1
    /\ \/ /\ ser_line' = FALSE /\ ser_hex' = FALSE /\ ser_raw' = TRUE   \* r, z
          /\ ser_cmdmode' \in BOOLEAN
          /\ UNCHANGED <<ser_file, ser_left, ser_avail, ser_unacked>>
       \/ /\ ser_line' = FALSE /\ ser_hex' = TRUE /\ ser_raw' = FALSE   \* h
          /\ UNCHANGED <<ser_cmdmode, ser_file, ser_left, ser_avail, ser_unacked>>
       \/ /\ ser_line' = TRUE /\ ser_hex' = FALSE /\ ser_raw' = FALSE   \* c
          /\ UNCHANGED <<ser_cmdmode, ser_file, ser_left, ser_avail, ser_unacked>>
       \/ /\ ser_line' = FALSE /\ ser_hex' = FALSE /\ ser_raw' = FALSE  \* f
          /\ file_tx_setup /\ UNCHANGED ser_cmdmode
       \/ /\ ser_line' = FALSE /\ ser_hex' = FALSE /\ ser_raw' = TRUE   \* t, other
          /\ ser_file' = FALSE
          /\ UNCHANGED <<ser_cmdmode, ser_left, ser_avail, ser_unacked>>
    /\ ser_pc' = CASE ser_pc = "select" -> "loop"
                   [] ser_pc = "ack"    -> "block"
                   [] OTHER             -> ser_pc
    /\ UNCHANGED <<ser_dev, ser_rx>>

(* Its choice 'e' closes the device and exits.                             *)
SerMenuExit ==
    /\ ser_pc # "exit" /\ ser_sigs < SerMaxSig
    /\ ser_sigs' = ser_sigs + 1
    /\ ser_line' = FALSE /\ ser_hex' = FALSE /\ ser_raw' = TRUE
    /\ ser_pc' = "exit"
    /\ SerNoTx
    /\ UNCHANGED <<ser_cmdmode, ser_dev, ser_rx>>

SerNext ==
    \/ SerLoop \/ SerInput \/ SerEscape \/ SerBlock \/ SerAck \/ SerFileSent
    \/ SerDevice \/ user_control_c \/ SerMenuExit

SerSpec == SerInitAt("loop") /\ [][SerNext]_servars

(* The session goes on whenever it is not waiting, and the device answers  *)
(* every block.                                                            *)
SerFairness ==
    WF_servars(SerLoop) /\ WF_servars(SerBlock) /\ WF_servars(SerAck)
    /\ WF_servars(SerFileSent) /\ WF_servars(SerDevice)

---------------------------------------------------------------------------
(* A block is sent only after the byte that answers the one before was     *)
(* read, in a session that no SIGINT hits.  (A SIGINT makes the select     *)
(* fail, and the loop sends the next block without an acknowledgement.)    *)
SerPaced ==
    ser_sigs = 0 /\ ser_pc = "block" =>
        ser_unacked = 0 /\ ser_dev = 0

(* Whatever menu choices come at whatever point, line and hex mode are     *)
(* never on together, and the terminal is in character mode only when      *)
(* neither of them reads lines.                                            *)
SerOneReader == ~(ser_line /\ ser_hex) /\ (ser_raw => ~ser_line /\ ~ser_hex)

(* A transfer comes to its end when the device acknowledges each block:    *)
(* also when SIGINTs hit it, or the file is too short.                     *)
SerTransferEnds == ser_pc \in {"block", "ack"} ~> ser_pc \in {"loop", "exit"}

(* Blocks are paced by their acknowledgements and one reader has the       *)
(* terminal, whatever the menu is used for.                                *)
SerSessionSound == SerPaced /\ SerOneReader

=============================================================================
