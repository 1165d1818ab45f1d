----------------------------- MODULE MCDrivers ------------------------------
(***************************************************************************)
(* The drivers and the serial shell side by side: each behaviour runs one  *)
(* of them, and the others stand still in a state without an enabled step. *)
(***************************************************************************)
EXTENDS BtEngine, Btvid, Es1938, SerialUtil

VARIABLE driver   \* the machine this behaviour runs

DriversInit ==
    /\ driver \in {"microcode", "btvid", "es1938", "serial"}
    /\ McInit /\ BtInit
    /\ driver # "microcode" => mc_prog = <<"320x240", FALSE>>
    /\ driver # "btvid" => bt_rev = "btvid"
    /\ EsInitAt(IF driver = "es1938" THEN "card" ELSE "gone")
    /\ SerInitAt(IF driver = "serial" THEN "loop" ELSE "exit")
    /\ driver # "serial" => ser_line

DriversNext ==
    /\ \/ driver = "microcode" /\ McNext /\ UNCHANGED <<btvars, esvars, servars>>
       \/ driver = "btvid" /\ BtNext /\ UNCHANGED <<mcvars, esvars, servars>>
       \/ driver = "es1938" /\ EsNext /\ UNCHANGED <<mcvars, btvars, servars>>
       \/ driver = "serial" /\ SerNext /\ UNCHANGED <<mcvars, btvars, esvars>>
    /\ UNCHANGED driver

DriversSpec ==
    /\ DriversInit
    /\ [][DriversNext]_<<driver, mcvars, btvars, esvars, servars>>
    /\ BtFairness /\ EsFairness /\ SerFairness

(* What a device asks for is served: a finished frame reaches the waiting  *)
(* task, a raised sound interrupt is acknowledged, and a serial transfer   *)
(* ends.                                                                   *)
DriversServe == BtFrameServed /\ EsAcked /\ SerTransferEnds

=============================================================================
