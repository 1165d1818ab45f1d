------------------------------- MODULE BtRegs -------------------------------
(***************************************************************************)
(* The register values the Bt878 driver computes, and how btvid3.c finds   *)
(* the bridges and the capture card on the PCI bus and routes the card's   *)
(* interrupt.  Pure operators: each of them is what one function of the    *)
(* driver writes, given what it reads.                                     *)
(***************************************************************************)
EXTENDS Integers, Sequences, FiniteSets, SequencesExt, TLC

-----------------------------------------------------------------------------
(***************************************************************************)
(* The RISC programs ("microcode") that the Bt878 driver writes for the    *)
(* chip's DMA engine (BtEngine runs them).  A word of a program is         *)
(* <<opcode, bytes>>, an address <<"ADDR", buffer, frame, offset in        *)
(* UINTs>>, a jump target <<"TO", array>>, or <<"ZERO", 0>> where the      *)
(* array was never written.  The sizes are the ones of btvid.c.            *)
(***************************************************************************)

NUMFRAMES  == 2
MCSIZE     == 488
PUNYMCSIZE == 126
LGMCSIZE   == 968

FrameModes == {"320x240", "320x240_GS", "80x60", "640x480"}

(* Consecutive words ws of an array from index at on.                      *)
Words(array, at, ws) ==
    [a \in {<<array, at + x>> : x \in 0 .. Len(ws) - 1} |-> ws[a[2] - at + 1]]

(* The two-word instructions of the n lines of one field: a pair of skips  *)
(* of skipn bytes, or a write of writen bytes followed by the address of   *)
(* line 0, 1, ...                                                          *)
LineWords(array, at, n, skip, skipn, writen, buf, i, off, stride) ==
    [a \in {<<array, at + x>> : x \in 0 .. 2 * n - 1} |->
        LET x == a[2] - at
        IN  IF x % 2 = 0
            THEN IF skip THEN <<"SOL", skipn>> ELSE <<"WRITE", writen>>
            ELSE IF skip THEN <<"EOL", skipn>>
                 ELSE <<"ADDR", buf, i, off + (x \div 2) * stride>>]

FM1       == <<<<"FM1", 0>>, <<"W1", 0>>>>
VRE_FM1   == <<<<"VRE", 0>>, <<"W1", 0>>>> \o FM1
VRO_IRQ   == <<<<"VRO_IRQ", 0>>, <<"W1", 0>>>>

mc_320x240_frame_same_lines(i, skip) ==
    LET m == MCSIZE * i
    IN  Words("dma", m, FM1)
        @@ LineWords("dma", m + 2, 120, skip, 640, 1280, "frame", i, 0, 640)
        @@ Words("dma", m + 242, VRE_FM1)
        @@ LineWords("dma", m + 246, 120, skip, 640, 1280, "frame", i, 0, 640)
        @@ Words("dma", m + 486, VRO_IRQ)

mc_320x240_frame(i, skip) ==
    LET m == MCSIZE * i
    IN  Words("dma", m, FM1)
        @@ LineWords("dma", m + 2, 120, skip, 640, 1280, "frame", i, 320, 640)
        @@ Words("dma", m + 242, VRE_FM1)
        @@ LineWords("dma", m + 246, 120, skip, 640, 1280, "frame", i, 0, 640)
        @@ Words("dma", m + 486, VRO_IRQ)

mc_320x240_GS_frame(i, skip) ==
    LET m == MCSIZE * i
    IN  Words("dma", m, FM1)
        @@ LineWords("dma", m + 2, 120, skip, 40, 80, "y8", i, 80, 160)
        @@ Words("dma", m + 242, VRE_FM1)
        @@ LineWords("dma", m + 246, 120, skip, 40, 80, "y8", i, 0, 160)
        @@ Words("dma", m + 486, VRO_IRQ)

(* The even lines land in dma_microcode unless they are skips, and both    *)
(* fields get fifteen lines.                                               *)
mc_80x60_frame(i, skip) ==
    LET m == PUNYMCSIZE * i
    IN  Words("puny", m, FM1)
        @@ LineWords("puny", m + 2, 15, skip, 40, 80, "punybuf", i, 20, 40)
        @@ Words("puny", m + 32, VRE_FM1)
        @@ LineWords(IF skip THEN "puny" ELSE "dma", m + 36, 15, skip, 40, 80,
                     "punybuf", i, 0, 40)
        @@ Words("puny", m + 66, VRO_IRQ)

(* All the lines are skips, and they land in dma_microcode.                *)
mc_640x480_frame(i) ==
    LET m == LGMCSIZE * i
    IN  Words("large", m, FM1)
        @@ LineWords("dma", m + 2, 240, TRUE, 1280, 0, "", i, 0, 0)
        @@ Words("large", m + 482, VRE_FM1)
        @@ LineWords("dma", m + 486, 240, TRUE, 1280, 0, "", i, 0, 0)
        @@ Words("large", m + 966, VRO_IRQ)

JUMP(target) == <<<<"JUMP", 0>>, <<"TO", target>>>>

initialize_frame_mc(fsize, skip) ==
    CASE fsize = "80x60" ->
            mc_80x60_frame(0, skip) @@ mc_80x60_frame(1, skip)
            @@ Words("puny", NUMFRAMES * PUNYMCSIZE, JUMP("dma"))
      [] fsize = "320x240_GS" ->
            mc_320x240_GS_frame(0, skip) @@ mc_320x240_GS_frame(1, skip)
            @@ Words("dma", NUMFRAMES * MCSIZE, JUMP("dma"))
      [] fsize = "320x240" ->
            mc_320x240_frame(0, skip) @@ mc_320x240_frame(1, skip)
            @@ Words("dma", NUMFRAMES * MCSIZE, JUMP("dma"))
      [] fsize = "640x480" ->
            mc_640x480_frame(0) @@ mc_640x480_frame(1)
            @@ Words("large", NUMFRAMES * LGMCSIZE, JUMP("dma"))

initialize_test_mc ==
    Words("test", 0, FM1)
    @@ LineWords("test", 2, 240, TRUE, 1280, 0, "", 0, 0, 0)
    @@ Words("test", 482, VRE_FM1)
    @@ LineWords("test", 486, 240, TRUE, 1280, 0, "", 0, 0, 0)
    @@ Words("test", 966, VRO_IRQ \o JUMP("test"))

(* The array whose first word load_frame_mc gives to the                   *)
(* DMA_RISC_START_ADDR register (load_test_mc for the test program).       *)
load_frame_mc(fsize) ==
    CASE fsize \in {"320x240", "320x240_GS"} -> "dma"
      [] fsize = "80x60"   -> "puny"
      [] fsize = "640x480" -> "large"
      [] fsize = "test"    -> "test"

(* Every program, computed once.                                           *)
Microcode ==
    [p \in FrameModes \X BOOLEAN |-> initialize_frame_mc(p[1], p[2])]
    @@ [p \in {<<"test", FALSE>>} |-> initialize_test_mc]

Word(p, a) == IF a \in DOMAIN Microcode[p] THEN Microcode[p][a] ELSE <<"ZERO", 0>>

---------------------------------------------------------------------------
(* configure_ntsc: the capture window, scaling and colour format registers *)
(* of each mode (the even and the odd field get the same values).          *)

ntsc_320x240 ==
    [crop |-> 17, hactive |-> 64, vactive |-> 224, hdelay |-> 60,
     vdelay |-> 22, hscale |-> <<21, 85>>, vscale |-> <<126, 0>>, color |-> 0]

ntsc_320x240_GS ==
    [crop |-> 17, hactive |-> 44, vactive |-> 224, hdelay |-> 70,
     vdelay |-> 22, hscale |-> <<21, 85>>, vscale |-> <<126, 0>>, color |-> 102]

ntsc_80x60 ==
    [crop |-> 16, hactive |-> 80, vactive |-> 224, hdelay |-> 16,
     vdelay |-> 22, hscale |-> <<134, 26>>, vscale |-> <<114, 0>>, color |-> 102]

ntsc_640x480 ==
    [crop |-> 18, hactive |-> 128, vactive |-> 224, hdelay |-> 120,
     vdelay |-> 22, hscale |-> <<2, 170>>, vscale |-> <<96, 0>>, color |-> 0]

configure_ntsc(fsize) ==
    CASE fsize = "320x240"    -> ntsc_320x240
      [] fsize = "320x240_GS" -> ntsc_320x240_GS
      [] fsize = "80x60"      -> ntsc_80x60
      [] fsize = "640x480"    -> ntsc_640x480

(* What the chip makes of them (external): the top bits of the window are  *)
(* in the crop register; colour format 0 is RGB32, 0x66 is Y8.             *)
Hactive(w) == (w.crop % 4) * 256 + w.hactive
Vactive(w) == ((w.crop \div 16) % 4) * 256 + w.vactive
PixelBytes(w) == IF w.color = 0 THEN 4 ELSE 1

(* Bytes one line instruction pair of a program moves or skips.            *)
LineBytes(fsize, skip) ==
    LET w == initialize_frame_mc(fsize, skip)
        a == <<IF fsize = "80x60" THEN "puny" ELSE "dma", 2>>
    IN  IF w[a][1] = "WRITE" THEN w[a][2] ELSE 2 * w[a][2]

(* The microcode's line instructions move exactly the bytes the capture    *)
(* window makes of a line, in the colour and puny and large modes.  (The   *)
(* grayscale 320x240 mode is left out: its window is 300 pixels wide and   *)
(* its instructions move 80 bytes.)                                        *)
BtLineMatchesWindow(fsize, skip) ==
    LET w == configure_ntsc(fsize)
    IN  LineBytes(fsize, skip) = Hactive(w) * PixelBytes(w)

---------------------------------------------------------------------------
(* set_brightness and set_contrast: the value written for an argument, and *)
(* the value printed as "was" for a register content.                      *)

set_brightness(b) ==
    LET c == IF b > 255 THEN 255 ELSE IF b < 0 THEN 0 ELSE b
    IN  IF c + 128 > 255 THEN c + 128 - 255 ELSE c + 128

brightness_was(hb) == IF hb < 127 THEN hb + 128 ELSE hb - 127

set_contrast(c) ==
    LET d == IF c > 255 THEN 255 ELSE IF c < 0 THEN 0 ELSE c
    IN  IF d + 128 > 255 THEN d + 128 - 255 ELSE d + 128

(* A level of brightness (or contrast) shares its register byte with no    *)
(* other level, except that the two ends, 0 and 255, share one; arguments  *)
(* out of range are clamped; and the level printed at the next call is one *)
(* above the level set, but 0 or 1 for the last two.                       *)
BtLevels(b) ==
    LET c == IF b < 0 THEN 0 ELSE IF b > 255 THEN 255 ELSE b
    IN  /\ set_brightness(b) = set_brightness(c) /\ set_contrast(b) = set_contrast(c)
        /\ \A a \in 0 .. 255 :
               \/ set_brightness(a) = set_brightness(b)
               \/ set_contrast(a) = set_contrast(b)
               => a = c \/ {a, c} = {0, 255}
        /\ brightness_was(set_brightness(b)) = IF c < 254 THEN c + 1 ELSE c - 254

set_mux(mux) ==
    25 + (CASE mux = 0 -> 64 [] mux = 1 -> 96 [] mux = 2 -> 32 [] OTHER -> 0)

decimate_frames(count) == IF count > 60 \/ count < 0 THEN -1 ELSE count

---------------------------------------------------------------------------
(* Discovery.  The bus is a sequence of slots in scan order (bus number,   *)
(* then device number); a slot holds a device id or "none" (0xffff).       *)

NBs == {"82441FX", "82439TX", "820820"}
SBs == {"82371SB", "82371AB", "82801AA"}
Devices == <<"NORTH_BRIDGE", "SOUTH_BRIDGE", "CARD1", "CARD2">>
DevNames == {Devices[i] : i \in 1 .. 4}

(* asDefDevtype: <<device, id>> in list order.                             *)
asDefDevtype ==
    <<<<"NORTH_BRIDGE", "82441FX">>, <<"NORTH_BRIDGE", "82439TX">>,
      <<"NORTH_BRIDGE", "820820">>, <<"SOUTH_BRIDGE", "82371SB">>,
      <<"SOUTH_BRIDGE", "82371AB">>, <<"SOUTH_BRIDGE", "82801AA">>,
      <<"CARD1", "BT878">>, <<"CARD2", "BT878">>>>

FindDevTypeInList(found, id) ==
    LET hits == {k \in DOMAIN asDefDevtype :
                    asDefDevtype[k][2] = id}
    IN  IF hits = {} THEN 0 ELSE CHOOSE k \in hits : \A l \in hits : k <= l

(* Index of the first entry for id that was not matched before, 0 if none. *)
FindNextDevTypeInList(found, id) ==
    LET hits == {k \in DOMAIN asDefDevtype :
                    asDefDevtype[k][2] = id /\ k \notin found}
    IN  IF hits = {} THEN 0 ELSE CHOOSE k \in hits : \A l \in hits : k <= l

NoDev == [id |-> "none", slot |-> 0]

(* One slot of the scan: acc is <<PCI_DEV, matched list entries>>.         *)
FillPCIDevSlot(acc, n, id) ==
    LET k == IF id = "none" THEN 0 ELSE FindNextDevTypeInList(acc[2], id)
    IN  IF k = 0 THEN acc
        ELSE <<[acc[1] EXCEPT ![asDefDevtype[k][1]] = [id |-> id, slot |-> n]],
               acc[2] \cup {k}>>

FillPCIDev(bus) ==
    LET step(acc, n) == FillPCIDevSlot(acc, n, bus[n])
    IN  FoldLeft(step, <<[d \in DevNames |-> NoDev], {}>>,
                 [n \in 1 .. Len(bus) |-> n])[1]

(* pciFindDevice with index 0 for every entry: the first slot with its id. *)
findBusDevFunNo(bus, dev) ==
    [d \in DevNames |->
        LET hits == {n \in 1 .. Len(bus) : bus[n] # "none" /\ bus[n] = dev[d].id}
        IN  IF hits = {} THEN [id |-> dev[d].id, slot |-> 0, found |-> FALSE]
            ELSE [id |-> dev[d].id, found |-> TRUE,
                  slot |-> CHOOSE n \in hits : \A m \in hits : n <= m]]

initializePCI_DEV(bus) == findBusDevFunNo(bus, FillPCIDev(bus))

(* OK when both bridges and a capture card were found.                     *)
reportDevFoundStatus(dev) ==
    \A d \in {"NORTH_BRIDGE", "SOUTH_BRIDGE", "CARD1"} : dev[d].found

CONSTANT PciSlots   \* slots of the bus in the enumerated machines
Buses == [1 .. PciSlots -> {"none", "82439TX", "82371AB", "82801AA", "BT878"}]

(* start_video goes on with a device table in which every device found     *)
(* names a slot that holds a device of its own kind, CARD1 is found        *)
(* exactly when a Bt878 is on the bus, CARD2 exactly when there are two,   *)
(* and the status is OK exactly when bridges and card are all present.     *)
(* (CARD2 names the slot of CARD1: pciFindDevice is asked for index 0.)    *)
PciDiscovery(bus) ==
    LET dev   == initializePCI_DEV(bus)
        cards == {n \in 1 .. Len(bus) : bus[n] = "BT878"}
        has(S) == \E n \in 1 .. Len(bus) : bus[n] \in S
    IN  /\ \A d \in DevNames : dev[d].found => bus[dev[d].slot] = dev[d].id
        /\ dev["NORTH_BRIDGE"].found => dev["NORTH_BRIDGE"].id \in NBs
        /\ dev["SOUTH_BRIDGE"].found => dev["SOUTH_BRIDGE"].id \in SBs
        /\ dev["CARD1"].found <=> cards # {}
        /\ dev["CARD2"].found <=> Cardinality(cards) > 1
        /\ reportDevFoundStatus(dev) <=> has(NBs) /\ has(SBs) /\ cards # {}

---------------------------------------------------------------------------
(* Interrupt routing.  The south bridge's routing register is the function *)
(* of pins A to D to bytes; bit 7 set turns the pin's routing off.         *)

BT878INT == 11
Pins == {"A", "B", "C", "D"}
RoutingEnabled(byte) == byte \div 128 = 0

(* The routing register after intel_pci_config (btvid3.c): pin D is the    *)
(* top byte of the long word.                                              *)
route_82371SB(r) == [r EXCEPT !["D"] = 128 + (((r["D"] \div 16) % 8) * 16) + BT878INT]
route_82371AB(r) == [A |-> 128, B |-> 128, C |-> 128, D |-> BT878INT]

(* The 82801AA's routing is left alone; only its APIC is turned on.        *)
intel_pci_config(sb, r) ==
    CASE sb = "82371SB" -> route_82371SB(r)
      [] sb = "82371AB" -> route_82371AB(r)
      [] OTHER          -> r

(* decodePIRQxRouteControlRegister repairs the routing of pin A.           *)
decodePIRQx(r, cardFound) ==
    IF cardFound /\ (~RoutingEnabled(r["A"]) \/ r["A"] % 16 # BT878INT)
    THEN [r EXCEPT !["A"] = BT878INT] ELSE r

RoutingBytes == {0, 3, 11, 128, 139}

(* After the debug helper has run, the card's interrupt pin A is routed to *)
(* BT878INT whatever bridge and routing start_video left behind, and the   *)
(* other pins are as they were.                                            *)
PciRoutingRepaired(sb, r) ==
    LET c == intel_pci_config(sb, r)
        d == decodePIRQx(c, TRUE)
    IN  /\ RoutingEnabled(d["A"]) /\ d["A"] % 16 = BT878INT
        /\ \A p \in Pins \ {"A"} : d[p] = c[p]

---------------------------------------------------------------------------
(* The base address registers: btvid_controller_config writes the MMIO     *)
(* address to every memory decoder and leaves I/O decoders (bit 0) at the  *)
(* all-ones read-back.                                                     *)
bar_config(readback) ==
    CASE readback = 0     -> "none"
      [] readback % 2 = 1 -> "all ones"
      [] OTHER            -> "BTVID_MMIO_ADDR"

(* baseAddressRegisterSizeOfDecodeSpace: position of the lowest bit set    *)
(* above the four flag bits (the C function falls off its end when there   *)
(* is none).                                                               *)
BarSize[k \in 0 .. 31, v \in Nat] ==
    IF v % 2 = 1 THEN k ELSE IF k = 31 THEN 32 ELSE BarSize[k + 1, v \div 2]

baseAddressRegisterSizeOfDecodeSpace(v) == BarSize[0, (v \div 16) * 16]

(* For a decoder of 2^n bytes (n at least 4) whatever its flag bits, the   *)
(* size printed is n, and only memory decoders get the MMIO address.       *)
PciBarSize(n, flags) ==
    LET v == 1073741824 - 2 ^ n + flags  \* all ones above bit n, below bit 30
    IN  /\ baseAddressRegisterSizeOfDecodeSpace(v) = n
        /\ bar_config(v) = "BTVID_MMIO_ADDR" <=> flags % 2 = 0

=============================================================================
