----------------------------- MODULE Redundancy -----------------------------
(***************************************************************************)
(* Two codes that restore lost data: the Hamming code here and the RAID-5  *)
(* stripes below.                                                          *)
(*                                                                         *)
(* hamming-emulator: the extended Hamming code of ecclib.c over one byte   *)
(* of the emulated memory, and flip_bit of ecctest.c.  A memory cell is    *)
(* [data, code]: the set of one bits of the data byte, DATA_BIT_1 being    *)
(* bit 1, and the set of code bits that are set.                           *)
(***************************************************************************)
EXTENDS BitWords, FiniteSets, TLC

NO_ERROR == 0
PW_ERROR == -1
DOUBLE_BIT_ERROR == -3
UNKNOWN_ERROR == -4

Odd(S) == Cardinality(S) % 2 = 1

(* The data bits each parity bit covers.                                   *)
Covers == [p01 |-> {1, 2, 4, 5, 7}, p02 |-> {1, 3, 4, 6, 7},
           p03 |-> {2, 3, 4, 8},    p04 |-> {5, 6, 7, 8}]
SYNBITS == DOMAIN Covers

get_codeword(data) ==
    LET parity == {p \in SYNBITS : Odd(data \intersect Covers[p])}
        whole  == Odd(data) # Odd(parity)
    IN  parity \union {"encoded"} \union IF whole THEN {"pW"} ELSE {}

write_byte(byte) == [data |-> byte, code |-> get_codeword(byte)]

SynValue(s) == (IF "p01" \in s THEN 1 ELSE 0) + (IF "p02" \in s THEN 2 ELSE 0)
               + (IF "p03" \in s THEN 4 ELSE 0) + (IF "p04" \in s THEN 8 ELSE 0)

(* The cell after a read and the value returned.  byteRead is not written. *)
read_byte(ecc) ==
    LET codeword == get_codeword(ecc.data)
        SYNDROME == {p \in SYNBITS : (p \in codeword) # (p \in ecc.code)}
        pW       == "pW" \in ecc.code
        pW2      == Odd(ecc.data) # Odd(ecc.code \intersect SYNBITS)
        restored == [ecc EXCEPT !.code = @ \union IF pW2 THEN {"pW"} ELSE {}]
    IN  CASE SYNDROME = {} /\ pW = pW2 -> [ecc |-> ecc, rc |-> NO_ERROR]
          [] SYNDROME = {} /\ pW # pW2 -> [ecc |-> restored, rc |-> PW_ERROR]
          [] SYNDROME # {} /\ pW = pW2 -> [ecc |-> ecc, rc |-> DOUBLE_BIT_ERROR]
          [] SYNDROME # {} /\ pW # pW2 -> [ecc |-> ecc, rc |-> SynValue(SYNDROME)]

(* The bits of the encoded word, by position: pW p1 p2 d1 p3 d2 d3 d4 p4   *)
(* d5 d6 d7 d8.                                                            *)
flip_bit(ecc, position) ==
    LET toggle(S, x) == IF x \in S THEN S \ {x} ELSE S \union {x}
        code == (0 :> "pW") @@ (1 :> "p01") @@ (2 :> "p02") @@ (4 :> "p03") @@ (8 :> "p04")
        data == (3 :> 1) @@ (5 :> 2) @@ (6 :> 3) @@ (7 :> 4)
                @@ (9 :> 5) @@ (10 :> 6) @@ (11 :> 7) @@ (12 :> 8)
    IN  IF position \in DOMAIN code
        THEN [ecc EXCEPT !.code = toggle(@, code[position])]
        ELSE IF position \in DOMAIN data
        THEN [ecc EXCEPT !.data = toggle(@, data[position])]
        ELSE ecc

---------------------------------------------------------------------------
(* What ecctest.c's loops look for, for every byte: one flipped bit is     *)
(* located by its position, the parity of the whole by PW_ERROR, and two   *)
(* different flipped bits are reported as a double error, never as a       *)
(* correctable one.  Flipping it back gives a clean read.  "restore pW to  *)
(* PW2" (ecclib.c:79) ors the bit in, so only a parity bit that should be  *)
(* one is repaired by the read that reports it.                            *)
EccDetects(byte, i, j) ==
    LET w  == write_byte(byte)
        w1 == flip_bit(w, i)
        w2 == flip_bit(w1, j)
    IN  /\ read_byte(w).rc = NO_ERROR
        /\ read_byte(w1).rc = IF i = 0 THEN PW_ERROR ELSE i
        /\ read_byte(w2).rc = IF i = j THEN NO_ERROR ELSE DOUBLE_BIT_ERROR
        /\ i # 0 => read_byte(flip_bit(read_byte(w1).ecc, i)).rc = NO_ERROR
        /\ i = 0 => (read_byte(read_byte(w1).ecc).rc = NO_ERROR <=> "pW" \in w.code)

-----------------------------------------------------------------------------
(***************************************************************************)
(* File-RAID-PoC-Code: the RAID-5 stripes of raidlib.c.  A byte is the set *)
(* of its one bits, a sector SECTOR_SIZE bytes, a chunk file a sequence of *)
(* sectors, and the device set the five chunk files.  The files are opened *)
(* without O_TRUNC: what an earlier run wrote past the end stays.          *)
(***************************************************************************)

CONSTANT SECTOR_SIZE

ASSUME SectorAssumption == SECTOR_SIZE \in Nat \ {0}

Sector(stripe, k) == SubSeq(stripe, (k - 1) * SECTOR_SIZE + 1, k * SECTOR_SIZE)
XorSectors(a, b)  == [i \in 1 .. SECTOR_SIZE |-> Xor(a[i], b[i])]

xorLBA(l1, l2, l3, l4) == XorSectors(XorSectors(l1, l2), XorSectors(l3, l4))

rebuildLBA(l1, l2, l3, p) == XorSectors(p, XorSectors(XorSectors(l1, l2), l3))

checkEquivLBA(l1, l2) == \A i \in 1 .. SECTOR_SIZE : l1[i] = l2[i]

(* The stripes fread finds in a file: a full last stripe is not yet the    *)
(* end of the file, so one more, of zeros, follows it.                     *)
Stripes(file) ==
    LET size == 4 * SECTOR_SIZE
        n    == Len(file) \div size + 1
        zeroed(k) == [i \in 1 .. size |->
                        IF (k - 1) * size + i <= Len(file)
                        THEN file[(k - 1) * size + i] ELSE {}]
    IN  [k \in 1 .. n |-> zeroed(k)]

stripeFile(chunks, file) ==
    LET stripes == Stripes(file)
        sector(k, c) ==
            IF c <= 4 THEN Sector(stripes[k], c)
            ELSE xorLBA(Sector(stripes[k], 1), Sector(stripes[k], 2),
                        Sector(stripes[k], 3), Sector(stripes[k], 4))
    IN  [c \in 1 .. 5 |->
            [k \in 1 .. Len(stripes) |-> sector(k, c)]
                \o SubSeq(chunks[c], Len(stripes) + 1, Len(chunks[c]))]

(* The four data sectors of stripe k, the missing one rebuilt.             *)
RestoreStripe(chunks, k, missing) ==
    LET s(c) == chunks[c][k]
        rebuilt == <<rebuildLBA(s(2), s(3), s(4), s(5)), rebuildLBA(s(1), s(3), s(4), s(5)),
                     rebuildLBA(s(1), s(2), s(4), s(5)), rebuildLBA(s(1), s(2), s(3), s(5))>>
        r(c) == IF c = missing THEN rebuilt[c] ELSE s(c)
    IN  r(1) \o r(2) \o r(3) \o r(4)

(* The stripes that are written whole, one after the other.                *)
restoreFull(chunks, stripeCnt, missing) ==
    LET size == 4 * SECTOR_SIZE
    IN  [i \in 1 .. stripeCnt * size |->
            RestoreStripe(chunks, (i - 1) \div size + 1, missing)[((i - 1) % size) + 1]]

restoreLastPadded(chunks, stripeCnt, lastStripeBytes, missing) ==
    IF lastStripeBytes = 0 THEN <<>>
    ELSE RestoreStripe(chunks, stripeCnt + 1, missing)

restoreLast(chunks, stripeCnt, lastStripeBytes, missing) ==
    IF lastStripeBytes = 0 THEN <<>>
    ELSE SubSeq(RestoreStripe(chunks, stripeCnt + 1, missing), 1, lastStripeBytes)

restoreFile(chunks, fileLength, missing) ==
    LET size == 4 * SECTOR_SIZE
        cnt  == fileLength \div size
    IN  restoreFull(chunks, cnt, missing)
            \o restoreLast(chunks, cnt, fileLength % size, missing)

(* stripetest.c: stripe the input, lose a chunk, restore by the byte count.*)
stripetest(chunks, file, erased) ==
    LET written == stripeFile(chunks, file)
        left    == [written EXCEPT ![IF erased = 0 THEN 1 ELSE erased] =
                       IF erased = 0 THEN @ ELSE <<>>]
    IN  restoreFile(left, Len(file), erased)

(* raidtest.c, raid_perftest.c: parity of four buffers, buffer 4 rebuilt.  *)
raidtest(l) == rebuildLBA(l[1], l[2], l[3], xorLBA(l[1], l[2], l[3], l[4]))

---------------------------------------------------------------------------
RaidFile(n, seed) == [i \in 1 .. n |-> ToWord((i * i + seed * i + seed) % 8, 3)]
NoChunks == [c \in 1 .. 5 |-> <<>>]

(* A file striped over whatever an earlier, possibly longer, file left in  *)
(* the chunk files is restored byte for byte with any one chunk lost, also *)
(* when its length is a multiple of the stripe.                            *)
RestoreExact(before, n, erased) ==
    LET old == stripeFile(NoChunks, RaidFile(before, 3))
    IN  stripetest(old, RaidFile(n, 1), erased) = RaidFile(n, 1)

(* The assertion of raidtest.c: the rebuilt buffer equals the lost one.    *)
RebuildEqual(seed) ==
    LET l == [k \in 1 .. 4 |-> RaidFile(SECTOR_SIZE, seed + 5 * k)]
    IN  checkEquivLBA(raidtest(l), l[4])

=============================================================================
