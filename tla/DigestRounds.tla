---------------------------- MODULE DigestRounds ----------------------------
(***************************************************************************)
(* example-3: the compression functions of md5.c, sha1.c and sha2.c, and   *)
(* the CRC of crc.c, on words of bits, with Digest instantiated for each   *)
(* digest.  crc.h's "unsigned long" is the 32-bit one of the targets the   *)
(* CHECK_VALUE is written for.                                             *)
(***************************************************************************)
EXTENDS BitWords, SequencesExt

(* op(x), with x evaluated before op is applied to it.                     *)
Given(x, op(_)) == CHOOSE r \in {op(a) : a \in {x}} : TRUE

(* FoldLeft in nested groups of four, with each accumulator evaluated      *)
(* before it is used, so that TLC evaluates it without deep recursion.     *)
Strictly(op(_, _), base, s) ==
    FoldLeft(LAMBDA acc, x : Given(acc, LAMBDA a : op(a, x)), base, s)
Groups(n, s) == [k \in 1 .. (Len(s) + n - 1) \div n |->
                    SubSeq(s, n * (k - 1) + 1, IF n * k < Len(s) THEN n * k ELSE Len(s))]
Iterate(op(_, _), base, s) ==
    Strictly(LAMBDA outer, big :
                 Strictly(LAMBDA acc, group : Strictly(op, acc, group), outer, Groups(4, big)),
             base, Groups(16, s))

AddAll(s, w) == FoldLeft(LAMBDA x, y : Add(x, y, w), {}, s)

sha224_h0 == HexWords(2, <<
    \hc105, \h9ed8, \h367c, \hd507, \h3070, \hdd17, \hf70e, \h5939, \hffc0,
    \h0b31, \h6858, \h1511, \h64f9, \h8fa7, \hbefa, \h4fa4>>)

sha256_h0 == HexWords(2, <<
    \h6a09, \he667, \hbb67, \hae85, \h3c6e, \hf372, \ha54f, \hf53a, \h510e,
    \h527f, \h9b05, \h688c, \h1f83, \hd9ab, \h5be0, \hcd19>>)

sha384_h0 == HexWords(4, <<
    \hcbbb, \h9d5d, \hc105, \h9ed8, \h629a, \h292a, \h367c, \hd507, \h9159,
    \h015a, \h3070, \hdd17, \h152f, \hecd8, \hf70e, \h5939, \h6733, \h2667,
    \hffc0, \h0b31, \h8eb4, \h4a87, \h6858, \h1511, \hdb0c, \h2e0d, \h64f9,
    \h8fa7, \h47b5, \h481d, \hbefa, \h4fa4>>)

sha512_h0 == HexWords(4, <<
    \h6a09, \he667, \hf3bc, \hc908, \hbb67, \hae85, \h84ca, \ha73b, \h3c6e,
    \hf372, \hfe94, \hf82b, \ha54f, \hf53a, \h5f1d, \h36f1, \h510e, \h527f,
    \hade6, \h82d1, \h9b05, \h688c, \h2b3e, \h6c1f, \h1f83, \hd9ab, \hfb41,
    \hbd6b, \h5be0, \hcd19, \h137e, \h2179>>)

sha256_k == HexWords(2, <<
    \h428a, \h2f98, \h7137, \h4491, \hb5c0, \hfbcf, \he9b5, \hdba5, \h3956,
    \hc25b, \h59f1, \h11f1, \h923f, \h82a4, \hab1c, \h5ed5, \hd807, \haa98,
    \h1283, \h5b01, \h2431, \h85be, \h550c, \h7dc3, \h72be, \h5d74, \h80de,
    \hb1fe, \h9bdc, \h06a7, \hc19b, \hf174, \he49b, \h69c1, \hefbe, \h4786,
    \h0fc1, \h9dc6, \h240c, \ha1cc, \h2de9, \h2c6f, \h4a74, \h84aa, \h5cb0,
    \ha9dc, \h76f9, \h88da, \h983e, \h5152, \ha831, \hc66d, \hb003, \h27c8,
    \hbf59, \h7fc7, \hc6e0, \h0bf3, \hd5a7, \h9147, \h06ca, \h6351, \h1429,
    \h2967, \h27b7, \h0a85, \h2e1b, \h2138, \h4d2c, \h6dfc, \h5338, \h0d13,
    \h650a, \h7354, \h766a, \h0abb, \h81c2, \hc92e, \h9272, \h2c85, \ha2bf,
    \he8a1, \ha81a, \h664b, \hc24b, \h8b70, \hc76c, \h51a3, \hd192, \he819,
    \hd699, \h0624, \hf40e, \h3585, \h106a, \ha070, \h19a4, \hc116, \h1e37,
    \h6c08, \h2748, \h774c, \h34b0, \hbcb5, \h391c, \h0cb3, \h4ed8, \haa4a,
    \h5b9c, \hca4f, \h682e, \h6ff3, \h748f, \h82ee, \h78a5, \h636f, \h84c8,
    \h7814, \h8cc7, \h0208, \h90be, \hfffa, \ha450, \h6ceb, \hbef9, \ha3f7,
    \hc671, \h78f2>>)

sha512_k == HexWords(4, <<
    \h428a, \h2f98, \hd728, \hae22, \h7137, \h4491, \h23ef, \h65cd, \hb5c0,
    \hfbcf, \hec4d, \h3b2f, \he9b5, \hdba5, \h8189, \hdbbc, \h3956, \hc25b,
    \hf348, \hb538, \h59f1, \h11f1, \hb605, \hd019, \h923f, \h82a4, \haf19,
    \h4f9b, \hab1c, \h5ed5, \hda6d, \h8118, \hd807, \haa98, \ha303, \h0242,
    \h1283, \h5b01, \h4570, \h6fbe, \h2431, \h85be, \h4ee4, \hb28c, \h550c,
    \h7dc3, \hd5ff, \hb4e2, \h72be, \h5d74, \hf27b, \h896f, \h80de, \hb1fe,
    \h3b16, \h96b1, \h9bdc, \h06a7, \h25c7, \h1235, \hc19b, \hf174, \hcf69,
    \h2694, \he49b, \h69c1, \h9ef1, \h4ad2, \hefbe, \h4786, \h384f, \h25e3,
    \h0fc1, \h9dc6, \h8b8c, \hd5b5, \h240c, \ha1cc, \h77ac, \h9c65, \h2de9,
    \h2c6f, \h592b, \h0275, \h4a74, \h84aa, \h6ea6, \he483, \h5cb0, \ha9dc,
    \hbd41, \hfbd4, \h76f9, \h88da, \h8311, \h53b5, \h983e, \h5152, \hee66,
    \hdfab, \ha831, \hc66d, \h2db4, \h3210, \hb003, \h27c8, \h98fb, \h213f,
    \hbf59, \h7fc7, \hbeef, \h0ee4, \hc6e0, \h0bf3, \h3da8, \h8fc2, \hd5a7,
    \h9147, \h930a, \ha725, \h06ca, \h6351, \he003, \h826f, \h1429, \h2967,
    \h0a0e, \h6e70, \h27b7, \h0a85, \h46d2, \h2ffc, \h2e1b, \h2138, \h5c26,
    \hc926, \h4d2c, \h6dfc, \h5ac4, \h2aed, \h5338, \h0d13, \h9d95, \hb3df,
    \h650a, \h7354, \h8baf, \h63de, \h766a, \h0abb, \h3c77, \hb2a8, \h81c2,
    \hc92e, \h47ed, \haee6, \h9272, \h2c85, \h1482, \h353b, \ha2bf, \he8a1,
    \h4cf1, \h0364, \ha81a, \h664b, \hbc42, \h3001, \hc24b, \h8b70, \hd0f8,
    \h9791, \hc76c, \h51a3, \h0654, \hbe30, \hd192, \he819, \hd6ef, \h5218,
    \hd699, \h0624, \h5565, \ha910, \hf40e, \h3585, \h5771, \h202a, \h106a,
    \ha070, \h32bb, \hd1b8, \h19a4, \hc116, \hb8d2, \hd0c8, \h1e37, \h6c08,
    \h5141, \hab53, \h2748, \h774c, \hdf8e, \heb99, \h34b0, \hbcb5, \he19b,
    \h48a8, \h391c, \h0cb3, \hc5c9, \h5a63, \h4ed8, \haa4a, \he341, \h8acb,
    \h5b9c, \hca4f, \h7763, \he373, \h682e, \h6ff3, \hd6b2, \hb8a3, \h748f,
    \h82ee, \h5def, \hb2fc, \h78a5, \h636f, \h4317, \h2f60, \h84c8, \h7814,
    \ha1f0, \hab72, \h8cc7, \h0208, \h1a64, \h39ec, \h90be, \hfffa, \h2363,
    \h1e28, \ha450, \h6ceb, \hde82, \hbde9, \hbef9, \ha3f7, \hb2c6, \h7915,
    \hc671, \h78f2, \he372, \h532b, \hca27, \h3ece, \hea26, \h619c, \hd186,
    \hb8c7, \h21c0, \hc207, \heada, \h7dd6, \hcde0, \heb1e, \hf57d, \h4f7f,
    \hee6e, \hd178, \h06f0, \h67aa, \h7217, \h6fba, \h0a63, \h7dc5, \ha2c8,
    \h98a6, \h113f, \h9804, \hbef9, \h0dae, \h1b71, \h0b35, \h131c, \h471b,
    \h28db, \h77f5, \h2304, \h7d84, \h32ca, \hab7b, \h40c7, \h2493, \h3c9e,
    \hbe0a, \h15c9, \hbebc, \h431d, \h67c4, \h9c10, \h0d4c, \h4cc5, \hd4be,
    \hcb3e, \h42b6, \h597f, \h299c, \hfc65, \h7e2a, \h5fcb, \h6fab, \h3ad6,
    \hfaec, \h6c44, \h198c, \h4a47, \h5817>>)

T == HexWords(2, <<
    \hd76a, \ha478, \he8c7, \hb756, \h2420, \h70db, \hc1bd, \hceee, \hf57c,
    \h0faf, \h4787, \hc62a, \ha830, \h4613, \hfd46, \h9501, \h6980, \h98d8,
    \h8b44, \hf7af, \hffff, \h5bb1, \h895c, \hd7be, \h6b90, \h1122, \hfd98,
    \h7193, \ha679, \h438e, \h49b4, \h0821, \hf61e, \h2562, \hc040, \hb340,
    \h265e, \h5a51, \he9b6, \hc7aa, \hd62f, \h105d, \h0244, \h1453, \hd8a1,
    \he681, \he7d3, \hfbc8, \h21e1, \hcde6, \hc337, \h07d6, \hf4d5, \h0d87,
    \h455a, \h14ed, \ha9e3, \he905, \hfcef, \ha3f8, \h676f, \h02d9, \h8d2a,
    \h4c8a, \hfffa, \h3942, \h8771, \hf681, \h6d9d, \h6122, \hfde5, \h380c,
    \ha4be, \hea44, \h4bde, \hcfa9, \hf6bb, \h4b60, \hbebf, \hbc70, \h289b,
    \h7ec6, \heaa1, \h27fa, \hd4ef, \h3085, \h0488, \h1d05, \hd9d4, \hd039,
    \he6db, \h99e5, \h1fa2, \h7cf8, \hc4ac, \h5665, \hf429, \h2244, \h432a,
    \hff97, \hab94, \h23a7, \hfc93, \ha039, \h655b, \h59c3, \h8f0c, \hcc92,
    \hffef, \hf47d, \h8584, \h5dd1, \h6fa8, \h7e4f, \hfe2c, \he6e0, \ha301,
    \h4314, \h4e08, \h11a1, \hf753, \h7e82, \hbd3a, \hf235, \h2ad7, \hd2bb,
    \heb86, \hd391>>)

Xor3(x, y, z) == Xor(x, Xor(y, z))
CH(x, y, z)   == Xor(x \intersect y, z \ x)
MAJ(x, y, z)  == Xor3(x \intersect y, x \intersect z, y \intersect z)

AddEach(h, v, w) == Given([i \in 1 .. Len(h) |-> Add(h[i], v[i], w)], LAMBDA sum : sum)

---------------------------------------------------------------------------
(* sha2.c: rots are the rotations of F1, F2, F3 and F4; the last number of *)
(* F3 and F4 is a shift.                                                   *)

Sigma(x, r, w) == Xor3(Rotr(x, r[1], w), Rotr(x, r[2], w), Rotr(x, r[3], w))
Gamma(x, r, w) == Xor3(Rotr(x, r[1], w), Rotr(x, r[2], w), Shr(x, r[3]))

Schedule(r3, r4, w, n, m) ==
    LET SCR(s, i) == Append(s, AddAll(<<Gamma(s[i - 2], r4, w), s[i - 7],
                                        Gamma(s[i - 15], r3, w), s[i - 16]>>, w))
    IN  Iterate(SCR, m, [k \in 1 .. n - 16 |-> k + 16])

Round(r1, r2, w, v, kw) ==
    LET t1 == AddAll(<<v[8], Sigma(v[5], r2, w), CH(v[5], v[6], v[7]), kw>>, w)
        t2 == Add(Sigma(v[1], r1, w), MAJ(v[1], v[2], v[3]), w)
    IN  <<Add(t1, t2, w), v[1], v[2], v[3], Add(v[4], t1, w), v[5], v[6], v[7]>>

sha256_transf(h, block) ==
    LET words == Schedule(<<7, 18, 3>>, <<17, 19, 10>>, 32, 64, PackBE(4, block))
        EXP(w, v, j) == Round(<<2, 13, 22>>, <<6, 11, 25>>, 32, v, Add(sha256_k[j], w[j], 32))
        rounds(w) == Iterate(LAMBDA v, j : EXP(w, v, j), h, [j \in 1 .. 64 |-> j])
    IN  AddEach(h, Given(words, rounds), 32)

sha512_transf(h, block) ==
    LET words == Schedule(<<1, 8, 7>>, <<19, 61, 6>>, 64, 80, PackBE(8, block))
        EXP(w, v, j) == Round(<<28, 34, 39>>, <<14, 18, 41>>, 64, v, Add(sha512_k[j], w[j], 64))
        rounds(w) == Iterate(LAMBDA v, j : EXP(w, v, j), h, [j \in 1 .. 80 |-> j])
    IN  AddEach(h, Given(words, rounds), 64)

---------------------------------------------------------------------------
(* sha1.c                                                                  *)

sha1_h0 == HexWords(2, <<\h6745, \h2301, \hEFCD, \hAB89, \h98BA, \hDCFE, \h1032,
                      \h5476, \hC3D2, \hE1F0>>)
sha1_K  == HexWords(2, <<\h5A82, \h7999, \h6ED9, \hEBA1, \h8F1B, \hBCDC, \hCA62, \hC1D6>>)

sha1_F(t, x, y, z) ==
    CASE t < 20 -> Xor(z, x \intersect Xor(y, z))
      [] t \in 40 .. 59 -> (x \intersect y) \union (z \intersect (x \union y))
      [] OTHER -> Xor3(x, y, z)

sha1_process(h, data) ==
    LET R(w, t) == Append(w, Rotr(Xor(Xor3(w[t - 2], w[t - 7], w[t - 13]), w[t - 15]), 31, 32))
        words == Iterate(R, PackBE(4, data), [k \in 1 .. 64 |-> k + 15])
        P(W, v, t) == <<AddAll(<<v[5], Rotr(v[1], 27, 32), sha1_F(t, v[2], v[3], v[4]),
                              sha1_K[t \div 20 + 1], W[t + 1]>>, 32),
                     v[1], Rotr(v[2], 2, 32), v[3], v[4]>>
        rounds(W) == Iterate(LAMBDA v, t : P(W, v, t), h, [k \in 1 .. 80 |-> k - 1])
    IN  AddEach(h, Given(words, rounds), 32)

---------------------------------------------------------------------------
(* md5.c: operation i of round r uses word (m * i + a) of the block.       *)

md5_h0 == HexWords(2, <<\h6745, \h2301, \hEFCD, \hAB89, \h98BA, \hDCFE, \h1032, \h5476>>)

md5_F(r, x, y, z) ==
    CASE r = 0 -> (x \intersect y) \union (z \ x)
      [] r = 1 -> (x \intersect z) \union (y \ z)
      [] r = 2 -> Xor3(x, y, z)
      [] r = 3 -> Xor(y, x \union Not(z, 32))

md5_k(r, i) == (<<i, 5 * i + 1, 3 * i + 5, 7 * i>>)[r + 1] % 16
md5_s(r, i) == (<<<<7, 12, 17, 22>>, <<5, 9, 14, 20>>,
                  <<4, 11, 16, 23>>, <<6, 10, 15, 21>>>>)[r + 1][(i % 4) + 1]

md5_process(h, data) ==
    LET X == PackLE(4, data)
        SET(v, n) ==
            LET r == n \div 16
                i == n % 16
                t == AddAll(<<v[1], md5_F(r, v[2], v[3], v[4]), X[md5_k(r, i) + 1], T[n + 1]>>, 32)
            IN  <<v[4], Add(Rotr(t, 32 - md5_s(r, i), 32), v[2], 32), v[2], v[3]>>
    IN  AddEach(h, Iterate(SET, h, [k \in 1 .. 64 |-> k - 1]), 32)

---------------------------------------------------------------------------
(* crc.c: a standard of crc.h is its width, polynomial, initial remainder, *)
(* final value and whether data and remainder are reflected.               *)

CrcStandard(w, poly, init, final, refl) ==
    [width |-> w, poly |-> HexWords(w \div 16, poly)[1], init |-> init, final |-> final,
     reflect |-> refl]
CRC_CCITT == CrcStandard(16, <<\h1021>>, 0 .. 15, {}, FALSE)
CRC16     == CrcStandard(16, <<\h8005>>, {}, {}, TRUE)
CRC32     == CrcStandard(32, <<\h04C1, \h1DB7>>, 0 .. 31, 0 .. 31, TRUE)

reflect(std, x, nBits) == IF std.reflect THEN Reflect(x, nBits) ELSE x

Divide(std, remainder) ==
    LET bit(r, i) == IF std.width - 1 \in r
                     THEN Xor(Shl(r, 1, std.width), std.poly)
                     ELSE Shl(r, 1, std.width)
    IN  Iterate(bit, remainder, [i \in 1 .. 8 |-> i])

crcSlow(std, message) ==
    LET byte(r, b) ==
            Divide(std, Xor(r, Shl(reflect(std, b, 8), std.width - 8, std.width)))
    IN  Xor(reflect(std, FoldLeft(byte, std.init, message), std.width), std.final)

crcInit(std) ==
    [dividend \in SUBSET (0 .. 7) |-> Divide(std, Shl(dividend, std.width - 8, std.width))]

crcFast(std, crcTable, message) ==
    LET byte(r, b) ==
            Xor(crcTable[Xor(reflect(std, b, 8), Shr(r, std.width - 8))],
                Shl(r, 8, std.width))
    IN  Xor(reflect(std, FoldLeft(byte, std.init, message), std.width), std.final)

crcTableOf == [s \in {CRC_CCITT, CRC16, CRC32} |-> crcInit(s)]

---------------------------------------------------------------------------
(* The reference: a message followed by 0x80, zeros up to a block end and  *)
(* its length; what is compressed are the blocks of that, one by one.      *)

Collect(h, block) == Append(h, block)
XorToken(x, y) == <<"xor", x, y>>
DigestTokens(h) == [i \in 1 .. 20 |-> <<"digest", i, h>>]

Tokens == INSTANCE Digest
          WITH process <- Collect, xor <- XorToken, bytesOf <- DigestTokens

PadTo(bs, lenb, msg, length) ==
    LET k == Len(msg) + 1 + lenb
        z == (bs - (k % bs)) % bs
    IN  msg \o <<128>> \o Tokens!Fill(0, z) \o length

Ref(bs, lenb, msg) ==
    Tokens!Cut(PadTo(bs, lenb, msg, Tokens!LengthBytes(Len(msg), lenb)), bs)
RefMd5(msg) ==
    Tokens!Cut(PadTo(64, 8, msg, Reverse(Tokens!LengthBytes(Len(msg), 8))), 64)

Bytes(n) == [i \in 1 .. n |-> <<"byte", i>>]

(* A message of a + b + c bytes given in three pieces reaches every        *)
(* digest's compression function as the padded blocks of the whole.        *)
Chunked(a, b, c) ==
    LET m  == Bytes(a + b + c)
        m1 == SubSeq(m, 1, a)
        m2 == SubSeq(m, a + 1, a + b)
        m3 == Tokens!From(m, a + b + 1)
        three(upd(_, _), init) == upd(upd(upd(init, m1), m2), m3)
    IN  /\ Tokens!sha1_finish(three(Tokens!sha1_update, Tokens!sha1_starts(<<>>)))
                = Ref(64, 8, m)
        /\ Tokens!md5_finish(three(Tokens!md5_append, Tokens!md5_init(<<>>)))
                = RefMd5(m)
        /\ Tokens!sha224_final(three(Tokens!sha224_update, Tokens!sha2_init(<<>>)))
                = Ref(64, 8, m)
        /\ Tokens!sha256_final(three(Tokens!sha256_update, Tokens!sha2_init(<<>>)))
                = Ref(64, 8, m)
        /\ Tokens!sha384_final(three(Tokens!sha384_update, Tokens!sha2_init(<<>>)))
                = Ref(128, 16, m)
        /\ Tokens!sha512_final(three(Tokens!sha512_update, Tokens!sha2_init(<<>>)))
                = Ref(128, 16, m)

(* HMAC of an n-byte text under a k-byte key is the nested digest of the   *)
(* definition, also for a key as long as a block and one byte longer.      *)
HmacNested(k, n) ==
    LET key == Bytes(k)
        msg == [i \in 1 .. n |-> <<"text", i>>]
        k2  == IF k > 64 THEN DigestTokens(Ref(64, 8, key)) ELSE key
        pad(c) == [i \in 1 .. 64 |-> IF i <= Len(k2) THEN XorToken(c, k2[i]) ELSE c]
    IN  Tokens!sha1_hmac(<<>>, key, msg)
            = Ref(64, 8, pad(92) \o DigestTokens(Ref(64, 8, pad(54) \o msg)))

(* Reading a file by 1024 bytes gives the digest of its contents.          *)
FileDigest(n) == Tokens!sha1_file(<<>>, Bytes(n)) = Ref(64, 8, Bytes(n))

---------------------------------------------------------------------------
(* The self tests: "abc" and, for the 32-bit digests, the 56-byte text.    *)

abc   == <<97, 98, 99>>
abc56 == [i \in 1 .. 56 |-> 97 + ((i - 1) \div 4) + ((i - 1) % 4)]
digits == [i \in 1 .. 9 |-> 48 + i]

Sha1 == INSTANCE Digest
        WITH process <- sha1_process, xor <- XorToken, bytesOf <- DigestTokens
Md5 == INSTANCE Digest
       WITH process <- md5_process, xor <- XorToken, bytesOf <- DigestTokens
Sha256 == INSTANCE Digest
          WITH process <- sha256_transf, xor <- XorToken, bytesOf <- DigestTokens
Sha512 == INSTANCE Digest
          WITH process <- sha512_transf, xor <- XorToken, bytesOf <- DigestTokens

sha224(m) ==
    SubSeq(Sha256!sha224_final(Sha256!sha224_update(Sha256!sha2_init(sha224_h0), m)), 1, 7)
sha256(m) == Sha256!sha256_final(Sha256!sha256_update(Sha256!sha2_init(sha256_h0), m))
sha384(m) ==
    SubSeq(Sha512!sha384_final(Sha512!sha384_update(Sha512!sha2_init(sha384_h0), m)), 1, 6)
sha512(m) == Sha512!sha512_final(Sha512!sha512_update(Sha512!sha2_init(sha512_h0), m))
md5(m)    == Md5!md5_finish(Md5!md5_append(Md5!md5_init(md5_h0), m))
sha1_sum(m) == Sha1!sha1(sha1_h0, m)

sha1_self_test ==
    /\ sha1_sum(abc) = HexWords(2, <<\hA999, \h3E36, \h4706, \h816A, \hBA3E, \h2571,
                                      \h7850, \hC26C, \h9CD0, \hD89D>>)
    /\ sha1_sum(abc56) = HexWords(2, <<\h8498, \h3E44, \h1C3B, \hD26E, \hBAAE, \h4AA1,
                                        \hF951, \h29E5, \hE546, \h70F1>>)

sha2_vectors ==
    /\ sha224(abc) = HexWords(2, <<
           \h2309, \h7d22, \h3405, \hd822, \h8642, \ha477, \hbda2, \h55b3,
           \h2aad, \hbce4, \hbda0, \hb3f7, \he36c, \h9da7>>)
    /\ sha256(abc56) = HexWords(2, <<
           \h248d, \h6a61, \hd206, \h38b8, \he5c0, \h2693, \h0c3e, \h6039,
           \ha33c, \he459, \h64ff, \h2167, \hf6ec, \hedd4, \h19db, \h06c1>>)
    /\ sha384(abc) = HexWords(4, <<
           \hcb00, \h753f, \h45a3, \h5e8b, \hb5a0, \h3d69, \h9ac6, \h5007,
           \h272c, \h32ab, \h0ede, \hd163, \h1a8b, \h605a, \h43ff, \h5bed,
           \h8086, \h072b, \ha1e7, \hcc23, \h58ba, \heca1, \h34c8, \h25a7>>)
    /\ sha512(abc) = HexWords(4, <<
           \hddaf, \h35a1, \h9361, \h7aba, \hcc41, \h7349, \hae20, \h4131,
           \h12e6, \hfa4e, \h89a9, \h7ea2, \h0a9e, \heee6, \h4b55, \hd39a,
           \h2192, \h992a, \h274f, \hc1a8, \h36ba, \h3c23, \ha3fe, \hebbd,
           \h454d, \h4423, \h643c, \he80e, \h2a9a, \hc94f, \ha54c, \ha49f>>)

md5_do_test ==
    /\ md5(<<>>) = HexWords(2, <<
           \hd98c, \h1dd4, \h04b2, \h008f, \h9809, \h80e9, \h7e42, \hf8ec>>)
    /\ md5(abc) = HexWords(2, <<
           \h9850, \h0190, \hb04f, \hd23c, \h7d3f, \h96d6, \h727f, \he128>>)

(* The CHECK_VALUE of crc.h for each standard, computed both ways, and the *)
(* table form agreeing with the bitwise form on a two-byte message.        *)
crcCheckValues ==
    LET msg == [i \in 1 .. 9 |-> ToWord(digits[i], 8)]
        both(std) == {crcSlow(std, msg), crcFast(std, crcTableOf[std], msg)}
    IN  /\ both(CRC_CCITT) = {HexWords(1, <<\h29B1>>)[1]}
        /\ both(CRC16) = {HexWords(1, <<\hBB3D>>)[1]}
        /\ both(CRC32) = {HexWords(2, <<\hCBF4, \h3926>>)[1]}

CrcTableAgrees(std, a, b) ==
    LET msg == <<ToWord(a, 8), ToWord(b, 8)>>
    IN  crcFast(std, crcTableOf[std], msg) = crcSlow(std, msg)

=============================================================================
