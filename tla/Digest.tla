------------------------------- MODULE Digest -------------------------------
(***************************************************************************)
(* example-3: how md5.c, sha1.c and sha2.c cut a message that arrives in   *)
(* pieces into blocks, pad it and append its length, and the HMAC of       *)
(* sha1.c.  The compression function is a constant, and so are the two     *)
(* operations on bytes that the HMAC needs.  A message is a sequence of    *)
(* bytes, or of tokens that stand for them.                                *)
(***************************************************************************)
EXTENDS Naturals, Sequences, SequencesExt

CONSTANTS
    process(_, _),   \* state and block to the next state
    xor(_, _),       \* of two bytes
    bytesOf(_)       \* the bytes of a digest

From(s, i)     == SubSeq(s, i, Len(s))
Fill(x, n)     == [i \in 1 .. n |-> x]
Cut(s, n)      == [k \in 1 .. Len(s) \div n |-> SubSeq(s, (k - 1) * n + 1, k * n)]
Whole(s, n)    == SubSeq(s, 1, (Len(s) \div n) * n)
Partial(s, n)  == From(s, (Len(s) \div n) * n + 1)

(* The number of bits in the k last of the length bytes, high byte first.  *)
LengthBytes(n, k) ==
    [i \in 1 .. k |-> IF k - i > 2 THEN 0 ELSE ((8 * n) \div (256 ^ (k - i))) % 256]

---------------------------------------------------------------------------
(* SHA-1: the context is [total, state, buffer].                           *)

sha1_starts(h0) == [total |-> 0, state |-> h0, buffer |-> <<>>]

sha1_update(ctx, input) ==
    LET left == ctx.total % 64
        fill == 64 - left
        full == left # 0 /\ Len(input) >= fill
        rest == IF full THEN From(input, fill + 1) ELSE input
        old  == SubSeq(ctx.buffer, 1, left)
        h    == IF full THEN process(ctx.state, old \o SubSeq(input, 1, fill))
                ELSE ctx.state
    IN  IF input = <<>> THEN ctx
        ELSE [total  |-> ctx.total + Len(input),
              state  |-> FoldLeft(process, h, Cut(rest, 64)),
              buffer |-> (IF full THEN <<>> ELSE old) \o Partial(rest, 64)]

sha1_padn(last) == IF last < 56 THEN 56 - last ELSE 120 - last

sha1_finish(ctx) ==
    LET padd == sha1_update(ctx, <<128>> \o Fill(0, sha1_padn(ctx.total % 64) - 1))
    IN  sha1_update(padd, LengthBytes(ctx.total, 8)).state

sha1(h0, input) ==
    sha1_finish(sha1_update(sha1_starts(h0), input))

(* fread returns 1024 bytes at a time.                                     *)
FileReads(file) == Append(Cut(file, 1024), Partial(file, 1024))

sha1_file(h0, file) ==
    LET more(ctx, buf) == sha1_update(ctx, buf)
    IN  sha1_finish(FoldLeft(more, sha1_starts(h0), FileReads(file)))

(* HMAC: the key, or its digest if it is longer than a block, is xored     *)
(* into the two pads.                                                      *)
KeyHashed(keylen) == keylen > 64

HmacPad(h0, key, c) ==
    LET k == IF KeyHashed(Len(key)) THEN bytesOf(sha1(h0, key)) ELSE key
    IN  [i \in 1 .. 64 |-> IF i <= Len(k) THEN xor(c, k[i]) ELSE c]

sha1_hmac(h0, key, input) ==
    LET ipad  == HmacPad(h0, key, 54)
        opad  == HmacPad(h0, key, 92)
        inner == sha1_update(sha1_update(sha1_starts(h0), ipad), input)
        outer == sha1_update(sha1_starts(h0), opad)
    IN  sha1_finish(
            sha1_update(outer, bytesOf(sha1_finish(inner))))

---------------------------------------------------------------------------
(* MD5: the length is stored low byte first.                               *)

md5_append(ctx, data) ==
    LET offset == ctx.total % 64
        copy   == IF offset + Len(data) > 64 THEN 64 - offset ELSE Len(data)
        first  == SubSeq(ctx.buffer, 1, offset) \o SubSeq(data, 1, copy)
        rest   == IF offset = 0 THEN data ELSE From(data, copy + 1)
        h      == IF offset = 0 THEN ctx.state ELSE process(ctx.state, first)
    IN  IF data = <<>> THEN ctx
        ELSE IF offset # 0 /\ offset + copy < 64
        THEN [total |-> ctx.total + Len(data), state |-> ctx.state, buffer |-> first]
        ELSE [total |-> ctx.total + Len(data),
              state |-> FoldLeft(process, h, Cut(rest, 64)),
              buffer |-> Partial(rest, 64)]

md5_finish(ctx) ==
    LET padn == ((119 - (ctx.total % 64)) % 64) + 1
        padd == md5_append(ctx, <<128>> \o Fill(0, padn - 1))
    IN  md5_append(padd, Reverse(LengthBytes(ctx.total, 8))).state

md5_init(h0) == [total |-> 0, state |-> h0, buffer |-> <<>>]

---------------------------------------------------------------------------
(* SHA-2: the context is [tot_len, len, h, block]; bs is the block size of *)
(* the variant, lenb the bytes its length field and 0x80 take.             *)

sha2_init(h0) == [tot_len |-> 0, len |-> 0, h |-> h0, block |-> <<>>]

sha2_update(bs, ctx, message) ==
    LET len == Len(message)
        rem == IF len < bs - ctx.len THEN len ELSE bs - ctx.len
        blk == ctx.block \o SubSeq(message, 1, rem)
        new == From(message, rem + 1)
    IN  IF ctx.len + len < bs
        THEN [ctx EXCEPT !.len = @ + len, !.block = blk]
        ELSE [tot_len |-> ctx.tot_len + (Len(new) \div bs + 1) * bs,
              len     |-> Len(new) % bs,
              h       |-> FoldLeft(process, process(ctx.h, blk), Cut(new, bs)),
              block   |-> Partial(new, bs)]

block_nb_late(bs, lenb, len) == 1 + (IF bs - lenb + 1 < len % bs THEN 1 ELSE 0)

block_nb(bs, lenb, len) == 1 + (IF bs - lenb < len % bs THEN 1 ELSE 0)

sha2_final(bs, lenb, ctx) ==
    LET zeros    == block_nb(bs, lenb, ctx.len) * bs - ctx.len - 1 - 4
        last     == ctx.block \o <<128>> \o Fill(0, zeros)
                    \o LengthBytes(ctx.tot_len + ctx.len, 4)
    IN  FoldLeft(process, ctx.h, Cut(last, bs))

sha256_update(ctx, m) == sha2_update(64, ctx, m)
sha224_update(ctx, m) == sha2_update(64, ctx, m)
sha384_update(ctx, m) == sha2_update(128, ctx, m)
sha512_update(ctx, m) == sha2_update(128, ctx, m)
sha256_final(ctx) == sha2_final(64, 9, ctx)
sha224_final(ctx) == sha2_final(64, 9, ctx)
sha384_final(ctx) == sha2_final(128, 17, ctx)
sha512_final(ctx) == sha2_final(128, 17, ctx)

=============================================================================
