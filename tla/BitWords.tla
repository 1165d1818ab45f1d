------------------------------ MODULE BitWords ------------------------------
(***************************************************************************)
(* Machine words as the sets of their one bits: bit 0 is the least         *)
(* significant.  A word of width w is a subset of 0 .. w - 1.              *)
(***************************************************************************)
EXTENDS Integers, Sequences

ToWord(n, w) == {b \in 0 .. w - 1 : (n \div (2 ^ b)) % 2 = 1}
Not(x, w)    == (0 .. w - 1) \ x
Xor(x, y)    == (x \ y) \union (y \ x)
Shl(x, n, w) == {b + n : b \in x} \intersect (0 .. w - 1)
Shr(x, n)    == {b - n : b \in {c \in x : c >= n}}
Rotr(x, n, w) == {(b - n) % w : b \in x}
Reflect(x, w) == {w - 1 - b : b \in x}

(* x + y modulo 2^w: a carry comes into bit b from the last bit below it   *)
(* that generates one, if every bit between them passes it on.             *)
Carry(x, y, b) ==
    \E j \in x \intersect y : j < b /\ (j + 1) .. (b - 1) \subseteq x \union y
Add(x, y, w) == {b \in 0 .. w - 1 : (b \in Xor(x, y)) # Carry(x, y, b)}

(* Words of n sixteen-bit digits each, most significant digit first.       *)
HexWords(n, digits) ==
    [k \in 1 .. Len(digits) \div n |->
        UNION {Shl(ToWord(digits[(k - 1) * n + i], 16), 16 * (n - i), 16 * n)
                   : i \in 1 .. n}]

(* Words of n bytes, most significant byte first, and least first.         *)
PackBE(n, bytes) ==
    [k \in 1 .. Len(bytes) \div n |->
        UNION {Shl(ToWord(bytes[(k - 1) * n + i], 8), 8 * (n - i), 8 * n) : i \in 1 .. n}]
PackLE(n, bytes) ==
    [k \in 1 .. Len(bytes) \div n |->
        UNION {Shl(ToWord(bytes[(k - 1) * n + i], 8), 8 * (i - 1), 8 * n) : i \in 1 .. n}]

=============================================================================
