------------------------------- MODULE Words -------------------------------
(***************************************************************************)
(* Words of 4 bytes of ByteBits bits, as the numbers 0..W-1, and memory as *)
(* bytes, the lowest first.  The machine's byte has 8 bits; the smallest   *)
(* that still tells bytes, halves and words apart has 1.                   *)
(***************************************************************************)
EXTENDS Integers

CONSTANT ByteBits

WordBits == 4 * ByteBits

(* The second and third conjuncts are arithmetic, which TLC computes and   *)
(* the provers do not know.                                                *)
ASSUME WordsAssumption ==
  /\ ByteBits \in Nat \ {0}
  /\ 2^0 = 1 /\ 2^1 = 2
  /\ \A m, n \in 0..WordBits : 2^m \in Nat \ {0} /\ 2^(m + n) = 2^m * 2^n

(* The values that n bytes can have are those below Values(n).             *)
Values(n) == 2^(ByteBits * n)
Byte == Values(1)
W == Values(4)
Word == 0..(W - 1)

Wrap(n) == n % W
SignBit(a) == a >= W \div 2
Signed(a) == IF SignBit(a) THEN a - W ELSE a

Bits(a) == {i \in 0..(WordBits - 1) : (a \div 2^i) % 2 = 1}
(* What the lowest n bits of S come to, for every n.                       *)
Sums(S) ==
  LET low[n \in 0..WordBits] ==
        IF n = 0 THEN 0
        ELSE low[n - 1] + (IF n - 1 \in S THEN 2^(n - 1) ELSE 0)
  IN low
FromBits(S) == Sums(S)[WordBits]
And(a, b) == FromBits(Bits(a) \cap Bits(b))
Or(a, b) == FromBits(Bits(a) \union Bits(b))
Xor(a, b) == FromBits((Bits(a) \union Bits(b)) \ (Bits(a) \cap Bits(b)))
Not(a) == W - 1 - a

(* The 1, 2 or 4 bytes of memory from addr on, as a number, and the update *)
(* of any.                                                                 *)
Read(mem, addr, size) ==
  CASE size = 1 -> mem[addr]
    [] size = 2 -> mem[addr + 1] * Byte + mem[addr]
    [] size = 4 -> ((mem[addr + 3] * Byte + mem[addr + 2]) * Byte + mem[addr + 1])
                     * Byte + mem[addr]
Write(mem, addr, size, value) ==
  [a \in DOMAIN mem |-> IF a \in addr..(addr + size - 1)
                        THEN (value \div Values(a - addr)) % Byte ELSE mem[a]]

(* A number of size bytes, extended to a word by its sign.                 *)
Extend(value, size) ==
  IF value >= Values(size) \div 2 THEN Wrap(value - Values(size)) ELSE value
=============================================================================
