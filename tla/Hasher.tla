------------------------------- MODULE Hasher -------------------------------
(***************************************************************************)
(* The arithmetic of server/src/Hasher.c and of the sizes in Utils.c, on   *)
(* 32-bit words that wrap.  (Signed overflow is undefined in C; the loops  *)
(* of Hasher.c give the compiler nothing to conclude from it, and wrap.)   *)
(*                                                                         *)
(* A word is a pair of 16-bit halves, <<high, low>>, so that no step of    *)
(* the computation leaves the numbers TLC can represent.  A key is a       *)
(* sequence of bytes that is not empty; the empty one is in Command.       *)
(***************************************************************************)
EXTENDS Integers, Sequences

\* Between words and the int with the same bits.
Word(n)   == <<(n \div 65536) % 65536, n % 65536>>
Signed(w) == (IF w[1] < 32768 THEN w[1] ELSE w[1] - 65536) * 65536 + w[2]

Plus(v, w) ==
    LET low == v[2] + w[2]
    IN  <<(v[1] + w[1] + low \div 65536) % 65536, low % 65536>>

\* For factors f with both halves below 2^15.
Times(w, f) ==
    LET low == w[2] * (f % 65536)
    IN  <<(w[1] * (f % 65536) + w[2] * (f \div 65536) + low \div 65536) % 65536,
          low % 65536>>

\* Of the bits of two numbers, those that one of them has, and that either has.
ExOr16[a, b \in Nat] ==
    IF a + b = 0 THEN 0 ELSE 2 * ExOr16[a \div 2, b \div 2] + ((a + b) % 2)
Or16[a, b \in Nat] ==
    IF a + b = 0 THEN 0
    ELSE 2 * Or16[a \div 2, b \div 2] + (IF (a % 2) + (b % 2) > 0 THEN 1 ELSE 0)

ExOr(v, w) == <<ExOr16[v[1], w[1]], ExOr16[v[2], w[2]]>>
Or(v, w)   == <<Or16[v[1], w[1]], Or16[v[2], w[2]]>>

\* w << n, for n < 15; w >> n for a signed int and, for n < 16, an unsigned one.
Left(w, n)   == Times(w, 2 ^ n)
Arith(w, n)  == Word(Signed(w) \div 2 ^ n)
Right(w, n)  == <<w[1] \div 2 ^ n, (w[1] % 2 ^ n) * 2 ^ (16 - n) + w[2] \div 2 ^ n>>

\* The loop of a hash function: h starts as h0 and takes one byte after the other.
Loop(Step(_, _), h0, bytes) ==
    LET h[i \in 0 .. Len(bytes)] == IF i = 0 THEN h0 ELSE Step(h[i - 1], <<0, bytes[i]>>)
    IN  h[Len(bytes)]

-----------------------------------------------------------------------------
(* Hasher.c                                                                *)

Debug(pos, bytes) == IF Len(bytes) <= pos THEN 0 ELSE bytes[pos + 1]

Zero == <<0, 0>>

Additive(bytes)     == Signed(Loop(Plus, Zero, bytes))
XorAll(bytes)       == Signed(Loop(ExOr, Zero, bytes))
Rotating(bytes)     == Signed(Loop(LAMBDA h, b : ExOr(ExOr(Left(h, 4), Arith(h, 28)), b), Zero, bytes))
Bernstein(bytes)    == Signed(Loop(LAMBDA h, b : Plus(Times(h, 33), b), Zero, bytes))
ModifiedBernstein(bytes) == Signed(Loop(LAMBDA h, b : ExOr(Times(h, 33), b), Zero, bytes))
ShiftAddXor(bytes)  ==
    Signed(Loop(LAMBDA h, b : ExOr(h, Plus(Plus(Left(h, 5), Arith(h, 2)), b)), Zero, bytes))

\* The offset basis is 2166136261 = 33052 * 2^16 + 40389.
FowlerNollVo(bytes) ==
    Signed(Loop(LAMBDA h, b : ExOr(Times(h, 16777619), b), <<33052, 40389>>, bytes))

OneAtATime(bytes) ==
    LET Mix(h, left, right) == LET s == Plus(h, Left(h, left)) IN ExOr(s, Right(s, right))
        h == Mix(Loop(LAMBDA g, b : Mix(Plus(g, b), 10, 6), Zero, bytes), 3, 11)
    IN  Signed(Plus(h, Times(h, 32768)))

\* The four highest bits are folded into bits 4 to 7 and cleared.
Elf(bytes) ==
    LET Fold(h) == <<h[1] % 4096, ExOr16[h[2], 16 * (h[1] \div 4096)]>>
    IN  Signed(Loop(LAMBDA h, b : Fold(Plus(Left(h, 4), b)), Zero, bytes))

\* Hasher_hash: 0 for a number that is not a method.
HashWith(number, bytes) ==
    CASE number = 0  -> Debug(0, bytes)
      [] number = 1  -> Debug(1, bytes)
      [] number = 2  -> Additive(bytes)
      [] number = 3  -> XorAll(bytes)
      [] number = 4  -> Rotating(bytes)
      [] number = 5  -> Bernstein(bytes)
      [] number = 6  -> ModifiedBernstein(bytes)
      [] number = 7  -> ShiftAddXor(bytes)
      [] number = 8  -> FowlerNollVo(bytes)
      [] number = 9  -> OneAtATime(bytes)
      [] number = 10 -> Elf(bytes)
      [] OTHER       -> 0

-----------------------------------------------------------------------------
(* Utils.c                                                                 *)

\* value |= value >> n, with the sign extended.
Smeared(w, n) == Or(w, Arith(w, n))

\* All bits at and below the highest one of value - 1.
CalcHashMask(value) ==
    Signed(Smeared(Smeared(Smeared(Smeared(Smeared(Word(value - 1), 1), 2), 4), 8), 16))

\* (value - 1) smeared and incremented, which wraps.
RoundUpBits(value) == Signed(Plus(Word(CalcHashMask(value)), Word(1)))
=============================================================================
