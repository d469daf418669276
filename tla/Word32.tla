------------------------------- MODULE Word32 -------------------------------
(***************************************************************************)
(* The 32-bit words of the filter machine (bpf_u_int32, bpf_int32).  A     *)
(* word is kept as the signed number bpf_int32 gives it, in -2^31..2^31-1, *)
(* which is also what TLC's integers can hold; the operations below are    *)
(* the unsigned ones of C on that representation, computed on 16-bit       *)
(* halves so that no intermediate result leaves the range.                 *)
(***************************************************************************)
EXTENDS Integers

Half == 65536

Hi(w) == (w \div Half) % Half
Lo(w) == w % Half

\* the word whose halves are h and l
Word(h, l) == (IF h >= 32768 THEN h - Half ELSE h) * Half + l

\* unsigned comparison
ULT(a, b) == IF (a < 0) = (b < 0) THEN a < b ELSE b < 0
ULE(a, b) == a = b \/ ULT(a, b)

Add32(a, b) ==
    LET l == Lo(a) + Lo(b)
    IN  Word((Hi(a) + Hi(b) + (l \div Half)) % Half, l % Half)

Not32(a) == Word(Half - 1 - Hi(a), Half - 1 - Lo(a))
Neg32(a) == Add32(Not32(a), 1)
Sub32(a, b) == Add32(a, Neg32(b))

\* A bitwise operation on two halves: F is applied to each of the 16 bits.
Bits(x, y, F(_, _)) ==
    LET bit[i \in 0..16] ==
            IF i = 16 THEN 0
            ELSE F((x \div 2^i) % 2, (y \div 2^i) % 2) * 2^i + bit[i + 1]
    IN  bit[0]

Both(p, q) == p * q
Either(p, q) == p + q - p * q
Differ(p, q) == (p + q) % 2

And32(a, b) == Word(Bits(Hi(a), Hi(b), Both), Bits(Lo(a), Lo(b), Both))
Or32(a, b)  == Word(Bits(Hi(a), Hi(b), Either), Bits(Lo(a), Lo(b), Either))
Xor32(a, b) == Word(Bits(Hi(a), Hi(b), Differ), Bits(Lo(a), Lo(b), Differ))

\* Shift by one, and by n: the count is taken modulo 32 as ARM and x86
\* immediate shifts do; C leaves a larger count undefined.
Shl1(a) == Add32(a, a)
Shl32(a, n) ==
    LET s[i \in 0..31] == IF i = 0 THEN a ELSE Shl1(s[i - 1])
    IN  s[n % 32]
Shr1(a) == Word(Hi(a) \div 2, (Hi(a) % 2) * 32768 + Lo(a) \div 2)
Shr32(a, n) ==
    LET s[i \in 0..31] == IF i = 0 THEN a ELSE Shr1(s[i - 1])
    IN  s[n % 32]

\* product by the bits of b, quotient and remainder by long division
Bit(w, i) == (Shr32(w, i)) % 2
Mul32(a, b) ==
    LET m[i \in 0..32] ==
            IF i = 32 THEN 0
            ELSE Add32(IF Bit(b, i) = 1 THEN Shl32(a, i) ELSE 0, m[i + 1])
    IN  m[0]

DivMod32(a, b) ==
    LET d[i \in 0..32] ==
            IF i = 32 THEN [q |-> 0, r |-> 0]
            ELSE LET r == Add32(Shl1(d[i + 1].r), Bit(a, i))
                 IN  IF ULE(b, r)
                     THEN [q |-> Add32(Shl1(d[i + 1].q), 1), r |-> Sub32(r, b)]
                     ELSE [q |-> Shl1(d[i + 1].q), r |-> r]
    IN  IF a >= 0 /\ b > 0 THEN [q |-> a \div b, r |-> a % b] ELSE d[0]

\* what a branch tests and what an ALU instruction computes
Holds(op, a, b) ==
    CASE op = "JEQ" -> a = b
      [] op = "JGT" -> ULT(b, a)
      [] op = "JGE" -> ULE(b, a)
      [] OTHER -> And32(a, b) # 0

AluResult(op, a, b) ==
    CASE op = "ADD" -> Add32(a, b)
      [] op = "SUB" -> Sub32(a, b)
      [] op = "MUL" -> Mul32(a, b)
      [] op = "DIV" -> DivMod32(a, b).q
      [] op = "MOD" -> DivMod32(a, b).r
      [] op = "AND" -> And32(a, b)
      [] op = "OR"  -> Or32(a, b)
      [] op = "XOR" -> Xor32(a, b)
      [] op = "LSH" -> Shl32(a, b)
      [] op = "RSH" -> Shr32(a, b)
      [] OTHER -> Neg32(a)
=============================================================================
