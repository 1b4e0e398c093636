----------------------------- MODULE SoftFloat -----------------------------
(* compile-rt-builtins: floating point on the bits of the representation.  *)
(* A number is its rep_t: sign, exponent and significand.  The code is     *)
(* written once for float (23 bits of significand) and double (52).        *)
EXTENDS Integers, Sequences

CONSTANTS significandBits, exponentBits,
          IntBits,      \* bits of the integer type that is converted (di_int)
          MaxScale      \* largest exponent for scalbn

VARIABLES x, y, res

vars == <<x, y, res>>
typeWidth == significandBits + exponentBits + 1
maxExponent == 2^exponentBits - 1
exponentBias == maxExponent \div 2
implicitBit == 2^significandBits
signBit == 2^(typeWidth - 1)
infRep == maxExponent * implicitBit
quietBit == implicitBit \div 2
qnanRep == infRep + quietBit
Reps == 0 .. 2^typeWidth - 1

Sign(a) == a >= signBit
Abs(a) == a % signBit
Exp(a) == Abs(a) \div implicitBit
Sig(a) == a % implicitBit
IsNaN(a) == Abs(a) > infRep
Quiet(a) == IF (a \div quietBit) % 2 = 0 THEN a + quietBit ELSE a     \* a | quietBit
Signed(abs, negative) == IF negative THEN abs + signBit ELSE abs
Minus(a) == (a + signBit) % 2^typeWidth                               \* a ^ signBit

rep_clz(s) == CHOOSE k \in 0 .. typeWidth - 1 : s * 2^k >= signBit /\ s * 2^k < 2 * signBit
normalize(s) == LET shift == rep_clz(s) - rep_clz(implicitBit)
                IN  [sig |-> s * 2^shift, exp |-> 1 - shift]
Unpacked(a) == IF Exp(a) = 0 THEN normalize(Sig(a))
               ELSE [sig |-> Sig(a) + implicitBit, exp |-> Exp(a)]

(* s >> k, with the lowest bit set when a bit was lost.                    *)
ShiftedNoSticky(s, k) == s \div 2^k    \* mutant: the lost bits are forgotten
Shifted(s, k) == LET r == s \div 2^k IN IF s % 2^k # 0 /\ r % 2 = 0 THEN r + 1 ELSE r

(* Round to nearest, ties to even, when rest was cut off.                  *)
Rounded(r, rest, half) ==
  IF rest > half \/ (rest = half /\ r % 2 = 1) THEN r + 1 ELSE r

-----------------------------------------------------------------------------
(* a and b are not zero, and a is the larger one: fp_add_impl.inc.         *)
AddFinite(a, b) ==
  LET ua == Unpacked(a)  ub == Unpacked(b)
      align == ua.exp - ub.exp
      aSig == ua.sig * 8
      bSig == IF align < typeWidth THEN Shifted(ub.sig * 8, align) ELSE 1
      sum == IF Sign(a) # Sign(b) THEN aSig - bSig ELSE aSig + bSig
      shift == rep_clz(sum) - rep_clz(implicitBit * 8)
      n == CASE sum < implicitBit * 8 -> [sig |-> sum * 2^shift, exp |-> ua.exp - shift]
             [] sum >= implicitBit * 16 -> [sig |-> Shifted(sum, 1), exp |-> ua.exp + 1]
             [] OTHER -> [sig |-> sum, exp |-> ua.exp]
      d == IF n.exp <= 0 THEN [sig |-> Shifted(n.sig, 1 - n.exp), exp |-> 0] ELSE n
  IN  CASE sum = 0 -> 0
        [] sum # 0 /\ n.exp >= maxExponent -> Signed(infRep, Sign(a))
        [] OTHER -> Signed(Rounded(((d.sig \div 8) % implicitBit) + d.exp * implicitBit,
                                   d.sig % 8, 4), Sign(a))

addXf3(a, b) ==
  CASE IsNaN(a) -> Quiet(a)
    [] ~IsNaN(a) /\ IsNaN(b) -> Quiet(b)
    [] Abs(a) = infRep /\ ~IsNaN(b) -> IF b = Minus(a) THEN qnanRep ELSE a
    [] Abs(a) < infRep /\ Abs(b) = infRep -> b
    [] Abs(a) = 0 /\ Abs(b) = 0 -> IF a = b THEN a ELSE 0        \* a & b
    [] Abs(a) = 0 /\ Abs(b) \in 1 .. infRep - 1 -> b
    [] Abs(a) \in 1 .. infRep - 1 /\ Abs(b) = 0 -> a
    [] OTHER -> IF Abs(b) > Abs(a) THEN AddFinite(b, a) ELSE AddFinite(a, b)
subXf3(a, b) == addXf3(a, Minus(b))

(* A product that is denormal before rounding is shifted into place.       *)
Denormalized(product, exp) == IF exp <= 0 THEN Shifted(product, 1 - exp) ELSE product

(* fp_mul_impl.inc; productHi:productLo is one number of 2 * typeWidth     *)
(* bits, as wideMultiply() makes it.                                       *)
MulFinite(a, b) ==
  LET ua == Unpacked(a)  ub == Unpacked(b)
      wide == ua.sig * ub.sig * 2^exponentBits
      carried == (wide \div 2^typeWidth) \div implicitBit = 1
      product == IF carried THEN wide ELSE 2 * wide
      exp == ua.exp + ub.exp - exponentBias + (IF carried THEN 1 ELSE 0)
      p == Denormalized(product, exp)
      hi == IF exp <= 0 THEN p \div 2^typeWidth
            ELSE ((p \div 2^typeWidth) % implicitBit) + exp * implicitBit
      negative == Sign(a) # Sign(b)
  IN  CASE exp >= maxExponent -> Signed(infRep, negative)
        [] 1 - exp >= typeWidth -> Signed(0, negative)
        [] OTHER -> Signed(Rounded(hi, p % 2^typeWidth, signBit), negative)

mulXf3(a, b) ==
  CASE IsNaN(a) -> Quiet(a)
    [] ~IsNaN(a) /\ IsNaN(b) -> Quiet(b)
    [] ~IsNaN(a) /\ ~IsNaN(b) /\ infRep \in {Abs(a), Abs(b)} ->
         IF 0 \in {Abs(a), Abs(b)} THEN qnanRep ELSE Signed(infRep, Sign(a) # Sign(b))
    [] OTHER -> IF 0 \in {Abs(a), Abs(b)} THEN Signed(0, Sign(a) # Sign(b)) ELSE MulFinite(a, b)

-----------------------------------------------------------------------------
(* Comparison as signed integers: fp_compare_impl.inc.                     *)
Srep(a) == IF Sign(a) THEN a - 2^typeWidth ELSE a
Order(m, n) == IF m < n THEN -1 ELSE IF m = n THEN 0 ELSE 1
Ordered(a, b) ==
  CASE Abs(a) = 0 /\ Abs(b) = 0 -> 0
    [] Sign(a) /\ Sign(b) /\ Abs(a) + Abs(b) # 0 -> Order(Srep(b), Srep(a))
    [] OTHER -> Order(Srep(a), Srep(b))
unordXf2(a, b) == IsNaN(a) \/ IsNaN(b)
leXf2(a, b) == IF unordXf2(a, b) THEN 1 ELSE Ordered(a, b)
geXf2(a, b) == IF unordXf2(a, b) THEN -1 ELSE Ordered(a, b)

-----------------------------------------------------------------------------
(* To integers of w bits, for the numbers that fit and those that the code *)
(* saturates; a positive one with an exponent of w - 1 wraps around.        *)
Magnitude(a, exponent) ==
  IF exponent < significandBits THEN (Sig(a) + implicitBit) \div 2^(significandBits - exponent)
  ELSE (Sig(a) + implicitBit) * 2^(exponent - significandBits)
fixint(a, w) ==
  LET exponent == Exp(a) - exponentBias
      m == Magnitude(a, exponent) % 2^w
      s == IF Sign(a) THEN -m ELSE m
  IN  CASE exponent < 0 -> 0
        [] exponent >= w -> IF Sign(a) THEN -(2^(w - 1)) ELSE 2^(w - 1) - 1
        [] OTHER -> IF s >= 2^(w - 1) THEN s - 2^w ELSE s
fixuint(a, w) ==
  LET exponent == Exp(a) - exponentBias
  IN  CASE Sign(a) \/ exponent < 0 -> 0
        [] ~Sign(a) /\ exponent >= w -> 2^w - 1
        [] OTHER -> Magnitude(a, exponent) % 2^w

(* From a word (as wide as the representation) with the sign apart.        *)
Leading(n, w) == CHOOSE k \in 0 .. w - 1 : 2^k <= n /\ n < 2^(k + 1)    \* w - 1 - clz(n)
floatunsisf(n) ==
  LET exponent == Leading(n, typeWidth)
      shift == exponent - significandBits
      fits == (n * 2^(significandBits - exponent)) - implicitBit
      cut == (n \div 2^shift) - implicitBit
      round == (n * 2^(typeWidth - shift)) % 2^typeWidth
  IN  IF n = 0 THEN 0
      ELSE (IF shift <= 0 THEN fits ELSE Rounded(cut, round, signBit))
           + (exponent + exponentBias) * implicitBit
floatsisf(n) == IF n < 0 THEN Signed(floatunsisf(-n), TRUE) ELSE floatunsisf(n)

(* From a double word: the significand is cut to MANT_DIG + 2 bits, the    *)
(* last one sticky, and rounded by adding one.                             *)
MANT_DIG == significandBits + 1
Kept(n, sd) ==
  CASE sd = MANT_DIG + 1 -> 2 * n
    [] sd = MANT_DIG + 2 -> n
    [] OTHER -> Shifted(n, sd - (MANT_DIG + 2))
floatundisf(n) ==
  LET sd == Leading(n, IntBits) + 1
      k == Kept(n, sd)
      r == ((IF (k \div 4) % 2 = 1 /\ k % 2 = 0 THEN k + 1 ELSE k) + 1) \div 4
      carried == r = 2^MANT_DIG
      a == IF sd <= MANT_DIG THEN n * 2^(MANT_DIG - sd) ELSE IF carried THEN r \div 2 ELSE r
      e == sd - 1 + (IF sd > MANT_DIG /\ carried THEN 1 ELSE 0)
  IN  IF n = 0 THEN 0 ELSE (e + exponentBias) * implicitBit + (a % implicitBit)
floatdisf(n) == IF n < 0 THEN Signed(floatundisf(-n), TRUE) ELSE floatundisf(n)

-----------------------------------------------------------------------------
(* The exponent of a finite number that is not zero, and a * 2^k.          *)
logbX(a) ==
  IF Exp(a) # 0 THEN Exp(a) - exponentBias
  ELSE LET n == normalize(Abs(a)) IN (n.sig \div implicitBit) - exponentBias - (1 - n.exp)
scalbnX(a, k) ==
  LET u == Unpacked(a)
      exp == u.exp + k
      one == implicitBit + (u.sig % implicitBit)      \* 1.sig at the lowest normal exponent
      factor == IF exp + exponentBias - 1 < 1 THEN 1 ELSE exp + exponentBias - 1
  IN  CASE Abs(a) = 0 \/ Exp(a) = maxExponent -> a
        [] Abs(a) # 0 /\ Exp(a) # maxExponent /\ exp >= maxExponent ->
             mulXf3(Signed((maxExponent - 1) * implicitBit, Sign(a)),
                    (exponentBias + 1) * implicitBit)
        [] OTHER -> IF exp <= 0 THEN mulXf3(Signed(one, Sign(a)), factor * implicitBit)
                    ELSE Signed(exp * implicitBit + (u.sig % implicitBit), Sign(a))

-----------------------------------------------------------------------------
Init == x \in Reps /\ y \in Reps /\ res = <<>>

Scales == -MaxScale .. MaxScale
Ints == -(2^(IntBits - 1)) .. 2^(IntBits - 1) - 1
Call ==
  /\ res = <<>>
  /\ res' = [sum |-> addXf3(x, y), difference |-> subXf3(x, y), product |-> mulXf3(x, y),
             order |-> <<leXf2(x, y), geXf2(x, y)>>,
             unary |-> IF y # 0 THEN <<>>
                       ELSE [fix |-> <<fixint(x, IntBits), fixuint(x, IntBits)>>,
                             word |-> <<floatunsisf(x), floatsisf(Srep(x))>>,
                             dword |-> [n \in Ints |-> floatdisf(n)],
                             logb |-> IF Abs(x) \in 1 .. infRep - 1 THEN logbX(x) ELSE 0,
                             scalbn |-> [k \in Scales |-> scalbnX(x, k)]]]
  /\ UNCHANGED <<x, y>>

Spec == Init /\ [][Call]_vars
-----------------------------------------------------------------------------
(* The value of a representation, in units of the smallest positive number *)
(* (2^-Unit); infinity is where the next binade would start.               *)
Unit == exponentBias + significandBits - 1
Val(abs) == IF abs < implicitBit THEN abs
            ELSE ((abs % implicitBit) + implicitBit) * 2^((abs \div implicitBit) - 1)
Value(a) == IF Sign(a) THEN -Val(Abs(a)) ELSE Val(Abs(a))
Magn(n) == IF n < 0 THEN -n ELSE n
Finite(a) == Abs(a) < infRep

(* r is m * 2^k, m >= 0, rounded to nearest, ties to even.                 *)
IsRounded(r, m, k) ==
  LET num == 2 * m * (IF k > 0 THEN 2^k ELSE 1)
      den == IF k < 0 THEN 2^(-k) ELSE 1
      Mid(s) == (Val(s) + Val(s + 1)) * den
  IN  /\ r <= infRep
      /\ r > 0 => num > Mid(r - 1) \/ (num = Mid(r - 1) /\ r % 2 = 0)
      /\ r < infRep => num < Mid(r) \/ (num = Mid(r) /\ r % 2 = 0)
Is(r, n) ==    \* the representation of the exact value n, with its sign
  IsRounded(Abs(r), Magn(n), 0) /\ (n # 0 => Sign(r) = (n < 0))

(* Sums and differences of finite numbers are the exact ones rounded to    *)
(* nearest, through cancellation, denormals and overflow; what is not a    *)
(* number stays so, and opposite infinities have no sum: fp_add_impl.inc.  *)
SumIsRounded ==
  res # <<>> =>
    /\ Finite(x) /\ Finite(y) => /\ Is(res.sum, Value(x) + Value(y))
                                 /\ Is(res.difference, Value(x) - Value(y))
    /\ IsNaN(res.sum) <=> IsNaN(x) \/ IsNaN(y) \/ (Abs(x) = infRep /\ y = Minus(x))

(* Products are the exact ones rounded to nearest: fp_mul_impl.inc.        *)
ProductIsRounded ==
  res # <<>> =>
    LET r == res.product
        ux == Unpacked(x)  uy == Unpacked(y)
    IN  /\ Finite(x) /\ Finite(y) /\ Abs(x) # 0 /\ Abs(y) # 0 =>
             IsRounded(Abs(r), ux.sig * uy.sig, ux.exp + uy.exp - 2 - Unit)
        /\ IsNaN(r) <=> \/ IsNaN(x) \/ IsNaN(y)
                        \/ {Abs(x), Abs(y)} = {0, infRep}
        /\ ~IsNaN(r) => Sign(r) = (Sign(x) # Sign(y))

(* The comparisons order numbers by value, and a NaN answers FALSE to      *)
(* every test that the compiler makes of the two results.                  *)
ComparesValues ==
  res # <<>> =>
    res.order = IF IsNaN(x) \/ IsNaN(y) THEN <<1, -1>>
                ELSE LET o == Order(Value(x), Value(y)) IN <<o, o>>

(* Integers become the nearest number, whole parts of numbers that fit     *)
(* become integers, and scalbn() and logb() agree with the value.          *)
ConversionsKeepTheValue ==
  res # <<>> /\ y = 0 =>
    LET u == res.unary
        whole == Val(Abs(x)) \div 2^Unit
    IN  /\ Finite(x) =>
             /\ whole < 2^(IntBits - 1) => u.fix[1] = IF Sign(x) THEN -whole ELSE whole
             /\ whole < 2^IntBits => u.fix[2] = IF Sign(x) THEN 0 ELSE whole
             /\ \A k \in Scales :
                  /\ Sign(u.scalbn[k]) = Sign(x)
                  /\ Abs(x) # 0 => IsRounded(Abs(u.scalbn[k]), Unpacked(x).sig, Unpacked(x).exp - 1 + k)
        /\ IsRounded(Abs(u.word[1]), x, Unit)
        /\ Is(u.word[2], Srep(x) * 2^Unit)
        /\ \A n \in Ints : Is(u.dword[n], n * 2^Unit)
        /\ Abs(x) \in 1 .. infRep - 1 =>
             u.logb + Unit >= 0 /\ Val(Abs(x)) \div 2^(u.logb + Unit) = 1

(* The floating-point helpers compute what IEEE 754 asks of the format.    *)
FloatsRound == SumIsRounded /\ ProductIsRounded /\ ComparesValues /\ ConversionsKeepTheValue
=============================================================================
