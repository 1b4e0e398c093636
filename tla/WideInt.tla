------------------------------ MODULE WideInt ------------------------------
(* compile-rt-builtins: the integer helpers that gcc calls, for words of W *)
(* bits (su_int: 32) and double words (du_int: 64).  An integer is its bit *)
(* pattern, a number in 0 .. 2^n - 1; Signed() is what si_int and di_int   *)
(* make of it.                                                             *)
EXTENDS Integers, Sequences, FiniteSets, Bitwise

CONSTANTS W,         \* bits of a word, a power of 2
          Operands   \* the double words that are tried

VARIABLES a, b, out

vars == <<a, b, out>>
M == 2^(2 * W)
Lo(x) == x % 2^W
Hi(x) == x \div 2^W
Join(hi, lo) == hi * 2^W + lo
ShiftW(x, k) == (x * 2^k) % 2^W      \* a word shifted left
Shr(x, k) == x \div 2^k
Signed(x, n) == IF x < 2^(n - 1) THEN x ELSE x - 2^n
Negative(x, n) == x >= 2^(n - 1)
Negated(x, n) == (2^n - x) % 2^n
Magnitude(x, n) == IF Negative(x, n) THEN Negated(x, n) ELSE x    \* (x ^ s) - s
WithSign(x, n, negative) == IF negative THEN Negated(x, n) ELSE x

-----------------------------------------------------------------------------
(* Counting bits.  The word is halved until two bits are left.             *)
RECURSIVE Leading(_, _, _), Trailing(_, _, _), Folded(_, _)
Leading(x, h, r) ==
  IF h = 1 THEN r + (IF x >= 2 THEN 0 ELSE 2 - x)
  ELSE LET t == IF Shr(x, h) = 0 THEN h ELSE 0
       IN  Leading(Shr(x, h - t), h \div 2, r + t)
Trailing(x, h, r) ==
  IF h = 1 THEN r + (IF x % 2 = 1 THEN 0 ELSE 2 - ((x % 4) \div 2))
  ELSE LET t == IF x % 2^h = 0 THEN h ELSE 0
       IN  Trailing(Shr(x, t), h \div 2, r + t)
clzsi2(x) == Leading(x, W \div 2, 0)
ctzsi2(x) == Trailing(x, W \div 2, 0)
clzdi2(x) == IF Hi(x) = 0 THEN clzsi2(Lo(x)) + W ELSE clzsi2(Hi(x))
ctzdi2(x) == IF Lo(x) = 0 THEN ctzsi2(Hi(x)) + W ELSE ctzsi2(Lo(x))
ffssi2(x) == IF x = 0 THEN 0 ELSE ctzsi2(x) + 1
ffsdi2(x) == IF Lo(x) # 0 THEN ctzsi2(Lo(x)) + 1
             ELSE IF Hi(x) = 0 THEN 0 ELSE ctzsi2(Hi(x)) + 1 + W

(* Every 2, 4 and 8 bits of x hold the number of bits that were set there; *)
(* the masks are 0x5.., 0x3.. and 0x0f.. .                                 *)
Lanes(x, n) ==
  LET Mask(m) == m * ((2^n - 1) \div 255)
      x1 == x - (Shr(x, 1) & Mask(85))
      x2 == (Shr(x1, 2) & Mask(51)) + (x1 & Mask(51))
  IN  (x2 + Shr(x2, 4)) & Mask(15)
Folded(x, h) == IF h < 8 THEN x ELSE Folded(Lo(x + Shr(x, h)), h \div 2)
popcountsi2(x) == Folded(Lanes(x, W), W \div 2) % (2 * W)
popcountdi2(x) == Folded(Lanes(x, 2 * W), W) % (4 * W)

RECURSIVE Mixed(_, _)
Mixed(x, h) == IF h < 4 THEN x ELSE Mixed(x ^^ Shr(x, h), h \div 2)
paritysi2(x) == Shr(27030, Mixed(x, W \div 2) % 16) % 2     \* 0x6996
paritydi2(x) == Shr(27030, Mixed(Hi(x) ^^ Lo(x), W \div 2) % 16) % 2

-----------------------------------------------------------------------------
(* Division by shifting and subtracting: r:q is shifted left sr times.     *)
RECURSIVE Divide(_, _, _, _, _, _)
Divide(n, r, q, carry, sr, d) ==
  IF sr = 0 THEN <<((2 * q) % 2^n) + carry, r>>
  ELSE LET r1 == ((2 * r) % 2^n) + Shr(q, n - 1)
           q1 == ((2 * q) % 2^n) + carry
           s == Negative((d - r1 - 1) % 2^n, n)
       IN  Divide(n, IF s THEN r1 - d ELSE r1, q1, IF s THEN 1 ELSE 0, sr - 1, d)

Clz(x, n) == IF x = 0 THEN n ELSE IF n = W THEN clzsi2(x) ELSE clzdi2(x)
udivmodXi(n, x, d) ==   \* n bits
  LET sr == Clz(d, n) - Clz(x, n)
  IN  CASE sr < 0 -> <<0, x>>
        [] sr = n - 1 -> <<x, 0>>
        [] OTHER -> Divide(n, Shr(x, sr + 1), (x * 2^(n - sr - 1)) % 2^n, 0, sr + 1, d)
udivXi3(n, x, d) == udivmodXi(n, x, d)[1]
umodXi3(n, x, d) == udivmodXi(n, x, d)[2]
udivmodsi4(x, d) == LET q == udivXi3(W, x, d) IN <<q, (x - q * d) % 2^W>>

StartNear(x, sr) ==   \* mutant: the case of a shift by more than a word is missing
  [q |-> Join(ShiftW(Lo(x), (2 * W - sr) % W), 0),
   r |-> Join(Shr(Hi(x), sr), ShiftW(Hi(x), (2 * W - sr) % W) + Shr(Lo(x), sr))]
(* The first q and r for a shift of sr, word by word.                      *)
Start(x, sr) ==
  LET nh == Hi(x)  nl == Lo(x)
  IN  CASE sr = W -> [q |-> Join(nl, 0), r |-> nh]
        [] sr < W -> [q |-> Join(ShiftW(nl, W - sr), 0),
                      r |-> Join(Shr(nh, sr), ShiftW(nh, W - sr) + Shr(nl, sr))]
        [] OTHER -> [q |-> Join(ShiftW(nh, 2 * W - sr) + Shr(nl, sr - W), ShiftW(nl, 2 * W - sr)),
                     r |-> Shr(nh, sr - W)]
Shifted(x, d, sr) == Divide(2 * W, Start(x, sr).r, Start(x, sr).q, 0, sr, d)
PowerOf2(x) == (x & (x - 1)) = 0

udivmoddi4(x, d) ==
  LET nh == Hi(x)  nl == Lo(x)  dh == Hi(d)  dl == Lo(d)
      near == clzsi2(dh) - clzsi2(nh)
  IN  CASE nh = 0 /\ dh = 0 -> <<nl \div dl, nl % dl>>
        [] nh = 0 /\ dh # 0 -> <<0, nl>>
        [] nh # 0 /\ dl = 0 /\ nl = 0 -> <<nh \div dh, Join(nh % dh, 0)>>
        [] nh # 0 /\ dl = 0 /\ nl # 0 ->
             IF PowerOf2(dh) THEN <<Shr(nh, ctzsi2(dh)), Join(nh & (dh - 1), nl)>>
             ELSE IF near \in 0 .. W - 2 THEN Shifted(x, d, near + 1) ELSE <<0, x>>
        [] nh # 0 /\ dl # 0 /\ dh = 0 ->
             IF dl = 1 THEN <<x, 0>>
             ELSE IF PowerOf2(dl) THEN <<Start(x, ctzsi2(dl)).r, nl & (dl - 1)>>
             ELSE Shifted(x, d, 1 + W + clzsi2(dl) - clzsi2(nh))
        [] nh # 0 /\ dl # 0 /\ dh # 0 ->
             IF near \in 0 .. W - 1 THEN Shifted(x, d, near + 1) ELSE <<0, x>>

(* The signed divisions, on n bits, from the unsigned ones.                *)
divXi3(n, x, y, udiv) == WithSign(udiv[1], n, Negative(x, n) # Negative(y, n))
modXi3(n, x, udiv) == WithSign(udiv[2], n, Negative(x, n))
divdi3(x, y) == divXi3(2 * W, x, y, udivmoddi4(Magnitude(x, 2 * W), Magnitude(y, 2 * W)))
moddi3(x, y) == modXi3(2 * W, x, udivmoddi4(Magnitude(x, 2 * W), Magnitude(y, 2 * W)))
divmodsi4(x, y) ==
  LET qr == udivmodsi4(Magnitude(x, W), Magnitude(y, W))
  IN  <<divXi3(W, x, y, qr), modXi3(W, x, qr)>>

-----------------------------------------------------------------------------
(* Products, shifts and comparisons of double words from those of words.   *)
muldsi3(x, y) ==
  LET h == W \div 2
      L(z) == z % 2^h
      H(z) == Shr(z, h)
      low1 == L(x) * L(y)
      t1 == H(low1) + H(x) * L(y)
      low2 == L(low1) + L(t1) * 2^h
      t2 == H(low2) + H(y) * L(x)
      low3 == L(low2) + L(t2) * 2^h
  IN  Join(Lo(H(t1) + H(t2) + H(x) * H(y)), low3)
muldi3(x, y) ==
  LET r == muldsi3(Lo(x), Lo(y))
  IN  Join(Lo(Hi(r) + Hi(x) * Lo(y) + Lo(x) * Hi(y)), Lo(r))

ashldi3(x, k) ==
  CASE k >= W -> Join(ShiftW(Lo(x), k - W), 0)
    [] k = 0 -> x
    [] OTHER -> Join(ShiftW(Hi(x), k) + Shr(Lo(x), W - k), ShiftW(Lo(x), k))
lshrdi3(x, k) ==
  CASE k >= W -> Shr(Hi(x), k - W)
    [] k = 0 -> x
    [] OTHER -> Join(Shr(Hi(x), k), ShiftW(Hi(x), W - k) + Shr(Lo(x), k))
Sar(w, k) == Shr(Signed(w, W), k) % 2^W     \* >> of a signed word
ashrdi3(x, k) ==
  CASE k >= W -> Join(Sar(Hi(x), W - 1), Sar(Hi(x), k - W))
    [] k = 0 -> x
    [] OTHER -> Join(Sar(Hi(x), k), ShiftW(Hi(x), W - k) + Shr(Lo(x), k))

Order(x, y) == IF x < y THEN 0 ELSE IF x > y THEN 2 ELSE 1
ucmpdi2(x, y) == IF Hi(x) # Hi(y) THEN Order(Hi(x), Hi(y)) ELSE Order(Lo(x), Lo(y))
cmpdi2(x, y) == IF Hi(x) # Hi(y) THEN Order(Signed(Hi(x), W), Signed(Hi(y), W))
                ELSE Order(Lo(x), Lo(y))

-----------------------------------------------------------------------------
(* Arithmetic that aborts on overflow, on n bits: the result or Abort.     *)
Abort == -1   \* compilerrt_abort()
addvXi3(n, x, y) ==
  LET s == (x + y) % 2^n
  IN  IF (~Negative(y, n)) = (Signed(s, n) < Signed(x, n)) THEN Abort ELSE s
subvXi3(n, x, y) ==
  LET s == (x - y) % 2^n
  IN  IF ~Negative(y, n) /\ Signed(s, n) > Signed(x, n) THEN Abort
      ELSE IF Negative(y, n) /\ Signed(s, n) <= Signed(x, n) THEN Abort ELSE s
negvXi2(n, x) == IF x = 2^(n - 1) THEN Abort ELSE Negated(x, n)
absvXi2(n, x) == IF x = 2^(n - 1) THEN Abort ELSE Magnitude(x, n)
muloXi4(n, x, y) ==     \* *overflow
  LET MIN == 2^(n - 1)
      x_abs == Magnitude(x, n)
      y_abs == Magnitude(y, n)
  IN  CASE x = MIN -> y \notin {0, 1}
        [] y = MIN -> x \notin {0, 1}
        [] x_abs < 2 \/ y_abs < 2 -> FALSE
        [] Negative(x, n) = Negative(y, n) -> x_abs > (MIN - 1) \div y_abs
        [] OTHER -> x_abs > MIN \div y_abs
mulvXi3(n, x, y) == IF muloXi4(n, x, y) THEN Abort ELSE (Signed(x, n) * Signed(y, n)) % 2^n

-----------------------------------------------------------------------------
Init == a \in Operands /\ b \in Operands /\ out = <<>>

Divisions ==
  IF b = 0 THEN <<>>
  ELSE <<udivmoddi4(a, b), <<udivXi3(2 * W, a, b), umodXi3(2 * W, a, b)>>,
         <<divdi3(a, b), moddi3(a, b)>>>>
WordDivisions == IF Lo(b) = 0 THEN <<>> ELSE <<udivmodsi4(Lo(a), Lo(b)), divmodsi4(Lo(a), Lo(b))>>
Call ==
  /\ out = <<>>
  /\ out' = [div |-> Divisions, divw |-> WordDivisions, mul |-> muldi3(a, b),
             shift |-> LET k == b % (2 * W) IN <<ashldi3(a, k), lshrdi3(a, k), ashrdi3(a, k)>>,
             cmp |-> <<ucmpdi2(a, b), cmpdi2(a, b)>>,
             count |-> <<popcountsi2(Lo(a)), popcountdi2(a), paritysi2(Lo(a)), paritydi2(a),
                         ffssi2(Lo(a)), ffsdi2(a)>>,
             scan |-> IF a = 0 THEN <<>> ELSE <<clzdi2(a), ctzdi2(a)>>,
             v |-> [n \in {W, 2 * W} |->
                     LET x == a % 2^n  y == b % 2^n
                     IN  <<addvXi3(n, x, y), subvXi3(n, x, y), mulvXi3(n, x, y),
                           negvXi2(n, x), absvXi2(n, x)>>]]
  /\ UNCHANGED <<a, b>>

Spec == Init /\ [][Call]_vars
-----------------------------------------------------------------------------
(* C's division, which truncates.                                          *)
Truncated(x, y, n) ==
  LET q == Magnitude(x, n) \div Magnitude(y, n)
      r == Magnitude(x, n) % Magnitude(y, n)
  IN  <<WithSign(q, n, Negative(x, n) # Negative(y, n)), WithSign(r, n, Negative(x, n))>>

(* Quotient and remainder are exact for every divisor but 0, however the   *)
(* words of the two numbers lie: udivmoddi4.c and int_div_impl.inc.        *)
DividesExactly ==
  out # <<>> =>
    /\ b # 0 => out.div = <<<<a \div b, a % b>>, <<a \div b, a % b>>, Truncated(a, b, 2 * W)>>
    /\ Lo(b) # 0 =>
         out.divw = <<<<Lo(a) \div Lo(b), Lo(a) % Lo(b)>>, Truncated(Lo(a), Lo(b), W)>>

(* What is done word by word is what the double words mean: muldi3.c, the  *)
(* shifts and the comparisons.                                             *)
WordsMakeDoubleWords ==
  out # <<>> =>
    LET sa == Signed(a, 2 * W)  sb == Signed(b, 2 * W)  p == 2^(b % (2 * W))
    IN  /\ out.mul = (sa * sb) % M
        /\ out.shift = <<((a % (M \div p)) * p), a \div p, (sa \div p) % M>>
        /\ out.cmp = <<Order(a, b), Order(sa, sb)>>

(* The bit counts of the halving and masking agree with the bits.          *)
CountsBits ==
  out # <<>> =>
    LET Set(x) == {i \in 0 .. 2 * W - 1 : (x \div 2^i) % 2 = 1}
        Lowest(s) == IF s = {} THEN 0 ELSE 1 + CHOOSE i \in s : \A j \in s : i <= j
        bits == Set(a)
        low == Set(Lo(a))
    IN  /\ out.count = <<Cardinality(low), Cardinality(bits), Cardinality(low) % 2,
                         Cardinality(bits) % 2, Lowest(low), Lowest(bits)>>
        /\ a # 0 => /\ 2^(2 * W - 1 - out.scan[1]) <= a /\ a < 2^(2 * W - out.scan[1])
                    /\ out.scan[2] + 1 = Lowest(bits)

(* The checked operations abort exactly when the exact result does not fit *)
(* the type, and return it when it does.                                   *)
AbortsOnOverflow ==
  out # <<>> =>
    \A n \in {W, 2 * W} :
      LET x == Signed(a % 2^n, n)  y == Signed(b % 2^n, n)
          Fit(z) == IF z \in -(2^(n - 1)) .. 2^(n - 1) - 1 THEN z % 2^n ELSE Abort
      IN  out.v[n] = <<Fit(x + y), Fit(x - y), Fit(x * y), Fit(-x), Fit(IF x < 0 THEN -x ELSE x)>>

(* The integer helpers compute what C asks of integers of their width.     *)
IntegersExact == DividesExactly /\ WordsMakeDoubleWords /\ CountsBits /\ AbortsOnOverflow
=============================================================================
