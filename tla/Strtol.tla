------------------------------ MODULE Strtol -------------------------------
(* strtol() of string.c, kernel and user library, for a long of LongBits   *)
(* bits: white space, sign, prefix, then digits up to a cutoff.            *)
EXTENDS Integers, Sequences, SequencesExt, FiniteSetsExt

CONSTANTS Bytes, MaxLen,   \* the characters of the inputs and their length
          Bases,           \* the bases asked for
          LongBits         \* width of a long

VARIABLES nptr, base,      \* the input
          ret, endptr,     \* the answer, endptr as a position in nptr
          done

vars == <<nptr, base, ret, endptr, done>>

At(i) == IF i < Len(nptr) THEN nptr[i + 1] ELSE 0

isspace(c) == c = 32 \/ (9 <= c /\ c <= 13)
isdigit(c) == 48 <= c /\ c <= 57
isupper(c) == 65 <= c /\ c <= 90
isalpha(c) == isupper(c) \/ (97 <= c /\ c <= 122)

(* The value of a digit, 99 for anything else.                             *)
DigitOf(c) ==
  CASE isdigit(c) -> c - 48
    [] isalpha(c) -> c - (IF isupper(c) THEN 65 - 10 ELSE 97 - 10)
    [] OTHER -> 99

RECURSIVE SkipSpace(_)
SkipSpace(i) == IF isspace(At(i)) THEN SkipSpace(i + 1) ELSE i

(* Where the digits start, and in which base they are read.                *)
Prefix(i) ==
  IF base \in {0, 16} /\ At(i) = 48 /\ At(i + 1) \in {88, 120}
  THEN [at |-> i + 2, base |-> 16]
  ELSE [at |-> i, base |-> IF base # 0 THEN base ELSE IF At(i) = 48 THEN 8 ELSE 10]

Limit(neg) == IF neg THEN 2^(LongBits - 1) ELSE 2^(LongBits - 1) - 1

(* any is 0 before the first digit, 1 after it, -1 once a digit was too    *)
(* much; the digits behind that one are still skipped.                     *)
RECURSIVE Digits(_, _, _, _, _)
Digits(i, b, lim, acc, any) ==
  LET c == DigitOf(At(i)) IN
  IF c >= b THEN [at |-> i, acc |-> acc, any |-> any]
  ELSE IF any < 0 \/ acc > lim \div b \/ (acc = lim \div b /\ c > lim % b)
  THEN Digits(i + 1, b, lim, acc, -1)
  ELSE Digits(i + 1, b, lim, acc * b + c, 1)

(* The unsigned accumulator, returned as a long.                           *)
AsLong(u) == IF u >= 2^(LongBits - 1) THEN u - 2^LongBits ELSE u
Answer(neg, d) ==
  AsLong((IF d.any < 0 THEN Limit(neg) ELSE IF neg THEN -d.acc ELSE d.acc) % 2^LongBits)

strtol(i, neg) ==
  LET p == Prefix(i)
      d == Digits(p.at, p.base, Limit(neg), 0, 0)
  IN  ret' = Answer(neg, d) /\ endptr' = IF d.any # 0 THEN d.at ELSE 0

user_strtol(i, neg) == strtol(i, neg)

Init ==
  /\ nptr \in BoundedSeq(Bytes, MaxLen)
  /\ base \in Bases
  /\ ret = 0 /\ endptr = 0
  /\ done = FALSE

Call ==
  /\ ~done
  /\ LET i == SkipSpace(0)
         neg == At(i) = 45
         start == IF At(i) \in {43, 45} THEN i + 1 ELSE i
     IN  strtol(start, neg) \/ user_strtol(start, neg)
  /\ done' = TRUE
  /\ UNCHANGED <<nptr, base>>

Spec == Init /\ [][Call]_vars

-----------------------------------------------------------------------------
(* The exact value of the digits x in base b.                              *)
Exact(x, b) == FoldLeft(LAMBDA a, c : a * b + DigitOf(c), 0, x)
Clamp(v) == Max({-2^(LongBits - 1), Min({v, 2^(LongBits - 1) - 1})})

(* C's grammar of a number w in the base asked for: digits of the base,    *)
(* behind 0x or 0X, if base is 0 or 16, only when one follows; with base 0 *)
(* a leading 0 says octal.                                                 *)
AllDigits(w, b) == w # <<>> /\ \A j \in DOMAIN w : DigitOf(w[j]) < b
HexWord(w) == /\ base \in {0, 16} /\ Len(w) > 2 /\ w[1] = 48 /\ w[2] \in {88, 120}
              /\ AllDigits(SubSeq(w, 3, Len(w)), 16)
BaseOf(w) == IF base # 0 THEN base ELSE IF w[1] = 48 THEN 8 ELSE 10
IsNumber(w) == HexWord(w) \/ AllDigits(w, BaseOf(w))
NumberIn(w) == IF HexWord(w) THEN Exact(SubSeq(w, 3, Len(w)), 16) ELSE Exact(w, BaseOf(w))

(* string.c strtol: the longest number at the front of the text, clamped   *)
(* to the range of long at either end, and the position behind its last    *)
(* digit, also where the value was too big; without a number 0 and the     *)
(* start of the text.  The code departs from C in one case, barePrefix:    *)
(* where no hexadecimal digit follows 0x, C reads the 0 and stops at the   *)
(* x; the code has skipped both and says that there was no number.         *)
ReadsTheNumber ==
  done =>
    LET sign == Max({i \in 0..Len(nptr) : \A j \in 1..i : isspace(nptr[j])})
        i0 == IF At(sign) \in {43, 45} THEN sign + 1 ELSE sign
        ends == {k \in i0 + 1..Len(nptr) : IsNumber(SubSeq(nptr, i0 + 1, k))}
        v == IF ends = {} THEN 0 ELSE NumberIn(SubSeq(nptr, i0 + 1, Max(ends)))
        barePrefix == /\ base \in {0, 16} /\ At(i0) = 48 /\ At(i0 + 1) \in {88, 120}
                      /\ DigitOf(At(i0 + 2)) >= 16
    IN  /\ ret = Clamp(IF At(sign) = 45 THEN -v ELSE v)
        /\ endptr = IF ends = {} \/ barePrefix THEN 0 ELSE Max(ends)
=============================================================================
