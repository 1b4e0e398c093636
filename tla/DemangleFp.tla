----------------------------- MODULE DemangleFp -----------------------------
(* Floating-point literals in mangled names (libelftc_dem_gnu3.c): the hex *)
(* digits become the bytes of a number in memory, lowest byte first, and   *)
(* the number is printed into a buffer that grows until the text fits.     *)
(* The kernel's snprintf() has no %f: an unknown conversion emits its own  *)
(* letter (printf.c:499), so the texts are fld, ff and fd for %fld, %ff    *)
(* and %Lfd whatever the number is.  The sizes of the types are constants; *)
(* long double has neither the 10 nor the 16 bytes that the code knows (it *)
(* has 12 on i386).                                                        *)
EXTENDS Naturals, Sequences, FiniteSetsExt

CONSTANTS SizeOf,   \* type -> bytes
          Digits    \* the hex digits that are tried
NULL == [ok |-> FALSE, mem |-> <<>>, text |-> <<>>]
FLOAT_EXTENED_BYTES == 10
FLOAT_QUADRUPLE_BYTES == 16
FLOAT_SPRINTF_TRY_LIMIT == 5

VARIABLES type, p, rtn, done
vars == <<type, p, rtn, done>>

Hex == <<"0", "1", "2", "3", "4", "5", "6", "7", "8", "9", "a", "b", "c", "d", "e", "f">>
hex_to_dec(c) == (CHOOSE i \in 1..16 : Hex[i] = c) - 1   \* -1 for other characters is left out

ByteAt(q, i) == hex_to_dec(q[Len(q) - i * 2]) + hex_to_dec(q[Len(q) - i * 2 - 1]) * 16

Memory(q, size) == [i \in 0..size - 1 |-> IF i < Len(q) \div 2 THEN ByteAt(q, i) ELSE 0]

(* The length of the buffer that the text of length n fits in, or 0.       *)
RECURSIVE Print_(_, _, _)
Print_(n, rtn_len, limit) ==
  IF n < rtn_len THEN rtn_len
  ELSE IF limit > FLOAT_SPRINTF_TRY_LIMIT THEN 0 ELSE Print_(n, (rtn_len * 1618) \div 1000, limit + 1)

Decode(q, size, text, rtn_len) ==
  IF \/ Len(q) = 0 \/ Len(q) % 2 # 0 \/ Len(q) \div 2 > size
     \/ Print_(Len(text), rtn_len, 0) = 0
  THEN NULL
  ELSE [ok |-> TRUE, mem |-> Memory(q, size), text |-> text]

decode_fp_to_double(q) == Decode(q, SizeOf["double"], <<"f", "l", "d">>, 64)
decode_fp_to_float(q) == Decode(q, SizeOf["float"], <<"f", "f">>, 64)
LongDoubleText == <<"f", "d">>
decode_fp_to_long_double(q) == Decode(q, SizeOf["long double"], LongDoubleText, 256)
decode_fp_to_float128(q) ==
  CASE SizeOf["long double"] = FLOAT_QUADRUPLE_BYTES -> decode_fp_to_long_double(q)
    [] SizeOf["long double"] = FLOAT_EXTENED_BYTES ->
         Decode(q, FLOAT_QUADRUPLE_BYTES, LongDoubleText, 256)
    [] OTHER -> NULL
decode_fp_to_float80(q) ==
  CASE SizeOf["long double"] = FLOAT_QUADRUPLE_BYTES ->
         Decode(q, FLOAT_EXTENED_BYTES, LongDoubleText, 256)
    [] SizeOf["long double"] = FLOAT_EXTENED_BYTES -> decode_fp_to_long_double(q)
    [] OTHER -> NULL

-----------------------------------------------------------------------------
Inputs == UNION {[1..n -> Digits] : n \in 0..2 * Max({SizeOf["double"], SizeOf["float"]}) + 1}

Init == type \in {"d", "e", "f", "g"} /\ p \in Inputs /\ rtn = NULL /\ done = FALSE

(* cpp_demangle_push_fp() with the decoder of the literal's type.          *)
cpp_demangle_push_fp ==
  /\ ~done /\ done' = TRUE
  /\ rtn' = CASE type = "d" -> decode_fp_to_double(p)
              [] type = "e" -> IF SizeOf["long double"] = 10 THEN decode_fp_to_double(p)
                               ELSE decode_fp_to_float80(p)
              [] type = "f" -> decode_fp_to_float(p)
              [] type = "g" -> IF SizeOf["long double"] = 16 THEN decode_fp_to_double(p)
                               ELSE decode_fp_to_float128(p)
  /\ UNCHANGED <<type, p>>

Spec == Init /\ [][cpp_demangle_push_fp]_vars

-----------------------------------------------------------------------------
Value(q) == MapThenSumSet(LAMBDA i : hex_to_dec(q[i]) * 16^(Len(q) - i), DOMAIN q)

(* The number in memory is the one the digits write, for any number of     *)
(* digits that the type holds (decode_fp_to_double, decode_fp_to_float).   *)
BytesAreTheNumber ==
  done /\ rtn.ok => MapThenSumSet(LAMBDA i : rtn.mem[i] * 256^i, DOMAIN rtn.mem) = Value(p)

(* A double or float has a text exactly when its digits are whole bytes    *)
(* that the type holds, and a long double never has one.  The text is the  *)
(* rest of the format and does not say the number (see above).             *)
TextIsTheFormat ==
  done =>
    LET fits(size) == Len(p) \in {2 * k : k \in 1..size}
    IN  rtn.text = CASE type = "d" /\ fits(SizeOf["double"]) -> <<"f", "l", "d">>
                     [] type = "f" /\ fits(SizeOf["float"]) -> <<"f", "f">>
                     [] OTHER -> <<>>

(* The bytes in memory are the literal's; its text is only the format's.   *)
LiteralsDecode == BytesAreTheNumber /\ TextIsTheFormat
=============================================================================
