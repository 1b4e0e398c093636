------------------------------- MODULE Printf -------------------------------
(* vsnprintf() and what is built on it, in the kernel (printf.c, stdio.c)  *)
(* and in the user library (stdio.c, which holds the same text again): the *)
(* format is read one character at a time, numbers are written from right  *)
(* to left through a pointer q that moves on its own beside the count o of *)
(* characters, and what does not fit is counted but not written.           *)
EXTENDS Integers, Sequences, SequencesExt

CONSTANTS Calls,      \* [lib, call, n, fmt, args, spec]: the calls that are checked;
                      \* spec says what the format means, for TextOf only
          RankBits,   \* bits of the types of rank -2 (char) .. 2 (long long)
          FileBuffer  \* the 128 of vfprintf()

VARIABLES in,      \* the call
          p,       \* next character of the format
          state, flags, rank, width, prec,
          arg,     \* next argument
          out,     \* [q, o, n, mem, wild]: the buffer and the two positions
          stored,  \* what %n wrote
          pc, ret, sent

vars == <<in, p, state, flags, rank, width, prec, arg, out, stored, pc, ret, sent>>
conv == <<flags, rank, width, prec>>

NUL == "NUL"
lcdigits == <<"0","1","2","3","4","5","6","7","8","9","a","b","c","d","e","f">>
ucdigits == <<"0","1","2","3","4","5","6","7","8","9","A","B","C","D","E","F">>
MIN_RANK == -2
MAX_RANK == 2

Buffer(n) ==
  [q |-> 0, o |-> 0, n |-> n, mem |-> [i \in 0..n - 1 |-> "?"], wild |-> FALSE]

Begin(n) ==
  /\ p' = 1
  /\ state' = "normal"
  /\ flags' = {} /\ rank' = 0 /\ width' = 0 /\ prec' = -1
  /\ arg' = 1
  /\ out' = Buffer(n)
  /\ pc' = "scan"

Init ==
  /\ in \in Calls
  /\ p = 1
  /\ state = "normal"
  /\ flags = {} /\ rank = 0 /\ width = 0 /\ prec = -1
  /\ arg = 1
  /\ out = Buffer(CASE in.call = "vfprintf" -> FileBuffer
                    [] in.call = "asprintf" -> 0
                    [] OTHER -> in.n)
  /\ stored = -1
  /\ pc = "scan"
  /\ ret = -1
  /\ sent = <<>>

-----------------------------------------------------------------------------
Put(b, i, c) ==
  IF i \in DOMAIN b.mem THEN [b EXCEPT !.mem[i] = c] ELSE [b EXCEPT !.wild = TRUE]

EMITLate(b, c) ==   \* mutant: o <= n
  LET w == Put(b, b.q, c)
  IN  IF b.o <= b.n THEN [w EXCEPT !.q = @ + 1, !.o = @ + 1]
      ELSE [b EXCEPT !.o = @ + 1]

EMIT(b, c) ==
  LET w == Put(b, b.q, c)
  IN  IF b.o < b.n THEN [w EXCEPT !.q = @ + 1, !.o = @ + 1]
      ELSE [b EXCEPT !.o = @ + 1]

EmitAll(b, s) == FoldLeft(EMIT, b, s)
EmitN(b, c, k) == EmitAll(b, [i \in 1..k |-> c])

CountDigits(val, base) == CHOOSE k \in 0..20 :
  /\ val < base ^ k
  /\ k = 0 \/ val >= base ^ (k - 1)

SignRoom(minus, fl) == IF minus \/ fl \cap {"+", " "} # {} THEN 1 ELSE 0

Sign(minus, fl) ==
  IF minus THEN <<"-">> ELSE IF "+" \in fl THEN <<"+">>
  ELSE IF " " \in fl THEN <<" ">> ELSE <<>>

(* The r-th character of a number from the right: a tick after every skip  *)
(* digits.                                                                 *)
FromRight(val, base, digits, skip, r) ==
  IF (r + 1) % (skip + 1) = 0 THEN "_"
  ELSE digits[((val \div base ^ (r - r \div (skip + 1))) % base) + 1]

(* The loop that writes the number backwards: each character only if its   *)
(* count is below n.                                                       *)
Number(b, val, base, digits, skip, nd) ==
  FoldLeft(LAMBDA c, r :
             IF b.o + nd - r < b.n
             THEN Put(c, b.q + nd - r, FromRight(val, base, digits, skip, r - 1))
             ELSE c,
           [b EXCEPT !.q = @ + nd, !.o = @ + nd], [r \in 1..nd |-> r])

(* format_int() on a buffer of its own, of n - o bytes from q on.          *)
format_int(b0, v, fl, base, wid, pr) ==
  LET top == 2 ^ RankBits[MAX_RANK]
      b == [b0 EXCEPT !.o = 0, !.n = IF b0.o < b0.n THEN b0.n - b0.o ELSE 0]
      minus == "signed" \in fl /\ v >= top \div 2
      val == IF minus THEN top - v ELSE v
      d0 == CountDigits(val, base)
      pr1 == IF "#" \in fl /\ base = 8 /\ pr < d0 + 1 THEN d0 + 1 ELSE pr
      d1 == IF d0 < pr1 THEN pr1 ELSE IF val = 0 THEN 1 ELSE d0
      skip == IF "'" \in fl THEN (IF base = 16 THEN 4 ELSE 3) ELSE d1
      nd == d1 + (d1 - 1) \div skip
      hex == "#" \in fl /\ base = 16
      nc == nd + SignRoom(minus, fl) + (IF hex THEN 2 ELSE 0)
      pad == IF wid > nc THEN wid - nc ELSE 0
      left == EmitN(b, " ", IF fl \cap {"-", "0"} = {} THEN pad ELSE 0)
      sign == EmitAll(left, Sign(minus, fl))
      base16 == EmitAll(sign, IF hex THEN <<"0", IF "upper" \in fl THEN "X" ELSE "x">> ELSE <<>>)
      zeros == EmitN(base16, "0", IF fl \cap {"-", "0"} = {"0"} THEN pad ELSE 0)
      number == Number(zeros, val, base, IF "upper" \in fl THEN ucdigits ELSE lcdigits, skip, nd)
  IN  EmitN(number, " ", IF "-" \in fl THEN pad ELSE 0)

(* The copy in user/lib/stdio.c is the same, line for line.                *)
user_format_int(b0, v, fl, base, wid, pr) == format_int(b0, v, fl, base, wid, pr)

(* The caller moves q and o by what format_int() returns.                  *)
Integer(val, fl, base, wid, pr) ==
  LET Moved(f) == [f EXCEPT !.q = out.q + f.o, !.o = out.o + f.o, !.n = out.n]
  IN  Moved(IF in.lib = "user" THEN user_format_int(out, val, fl, base, wid, pr)
            ELSE format_int(out, val, fl, base, wid, pr))

(* The is_string: part, for %s and %c.                                     *)
String(s) ==
  LET len == IF prec # -1 /\ Len(s) > prec THEN prec ELSE Len(s)
      pad == IF width > len THEN width - len ELSE 0
      left == "-" \in flags
      lead == EmitN(out, IF "0" \in flags THEN "0" ELSE " ", IF left THEN 0 ELSE pad)
  IN  EmitN(EmitAll(lead, SubSeq(s, 1, len)), " ", IF left THEN pad ELSE 0)

Clip(r) == IF r < MIN_RANK THEN MIN_RANK ELSE IF r > MAX_RANK THEN MAX_RANK ELSE r

Signed(v, bits) ==
  LET u == v % 2 ^ bits IN IF u >= 2 ^ (bits - 1) THEN u - 2 ^ bits ELSE u

FetchSigned(r) == Signed(in.args[arg], RankBits[r])
FetchUnsigned(r) == in.args[arg] % 2 ^ RankBits[r]

-----------------------------------------------------------------------------
ch == in.fmt[p]
More == pc = "scan" /\ p <= Len(in.fmt)
Digits == {lcdigits[i] : i \in 1..10}
Value(c) == (CHOOSE i \in 1..10 : lcdigits[i] = c) - 1

Normal ==
  /\ More
  /\ state = "normal"
  /\ p' = p + 1
  /\ IF ch = "%"
     THEN /\ state' = "flags"
          /\ flags' = {} /\ rank' = 0 /\ width' = 0 /\ prec' = -1
          /\ UNCHANGED out
     ELSE /\ out' = EMIT(out, ch)
          /\ UNCHANGED <<state, conv>>
  /\ UNCHANGED <<in, arg, stored, pc, ret, sent>>

Flags ==
  /\ More
  /\ state = "flags"
  /\ IF ch \in {"-", "+", "'", " ", "#", "0"}
     THEN flags' = flags \cup {ch} /\ p' = p + 1 /\ UNCHANGED state
     ELSE state' = "width" /\ UNCHANGED <<flags, p>>
  /\ UNCHANGED <<in, rank, width, prec, arg, out, stored, pc, ret, sent>>

Width ==
  /\ More
  /\ state = "width"
  /\ CASE ch \in Digits ->
            /\ width' = width * 10 + Value(ch)
            /\ p' = p + 1
            /\ UNCHANGED <<state, flags, prec, arg>>
       [] ch = "*" ->
            /\ width' = IF in.args[arg] < 0 THEN -in.args[arg] ELSE in.args[arg]
            /\ flags' = IF in.args[arg] < 0 THEN flags \cup {"-"} ELSE flags
            /\ arg' = arg + 1
            /\ p' = p + 1
            /\ UNCHANGED <<state, prec>>
       [] ch = "." ->
            /\ prec' = 0
            /\ state' = "prec"
            /\ p' = p + 1
            /\ UNCHANGED <<width, flags, arg>>
       [] OTHER ->
            /\ state' = "modifiers"
            /\ UNCHANGED <<p, width, flags, prec, arg>>
  /\ UNCHANGED <<in, rank, out, stored, pc, ret, sent>>

Prec ==
  /\ More
  /\ state = "prec"
  /\ CASE ch \in Digits ->
            /\ prec' = prec * 10 + Value(ch)
            /\ p' = p + 1
            /\ UNCHANGED <<state, arg>>
       [] ch = "*" ->
            /\ prec' = IF in.args[arg] < 0 THEN -1 ELSE in.args[arg]
            /\ arg' = arg + 1
            /\ p' = p + 1
            /\ UNCHANGED state
       [] OTHER ->
            /\ state' = "modifiers"
            /\ UNCHANGED <<p, prec, arg>>
  /\ UNCHANGED <<in, flags, rank, width, out, stored, pc, ret, sent>>

LengthModifier ==
  /\ More
  /\ state = "modifiers"
  /\ ch \in {"h", "l", "j", "z", "t", "L", "q"}
  /\ rank' = CASE ch = "h" -> rank - 1 [] ch = "l" -> rank + 1
               [] ch = "j" -> MAX_RANK [] ch \in {"z", "t"} -> 1
               [] OTHER -> rank + 2
  /\ p' = p + 1
  /\ UNCHANGED <<in, state, flags, width, prec, arg, out, stored, pc, ret, sent>>

Base(c) == CASE c = "o" -> 8 [] c \in {"d", "i", "u"} -> 10 [] OTHER -> 16

(* The conversion characters.                                              *)
Conversion ==
  /\ More
  /\ state = "modifiers"
  /\ ch \notin {"h", "l", "j", "z", "t", "L", "q"}
  /\ state' = "normal"
  /\ rank' = Clip(rank)
  /\ p' = p + 1
  /\ LET upper == IF ch \in {"X", "P"} THEN {"upper"} ELSE {}
     IN  CASE ch \in {"p", "P"} ->
                out' = Integer(in.args[arg], flags \cup upper \cup {"#"}, 16, width,
                               (RankBits[0] + 3) \div 4)
           [] ch \in {"d", "i"} ->
                out' = Integer(FetchSigned(rank') % 2 ^ RankBits[MAX_RANK],
                               flags \cup {"signed"}, 10, width, prec)
           [] ch \in {"o", "u", "x", "X"} ->
                out' = Integer(FetchUnsigned(rank'), flags \cup upper, Base(ch),
                               width, prec)
           [] ch = "c" -> out' = String(<<in.args[arg]>>)
           [] ch = "s" -> out' = String(in.args[arg])
           [] ch = "n" -> UNCHANGED out
           [] OTHER -> out' = EMIT(out, ch)
  /\ stored' = IF ch = "n" THEN Signed(out.o, RankBits[rank']) ELSE stored
  /\ arg' = IF ch \in {"p", "P", "d", "i", "o", "u", "x", "X", "c", "s", "n"}
            THEN arg + 1 ELSE arg
  /\ UNCHANGED <<in, flags, width, prec, pc, ret, sent>>

Terminate(b) ==
  IF b.o < b.n THEN Put(b, b.q, NUL) ELSE IF b.n > 0 THEN Put(b, b.n - 1, NUL) ELSE b

Return ==
  /\ pc = "scan"
  /\ p = Len(in.fmt) + 1
  /\ out' = Terminate(out)
  /\ ret' = out.o
  /\ pc' = IF in.call = "vfprintf" THEN "fputs"
           ELSE IF in.call = "asprintf" /\ out.n = 0 THEN "malloc" ELSE "done"
  /\ UNCHANGED <<in, p, state, conv, arg, stored, sent>>

(* asprintf(): the first pass only counts, the second has the room for it. *)
Asprintf ==
  /\ pc = "malloc"
  /\ Begin(ret + 1)
  /\ UNCHANGED <<in, stored, ret, sent>>

CString(m) ==
  LET z == CHOOSE i \in DOMAIN m : m[i] = NUL /\ \A j \in 0..i - 1 : m[j] # NUL
  IN  [i \in 1..z |-> m[i - 1]]

(* vfprintf(): fputs() writes the string in the buffer, and its count is   *)
(* what printf() returns.                                                  *)
Fputs ==
  /\ pc = "fputs"
  /\ sent' = CString(out.mem)
  /\ ret' = Len(sent')
  /\ pc' = "done"
  /\ UNCHANGED <<in, p, state, conv, arg, out, stored>>

KernelNext ==
  \/ Normal \/ Flags \/ Width \/ Prec \/ LengthModifier \/ Conversion
  \/ Return \/ Asprintf \/ Fputs

(* The user library: the same scanner; there is no asprintf(), and fputs() *)
(* is a write() to a descriptor.                                           *)
UserScan == Normal \/ Flags \/ Width \/ Prec
UserConvert == LengthModifier \/ Conversion
UserReturn == Return
UserFputs == Fputs

Next ==
  \/ in.lib = "kernel" /\ KernelNext
  \/ in.lib = "user" /\ (UserScan \/ UserConvert \/ UserReturn \/ UserFputs)

Spec == Init /\ [][Next]_vars
-----------------------------------------------------------------------------
(* What a directive stands for, put together from left to right with no    *)
(* buffer in sight.  spec has the flags, width, precision, rank, the       *)
(* conversion character, its value, and the text around the directive.     *)
DigitsOf[v \in 0..255, b \in {8, 10, 16}] ==
  IF v = 0 THEN <<>> ELSE Append(DigitsOf[v \div b, b], v % b)

Ticked(s, k) ==   \* groups of k, counted from the right
  FoldLeft(LAMBDA acc, i : (IF i > 1 /\ (Len(s) - i + 1) % k = 0
                            THEN Append(acc, "_") ELSE acc) \o <<s[i]>>,
           <<>>, [i \in DOMAIN s |-> i])

Fill(c, k) == [i \in 1..(IF k > 0 THEN k ELSE 0) |-> c]

Field(sign, body, s) ==
  LET k == s.width - Len(sign) - Len(body)
  IN  IF "-" \in s.flags THEN sign \o body \o Fill(" ", k)
      ELSE IF "0" \in s.flags THEN sign \o Fill("0", k) \o body
      ELSE Fill(" ", k) \o sign \o body

(* How format_int() departs from C's text of a number: 0 keeps a digit at  *)
(* precision 0 (printf.c:83), # marks 0 as hexadecimal too (129), 0 pads   *)
(* although there is a precision (136), + and blank put a sign in front of *)
(* unsigned numbers (104, 122-127).  %p is for each library to choose.     *)
ValueOf(s) == CASE s.conv = "d" -> Signed(s.val, RankBits[s.rank]) [] s.conv = "p" -> s.val
                [] OTHER -> s.val % 2 ^ RankBits[s.rank]
Departures(s) == {d \in {"zero", "hash", "pad", "sign"} :
  \/ s.conv = "p"
  \/ d = "zero" /\ ValueOf(s) = 0 /\ s.prec = 0
  \/ d = "hash" /\ ValueOf(s) = 0 /\ "#" \in s.flags
  \/ d = "pad" /\ s.prec # -1 /\ "0" \in s.flags
  \/ d = "sign" /\ s.conv # "d" /\ s.flags \cap {"+", " "} # {}}

(* The text of a number: C's if by is empty, else with the departures by.  *)
NumberField(s, by) ==
  LET v == ValueOf(s)
      base == CASE s.conv = "o" -> 8 [] s.conv \in {"d", "u"} -> 10 [] OTHER -> 16
      raw == DigitsOf[IF v < 0 THEN -v ELSE v, base]
      least == CASE s.conv = "p" -> (RankBits[0] + 3) \div 4
                 [] s.conv = "o" /\ "#" \in s.flags /\ s.prec <= Len(raw) -> Len(raw) + 1
                 [] s.prec = -1 \/ (s.prec = 0 /\ "zero" \in by) -> 1
                 [] OTHER -> s.prec
      digits == Fill("0", least - Len(raw)) \o
                  [i \in DOMAIN raw |-> (IF s.conv = "X" THEN ucdigits ELSE lcdigits)[raw[i] + 1]]
      ticked == IF "'" \in s.flags THEN Ticked(digits, IF base = 16 THEN 4 ELSE 3)
                ELSE digits
      sign == Sign(v < 0, IF s.conv = "d" \/ "sign" \in by THEN s.flags ELSE {})
      marked == s.conv = "p" \/ ("#" \in s.flags /\ (v # 0 \/ "hash" \in by))
      prefix == IF base = 16 /\ marked THEN <<"0", IF s.conv = "X" THEN "X" ELSE "x">> ELSE <<>>
  IN  Field(sign \o prefix, ticked,
            IF s.prec = -1 \/ "pad" \in by THEN s ELSE [s EXCEPT !.flags = @ \ {"0"}])

TextOf(s) ==
  LET cut == IF s.prec = -1 \/ s.prec > Len(s.val) THEN s.val ELSE SubSeq(s.val, 1, s.prec)
  IN  s.before \o
      (CASE s.conv \in {"s", "c"} -> Field(<<>>, cut, s)
         [] s.conv = "n" -> <<>> [] s.conv = "%" -> <<"%">>
         [] OTHER -> NumberField(s, Departures(s)))
      \o s.after

(* printf.c vsnprintf, format_int: for every size of the buffer the result *)
(* is the directive's text, cut to n - 1 characters and terminated; the    *)
(* returned count is that of the whole text, which makes asprintf()'s      *)
(* second pass fit exactly; %n stores the count so far.  The text is C's   *)
(* but for the Departures; where C leaves a directive undefined (0 with %s *)
(* or %c, %c with a precision, a width for %%, the ' flag, hhh) it        *)
(* is what this library chose.                                             *)
PrintsText ==
  pc = "done" =>
    LET text == TextOf(in.spec)
        fit == IF Len(text) < out.n THEN Len(text) ELSE out.n - 1
    IN  /\ out.n > 0 => CString(out.mem) = SubSeq(text, 1, fit)
        /\ in.call = "asprintf" => out.n = Len(text) + 1
        /\ IF in.call = "vfprintf"
           THEN sent = SubSeq(text, 1, fit) /\ ret = fit
           ELSE ret = Len(text)
        /\ in.spec.conv = "n" => stored = Signed(Len(in.spec.before), RankBits[in.spec.rank])

(* printf.c: nothing is written in front of or behind the n bytes of the   *)
(* buffer, although format_int() moves q by the width of a number that no  *)
(* longer fits.                                                            *)
StaysInBuffer == ~out.wild

(* vsnprintf(): the text of the directive, as C has it but for the         *)
(* departures above, and nothing outside of the buffer.                    *)
PrintfFollowsC == PrintsText /\ StaysInBuffer
=============================================================================
