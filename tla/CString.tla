------------------------------ MODULE CString ------------------------------
(* string.c and ctype.c, of the kernel and, with the same text but for     *)
(* strdup(), of the user library.  A buffer is a function from 0 to bytes; *)
(* the byte loops are recursive definitions over positions.  Calls on one  *)
(* buffer follow each other in any order, beside the strings they mean.    *)
EXTENDS Integers, Sequences, SequencesExt, FiniteSets

CONSTANTS Bytes,      \* byte values that occur, 0 not among them
          MaxLen,     \* longest argument string: bound
          Size        \* bytes of the buffer

VARIABLES buf,     \* the buffer
          text,    \* the string it means
          s, t,    \* two strings that are compared and searched
          n,       \* a count
          res      \* what the comparison and search functions returned

vars == <<buf, text, s, t, n, res>>

Strings == BoundedSeq(Bytes, MaxLen)
At(x, i) == IF i < Len(x) THEN x[i + 1] ELSE 0   \* x with its NUL
CharsOf(b) ==   \* the string in a buffer
  LET z == CHOOSE i \in 0..Size :
             (i = Size \/ b[i] = 0) /\ \A j \in 0..i - 1 : b[j] # 0
  IN  [i \in 1..z |-> b[i - 1]]

-----------------------------------------------------------------------------
isascii(c) == c < 128
isupper(c) == 65 <= c /\ c <= 90
islower(c) == 97 <= c /\ c <= 122
isspace(c) == c = 32 \/ (9 <= c /\ c <= 13)
isdigit(c) == 48 <= c /\ c <= 57
isalpha(c) == isupper(c) \/ islower(c)
tolower(c) == IF isupper(c) THEN c - 65 + 97 ELSE c

RECURSIVE strlen(_, _)
strlen(x, i) == IF At(x, i) = 0 THEN 0 ELSE 1 + strlen(x, i + 1)

Signed(c) == IF c > 127 THEN c - 256 ELSE c
DiffSigned(c, d) == Signed(c) - Signed(d)   \* mutant: plain char

Diff(c, d) == c - d   \* of unsigned char

RECURSIVE memcmp(_, _, _, _)
memcmp(x, y, i, k) ==
  IF k = 0 THEN 0
  ELSE IF At(x, i) # At(y, i) THEN Diff(At(x, i), At(y, i)) ELSE memcmp(x, y, i + 1, k - 1)

RECURSIVE strcmp(_, _, _)
strcmp(x, y, i) ==
  IF At(x, i) # At(y, i) THEN Diff(At(x, i), At(y, i))
  ELSE IF At(x, i) = 0 THEN 0 ELSE strcmp(x, y, i + 1)

RECURSIVE strncmp(_, _, _, _)
strncmp(x, y, i, k) ==
  IF k = 0 THEN 0
  ELSE IF At(x, i) # At(y, i) THEN Diff(At(x, i), At(y, i))
  ELSE IF At(x, i) = 0 THEN 0 ELSE strncmp(x, y, i + 1, k - 1)

RECURSIVE strcasecmp(_, _, _)
strcasecmp(x, y, i) ==
  IF tolower(At(x, i)) # tolower(At(y, i)) THEN Diff(tolower(At(x, i)), tolower(At(y, i)))
  ELSE IF At(x, i) = 0 THEN 0 ELSE strcasecmp(x, y, i + 1)

RECURSIVE strncasecmp(_, _, _, _)
strncasecmp(x, y, i, k) ==
  IF k = 0 THEN 0
  ELSE IF tolower(At(x, i)) # tolower(At(y, i))
       THEN Diff(tolower(At(x, i)), tolower(At(y, i)))
  ELSE IF At(x, i) = 0 THEN 0 ELSE strncasecmp(x, y, i + 1, k - 1)

Resume(i, find) == i + 1

(* The first character is searched on its own, then the rest is compared;  *)
(* after a mismatch the search goes on behind that character.  The result  *)
(* is a position, or -1 for NULL.                                          *)
RECURSIVE strstr(_, _, _)
strstr(x, find, i) ==
  IF find = <<>> THEN i
  ELSE IF At(x, i) = 0 THEN -1
  ELSE IF At(x, i) = find[1]
            /\ strncmp(SubSeq(x, i + 2, Len(x)), Tail(find), 0, Len(find) - 1) = 0
       THEN i
       ELSE strstr(x, find, Resume(i, find))

-----------------------------------------------------------------------------
memset(b, c, k) == [i \in DOMAIN b |-> IF i < k THEN c ELSE b[i]]
memcpy(b, at, x, k) ==
  [i \in DOMAIN b |-> IF at <= i /\ i < at + k THEN At(x, i - at) ELSE b[i]]
strcpy(b, x) == memcpy(b, 0, x, strlen(x, 0) + 1)
strcat(b, x) == memcpy(b, strlen(CharsOf(b), 0), x, strlen(x, 0) + 1)
strdup(x) == memcpy([i \in 0..strlen(x, 0) |-> -1], 0, x, strlen(x, 0) + 1)

RoomFor(k) == k - 1

(* Copy until the NUL or until one byte is left, which gets a NUL; the     *)
(* rest of the source is only counted.                                     *)
RECURSIVE CopyLoop(_, _, _, _)
CopyLoop(b, x, i, left) ==
  IF left = 0 THEN [b EXCEPT ![i] = 0]
  ELSE IF At(x, i) = 0 THEN [b EXCEPT ![i] = 0]
  ELSE CopyLoop([b EXCEPT ![i] = At(x, i)], x, i + 1, left - 1)
strlcpy(b, x, k) == IF k = 0 THEN b ELSE CopyLoop(b, x, 0, RoomFor(k))

Results(x, y, k) ==
  [memcmp |-> memcmp(x, y, 0, Min({Len(x), Len(y), k})),
   strcmp |-> strcmp(x, y, 0), strncmp |-> strncmp(x, y, 0, k),
   strcasecmp |-> strcasecmp(x, y, 0), strncasecmp |-> strncasecmp(x, y, 0, k),
   strstr |-> strstr(x, y, 0)]

(* The user library's copies of the same loops.                            *)
UserResults(x, y, k) == Results(x, y, k)
UserStrlcpy(b, x, k) == strlcpy(b, x, k)

NoResult == [strcmp |-> 999]

Init ==
  /\ buf = [i \in 0..Size - 1 |-> 0]
  /\ text = <<>>
  /\ s \in Strings
  /\ t \in Strings
  /\ n \in 0..MaxLen + 1
  /\ res = NoResult

Compare ==
  /\ \/ res' = Results(s, t, n)
     \/ res' = UserResults(s, t, n)
  /\ UNCHANGED <<buf, text, s, t, n>>

(* strcpy() and strcat() are called where the result fits, as C demands.   *)
Copy ==
  /\ \/ Len(s) < Size /\ buf' = strcpy(buf, s) /\ text' = s
     \/ buf' = strcpy(buf, CharsOf(strdup(s))) /\ text' = s
  /\ UNCHANGED <<s, t, n, res>>

Cut(x, k) == SubSeq(x, 1, Min({Len(x), k}))

CopyLimited ==
  /\ n <= Size
  /\ \/ buf' = strlcpy(buf, s, n)
     \/ buf' = UserStrlcpy(buf, s, n)
  /\ text' = IF n = 0 THEN text ELSE Cut(s, n - 1)
  /\ UNCHANGED <<s, t, n, res>>

Concatenate ==
  /\ Len(text) + Len(t) < Size
  /\ buf' = strcat(buf, t)
  /\ text' = text \o t
  /\ UNCHANGED <<s, t, n, res>>

Clear ==
  /\ buf' = memset(buf, 0, Size)
  /\ text' = <<>>
  /\ UNCHANGED <<s, t, n, res>>

Next == Compare \/ Copy \/ CopyLimited \/ Concatenate \/ Clear

Spec == Init /\ [][Next]_vars

-----------------------------------------------------------------------------
Lower(x) == [i \in DOMAIN x |-> tolower(x[i])]

(* x comes before y in the dictionary order of unsigned bytes.             *)
Before(x, y) ==
  \E i \in 0..Len(x) :
    /\ \A j \in 1..i : j <= Len(y) /\ x[j] = y[j]
    /\ \/ i = Len(x) /\ Len(y) > i
       \/ i < Len(x) /\ i < Len(y) /\ x[i + 1] < y[i + 1]

Agrees(r, x, y) == (r < 0) = Before(x, y) /\ (r = 0) = (x = y)

(* string.c: after any sequence of calls the buffer holds the string the   *)
(* calls mean, with its terminator, whatever longer string was there       *)
(* before; strlcpy() keeps within its size.                                *)
BufferMeansText == CharsOf(buf) = text /\ Len(text) < Size

(* string.c: all comparisons are the dictionary order of unsigned bytes,   *)
(* of whole strings, of prefixes, or of the lower-case strings.            *)
ComparisonsAgree ==
  res # NoResult =>
    /\ Agrees(res.strcmp, s, t)
    /\ Agrees(res.strncmp, Cut(s, n), Cut(t, n))
    /\ Agrees(res.strcasecmp, Lower(s), Lower(t))
    /\ Agrees(res.strncasecmp, Lower(Cut(s, n)), Lower(Cut(t, n)))
    /\ LET k == Min({Len(s), Len(t), n}) IN Agrees(res.memcmp, Cut(s, k), Cut(t, k))

(* string.c strstr: the result is the first place where the whole needle   *)
(* stands, also when its beginning occurs before.                          *)
FindsFirst ==
  res # NoResult =>
    LET places == {i \in 0..Len(s) : i + Len(t) <= Len(s)
                                     /\ SubSeq(s, i + 1, i + Len(t)) = t}
    IN  IF places = {} THEN res.strstr = -1
        ELSE res.strstr \in places /\ \A i \in places : res.strstr <= i

(* string.c: copies, comparisons and searches do what C says.              *)
StringsFollowC == BufferMeansText /\ ComparisonsAgree /\ FindsFirst
=============================================================================
