------------------------------ MODULE Strtok -------------------------------
(* strtok() of the user library: the static pointer `last' of one scan     *)
(* survives between calls, the tokens are cut out of the caller's buffer,  *)
(* and the caller (sh.c) keeps all token pointers until the line is done.  *)
EXTENDS Integers, Sequences, SequencesExt, FiniteSetsExt

CONSTANTS Chars, Delims, MaxLen   \* Delims among the characters Chars

NULL == -1

VARIABLES line,    \* the text handed to the first call
          b,       \* the buffer, position 0..Len(line)
          last,    \* the static pointer
          got,     \* token pointers the caller holds
          ended    \* a call returned NULL

vars == <<line, b, last, got, ended>>

RECURSIVE Skip(_)
Skip(i) == IF b[i] \in Delims THEN Skip(i + 1) ELSE i

(* The end of the token: a delimiter or the NUL.                           *)
RECURSIVE Scan(_)
Scan(i) == IF b[i] \in Delims \union {0} THEN i ELSE Scan(i + 1)

Rest(e) == IF b[e] = 0 THEN NULL ELSE e + 1

__strtok_r(s) ==
  \/ s = NULL /\ ended' = TRUE /\ UNCHANGED <<line, b, last, got>>
  \/ /\ s # NULL
     /\ LET tok == Skip(s) IN
        \/ b[tok] = 0 /\ last' = NULL /\ ended' = TRUE /\ UNCHANGED <<line, b, got>>
        \/ /\ b[tok] # 0
           /\ LET e == Scan(tok) IN b' = [b EXCEPT ![e] = 0] /\ last' = Rest(e)
           /\ got' = Append(got, tok)
           /\ UNCHANGED <<line, ended>>

Init ==
  /\ line \in BoundedSeq(Chars, MaxLen)
  /\ b = [i \in 0..Len(line) |-> IF i < Len(line) THEN line[i + 1] ELSE 0]
  /\ last = NULL
  /\ got = <<>>
  /\ ended = FALSE

(* strtok(line, delim) once, then strtok(NULL, delim).                     *)
strtok == __strtok_r(IF got = <<>> /\ ~ended THEN 0 ELSE last)

Spec == Init /\ [][strtok]_vars

-----------------------------------------------------------------------------
(* The words of the line: maximal runs of other characters.                *)
Starts == {i \in 1..Len(line) : line[i] \notin Delims
                                /\ (i = 1 \/ line[i - 1] \in Delims)}
WordAt(i) ==
  SubSeq(line, i, CHOOSE j \in i..Len(line) :
                    /\ \A k \in i..j : line[k] \notin Delims
                    /\ j = Len(line) \/ line[j + 1] \in Delims)

(* strtok.c: the token pointers are the words of the line from the first   *)
(* on, and every pointer handed out so far still reads as its whole word,  *)
(* whatever later calls cut; NULL is returned only after the last word.    *)
TokensAreWords ==
  /\ \A k \in DOMAIN got :
       LET i == got[k] + 1
           e == CHOOSE x \in 0..Len(line) : x >= got[k] /\ b[x] = 0
                                            /\ \A y \in got[k]..x - 1 : b[y] # 0
       IN  /\ i \in Starts
           /\ Cardinality({x \in Starts : x <= i}) = k
           /\ [y \in 1..e - got[k] |-> b[got[k] + y - 1]] = WordAt(i)
  /\ ended => Len(got) = Cardinality(Starts)
=============================================================================
