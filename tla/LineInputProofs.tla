-------------------------- MODULE LineInputProofs ---------------------------
(* Proofs about the console's input (LineInput): the ring that the keyboard *)
(* interrupt shares with the reader is a queue, and readers get the edited  *)
(* text, for rings and buffers of every size.                               *)
EXTENDS LineInput, SequenceTheorems, TLAPS

Cells == 0 .. (KBD_BUFFER_SIZE - 1)

\* What a ring b holds between s and e.
Queue(b, s, e) == [i \in 1 .. ((e - s) % KBD_BUFFER_SIZE) |-> b[(s + i - 1) % KBD_BUFFER_SIZE]]

(***************************************************************************)
(* The ring.                                                               *)
(***************************************************************************)

\* The index arithmetic of the ring without remainders: the distance of two
\* cells, the next cell and the k-th cell from a.
LEMMA RingArithmetic ==
    ASSUME SizesOK, NEW a \in Cells, NEW b \in Cells, NEW k \in Cells
    PROVE  /\ (b - a) % KBD_BUFFER_SIZE = IF a <= b THEN b - a ELSE b - a + KBD_BUFFER_SIZE
           /\ Succ(a) = IF a + 1 = KBD_BUFFER_SIZE THEN 0 ELSE a + 1
           /\ (a + k) % KBD_BUFFER_SIZE = IF a + k < KBD_BUFFER_SIZE THEN a + k
                                          ELSE a + k - KBD_BUFFER_SIZE
           /\ (b - a) % KBD_BUFFER_SIZE \in Cells
           /\ Succ(a) \in Cells
           /\ (a + k) % KBD_BUFFER_SIZE \in Cells
<1> DEFINE n == KBD_BUFFER_SIZE
<1>1. n \in Nat \ {0}
  BY DEF SizesOK
<1>2. \A x \in Int : 0 <= x /\ x < n => x % n = x
  BY <1>1
<1>3. \A x \in Int : n <= x /\ x < 2 * n => x % n = x - n
  BY <1>1
<1>4. \A x \in Int : 0 - n <= x /\ x < 0 => x % n = x + n
  BY <1>1
<1> HIDE DEF n
<1>5. /\ a \in Int /\ 0 <= a /\ a < n /\ b \in Int /\ 0 <= b /\ b < n /\ k \in Int /\ 0 <= k /\ k < n
  BY <1>1 DEF Cells, n
<1>6. (b - a) % n = IF a <= b THEN b - a ELSE b - a + n
  BY <1>1, <1>2, <1>4, <1>5
<1>7. (a + 1) % n = IF a + 1 = n THEN 0 ELSE a + 1
  BY <1>1, <1>2, <1>3, <1>5
<1>8. (a + k) % n = IF a + k < n THEN a + k ELSE a + k - n
  BY <1>1, <1>2, <1>3, <1>5
<1> QED
  BY <1>1, <1>5, <1>6, <1>7, <1>8 DEF Succ, Cells, n

\* The content of a ring is a sequence of as many characters as its distance.
LEMMA QueueIsSeq ==
    ASSUME SizesOK, NEW b \in [Cells -> Char], NEW s \in Cells, NEW e \in Cells
    PROVE  /\ Queue(b, s, e) \in Seq(Char)
           /\ Len(Queue(b, s, e)) = (e - s) % KBD_BUFFER_SIZE
           /\ \A i \in 1 .. ((e - s) % KBD_BUFFER_SIZE) :
                 Queue(b, s, e)[i] = b[(s + i - 1) % KBD_BUFFER_SIZE]
<1> DEFINE m == (e - s) % KBD_BUFFER_SIZE
           At(i) == b[(s + i - 1) % KBD_BUFFER_SIZE]
<1>1. m \in Cells
  BY RingArithmetic, Zenon
<1>2. m \in Nat
  BY <1>1 DEF Cells
<1>3. \A i \in 1 .. m : At(i) \in Char
  <2> TAKE i \in 1 .. m
  <2>1. i - 1 \in Cells
    BY <1>1, SizesOK DEF Cells, SizesOK
  <2> HIDE DEF m
  <2>2. (s + (i - 1)) % KBD_BUFFER_SIZE \in Cells
    BY ONLY Zenon, SizesOK, s \in Cells, <2>1, RingArithmetic
  <2>3. s + (i - 1) = s + i - 1
    BY <1>2 DEF Cells
  <2> QED
    BY <2>2, <2>3
<1>4. Queue(b, s, e) = [i \in 1 .. m |-> At(i)]
  BY DEF Queue
<1> HIDE DEF m, At
<1>5. [i \in 1 .. m |-> At(i)] \in Seq(Char)
  BY <1>2, <1>3, IsASeq
<1>6. Len([i \in 1 .. m |-> At(i)]) = m
  BY <1>2
<1> QED
  BY <1>4, <1>5, <1>6, Zenon DEF m, At

\* irq1_handler with room: the character is the last of the queue.
LEMMA QueueAppends ==
    ASSUME SizesOK, NEW b \in [Cells -> Char], NEW s \in Cells, NEW e \in Cells,
           NEW c \in Char, Succ(e) # s,
           NEW b1 \in [Cells -> Char], b1[e] = c, \A x \in Cells \ {e} : b1[x] = b[x]
    PROVE  Queue(b1, s, Succ(e)) = Append(Queue(b, s, e), c)
<1> DEFINE n == KBD_BUFFER_SIZE
           q == Queue(b, s, e)
           q1 == Queue(b1, s, Succ(e))
           m == (e - s) % n
           m1 == (Succ(e) - s) % n
<1>0. n \in Nat \ {0}
  BY DEF SizesOK
<1>1. b1 \in [Cells -> Char] /\ b1[e] = c /\ \A x \in Cells \ {e} : b1[x] = b[x]
  OBVIOUS
<1>2. Succ(e) \in Cells /\ m \in Cells
  BY RingArithmetic, Zenon
<1>3. m1 = m + 1
  <2>1. /\ m = IF s <= e THEN e - s ELSE e - s + n
        /\ m1 = IF s <= Succ(e) THEN Succ(e) - s ELSE Succ(e) - s + n
        /\ Succ(e) = IF e + 1 = n THEN 0 ELSE e + 1
    BY <1>2, RingArithmetic, Zenon
  <2> HIDE DEF m, m1, n
  <2> QED
    BY <2>1, <1>0 DEF Cells, n
<1>4. q \in Seq(Char) /\ Len(q) = m /\ \A i \in 1 .. m : q[i] = b[(s + i - 1) % n]
  BY QueueIsSeq
<1>5. q1 \in Seq(Char) /\ Len(q1) = m1 /\ \A i \in 1 .. m1 : q1[i] = b1[(s + i - 1) % n]
  BY <1>1, <1>2, QueueIsSeq, Zenon
<1>6. m \in Nat /\ m < n
  <2> HIDE DEF m
  <2> QED
    BY <1>0, <1>2 DEF Cells
<1>7. /\ Append(q, c) \in Seq(Char) /\ Len(Append(q, c)) = m + 1
      /\ \A i \in 1 .. m : Append(q, c)[i] = q[i]
      /\ Append(q, c)[m + 1] = c
  <2> HIDE DEF q, m
  <2> QED
    BY <1>4, AppendProperties
<1>8. \A i \in 1 .. (m + 1) : /\ (s + i - 1) % n \in Cells
                              /\ (s + i - 1) % n = e <=> i = m + 1
  <2> TAKE i \in 1 .. (m + 1)
  <2>1. i - 1 \in Cells /\ s + (i - 1) = s + i - 1
    BY <1>6, <1>0 DEF Cells
  <2>2. /\ (s + (i - 1)) % n = IF s + (i - 1) < n THEN s + (i - 1) ELSE s + (i - 1) - n
        /\ (s + (i - 1)) % n \in Cells
        /\ m = IF s <= e THEN e - s ELSE e - s + n
    BY <2>1, RingArithmetic
  <2> HIDE DEF n, m
  <2>3. (s + i - 1) % n = IF s + i - 1 < n THEN s + i - 1 ELSE s + i - 1 - n
    BY <2>1, <2>2
  <2>4. (s + i - 1) % n \in Cells
    BY <2>1, <2>2
  <2>5. i \in Int /\ m \in Int /\ n \in Int /\ s \in Int /\ e \in Int /\ 1 <= i /\ i <= m + 1
        /\ 0 <= s /\ s < n /\ 0 <= e /\ e < n
    BY <1>6, <1>0 DEF Cells, n
  <2> QED
    BY <2>2, <2>3, <2>4, <2>5
<1>9. \A i \in 1 .. (m + 1) : q1[i] = Append(q, c)[i]
  <2> TAKE i \in 1 .. (m + 1)
  <2> HIDE DEF q, q1, m, m1, n
  <2>1. CASE i = m + 1
    BY <2>1, <1>1, <1>3, <1>5, <1>6, <1>7, <1>8
  <2>2. CASE i # m + 1
    <3>1. i \in 1 .. m
      BY <2>2, <1>6
    <3> QED
      BY <3>1, <2>2, <1>1, <1>3, <1>4, <1>5, <1>7, <1>8
  <2> QED
    BY <2>1, <2>2, Zenon
<1> HIDE DEF q, q1, m, m1, n
<1>10. q1 = Append(q, c)
  BY <1>3, <1>5, <1>7, <1>9, SeqEqual
<1> QED
  BY <1>10 DEF q, q1

\* getc0 on a ring that is not empty: the first of the queue leaves it.
LEMMA QueueAdvances ==
    ASSUME SizesOK, NEW b \in [Cells -> Char], NEW s \in Cells, NEW e \in Cells, s # e
    PROVE  /\ Queue(b, s, e) # <<>>
           /\ Queue(b, s, e)[1] = b[s]
           /\ Queue(b, Succ(s), e) = Tail(Queue(b, s, e))
<1> DEFINE n == KBD_BUFFER_SIZE
           q == Queue(b, s, e)
           q1 == Queue(b, Succ(s), e)
           m == (e - s) % n
           m1 == (e - Succ(s)) % n
<1>0. n \in Nat \ {0}
  BY DEF SizesOK
<1>1. 0 \in Cells
  BY <1>0 DEF Cells
<1>2. Succ(s) \in Cells /\ m \in Cells /\ 0 \in Cells
  BY <1>1, RingArithmetic, Zenon
<1>3. m1 = m - 1 /\ m > 0
  <2>1. /\ m = IF s <= e THEN e - s ELSE e - s + n
        /\ m1 = IF Succ(s) <= e THEN e - Succ(s) ELSE e - Succ(s) + n
        /\ Succ(s) = IF s + 1 = n THEN 0 ELSE s + 1
    BY <1>2, RingArithmetic
  <2> HIDE DEF m, m1, n
  <2> QED
    BY <2>1, <1>0 DEF Cells, n
<1>4. q \in Seq(Char) /\ Len(q) = m /\ \A i \in 1 .. m : q[i] = b[(s + i - 1) % n]
  BY QueueIsSeq
<1>5. q1 \in Seq(Char) /\ Len(q1) = m1 /\ \A i \in 1 .. m1 : q1[i] = b[(Succ(s) + i - 1) % n]
  BY <1>2, QueueIsSeq, Zenon
<1>6. m \in Nat /\ m < n
  <2> HIDE DEF m
  <2> QED
    BY <1>0, <1>2 DEF Cells
<1>7. q # <<>>
  <2> HIDE DEF q, m
  <2> QED
    BY <1>3, <1>4, <1>6
<1>8. q[1] = b[s]
  <2>0. (s + 0) % n = IF s + 0 < n THEN s + 0 ELSE s + 0 - n
    BY <1>2, RingArithmetic
  <2>1. (s + 0) % n = s
    BY <2>0, <1>0 DEF Cells
  <2>2. s + 1 - 1 = s + 0
    BY DEF Cells
  <2> HIDE DEF q, m
  <2> QED
    BY <2>1, <2>2, <1>3, <1>4, <1>6
<1>9. Tail(q) \in Seq(Char) /\ Len(Tail(q)) = m - 1 /\ \A i \in 1 .. (m - 1) : Tail(q)[i] = q[i + 1]
  <2> HIDE DEF q, m
  <2> QED
    BY <1>4, <1>7, HeadTailProperties
<1>10. \A i \in 1 .. (m - 1) : (Succ(s) + i - 1) % n = (s + (i + 1) - 1) % n
  <2> TAKE i \in 1 .. (m - 1)
  <2>1. i - 1 \in Cells /\ i \in Cells
    BY <1>6, <1>0 DEF Cells
  <2>2. /\ (s + i) % n = IF s + i < n THEN s + i ELSE s + i - n
        /\ (Succ(s) + (i - 1)) % n = IF Succ(s) + (i - 1) < n THEN Succ(s) + (i - 1) ELSE Succ(s) + (i - 1) - n
        /\ Succ(s) = IF s + 1 = n THEN 0 ELSE s + 1
    BY <2>1, <1>2, RingArithmetic
  <2> HIDE DEF n, m
  <2>3. s \in Int /\ i \in Int /\ n \in Int /\ Succ(s) \in Int /\ 0 <= s /\ s < n /\ 1 <= i /\ i < n
    BY <1>2, <2>1, <1>6, <1>0 DEF Cells, n
  <2>4. Succ(s) + i - 1 = Succ(s) + (i - 1) /\ s + (i + 1) - 1 = s + i
    BY <2>3
  <2>5. (Succ(s) + (i - 1)) % n = (s + i) % n
    BY <2>2, <2>3
  <2> QED
    BY <2>4, <2>5
<1>11. \A i \in 1 .. (m - 1) : q1[i] = Tail(q)[i]
  <2> HIDE DEF q, q1, m, m1, n
  <2> TAKE i \in 1 .. (m - 1)
  <2>1. i \in 1 .. m1 /\ i + 1 \in 1 .. m
    BY <1>3, <1>6
  <2> QED
    BY <2>1, <1>4, <1>5, <1>9, <1>10
<1> HIDE DEF q, q1, m, m1, n
<1>12. q1 = Tail(q)
  BY <1>3, <1>5, <1>9, <1>11, SeqEqual
<1> QED
  BY <1>7, <1>8, <1>12 DEF q, q1

(***************************************************************************)
(* The line editor.                                                        *)
(***************************************************************************)

Editor == [line : Seq(Char), committed : Seq(Char), screen : Seq(Char),
           lost : BOOLEAN, leave : {"no", "break", "eof"}]
Text == [text : Seq(Char), line : Seq(Char)]

\* What ReadersGetEditedText and EchoShowsLine say of an editor st, the text g
\* handed out before and the text e that is wanted.
Agrees(st, g, e) == st.lost = FALSE => g \o st.committed = e.text /\ st.line = e.line
Shows(st) ==
    /\ Len(st.line) <= Len(st.screen)
    /\ \A i \in 1 .. Len(st.line) : st.screen[Len(st.screen) - Len(st.line) + i] = st.line[i]

\* The end of a sequence, as SubSeq and character by character.
LEMMA SuffixByIndex ==
    ASSUME NEW S, NEW s \in Seq(S), NEW t \in Seq(S), Len(t) <= Len(s)
    PROVE  SubSeq(s, Len(s) - Len(t) + 1, Len(s)) = t <=>
             \A i \in 1 .. Len(t) : s[Len(s) - Len(t) + i] = t[i]
<1> DEFINE m == Len(s) - Len(t) + 1
           u == SubSeq(s, m, Len(s))
<1>1. Len(s) \in Nat /\ Len(t) \in Nat /\ m \in Nat \ {0}
  OBVIOUS
<1>2. \A i \in m .. Len(s) : s[i] \in S
  BY <1>1, ElementOfSeq
<1>3. /\ u \in Seq(S)
      /\ Len(u) = IF m <= Len(s) THEN Len(s) - m + 1 ELSE 0
      /\ \A i \in 1 .. (Len(s) - m + 1) : u[i] = s[m + i - 1]
  BY <1>1, <1>2, SubSeqProperties
<1> HIDE DEF u
<1>4. Len(u) = Len(t)
  BY <1>1, <1>3
<1>5. \A i \in 1 .. Len(t) : u[i] = s[Len(s) - Len(t) + i]
  BY <1>1, <1>3
<1>6. ASSUME \A i \in 1 .. Len(t) : s[Len(s) - Len(t) + i] = t[i]
      PROVE  u = t
  BY <1>6, <1>3, <1>4, <1>5, SeqEqual
<1> QED
  BY <1>5, <1>6 DEF u

\* The first n characters of a sequence that is no longer are all of it.
LEMMA UptoProperties ==
    ASSUME NEW s \in Seq(Char), NEW n \in Nat
    PROVE  /\ Upto(s, n) \in Seq(Char)
           /\ Len(s) <= n => Upto(s, n) = s
<1> DEFINE k == IF n < Len(s) THEN n ELSE Len(s)
<1>1. k \in Nat /\ k <= Len(s) /\ Len(s) \in Nat
  OBVIOUS
<1>2. \A i \in 1 .. k : s[i] \in Char
  BY <1>1, ElementOfSeq
<1>3. Upto(s, n) = SubSeq(s, 1, k)
  BY DEF Upto
<1>4. Len(s) <= n => k = Len(s)
  BY <1>1
<1> HIDE DEF k
<1>5. SubSeq(s, 1, k) \in Seq(Char)
  BY <1>1, <1>2, SubSeqProperties
<1>6. SubSeq(s, 1, Len(s)) = s
  BY SubSeqFull
<1> QED
  BY <1>3, <1>4, <1>5, <1>6

\* commit() keeps the readers' text that of the user, unless something is lost.
LEMMA CommitAgrees ==
    ASSUME SizesOK, NEW st \in Editor, NEW g \in Seq(Char), NEW e \in Text, Agrees(st, g, e)
    PROVE  /\ commit(st) \in Editor
           /\ commit(st).line = <<>> /\ commit(st).screen = st.screen
           /\ commit(st).leave = st.leave
           /\ commit(st).lost = FALSE => g \o commit(st).committed = e.text \o e.line
<1> DEFINE co == st.committed
           li == st.line
           s == co \o li
           c == commit(st)
<1>0. st.lost \in BOOLEAN
  BY DEF Editor
<1>1. co \in Seq(Char) /\ li \in Seq(Char)
  BY DEF Editor
<1> HIDE DEF co, li
<1>2. s \in Seq(Char) /\ Len(s) \in Nat
  BY <1>1, ConcatProperties
<1>3. BUFFER_SIZE \in Nat \ {0} /\ BUFFER_SIZE - 1 \in Nat
  BY DEF SizesOK
<1> HIDE DEF s
<1> DEFINE u == Upto(s, BUFFER_SIZE - 1)
           x == st.lost \/ Len(s) >= BUFFER_SIZE
<1>4. u \in Seq(Char) /\ (Len(s) <= BUFFER_SIZE - 1 => u = s)
  BY <1>2, <1>3, UptoProperties, Zenon
<1>5. c = [st EXCEPT !.committed = u, !.line = <<>>, !.lost = x]
  BY DEF commit, s, co, li
<1>x. x \in BOOLEAN /\ (~x => st.lost = FALSE /\ Len(s) <= BUFFER_SIZE - 1)
  BY <1>2, <1>3
<1> HIDE DEF c, u, x
<1>6. /\ c \in Editor /\ c.committed = u /\ c.line = <<>> /\ c.lost = x
      /\ c.screen = st.screen /\ c.leave = st.leave
  <2>1. <<>> \in Seq(Char)
    OBVIOUS
  <2>2. c \in Editor
    BY <2>1, <1>4, <1>5, <1>x, Zenon DEF Editor
  <2>3. c.committed = u /\ c.line = <<>>
    BY <2>1, <1>4, <1>5, <1>x DEF Editor
  <2>4. c.lost = x
    BY <1>5 DEF Editor
  <2>5. c.screen = st.screen /\ c.leave = st.leave
    BY <2>1, <1>4, <1>5, <1>x DEF Editor
  <2> QED
    BY <2>2, <2>3, <2>4, <2>5
<1>7. ASSUME c.lost = FALSE PROVE g \o c.committed = e.text \o e.line
  <2>1. st.lost = FALSE /\ c.committed = s
    BY <1>0, <1>7, <1>4, <1>6, <1>x
  <2>2. g \o st.committed = e.text /\ st.line = e.line
    BY <2>1 DEF Agrees
  <2>3. g \o s = (g \o co) \o li
    BY <1>1, ConcatAssociative, SMTT(30), Z3T(30), Zenon DEF s
  <2> QED
    BY <2>1, <2>2, <2>3 DEF co, li
<1> QED
  BY <1>6, <1>7, Zenon DEF c

\* A sequence without its last element.
LEMMA Shorter ==
    ASSUME NEW S, NEW s \in Seq(S), s # <<>>
    PROVE  /\ SubSeq(s, 1, Len(s) - 1) \in Seq(S)
           /\ Len(SubSeq(s, 1, Len(s) - 1)) = Len(s) - 1
           /\ \A i \in 1 .. (Len(s) - 1) : SubSeq(s, 1, Len(s) - 1)[i] = s[i]
<1>1. Len(s) \in Nat \ {0}
  BY EmptySeq
<1> DEFINE n == Len(s) - 1
<1>2. n \in Nat /\ \A i \in 1 .. n : s[i] \in S
  BY <1>1, ElementOfSeq
<1> HIDE DEF n
<1>3. /\ SubSeq(s, 1, n) \in Seq(S)
      /\ Len(SubSeq(s, 1, n)) = IF 1 <= n THEN n - 1 + 1 ELSE 0
      /\ \A i \in 1 .. (n - 1 + 1) : SubSeq(s, 1, n)[i] = s[1 + i - 1]
  BY <1>2, SubSeqProperties
<1>4. /\ SubSeq(s, 1, n) \in Seq(S) /\ Len(SubSeq(s, 1, n)) = n
      /\ \A i \in 1 .. n : SubSeq(s, 1, n)[i] = s[i]
  BY <1>2, <1>3
<1> QED
  BY <1>4 DEF n

\* The end of the screen follows the line when both get or lose a character.
LEMMA ShowsMore ==
    ASSUME NEW st \in Editor, NEW t \in Editor, Shows(st), NEW c \in Char,
           t.line = Append(st.line, c), t.screen = Append(st.screen, c)
    PROVE  Shows(t)
<1> DEFINE l == st.line
           s == st.screen
<1>1. l \in Seq(Char) /\ s \in Seq(Char)
  BY DEF Editor
<1>2. Len(l) <= Len(s) /\ \A i \in 1 .. Len(l) : s[Len(s) - Len(l) + i] = l[i]
  BY Zenon DEF Shows
<1>3. t.line = Append(l, c) /\ t.screen = Append(s, c)
  OBVIOUS
<1> HIDE DEF l, s
<1>4. Len(l) \in Nat /\ Len(s) \in Nat
  BY <1>1, LenProperties
<1>5. /\ Len(Append(l, c)) = Len(l) + 1 /\ Append(l, c)[Len(l) + 1] = c
      /\ \A i \in 1 .. Len(l) : Append(l, c)[i] = l[i]
      /\ Len(Append(s, c)) = Len(s) + 1 /\ Append(s, c)[Len(s) + 1] = c
      /\ \A i \in 1 .. Len(s) : Append(s, c)[i] = s[i]
  BY <1>1, AppendProperties
<1>6. ASSUME NEW i \in 1 .. (Len(l) + 1)
      PROVE  Append(s, c)[(Len(s) + 1) - (Len(l) + 1) + i] = Append(l, c)[i]
  <2>1. CASE i = Len(l) + 1
    <3>1. (Len(s) + 1) - (Len(l) + 1) + i = Len(s) + 1
      BY <2>1, <1>4
    <3> QED
      BY <3>1, <2>1, <1>5
  <2>2. CASE i # Len(l) + 1
    <3>1. i \in 1 .. Len(l) /\ (Len(s) + 1) - (Len(l) + 1) + i = Len(s) - Len(l) + i
      BY <2>2, <1>4
    <3>2. Len(s) - Len(l) + i \in 1 .. Len(s)
      BY <3>1, <1>2, <1>4
    <3> QED
      BY <3>1, <3>2, <1>2, <1>5
  <2> QED
    BY <2>1, <2>2, Zenon
<1>7. Len(t.line) = Len(l) + 1 /\ Len(t.screen) = Len(s) + 1
  BY <1>3, <1>5
<1>8. Len(t.line) <= Len(t.screen)
  BY <1>2, <1>4, <1>7
<1>9. \A i \in 1 .. Len(t.line) : t.screen[Len(t.screen) - Len(t.line) + i] = t.line[i]
  BY <1>3, <1>6, <1>7, Zenon
<1> QED
  BY <1>8, <1>9, Zenon DEF Shows

LEMMA ShowsLess ==
    ASSUME NEW st \in Editor, NEW t \in Editor, Shows(st), st.line # <<>>,
           t.line = SubSeq(st.line, 1, Len(st.line) - 1),
           t.screen = SubSeq(st.screen, 1, Len(st.screen) - 1)
    PROVE  Shows(t)
<1> DEFINE l == st.line
           s == st.screen
<1>1. l \in Seq(Char) /\ s \in Seq(Char) /\ l # <<>>
  BY DEF Editor
<1>2. Len(l) <= Len(s) /\ \A i \in 1 .. Len(l) : s[Len(s) - Len(l) + i] = l[i]
  BY Zenon DEF Shows
<1>3. t.line = SubSeq(l, 1, Len(l) - 1) /\ t.screen = SubSeq(s, 1, Len(s) - 1)
  OBVIOUS
<1> HIDE DEF l, s
<1>4. Len(l) \in Nat \ {0} /\ Len(s) \in Nat
  BY <1>1, LenProperties, EmptySeq
<1>5. s # <<>>
  BY <1>1, <1>2, <1>4
<1>6. /\ Len(t.line) = Len(l) - 1
      /\ \A i \in 1 .. (Len(l) - 1) : t.line[i] = l[i]
      /\ Len(t.screen) = Len(s) - 1
      /\ \A i \in 1 .. (Len(s) - 1) : t.screen[i] = s[i]
  BY <1>1, <1>3, <1>5, Shorter, SMTT(30), Z3T(30), Zenon
<1>7. ASSUME NEW i \in 1 .. (Len(l) - 1)
      PROVE  t.screen[(Len(s) - 1) - (Len(l) - 1) + i] = t.line[i]
  <2>1. /\ i \in 1 .. Len(l) /\ (Len(s) - 1) - (Len(l) - 1) + i = Len(s) - Len(l) + i
        /\ Len(s) - Len(l) + i \in 1 .. (Len(s) - 1)
    BY <1>2, <1>4
  <2> QED
    BY <2>1, <1>2, <1>6, Zenon
<1>8. Len(t.line) <= Len(t.screen)
  BY <1>2, <1>4, <1>6, SMTT(30), Z3T(30), Zenon
<1>9. \A i \in 1 .. Len(t.line) : t.screen[Len(t.screen) - Len(t.line) + i] = t.line[i]
  BY <1>6, <1>7, Zenon
<1> QED
  BY <1>8, <1>9, Zenon DEF Shows

\* The editor that is wanted gives texts.
LEMMA EditType ==
    ASSUME NEW e \in Text, NEW c \in Char
    PROVE  Edit(e, c) \in Text
<1> DEFINE l == e.line
           x == e.text
<1>1. l \in Seq(Char) /\ x \in Seq(Char)
  BY DEF Text
<1> HIDE DEF l, x
<1>2. x \o l \in Seq(Char) /\ Append(l, c) \in Seq(Char) /\ <<>> \in Seq(Char)
  BY <1>1, ConcatProperties, AppendProperties
<1>3. CASE c = High
  BY <1>3 DEF Edit, High, CtrlD, BS, NL
<1>4. CASE c = CtrlD
  <2>1. Edit(e, c) = [text |-> x \o l, line |-> <<>>]
    BY <1>4 DEF Edit, CtrlD, High, x, l, BS, NL
  <2> QED
    BY <2>1, <1>2 DEF Text
<1>5. CASE c = BS
  <2> DEFINE y == SubSeq(l, 1, IF l = <<>> THEN 0 ELSE Len(l) - 1)
  <2>1. Edit(e, c) = [e EXCEPT !.line = y]
    BY <1>5 DEF Edit, CtrlD, High, BS, l, NL
  <2>2. y \in Seq(Char)
    BY <1>1, <1>2, Shorter, SubSeqEmpty
  <2> HIDE DEF y
  <2> QED
    BY <2>1, <2>2 DEF Text
<1>6. CASE c = NL
  <2>1. Edit(e, c) = [text |-> x \o Append(l, c), line |-> <<>>]
    BY <1>6 DEF Edit, CtrlD, High, BS, NL, x, l
  <2>2. x \o Append(l, c) \in Seq(Char)
    BY <1>1, <1>2, ConcatProperties
  <2> QED
    BY <2>1, <2>2, <1>2 DEF Text
<1>7. CASE c \notin {High, CtrlD, BS, NL}
  <2>1. Edit(e, c) = [e EXCEPT !.line = Append(l, c)]
    BY <1>7 DEF Edit, l, High, CtrlD, BS, NL
  <2> QED
    BY <2>1, <1>2, Zenon DEF Text
<1> QED
  BY <1>3, <1>4, <1>5, <1>6, <1>7

\* One character through read's loop body: the line, the committed text and
\* the screen go on agreeing with what the user expects.
LEMMA FeedEdits ==
    ASSUME SizesOK, NEW st \in Editor, NEW g \in Seq(Char), NEW e \in Text, NEW c \in Char,
           Agrees(st, g, e), Shows(st)
    PROVE  Feed(st, c) \in Editor /\ Agrees(Feed(st, c), g, Edit(e, c)) /\ Shows(Feed(st, c))
<1> DEFINE l == st.line
           f == Feed(st, c)
           d == Edit(e, c)
<1>1. l \in Seq(Char) /\ e.line \in Seq(Char) /\ e.text \in Seq(Char)
  BY DEF Editor, Text
<1>2. <<>> \in Seq(Char) /\ Len(<<>>) = 0
  OBVIOUS
<1>3. ASSUME NEW t \in Editor, t.line = <<>> PROVE Shows(t)
  <2>1. t.screen \in Seq(Char)
    BY DEF Editor
  <2>2. Len(t.screen) \in Nat /\ Len(t.line) = 0
    BY <2>1, <1>2, <1>3, LenProperties
  <2> QED
    BY <2>2 DEF Shows
<1>4. CASE c = High
  BY <1>4 DEF Feed, Edit, High, CtrlD, BS, NL
<1>5. CASE c = CtrlD /\ st.line = <<>> /\ st.committed = <<>>
  <2>1. f = [st EXCEPT !.leave = "eof"] /\ d = [text |-> e.text \o e.line, line |-> <<>>]
    BY <1>5 DEF Feed, Edit, CtrlD, High, BS, NL
  <2> HIDE DEF f, d
  <2>2. f \in Editor /\ f.line = st.line /\ f.committed = st.committed /\ f.screen = st.screen
        /\ f.lost = st.lost
    BY <2>1, Zenon DEF Editor
  <2>3. ASSUME f.lost = FALSE PROVE g \o f.committed = d.text /\ f.line = d.line
    <3>1. g \o st.committed = e.text /\ e.line = <<>>
      BY <2>2, <2>3, <1>5 DEF Agrees
    <3>2. e.text \o <<>> = e.text
      BY <1>1, ConcatEmptySeq
    <3> QED
      BY <3>1, <3>2, <2>1, <2>2, <1>5
  <2>4. Shows(f)
    BY <2>2, <1>3, <1>5
  <2> QED
    BY <2>2, <2>3, <2>4, Zenon DEF Agrees, f, d
<1>6. CASE c = CtrlD /\ ~(st.line = <<>> /\ st.committed = <<>>)
  <2>1. f = [commit(st) EXCEPT !.leave = "break"] /\ d = [text |-> e.text \o e.line, line |-> <<>>]
    BY <1>6 DEF Feed, Edit, CtrlD, High, BS, NL
  <2>2. /\ commit(st) \in Editor /\ commit(st).line = <<>>
        /\ commit(st).lost = FALSE => g \o commit(st).committed = e.text \o e.line
    BY CommitAgrees, Zenon
  <2> HIDE DEF f, d
  <2>3. f \in Editor /\ f.line = commit(st).line /\ f.committed = commit(st).committed
        /\ f.lost = commit(st).lost
    BY <2>1, <2>2, Zenon DEF Editor
  <2>4. Shows(f)
    BY <2>2, <2>3, <1>3
  <2>5. Agrees(f, g, d)
    BY <2>1, <2>2, <2>3, Zenon DEF Agrees
  <2> QED
    BY <2>3, <2>4, <2>5 DEF f, d
<1>7. CASE c = BS /\ st.line = <<>>
  <2>1. f = st /\ d = [e EXCEPT !.line = SubSeq(e.line, 1, IF e.line = <<>> THEN 0 ELSE Len(e.line) - 1)]
    BY <1>7 DEF Feed, Edit, CtrlD, High, BS, NL
  <2> HIDE DEF f, d
  <2>2. ASSUME st.lost = FALSE PROVE d.text = e.text /\ d.line = e.line
    <3>1. e.line = <<>>
      BY <2>2, <1>7 DEF Agrees
    <3>2. SubSeq(e.line, 1, 0) = <<>>
      BY <1>1, SubSeqEmpty
    <3> QED
      BY <3>1, <3>2, <2>1 DEF Text
  <2> QED
    BY <2>1, <2>2, Zenon DEF Agrees, f, d
<1>8. CASE c = BS /\ st.line # <<>>
  <2> DEFINE l1 == SubSeq(l, 1, Len(l) - 1)
             s1 == SubSeq(st.screen, 1, Len(st.screen) - 1)
  <2>1. f = [st EXCEPT !.line = l1, !.screen = s1]
        /\ d = [e EXCEPT !.line = SubSeq(e.line, 1, IF e.line = <<>> THEN 0 ELSE Len(e.line) - 1)]
    BY <1>8 DEF Feed, Edit, CtrlD, High, BS, NL
  <2>2. st.screen \in Seq(Char) /\ st.screen # <<>>
    <3>1. Len(l) \in Nat \ {0} /\ Len(l) <= Len(st.screen)
      BY <1>1, <1>8, EmptySeq DEF Shows
    <3>2. st.screen \in Seq(Char)
      BY DEF Editor
    <3> QED
      BY <3>1, <3>2, <1>2
  <2>3. l1 \in Seq(Char) /\ s1 \in Seq(Char)
    BY <2>2, <1>1, <1>8, Shorter
  <2>4. l1 = SubSeq(st.line, 1, Len(st.line) - 1)
    OBVIOUS
  <2> HIDE DEF f, d, l1
  <2>5. /\ f \in Editor /\ f.line = l1 /\ f.committed = st.committed
        /\ f.screen = s1 /\ f.lost = st.lost
    BY <2>1, <2>3, Zenon DEF Editor
  <2>6. Shows(f)
    BY <2>4, <2>5, <1>8, ShowsLess
  <2>7. ASSUME st.lost = FALSE PROVE d.text = e.text /\ d.line = l1
    <3>1. e.line = st.line
      BY <2>7 DEF Agrees
    <3> QED
      BY <3>1, <2>1, <2>4, <1>8 DEF Text
  <2> QED
    BY <2>5, <2>6, <2>7, Zenon DEF Agrees, f, d
<1>9. CASE c \notin {High, CtrlD, BS} /\ Full(st.line)
  <2>1. f = [st EXCEPT !.lost = TRUE]
    BY <1>9 DEF Feed, Dropped, High, CtrlD, BS, NL
  <2> HIDE DEF f, d
  <2>2. f \in Editor /\ f.line = st.line /\ f.screen = st.screen
    BY <2>1, Zenon DEF Editor
  <2>3. f.lost = TRUE
    BY <2>1 DEF Editor
  <2> QED
    BY <2>2, <2>3, Zenon DEF Agrees, Shows, f, d
<1>10. CASE c \notin {High, CtrlD, BS} /\ ~Full(st.line)
  <2> DEFINE st1 == [st EXCEPT !.line = Append(l, c)]
  <2>1. Append(l, c) \in Seq(Char) /\ Append(e.line, c) \in Seq(Char)
    BY <1>1, AppendProperties
  <2>2. /\ st1 \in Editor /\ st1.line = Append(l, c) /\ st1.committed = st.committed
        /\ st1.screen = st.screen /\ st1.lost = st.lost
    BY <2>1, Zenon DEF Editor
  <2> HIDE DEF st1
  <2> DEFINE e1 == [e EXCEPT !.line = Append(e.line, c)]
  <2>3. e1 \in Text /\ e1.text = e.text /\ e1.line = Append(e.line, c)
    BY <2>1, Zenon DEF Text
  <2> HIDE DEF e1
  <2>4. Agrees(st1, g, e1)
    BY <2>2, <2>3, Zenon DEF Agrees
  <2>5. CASE c = NL
    <3>1. f = [commit(st1) EXCEPT !.screen = <<>>]
          /\ d = [text |-> e.text \o Append(e.line, c), line |-> <<>>]
      BY <1>10, <2>5 DEF Feed, Edit, st1, NL, High, CtrlD, BS
    <3>2. /\ commit(st1) \in Editor /\ commit(st1).line = <<>>
          /\ commit(st1).lost = FALSE => g \o commit(st1).committed = e1.text \o e1.line
      BY <2>2, <2>3, <2>4, CommitAgrees, Zenon
    <3> HIDE DEF f, d
    <3>3. f \in Editor /\ f.line = commit(st1).line /\ f.committed = commit(st1).committed
          /\ f.lost = commit(st1).lost
      BY <3>1, <3>2, <1>2, Zenon DEF Editor
    <3>4. Shows(f)
      BY <3>2, <3>3, <1>3
    <3>5. Agrees(f, g, d)
      BY <3>1, <3>2, <3>3, <2>3, Zenon DEF Agrees
    <3> QED
      BY <3>3, <3>4, <3>5 DEF f, d
  <2>6. CASE c # NL
    <3>1. f = [st1 EXCEPT !.screen = Append(st1.screen, c)] /\ d = e1
      BY <1>10, <2>6 DEF Feed, Edit, st1, e1, High, CtrlD, BS, NL
    <3>2. st1.screen \in Seq(Char) /\ Append(st1.screen, c) \in Seq(Char)
      BY <2>2, AppendProperties DEF Editor
    <3> HIDE DEF f, d
    <3>3. /\ f \in Editor /\ f.line = st1.line /\ f.committed = st1.committed
          /\ f.lost = st1.lost /\ f.screen = Append(st1.screen, c)
      BY <3>1, <3>2, <2>2, Zenon DEF Editor
    <3>4. Shows(f)
      BY <3>3, <2>2, ShowsMore
    <3>5. Agrees(f, g, d)
      BY <3>1, <3>3, <2>4 DEF Agrees
    <3> QED
      BY <3>3, <3>4, <3>5 DEF f, d
  <2> QED
    BY <2>5, <2>6
<1> QED
  BY <1>4, <1>5, <1>6, <1>7, <1>8, <1>9, <1>10

(***************************************************************************)
(* The inductive invariant.                                                *)
(***************************************************************************)

\* The parts of the invariant in the words of the lemmas above.
LEMMA Reworded ==
    /\ Waiting = Queue(kbd_buffer, kbd_buffer_start, kbd_buffer_end)
    /\ TypeOK => /\ State \in Editor /\ wanted \in Text
                 /\ ReadersGetEditedText <=> Agrees(State, got, wanted)
                 /\ EchoShowsLine <=> Shows(State)
<1>1. Waiting = Queue(kbd_buffer, kbd_buffer_start, kbd_buffer_end)
  BY DEF Waiting, Queue
<1> SUFFICES ASSUME TypeOK
             PROVE  /\ State \in Editor /\ wanted \in Text
                    /\ ReadersGetEditedText <=> Agrees(State, got, wanted)
                    /\ EchoShowsLine <=> Shows(State)
  BY <1>1
<1>2. buffer \in Seq(Char) /\ buffer_committed \in Seq(Char) /\ screen \in Seq(Char)
  BY DEF TypeOK
<1>3. lost \in BOOLEAN
  BY DEF TypeOK
<1>4. State \in Editor
  BY <1>2, <1>3 DEF State, Editor
<1>5. State.line = buffer /\ State.committed = buffer_committed /\ State.screen = screen
  BY DEF State
<1>6. State.lost = lost
  BY DEF State
<1>7. wanted \in Text
  BY DEF TypeOK, Text
<1>8. ReadersGetEditedText <=> Agrees(State, got, wanted)
  BY <1>3, <1>5, <1>6 DEF ReadersGetEditedText, Agrees
<1>9. EchoShowsLine <=> Shows(State)
  <2>1. CASE Len(buffer) <= Len(screen)
    <3> DEFINE Ends == \A i \in 1 .. Len(buffer) : screen[Len(screen) - Len(buffer) + i] = buffer[i]
    <3>1. SubSeq(screen, Len(screen) - Len(buffer) + 1, Len(screen)) = buffer <=> Ends
      BY ONLY <2>1, <1>2, SuffixByIndex, Zenon
    <3>2. Shows(State) <=> Ends
      BY ONLY <2>1, <1>5 DEF Shows
    <3> HIDE DEF Ends
    <3>3. EchoShowsLine <=> Ends
      BY ONLY <2>1, <3>1, Zenon DEF EchoShowsLine
    <3> QED
      BY ONLY <3>2, <3>3
  <2>2. CASE ~(Len(buffer) <= Len(screen))
    BY <2>2, <1>5 DEF EchoShowsLine, Shows
  <2> QED
    BY <2>1, <2>2
<1> QED
  BY <1>4, <1>7, <1>8, <1>9

\* At boot the ring, the line and the texts are empty.
LEMMA InitLineInv ==
    ASSUME SizesOK, Init
    PROVE  LineInv
<1>0. <<>> \in Seq(Char) /\ Len(<<>>) = 0 /\ None \in Char
  BY DEF Char
<1>1. TypeOK
  <2>1. KBD_BUFFER_SIZE \in Nat \ {0}
    BY DEF SizesOK
  <2>2. 0 \in 0 .. (KBD_BUFFER_SIZE - 1)
    BY <2>1
  <2> QED
    BY <2>2, <1>0, Zenon DEF Init, TypeOK
<1>2. RingIsQueue
  <2> DEFINE q == Queue(kbd_buffer, kbd_buffer_start, kbd_buffer_end)
  <2>1. kbd_buffer \in [Cells -> Char] /\ kbd_buffer_start \in Cells /\ kbd_buffer_end \in Cells
    BY <1>1 DEF TypeOK, Cells
  <2>2. (kbd_buffer_end - kbd_buffer_start) % KBD_BUFFER_SIZE = 0
    BY <2>1, RingArithmetic DEF Init
  <2>3. q \in Seq(Char) /\ Len(q) = 0
    BY <2>1, <2>2, QueueIsSeq
  <2>4. q = <<>>
    BY <2>3
  <2>5. <<>> \o <<>> = <<>>
    BY <1>0, ConcatEmptySeq
  <2> QED
    BY <2>4, <2>5, Reworded DEF RingIsQueue, Init
<1>3. ReadersGetEditedText
  <2>1. <<>> \o <<>> = <<>>
    BY <1>0, ConcatEmptySeq
  <2> QED
    BY <2>1 DEF Init, ReadersGetEditedText
<1>4. EofReportedOnce
  BY DEF Init, EofReportedOnce
<1>5. EchoShowsLine
  BY <1>0, SubSeqEmpty DEF Init, EchoShowsLine
<1> QED
  BY <1>1, <1>2, <1>3, <1>4, <1>5 DEF LineInv, ConsoleEdits, Init

\* The part of the invariant that is about the ring, when no character passes.
LEMMA RingKept ==
    ASSUME RingIsQueue, UNCHANGED <<ring, typed, taken>>
    PROVE  /\ typed' = taken' \o Waiting'
           /\ Waiting' = Waiting
  BY DEF RingIsQueue, Waiting, ring

\* The editor's part, when the line and the texts stay.
LEMMA EditorKept ==
    ASSUME ReadersGetEditedText, EchoShowsLine,
           UNCHANGED <<buffer, buffer_committed, screen, got, wanted, lost>>
    PROVE  ReadersGetEditedText' /\ EchoShowsLine'
  BY DEF ReadersGetEditedText, EchoShowsLine

\* irq1_handler keeps the invariant, wherever the reader is.
LEMMA IrqLineInv ==
    ASSUME SizesOK, LineInv, NEW c \in Typeable, irq1_handler(c)
    PROVE  LineInv'
<1>1. TypeOK /\ RingIsQueue /\ ReadersGetEditedText /\ EofReportedOnce /\ EchoShowsLine
  BY DEF LineInv, ConsoleEdits
<1>2. c \in Char
  BY DEF Char
<1>3. kbd_buffer \in [Cells -> Char] /\ kbd_buffer_start \in Cells /\ kbd_buffer_end \in Cells
  BY <1>1 DEF TypeOK, Cells
<1>4. typed \in Seq(Char) /\ taken \in Seq(Char)
  BY <1>1 DEF TypeOK
<1> DEFINE q == Queue(kbd_buffer, kbd_buffer_start, kbd_buffer_end)
<1>5. q \in Seq(Char)
  BY <1>3, QueueIsSeq
<1>6. Waiting = q /\ typed = taken \o q /\ (pc = "advance" => q # <<>> /\ ch = q[1])
  BY <1>1, Reworded DEF RingIsQueue
<1>7. Waiting' = Queue(kbd_buffer', kbd_buffer_start', kbd_buffer_end')
  BY DEF Waiting, Queue
<1>8. /\ UNCHANGED <<kbd_buffer_start, taken, pc, ch, size, eof, eofs>>
      /\ UNCHANGED <<buffer, buffer_committed, screen, got, wanted, lost>>
  BY DEF irq1_handler, edit
<1>9. ReadersGetEditedText' /\ EchoShowsLine'
  BY <1>1, <1>8, EditorKept
<1>10. EofReportedOnce' /\ (pc' # "user" => ~eof')
  BY <1>1, <1>8 DEF EofReportedOnce, LineInv
<1>11. CASE Room
  <2>1. /\ kbd_buffer' = [kbd_buffer EXCEPT ![kbd_buffer_end] = c]
        /\ kbd_buffer_end' = Succ(kbd_buffer_end)
        /\ typed' = Append(typed, c)
    BY <1>11 DEF irq1_handler
  <2>2. /\ kbd_buffer' \in [Cells -> Char]
        /\ Waiting' = Append(q, c)
    <3>1. /\ kbd_buffer' \in [Cells -> Char] /\ kbd_buffer'[kbd_buffer_end] = c
          /\ \A x \in Cells \ {kbd_buffer_end} : kbd_buffer'[x] = kbd_buffer[x]
      BY <2>1, <1>2, <1>3
    <3>2. Queue(kbd_buffer', kbd_buffer_start, Succ(kbd_buffer_end)) = Append(q, c)
      BY <3>1, <1>2, <1>3, <1>11, QueueAppends DEF Room
    <3> HIDE DEF q
    <3> QED
      BY <3>1, <3>2, <2>1, <1>7, <1>8, Zenon
  <2>3. kbd_buffer_end' \in Cells
    BY <2>1, <1>3, RingArithmetic, Zenon
  <2> HIDE DEF q
  <2>4. typed' \in Seq(Char)
    BY <2>1, <1>2, <1>4, AppendProperties
  <2>5. Append(taken \o q, c) = taken \o Append(q, c)
    <3>1. taken \o q \in Seq(Char) /\ <<c>> \in Seq(Char)
      BY <1>2, <1>4, <1>5, ConcatProperties
    <3>2. Append(taken \o q, c) = (taken \o q) \o <<c>> /\ Append(q, c) = q \o <<c>>
      BY <3>1, <1>2, <1>5, AppendIsConcat
    <3>3. (taken \o q) \o <<c>> = taken \o (q \o <<c>>)
      BY <3>1, <1>4, <1>5, ConcatAssociative, SMTT(60), Z3T(60), Zenon
    <3> QED
      BY <3>2, <3>3
  <2>6. typed' = taken' \o Waiting'
    BY <2>1, <2>2, <2>5, <1>6, <1>8, Zenon
  <2>7. q # <<>> => Append(q, c) # <<>> /\ Append(q, c)[1] = q[1]
    <3>1. ASSUME q # <<>> PROVE 1 \in 1 .. Len(q)
      BY <3>1, <1>5, EmptySeq
    <3> QED
      BY <3>1, <1>2, <1>5, AppendProperties
  <2>8. RingIsQueue'
    BY <2>2, <2>6, <2>7, <1>6, <1>8 DEF RingIsQueue
  <2>9. TypeOK'
    BY <2>2, <2>3, <2>4, <1>1, <1>8 DEF TypeOK, Cells
  <2>10. pc' = "fetch" => ~Empty'
    <3>1. Succ(kbd_buffer_end) # kbd_buffer_start
      BY <1>11 DEF Room
    <3> QED
      BY <3>1, <2>1, <1>8 DEF Empty
  <2> QED
    BY <2>8, <2>9, <2>10, <1>9, <1>10 DEF LineInv, ConsoleEdits
<1>12. CASE ~Room
  <2>1. UNCHANGED <<ring, typed>>
    BY <1>8, <1>12 DEF irq1_handler, ring
  <2>2. RingIsQueue'
    BY <2>1, <1>1, <1>8, RingKept DEF RingIsQueue
  <2>3. TypeOK'
    BY <2>1, <1>1, <1>8 DEF TypeOK, ring
  <2>4. pc' = "fetch" => ~Empty'
    BY <2>1, <1>8 DEF Empty, LineInv, ring
  <2> QED
    BY <2>2, <2>3, <2>4, <1>9, <1>10 DEF LineInv, ConsoleEdits
<1> QED
  BY <1>11, <1>12

\* A read that starts, looks at the ring or fetches a character leaves the
\* ring, the line and the texts alone.
LEMMA ReadLineInv ==
    ASSUME SizesOK, LineInv, NEW n \in Sizes, Read(n)
    PROVE  LineInv'
<1>1. TypeOK /\ RingIsQueue /\ ReadersGetEditedText /\ EofReportedOnce /\ EchoShowsLine
  BY DEF LineInv, ConsoleEdits
<1>2. n \in Nat
  BY DEF SizesOK
<1>3. /\ UNCHANGED <<ring, typed, taken, ch>>
      /\ UNCHANGED <<buffer, buffer_committed, screen, got, wanted, lost>>
      /\ size' = n /\ pc' \in {"user", "empty?"}
  BY DEF Read
<1>4. RingIsQueue'
  BY <1>1, <1>3, RingKept DEF RingIsQueue
<1>5. ReadersGetEditedText' /\ EchoShowsLine'
  BY <1>1, <1>3, EditorKept
<1>6. /\ eof' \in BOOLEAN /\ eofs' \in [typed : Nat, reported : Nat]
      /\ EofReportedOnce' /\ (pc' # "user" => ~eof')
  <2>1. eof \in BOOLEAN /\ eofs \in [typed : Nat, reported : Nat]
    BY <1>1 DEF TypeOK
  <2>2. CASE eof /\ n = 0
    <3>1. eof' = TRUE /\ eofs' = [eofs EXCEPT !.reported = @ + 0] /\ pc' = "user"
      BY <2>2, Zenon DEF Read, StillEof
    <3>2. eofs' = eofs
      BY <3>1, <2>1
    <3> QED
      BY <3>1, <3>2, <2>1, <2>2, <1>1 DEF EofReportedOnce
  <2>3. CASE eof /\ n # 0
    <3>1. eof' = FALSE /\ eofs' = [eofs EXCEPT !.reported = @ + 1] /\ pc' = "user"
      BY <2>3, Zenon DEF Read, StillEof
    <3>2. eofs.typed = eofs.reported + 1
      BY <2>3, <1>1 DEF EofReportedOnce
    <3>3. eofs' \in [typed : Nat, reported : Nat] /\ eofs'.typed = eofs'.reported + 0
      BY <3>1, <3>2, <2>1
    <3> QED
      BY <3>1, <3>3, Zenon DEF EofReportedOnce
  <2>4. CASE ~eof
    <3>1. UNCHANGED <<eof, eofs>>
      BY <2>4 DEF Read
    <3> QED
      BY <3>1, <2>1, <2>4, <1>1 DEF EofReportedOnce
  <2> QED
    BY <2>2, <2>3, <2>4
<1>7. TypeOK'
  BY <1>1, <1>2, <1>3, <1>6, Zenon DEF TypeOK, ring
<1> QED
  BY <1>3, <1>4, <1>5, <1>6, <1>7 DEF LineInv, ConsoleEdits

LEMMA TestEmptyLineInv ==
    ASSUME LineInv, TestEmpty
    PROVE  LineInv'
<1>1. TypeOK /\ RingIsQueue /\ ReadersGetEditedText /\ EofReportedOnce /\ EchoShowsLine
  BY DEF LineInv, ConsoleEdits
<1>2. /\ UNCHANGED <<ring, typed, taken, ch, size, eof, eofs>>
      /\ UNCHANGED <<buffer, buffer_committed, screen, got, wanted, lost>>
      /\ pc' \in {"answer", "fetch"} /\ (pc' = "fetch" => ~Empty) /\ ~eof
  BY DEF TestEmpty, edit, hist, LineInv
<1>3. RingIsQueue'
  BY <1>1, <1>2, RingKept DEF RingIsQueue
<1>4. ReadersGetEditedText' /\ EchoShowsLine'
  BY <1>1, <1>2, EditorKept
<1>5. EofReportedOnce'
  BY <1>1, <1>2 DEF EofReportedOnce
<1>6. TypeOK'
  BY <1>1, <1>2 DEF TypeOK, ring
<1>7. Empty' = Empty
  BY <1>2 DEF Empty, ring
<1> QED
  BY <1>2, <1>3, <1>4, <1>5, <1>6, <1>7 DEF LineInv, ConsoleEdits

\* getc0 reads the first character of the queue.
LEMMA FetchLineInv ==
    ASSUME SizesOK, LineInv, Fetch
    PROVE  LineInv'
<1>1. TypeOK /\ RingIsQueue /\ ReadersGetEditedText /\ EofReportedOnce /\ EchoShowsLine
  BY DEF LineInv, ConsoleEdits
<1>2. /\ UNCHANGED <<ring, typed, taken, size, eof, eofs>>
      /\ UNCHANGED <<buffer, buffer_committed, screen, got, wanted, lost>>
      /\ pc' = "advance" /\ ~eof /\ ch' = kbd_buffer[kbd_buffer_start]
      /\ kbd_buffer_start # kbd_buffer_end
  BY DEF Fetch, edit, hist, LineInv, Empty
<1>3. kbd_buffer \in [Cells -> Char] /\ kbd_buffer_start \in Cells /\ kbd_buffer_end \in Cells
  BY <1>1 DEF TypeOK, Cells
<1>4. RingIsQueue'
  <2>1. Waiting # <<>> /\ Waiting[1] = kbd_buffer[kbd_buffer_start]
    BY <1>2, <1>3, QueueAdvances, Reworded
  <2> QED
    BY <2>1, <1>1, <1>2, RingKept DEF RingIsQueue
<1>5. ReadersGetEditedText' /\ EchoShowsLine'
  BY <1>1, <1>2, EditorKept
<1>6. EofReportedOnce'
  BY <1>1, <1>2 DEF EofReportedOnce
<1>7. ch' \in Char
  BY <1>2, <1>3
<1>8. TypeOK'
  BY <1>1, <1>2, <1>7 DEF TypeOK, ring
<1> QED
  BY <1>2, <1>4, <1>5, <1>6, <1>8 DEF LineInv, ConsoleEdits

\* Taking the first n characters of a sequence and leaving the others.
LEMMA Cut ==
    ASSUME NEW s \in Seq(Char), NEW n \in Nat, n <= Len(s)
    PROVE  /\ SubSeq(s, 1, n) \in Seq(Char) /\ SubSeq(s, n + 1, Len(s)) \in Seq(Char)
           /\ SubSeq(s, 1, n) \o SubSeq(s, n + 1, Len(s)) = s
<1>1. Len(s) \in Nat
  BY LenProperties
<1>2. \A i \in 1 .. Len(s) : s[i] \in Char
  BY ElementOfSeq
<1>3. \A i \in 1 .. n : s[i] \in Char
  BY <1>1, <1>2
<1>4. \A i \in (n + 1) .. Len(s) : s[i] \in Char
  BY <1>1, <1>2
<1>5. SubSeq(s, 1, n) \in Seq(Char)
  BY <1>3, SubSeqProperties
<1>6. SubSeq(s, n + 1, Len(s)) \in Seq(Char)
  BY <1>1, <1>4, SubSeqProperties
<1>7. 1 \in 1 .. (Len(s) + 1) /\ n \in (1 - 1) .. Len(s) /\ Len(s) \in n .. Len(s)
  BY <1>1
<1>8. SubSeq(s, 1, n) \o SubSeq(s, n + 1, Len(s)) = SubSeq(s, 1, Len(s))
  BY <1>7, ConcatAdjacentSubSeq, Zenon
<1> QED
  BY <1>5, <1>6, <1>8, SubSeqFull, Zenon

\* The end of a read hands over a beginning of the committed text.
LEMMA AnswerLineInv ==
    ASSUME LineInv, Answer
    PROVE  LineInv'
<1>1. TypeOK /\ RingIsQueue /\ ReadersGetEditedText /\ EofReportedOnce /\ EchoShowsLine
  BY DEF LineInv, ConsoleEdits
<1> DEFINE n == IF buffer_committed = <<>> THEN 0 ELSE Count
<1>2. /\ UNCHANGED <<ring, typed, taken, ch, size, eof, eofs>>
      /\ UNCHANGED <<buffer, screen, wanted, lost>>
      /\ pc' = "user"
      /\ got' = got \o SubSeq(buffer_committed, 1, n)
      /\ buffer_committed' = SubSeq(buffer_committed, n + 1, Len(buffer_committed))
  BY DEF Answer
<1>3. buffer_committed \in Seq(Char) /\ got \in Seq(Char) /\ size \in Nat
  BY <1>1 DEF TypeOK
<1>4. n \in Nat /\ n <= Len(buffer_committed)
  <2> DEFINE k == IF size < Len(buffer_committed) THEN size ELSE Len(buffer_committed)
  <2>1. k \in Nat /\ k <= Len(buffer_committed) /\ Len(buffer_committed) \in Nat
    BY <1>3
  <2>2. Count = Len(SubSeq(buffer_committed, 1, k))
    BY DEF Count, Upto
  <2> HIDE DEF k
  <2>3. \A i \in 1 .. k : buffer_committed[i] \in Char
    BY <2>1, <1>3, ElementOfSeq
  <2>4. Len(SubSeq(buffer_committed, 1, k)) = IF 1 <= k THEN k - 1 + 1 ELSE 0
    BY <2>1, <2>3, SubSeqProperties
  <2>5. Count = k
    BY <2>1, <2>2, <2>4
  <2>6. n = 0 \/ n = k
    BY <2>5
  <2> HIDE DEF n
  <2> QED
    BY <2>1, <2>6
<1> HIDE DEF n
<1> DEFINE x == SubSeq(buffer_committed, 1, n)
           y == SubSeq(buffer_committed, n + 1, Len(buffer_committed))
<1>5. x \in Seq(Char) /\ y \in Seq(Char) /\ x \o y = buffer_committed
  BY <1>3, <1>4, Cut, Zenon
<1> HIDE DEF x, y
<1>6. got' = got \o x /\ buffer_committed' = y
  BY <1>2 DEF x, y
<1>7. got' \in Seq(Char) /\ got' \o buffer_committed' = got \o buffer_committed
  <2>0. got \in Seq(Char) /\ x \in Seq(Char) /\ y \in Seq(Char)
    BY <1>3, <1>5
  <2>1. (got \o x) \o y = got \o (x \o y)
    BY <2>0, ConcatAssociative, SMTT(30), Z3T(30), Zenon
  <2> QED
    BY <2>1, <1>3, <1>5, <1>6, ConcatProperties, Zenon
<1>8. RingIsQueue'
  BY <1>1, <1>2, RingKept, Zenon DEF RingIsQueue
<1>9. ReadersGetEditedText' /\ EchoShowsLine'
  BY <1>1, <1>2, <1>7, Zenon DEF ReadersGetEditedText, EchoShowsLine
<1>10. EofReportedOnce'
  BY <1>1, <1>2 DEF EofReportedOnce
<1>11. TypeOK'
  BY <1>1, <1>2, <1>5, <1>6, <1>7, Zenon DEF TypeOK, ring
<1> QED
  BY <1>2, <1>8, <1>9, <1>10, <1>11 DEF LineInv, ConsoleEdits

\* getc0 moves the start on and the character goes through the loop body.
LEMMA AdvanceLineInv ==
    ASSUME SizesOK, LineInv, Advance
    PROVE  LineInv'
<1>1. TypeOK /\ RingIsQueue /\ ReadersGetEditedText /\ EofReportedOnce /\ EchoShowsLine
  BY DEF LineInv, ConsoleEdits
<1> DEFINE c == Translate(ch)
           st == Feed(State, c)
           q == Queue(kbd_buffer, kbd_buffer_start, kbd_buffer_end)
<1>2. ch \in Char /\ c \in Char
  BY <1>1 DEF TypeOK, Translate, Char
<1>3. /\ kbd_buffer_start' = Succ(kbd_buffer_start) /\ taken' = Append(taken, ch)
      /\ wanted' = Edit(wanted, c) /\ ch' = None
      /\ UNCHANGED <<kbd_buffer, kbd_buffer_end, size, typed, got>>
  BY DEF Advance
<1>4. /\ buffer' = st.line /\ buffer_committed' = st.committed /\ screen' = st.screen
      /\ lost' = st.lost
  BY DEF Advance
<1>5. kbd_buffer \in [Cells -> Char] /\ kbd_buffer_start \in Cells /\ kbd_buffer_end \in Cells
  BY <1>1 DEF TypeOK, Cells
<1>6. taken \in Seq(Char) /\ got \in Seq(Char) /\ wanted \in Text /\ State \in Editor
  BY <1>1, Reworded, Zenon DEF TypeOK
<1>7. /\ st \in Editor /\ Agrees(st, got, wanted') /\ Shows(st) /\ wanted' \in Text
  <2>1. Agrees(State, got, wanted) /\ Shows(State)
    BY <1>1, Reworded
  <2>2. Edit(wanted, c) \in Text
    BY <1>2, <1>6, EditType
  <2>3. Feed(State, c) \in Editor /\ Agrees(Feed(State, c), got, Edit(wanted, c))
        /\ Shows(Feed(State, c))
    <3> HIDE DEF c
    <3> QED
      BY <2>1, <1>2, <1>6, FeedEdits
  <2> QED
    BY <2>2, <2>3, <1>3
<1>8. q \in Seq(Char) /\ q # <<>> /\ ch = q[1] /\ Waiting' = Tail(q) /\ typed = taken \o q
      /\ kbd_buffer_start' \in Cells
  <2>1. Waiting = q
    BY Reworded
  <2>2. q # <<>> /\ ch = q[1] /\ typed = taken \o q
    BY <2>1, <1>1 DEF RingIsQueue, Advance
  <2>3. q \in Seq(Char) /\ Len(q) = (kbd_buffer_end - kbd_buffer_start) % KBD_BUFFER_SIZE
    BY <1>5, QueueIsSeq
  <2>4. kbd_buffer_start # kbd_buffer_end
    <3>1. SUFFICES ASSUME kbd_buffer_start = kbd_buffer_end PROVE FALSE
      OBVIOUS
    <3>2. (kbd_buffer_end - kbd_buffer_start) % KBD_BUFFER_SIZE = 0
      <4>1. (kbd_buffer_end - kbd_buffer_start) % KBD_BUFFER_SIZE = kbd_buffer_end - kbd_buffer_start
        BY <3>1, <1>5, RingArithmetic DEF Cells
      <4> QED
        BY <4>1, <3>1, <1>5 DEF Cells
    <3> HIDE DEF q
    <3> QED
      BY <3>2, <2>2, <2>3
  <2>5. Queue(kbd_buffer, Succ(kbd_buffer_start), kbd_buffer_end) = Tail(q)
    BY <2>4, <1>5, QueueAdvances
  <2>6. Waiting' = Queue(kbd_buffer', kbd_buffer_start', kbd_buffer_end')
    BY DEF Waiting, Queue
  <2>7. Succ(kbd_buffer_start) \in Cells
    BY <1>5, RingArithmetic, Zenon
  <2> HIDE DEF q
  <2> QED
    BY <2>2, <2>3, <2>5, <2>6, <2>7, <1>3
<1> HIDE DEF q, st, c
<1>9. taken' \in Seq(Char) /\ typed' = taken' \o Waiting'
  <2>1. q = <<q[1]>> \o Tail(q) /\ Tail(q) \in Seq(Char)
    <3>1. Len(q) \in Nat \ {0}
      BY <1>8, EmptySeq
    <3>2. SubSeq(q, 1, Len(q)) = <<q[1]>> \o SubSeq(q, 1 + 1, Len(q))
      BY <3>1, <1>8, SubSeqRecursiveFirst
    <3>3. SubSeq(q, 1, Len(q)) = q /\ Tail(q) = SubSeq(q, 2, Len(q)) /\ Tail(q) \in Seq(Char)
      BY <1>8, SubSeqFull, TailIsSubSeq, HeadTailProperties
    <3> QED
      BY <3>2, <3>3
  <2>2. Append(taken, ch) = taken \o <<ch>> /\ Append(taken, ch) \in Seq(Char) /\ <<ch>> \in Seq(Char)
    BY <1>2, <1>6, AppendIsConcat, AppendProperties
  <2>3. (taken \o <<ch>>) \o Tail(q) = taken \o (<<ch>> \o Tail(q))
    BY <2>1, <2>2, <1>6, ConcatAssociative, SMTT(30), Z3T(30), Zenon
  <2> QED
    BY <2>1, <2>2, <2>3, <1>3, <1>8, Zenon
<1>10. pc' \in {"user", "empty?", "answer"}
  <2>1. st.leave \in {"no", "break", "eof"}
    BY <1>7 DEF Editor
  <2> QED
    BY <2>1 DEF Advance, st, c
<1>11. RingIsQueue'
  BY <1>9, <1>10 DEF RingIsQueue
<1>12. /\ buffer' \in Seq(Char) /\ buffer_committed' \in Seq(Char) /\ screen' \in Seq(Char)
       /\ lost' \in BOOLEAN
  BY <1>4, <1>7 DEF Editor
<1>13. ReadersGetEditedText'
  BY <1>3, <1>4, <1>7, <1>12 DEF ReadersGetEditedText, Agrees
<1>14. EchoShowsLine'
  <2>1. /\ Len(buffer') <= Len(screen')
        /\ \A i \in 1 .. Len(buffer') : screen'[Len(screen') - Len(buffer') + i] = buffer'[i]
    BY <1>4, <1>7, Zenon DEF Shows
  <2> QED
    BY <2>1, <1>12, SuffixByIndex DEF EchoShowsLine
<1>15. /\ eof' \in BOOLEAN /\ eofs' \in [typed : Nat, reported : Nat]
       /\ EofReportedOnce' /\ (pc' # "user" => ~eof')
  <2>1. ~eof /\ eofs \in [typed : Nat, reported : Nat] /\ size \in Nat
    BY <1>1 DEF TypeOK, LineInv, Advance
  <2>2. eofs.typed \in Nat /\ eofs.reported \in Nat /\ eofs.typed = eofs.reported
    BY <2>1, <1>1 DEF EofReportedOnce
  <2>3. eof' = (st.leave = "eof" /\ size = 0)
    BY DEF Advance, StillEof, st, c
  <2>4. eofs' = [typed    |-> eofs.typed + (IF st.leave = "eof" THEN 1 ELSE 0),
                 reported |-> eofs.reported + (IF st.leave = "eof" /\ size > 0 THEN 1 ELSE 0)]
    BY DEF Advance, st, c
  <2>5. st.leave # "eof" \/ pc' = "user"
    BY DEF Advance, st, c
  <2>6. eofs' \in [typed : Nat, reported : Nat]
    BY <2>2, <2>4
  <2>7. /\ eofs'.typed = eofs.typed + (IF st.leave = "eof" THEN 1 ELSE 0)
        /\ eofs'.reported = eofs.reported + (IF st.leave = "eof" /\ size > 0 THEN 1 ELSE 0)
    BY <2>4
  <2>8. eofs'.typed = eofs'.reported + (IF eof' THEN 1 ELSE 0)
    <3>1. CASE st.leave # "eof"
      <4>1. eofs'.typed = eofs.typed + 0 /\ eofs'.reported = eofs.reported + 0
        BY <3>1, <2>7
      <4>2. ~eof'
        BY <3>1, <2>3, Zenon
      <4> QED
        BY <4>1, <4>2, <2>2
    <3>2. CASE st.leave = "eof" /\ size = 0
      <4>1. eofs'.typed = eofs.typed + 1 /\ eofs'.reported = eofs.reported + 0
        BY <3>2, <2>7
      <4>2. eof'
        BY <3>2, <2>3, Zenon
      <4> QED
        BY <4>1, <4>2, <2>2
    <3>3. CASE st.leave = "eof" /\ size > 0
      <4>1. eofs'.typed = eofs.typed + 1 /\ eofs'.reported = eofs.reported + 1
        BY <3>3, <2>7
      <4>2. size # 0
        BY <3>3, <2>1
      <4>3. ~eof'
        BY <4>2, <2>3, Zenon
      <4> QED
        BY <4>1, <4>3, <2>2
    <3> QED
      BY <3>1, <3>2, <3>3, <2>1
  <2> QED
    BY <2>3, <2>5, <2>6, <2>8, Zenon DEF EofReportedOnce
<1>16. TypeOK'
  <2>1. None \in Char
    BY DEF Char
  <2>2. kbd_buffer' \in [Cells -> Char] /\ kbd_buffer_start' \in Cells /\ kbd_buffer_end' \in Cells
    BY <1>3, <1>5, <1>8
  <2>3. typed' \in Seq(Char) /\ got' \in Seq(Char) /\ size' \in Nat
    BY <1>1, <1>3 DEF TypeOK
  <2> QED
    BY <2>1, <2>2, <2>3, <1>3, <1>7, <1>9, <1>10, <1>12, <1>15, Zenon DEF TypeOK, Cells, Text
<1> QED
  BY <1>10, <1>11, <1>13, <1>14, <1>15, <1>16 DEF LineInv, ConsoleEdits

\* Every step of the interrupt and of the reader keeps the invariant.
LEMMA NextLineInv ==
    ASSUME SizesOK, LineInv, [Next]_vars
    PROVE  LineInv'
<1>1. CASE UNCHANGED vars
  <2>1. /\ UNCHANGED <<ring, typed, taken, ch, size, pc, eof, eofs>>
        /\ UNCHANGED <<buffer, buffer_committed, screen, got, wanted, lost>>
    BY <1>1 DEF vars, edit, hist
  <2> QED
    BY <2>1, Zenon DEF LineInv, TypeOK, RingIsQueue, Waiting, ConsoleEdits, ReadersGetEditedText,
                EofReportedOnce, EchoShowsLine, Empty, ring
<1>2. CASE Next
  BY <1>2, IrqLineInv, ReadLineInv, TestEmptyLineInv, FetchLineInv, AdvanceLineInv, AnswerLineInv
     DEF Next
<1> QED
  BY <1>1, <1>2

\* The invariant of the console's input, for rings and buffers of every size.
LEMMA LineInvariant == SizesOK => (Spec => []LineInv)
<1> SUFFICES ASSUME SizesOK PROVE Spec => []LineInv
  OBVIOUS
<1>1. Init => LineInv
  BY InitLineInv
<1>2. LineInv /\ [Next]_vars => LineInv'
  BY NextLineInv
<1> QED
  BY <1>1, <1>2, PTL DEF Spec

\* irq1_handler with getc0: the ring between the interrupt and the reader is a
\* queue that loses, repeats and reorders nothing, wherever the interrupt falls.
THEOREM RingQueues == SizesOK => (Spec => []RingIsQueue)
<1> SUFFICES ASSUME SizesOK PROVE Spec => []RingIsQueue
  OBVIOUS
<1>1. LineInv => RingIsQueue
  BY DEF LineInv
<1>2. Spec => []LineInv
  BY LineInvariant
<1> QED
  BY <1>1, <1>2, PTL

\* LineBufferedIOMixin::read: unless a character found no room, readers get
\* the edited text in order and once; an end of file is reported to one read;
\* the terminal ends with the line that Enter would commit.
THEOREM ConsoleFollowsTheUser == SizesOK => (Spec => []ConsoleEdits)
<1> SUFFICES ASSUME SizesOK PROVE Spec => []ConsoleEdits
  OBVIOUS
<1>1. LineInv => ConsoleEdits
  BY DEF LineInv
<1>2. Spec => []LineInv
  BY LineInvariant
<1> QED
  BY <1>1, <1>2, PTL
=============================================================================
