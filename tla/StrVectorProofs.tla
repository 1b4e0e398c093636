-------------------------- MODULE StrVectorProofs ---------------------------
(* Proofs about the demangler's vectors (StrVector): every string has one   *)
(* owner, a vector never outgrows its container, and the vectors are the    *)
(* lists of StringList, for vectors and heaps of every size.                *)
EXTENDS StrVector, SequenceTheorems, FiniteSetTheorems, TLAPS

(***************************************************************************)
(* Containers.                                                             *)
(***************************************************************************)

\* BUFFER_GROW makes room for one more string at least.
LEMMA Grows ==
    ASSUME NEW x \in Nat \ {0}
    PROVE  BUFFER_GROW(x) \in Nat /\ BUFFER_GROW(x) > x
  BY DEF BUFFER_GROW

\* The cells of a container that starts with s.
LEMMA ContainerCells ==
    ASSUME NEW S, Nil \in S, NEW s \in Seq(S), NEW n \in Nat
    PROVE  /\ Container(s, n) \in Seq(S) /\ Len(Container(s, n)) = n
           /\ \A i \in 1..n : i <= Len(s) => Container(s, n)[i] = s[i]
<1> DEFINE At(i) == IF i <= Len(s) THEN s[i] ELSE Nil
<1>1. \A i \in 1..n : At(i) \in S
  BY ElementOfSeq
<1>2. Container(s, n) = [i \in 1..n |-> At(i)]
  BY DEF Container
<1>3. \A i \in 1..n : i <= Len(s) => At(i) = s[i]
  OBVIOUS
<1> HIDE DEF At
<1>4. [i \in 1..n |-> At(i)] \in Seq(S) /\ Len([i \in 1..n |-> At(i)]) = n
  BY <1>1, IsASeq
<1> QED
  BY <1>2, <1>3, <1>4

\* A container's first cells, as a sequence.
LEMMA FirstCells ==
    ASSUME NEW S, NEW v, IsVector(v, S)
    PROVE  /\ SubSeq(v.container, 1, v.size) \in Seq(S)
           /\ Len(SubSeq(v.container, 1, v.size)) = v.size
           /\ \A i \in 1..v.size : SubSeq(v.container, 1, v.size)[i] = v.container[i]
<1> DEFINE c == v.container
           n == v.size
<1>1. c \in Seq(S) /\ n \in Nat /\ n <= Len(c) /\ Len(c) \in Nat
  BY DEF IsVector, Vector
<1> HIDE DEF c, n
<1>2. \A i \in 1..n : c[i] \in S
  BY <1>1, ElementOfSeq
<1>3. /\ SubSeq(c, 1, n) \in Seq(S)
      /\ Len(SubSeq(c, 1, n)) = IF 1 <= n THEN n - 1 + 1 ELSE 0
      /\ \A i \in 1 .. (n - 1 + 1) : SubSeq(c, 1, n)[i] = c[1 + i - 1]
  BY <1>1, <1>2, SubSeqProperties
<1>4. /\ SubSeq(c, 1, n) \in Seq(S) /\ Len(SubSeq(c, 1, n)) = n
      /\ \A i \in 1..n : SubSeq(c, 1, n)[i] = c[i]
  BY <1>1, <1>3
<1> QED
  BY <1>4 DEF c, n

\* A sequence with an element changed.
LEMMA ChangedSeq ==
    ASSUME NEW S, NEW s \in Seq(S), NEW n \in 1..Len(s), NEW c \in S
    PROVE  /\ [s EXCEPT ![n] = c] \in Seq(S) /\ Len([s EXCEPT ![n] = c]) = Len(s)
           /\ [s EXCEPT ![n] = c][n] = c
           /\ \A i \in 1..Len(s) : i # n => [s EXCEPT ![n] = c][i] = s[i]
<1> DEFINE m == Len(s)
           t == [s EXCEPT ![n] = c]
<1>1. m \in Nat /\ s \in [1..m -> S]
  BY LenProperties
<1>2. t \in [1..m -> S] /\ t[n] = c /\ \A i \in 1..m : i # n => t[i] = s[i]
  BY <1>1
<1> HIDE DEF t, m
<1>3. t \in Seq(S)
  BY <1>1, <1>2, SeqDef
<1>4. Len(t) = m
  BY <1>1, <1>2, <1>3, LenProperties
<1> QED
  BY <1>2, <1>3, <1>4 DEF t, m

\* vector_str_push and the pushes of the other vectors: one more cell, in a
\* larger container when the old one is full.
LEMMA PushCellVector ==
    ASSUME NEW S, Nil \in S, NEW v, IsVector(v, S), v.capacity > 0, NEW cell \in S
    PROVE  /\ IsVector(PushCell(v, cell), S) /\ PushCell(v, cell).capacity > 0
           /\ PushCell(v, cell).size = v.size + 1
           /\ PushCell(v, cell).container[v.size + 1] = cell
           /\ \A i \in 1..v.size : PushCell(v, cell).container[i] = v.container[i]
<1> DEFINE r == Room(v)
<1>1. /\ v \in Vector(S) /\ v.size \in Nat /\ v.capacity \in Nat \ {0}
      /\ v.size <= v.capacity /\ v.container \in Seq(S) /\ Len(v.container) = v.capacity
  BY DEF IsVector, Vector
<1>2. /\ r \in Vector(S) /\ r.size = v.size /\ v.size < r.capacity /\ Len(r.container) = r.capacity
      /\ r.container \in Seq(S) /\ r.capacity \in Nat
      /\ \A i \in 1..v.size : r.container[i] = v.container[i]
  <2>1. CASE v.size = v.capacity
    <3> DEFINE n == BUFFER_GROW(v.capacity)
               s == SubSeq(v.container, 1, v.size)
               k == Container(s, n)
    <3>1. n \in Nat /\ n > v.capacity
      BY <1>1, Grows
    <3>2. s \in Seq(S) /\ Len(s) = v.size /\ \A i \in 1..v.size : s[i] = v.container[i]
      BY FirstCells
    <3>3. r = [v EXCEPT !.capacity = n, !.container = k]
      BY <2>1 DEF Room, vector_str_grow
    <3> HIDE DEF s, n
    <3>4. k \in Seq(S) /\ Len(k) = n /\ \A i \in 1..n : i <= Len(s) => k[i] = s[i]
      BY <3>1, <3>2, ContainerCells, Zenon
    <3>5. \A i \in 1..v.size : k[i] = v.container[i]
      BY <3>1, <3>2, <3>4, <1>1
    <3> HIDE DEF k, r
    <3>6. r \in Vector(S) /\ r.size = v.size /\ r.capacity = n /\ r.container = k
      BY <3>1, <3>3, <3>4, <1>1, Zenon DEF Vector
    <3> QED
      BY <3>1, <3>4, <3>5, <3>6, <1>1, <2>1
  <2>2. CASE v.size # v.capacity
    <3>1. r = v
      BY <2>2 DEF Room
    <3> HIDE DEF r
    <3> QED
      BY <3>1, <1>1, <2>2
  <2> QED
    BY <2>1, <2>2
<1> DEFINE c == [r.container EXCEPT ![v.size + 1] = cell]
           p == PushCell(v, cell)
<1>3. p = [r EXCEPT !.container = c, !.size = v.size + 1]
  <2>1. p = [r EXCEPT !.container[v.size + 1] = cell, !.size = @ + 1]
    BY DEF PushCell
  <2> HIDE DEF r
  <2> QED
    BY <2>1, <1>2 DEF Vector
<1> HIDE DEF r, p
<1>4. v.size + 1 \in 1..Len(r.container)
  BY <1>1, <1>2
<1>5. /\ c \in Seq(S) /\ Len(c) = r.capacity /\ c[v.size + 1] = cell
      /\ \A i \in 1..Len(r.container) : i # v.size + 1 => c[i] = r.container[i]
  BY <1>2, <1>4, ChangedSeq
<1> HIDE DEF c
<1>6. p \in Vector(S) /\ p.container = c /\ p.size = v.size + 1 /\ p.capacity = r.capacity
  <2>1. r \in Vector(S) /\ c \in Seq(S) /\ v.size + 1 \in Nat
    BY <1>1, <1>2, <1>5
  <2> QED
    BY ONLY Zenon, <2>1, <1>3 DEF Vector
<1>7. \A i \in 1..v.size : c[i] = v.container[i]
  BY <1>1, <1>2, <1>5
<1>8. IsVector(p, S)
  BY <1>1, <1>2, <1>5, <1>6 DEF IsVector
<1> QED
  BY <1>1, <1>2, <1>5, <1>6, <1>7, <1>8 DEF p

\* vector_str_pop and the pops of the other vectors.
LEMMA PopVector ==
    ASSUME NEW S, Nil \in S, NEW v, IsVector(v, S), v.size > 0
    PROVE  /\ IsVector(PopCell(v), S) /\ PopCell(v).capacity = v.capacity
           /\ PopCell(v).size = v.size - 1
           /\ \A i \in 1 .. (v.size - 1) : PopCell(v).container[i] = v.container[i]
<1> DEFINE c == [v.container EXCEPT ![v.size] = Nil]
           p == PopCell(v)
<1>1. /\ v \in Vector(S) /\ v.size \in Nat \ {0} /\ v.capacity \in Nat
      /\ v.size <= v.capacity /\ v.container \in Seq(S) /\ Len(v.container) = v.capacity
  BY DEF IsVector, Vector
<1>2. p = [v EXCEPT !.size = v.size - 1, !.container = c]
  BY <1>1 DEF Vector, PopCell
<1> HIDE DEF p
<1>3. v.size \in 1..Len(v.container)
  BY <1>1
<1>4. /\ c \in Seq(S) /\ Len(c) = v.capacity
      /\ \A i \in 1..Len(v.container) : i # v.size => c[i] = v.container[i]
  BY <1>1, <1>3, ChangedSeq
<1> HIDE DEF c
<1>5. p \in Vector(S) /\ p.container = c /\ p.size = v.size - 1 /\ p.capacity = v.capacity
  <2>1. v \in Vector(S) /\ c \in Seq(S) /\ v.size - 1 \in Nat
    BY <1>1, <1>4
  <2> QED
    BY ONLY Zenon, <2>1, <1>2 DEF Vector
<1>6. \A i \in 1 .. (v.size - 1) : c[i] = v.container[i]
  BY <1>1, <1>4
<1>7. IsVector(p, S)
  BY <1>1, <1>4, <1>5 DEF IsVector
<1> QED
  BY <1>5, <1>6, <1>7 DEF p

\* The two merges: a container of exactly the cells given, with room to spare.
LEMMA JoinedVector ==
    ASSUME NEW S, Nil \in S, NEW dst, IsVector(dst, S), NEW org, IsVector(org, S),
           org.size > 0, NEW cells \in Seq(S), Len(cells) = dst.size + org.size, NEW h
    PROVE  /\ IsVector(Joined(dst, org, cells, h).v, S)
           /\ Joined(dst, org, cells, h).v.capacity > 0
           /\ Joined(dst, org, cells, h).v.size = dst.size + org.size
           /\ \A i \in 1..Len(cells) : Joined(dst, org, cells, h).v.container[i] = cells[i]
           /\ Joined(dst, org, cells, h).h = h
<1> DEFINE n == dst.size + org.size
           m == BUFFER_GROW(n)
           v == Joined(dst, org, cells, h).v
<1>1. n \in Nat \ {0}
  BY DEF IsVector, Vector
<1>2. v = [size |-> n, capacity |-> m, container |-> Container(cells, m)]
      /\ Joined(dst, org, cells, h).h = h
  BY DEF Joined
<1>3. Len(cells) = n
  OBVIOUS
<1> HIDE DEF v, n
<1>4. m \in Nat /\ m > n
  BY <1>1, Grows
<1> HIDE DEF m
<1>5. /\ Container(cells, m) \in Seq(S) /\ Len(Container(cells, m)) = m
      /\ \A i \in 1..m : i <= Len(cells) => Container(cells, m)[i] = cells[i]
  BY <1>4, ContainerCells, Zenon
<1>6. v \in Vector(S) /\ v.size = n /\ v.capacity = m /\ v.container = Container(cells, m)
  BY <1>1, <1>2, <1>4, <1>5 DEF Vector
<1>7. IsVector(v, S)
  BY <1>1, <1>4, <1>5, <1>6 DEF IsVector
<1>8. \A i \in 1..Len(cells) : v.container[i] = cells[i]
  BY <1>1, <1>3, <1>4, <1>5, <1>6
<1> QED
  BY <1>1, <1>2, <1>4, <1>6, <1>7, <1>8 DEF v, n

(***************************************************************************)
(* Memory.                                                                 *)
(***************************************************************************)

\* A vector whose cells differ has as many addresses as strings.
LEMMA CellsCount ==
    ASSUME NEW S, NEW v, IsVector(v, S), Distinct(v)
    PROVE  IsFiniteSet(Cells(v)) /\ Cardinality(Cells(v)) = v.size
<1> DEFINE n == v.size
           f == [i \in 1..n |-> v.container[i]]
<1>1. n \in Nat
  BY DEF IsVector, Vector
<1>2. f \in Injection(1..n, Cells(v))
  BY DEF Distinct, Cells, Injection, IsInjective
<1>3. f \in Surjection(1..n, Cells(v))
  BY DEF Cells, Surjection
<1>4. ExistsBijection(1..n, Cells(v))
  BY <1>2, <1>3 DEF ExistsBijection, Bijection
<1>5. IsFiniteSet(1..n)
  BY <1>1, FS_Interval
<1> HIDE DEF n, f
<1>6. IsFiniteSet(Cells(v)) /\ Cardinality(Cells(v)) = n
  BY <1>1, <1>4, <1>5, FS_Bijection, FS_CountingElements
<1> QED
  BY <1>6 DEF n

\* As many strings are allocated as the vectors hold.
LEMMA LiveCount ==
    ASSUME VectorInv
    PROVE  IsFiniteSet(Live) /\ Cardinality(Live) = out.size + ret.size
<1> DEFINE A == Cells(out)
           B == Cells(ret)
<1>1. IsFiniteSet(A) /\ Cardinality(A) = out.size /\ IsFiniteSet(B) /\ Cardinality(B) = ret.size
  BY CellsCount DEF VectorInv
<1>2. A \cap B = {} /\ Live = A \cup B
  BY DEF VectorInv
<1>3. out.size \in Nat /\ ret.size \in Nat
  BY DEF VectorInv, IsVector, Vector
<1> HIDE DEF A, B
<1>4. /\ IsFiniteSet(A \cup B)
      /\ Cardinality(A \cup B) = Cardinality(A) + Cardinality(B) - Cardinality(A \cap B)
  BY <1>1, FS_Union
<1>5. Cardinality(A \cap B) = 0
  BY <1>2, FS_EmptySet
<1> QED
  BY <1>1, <1>2, <1>3, <1>4, <1>5

\* There are addresses for n new strings.
LEMMA PlacesExist ==
    ASSUME EnoughMemory, VectorInv, NEW n \in Nat, n <= MaxLen
    PROVE  Places(n, heap) # {}
<1> DEFINE D == MemoryIds \ Live
           m == Cardinality(D)
<1>1. IsFiniteSet(Live) /\ Cardinality(Live) = out.size + ret.size
  BY LiveCount
<1>2. /\ Live \subseteq MemoryIds /\ out.size \in Nat /\ ret.size \in Nat
      /\ out.size + ret.size <= MaxLen
  BY DEF VectorInv, IsVector, Vector
<1>3. /\ MaxLen \in Nat /\ IsFiniteSet(MemoryIds) /\ Cardinality(MemoryIds) >= 2 * MaxLen
      /\ Cardinality(MemoryIds) \in Nat
  BY FS_CardinalityType DEF EnoughMemory
<1>4. MemoryIds \cap Live = Live
  BY <1>2
<1>5. IsFiniteSet(D) /\ m = Cardinality(MemoryIds) - Cardinality(Live)
  <2>1. /\ IsFiniteSet(MemoryIds \ Live)
        /\ Cardinality(MemoryIds \ Live) = Cardinality(MemoryIds) - Cardinality(MemoryIds \cap Live)
    BY <1>3, FS_Difference
  <2> QED
    BY <2>1, <1>4
<1>6. m \in Nat /\ ExistsBijection(1..m, D)
  BY <1>5, FS_CardinalityType
<1> HIDE DEF m
<1>7. n <= m
  BY <1>1, <1>2, <1>3, <1>5, <1>6
<1>8. PICK b \in Bijection(1..m, D) : TRUE
  BY <1>6, Zenon DEF ExistsBijection
<1> DEFINE f == [i \in 1..n |-> b[i]]
<1>9. b \in [1..m -> D] /\ \A i, j \in 1..m : b[i] = b[j] => i = j
  BY <1>8 DEF Bijection, Injection, IsInjective
<1>10. \A i \in 1..n : i \in 1..m
  BY <1>6, <1>7
<1>11. f \in [1..n -> D] /\ \A i, j \in 1..n : f[i] = f[j] => i = j
  BY <1>9, <1>10
<1>12. f \in Places(n, heap)
  BY <1>11 DEF Places, Live
<1> QED
  BY <1>12

\* malloc() in vector_str_push returns an address that is not in use.
LEMMA FreshIsFree ==
    ASSUME EnoughMemory, VectorInv, out.size + ret.size < MaxLen
    PROVE  Fresh \in MemoryIds /\ Fresh \notin Live
<1>1. 1 <= MaxLen
  BY DEF EnoughMemory, VectorInv, IsVector, Vector
<1>2. PICK f \in Places(1, heap) : TRUE
  BY <1>1, PlacesExist
<1>3. f[1] \in MemoryIds /\ f[1] \notin Live
  BY <1>2 DEF Places, Live
<1> QED
  BY <1>3 DEF Fresh

\* strdup() of every string: the copies are elsewhere and have the same texts.
LEMMA CopiesOf ==
    ASSUME NEW h, NEW cells \in Seq(DOMAIN h), NEW c, c = Copies(cells, h),
           h \in [DOMAIN h -> Texts], Places(Len(cells), h) # {}
    PROVE  /\ c.as \in Places(Len(cells), h)
           /\ DOMAIN c.h = DOMAIN h \cup {c.as[i] : i \in 1..Len(cells)}
           /\ \A x \in DOMAIN h : c.h[x] = h[x]
           /\ \A i \in 1..Len(cells) : c.h[c.as[i]] = h[cells[i]]
           /\ c.h \in [DOMAIN c.h -> Texts]
<1> DEFINE n == Len(cells)
           as == CHOOSE f \in Places(n, h) : TRUE
           Source(x) == cells[CHOOSE i \in 1..n : as[i] = x]
           g == [x \in DOMAIN h \cup {as[i] : i \in 1..n} |->
                   IF x \in DOMAIN h THEN h[x] ELSE h[Source(x)]]
<1>1. c.as = as /\ c.h = g
  BY DEF Copies
<1>2. as \in Places(n, h)
  OBVIOUS
<1> HIDE DEF as
<1>3. as \in [1..n -> MemoryIds \ DOMAIN h] /\ \A i, j \in 1..n : as[i] = as[j] => i = j
  BY <1>2, Zenon DEF Places
<1>4. ASSUME NEW i \in 1..n PROVE g[as[i]] = h[cells[i]]
  <2>1. as[i] \notin DOMAIN h
    BY <1>3, Zenon
  <2>2. (CHOOSE j \in 1..n : as[j] = as[i]) = i
    BY <1>3, Zenon
  <2> QED
    BY <2>1, <2>2, Zenon
<1>5. /\ DOMAIN g = DOMAIN h \cup {as[i] : i \in 1..n} /\ \A x \in DOMAIN h : g[x] = h[x]
  OBVIOUS
<1>6. g \in [DOMAIN g -> Texts]
  <2>1. \A x \in DOMAIN h : g[x] \in Texts
    BY <1>5
  <2>2. \A i \in 1..n : g[as[i]] \in Texts
    BY <1>4, ElementOfSeq, ZenonT(40)
  <2>3. \A x \in DOMAIN h \cup {as[i] : i \in 1..n} : g[x] \in Texts
    BY <2>1, <2>2, Zenon
  <2> DEFINE D == DOMAIN h \cup {as[i] : i \in 1..n}
             G(x) == IF x \in DOMAIN h THEN h[x] ELSE h[Source(x)]
  <2>4. g = [x \in D |-> G(x)]
    OBVIOUS
  <2>5. \A x \in D : G(x) \in Texts
    BY <2>3, Zenon
  <2> HIDE DEF D, G, g
  <2> QED
    BY <2>4, <2>5
<1> HIDE DEF g
<1> QED
  <2>1. c.as \in Places(n, h)
    BY <1>1, <1>2, Zenon
  <2>2. DOMAIN c.h = DOMAIN h \cup {c.as[i] : i \in 1..n} /\ \A x \in DOMAIN h : c.h[x] = h[x]
    BY ONLY <1>1, <1>5
  <2>3. \A i \in 1..n : c.h[c.as[i]] = h[cells[i]]
    BY ONLY Zenon, <1>1, <1>4
  <2>4. c.h \in [DOMAIN c.h -> Texts]
    BY ONLY <1>1, <1>6
  <2> QED
    BY <2>1, <2>2, <2>3, <2>4

(***************************************************************************)
(* Vectors as lists of texts.                                              *)
(***************************************************************************)

Addresses == MemoryIds \cup {Nil}

\* A vector of strings that lie in h, and the list it stands for.
Holds(v, h) == /\ IsVector(v, Addresses) /\ Distinct(v)
               /\ Cells(v) \subseteq DOMAIN h /\ DOMAIN h \subseteq MemoryIds
               /\ h \in [DOMAIN h -> Texts]
ListOf(v, h) == [i \in 1..v.size |-> h[v.container[i]]]

\* The list has one text per string.
LEMMA ListIsSeq ==
    ASSUME NEW v, NEW h, Holds(v, h)
    PROVE  /\ v.size \in Nat
           /\ ListOf(v, h) \in Seq(Texts) /\ Len(ListOf(v, h)) = v.size
           /\ \A i \in 1..v.size : ListOf(v, h)[i] = h[v.container[i]]
           /\ \A i \in 1..v.size : v.container[i] \in DOMAIN h
<1> DEFINE n == v.size
           At(i) == h[v.container[i]]
<1>1. n \in Nat
  BY DEF Holds, IsVector, Vector
<1>2. \A i \in 1..n : v.container[i] \in DOMAIN h
  BY DEF Holds, Cells
<1>3. \A i \in 1..n : At(i) \in Texts
  BY <1>2 DEF Holds
<1>4. ListOf(v, h) = [i \in 1..n |-> At(i)]
  BY DEF ListOf
<1> HIDE DEF n, At
<1>5. [i \in 1..n |-> At(i)] \in Seq(Texts) /\ Len([i \in 1..n |-> At(i)]) = n
  BY <1>1, <1>3, IsASeq
<1> QED
  BY <1>1, <1>2, <1>4, <1>5 DEF n, At

\* What happens elsewhere in the heap does not change a vector's list.
LEMMA ListKept ==
    ASSUME NEW v, NEW h, Holds(v, h), NEW h1,
           \A x \in Cells(v) : x \in DOMAIN h1 /\ h1[x] = h[x],
           DOMAIN h1 \subseteq MemoryIds, h1 \in [DOMAIN h1 -> Texts]
    PROVE  Holds(v, h1) /\ ListOf(v, h1) = ListOf(v, h)
<1>1. Holds(v, h1)
  BY DEF Holds
<1>2. \A i \in 1..v.size : h1[v.container[i]] = h[v.container[i]]
  BY DEF Cells
<1> QED
  BY <1>1, <1>2 DEF ListOf

\* A push adds a cell with the new string's address.
LEMMA PushHolds ==
    ASSUME NEW v, NEW h, Holds(v, h), v.capacity > 0,
           NEW a \in MemoryIds, a \notin DOMAIN h, NEW t \in Texts
    PROVE  /\ Holds(PushCell(v, a), Alloc(h, a, t))
           /\ PushCell(v, a).capacity > 0 /\ PushCell(v, a).size = v.size + 1
           /\ Cells(PushCell(v, a)) = Cells(v) \cup {a} /\ DOMAIN Alloc(h, a, t) = DOMAIN h \cup {a}
<1> DEFINE p == PushCell(v, a)
           h1 == Alloc(h, a, t)
<1>1. /\ IsVector(p, Addresses) /\ p.capacity > 0 /\ p.size = v.size + 1
      /\ p.container[v.size + 1] = a
      /\ \A i \in 1..v.size : p.container[i] = v.container[i]
  BY PushCellVector DEF Holds, Addresses
<1>2. v.size \in Nat /\ \A i \in 1..v.size : v.container[i] \in DOMAIN h
  BY ListIsSeq
<1>3. /\ DOMAIN h1 = DOMAIN h \cup {a} /\ h1[a] = t /\ \A x \in DOMAIN h : h1[x] = h[x]
      /\ h1 \in [DOMAIN h1 -> Texts] /\ DOMAIN h1 \subseteq MemoryIds
  BY DEF Alloc, Holds
<1> HIDE DEF p, h1
<1>4. \A i \in 1..p.size : i \in 1..v.size \/ i = v.size + 1
  BY <1>1, <1>2
<1>5. \A i \in 1..v.size : i \in 1..p.size
  BY <1>1, <1>2
<1>6. v.size + 1 \in 1..p.size
  BY <1>1, <1>2
<1>7. Cells(p) = Cells(v) \cup {a}
  BY <1>1, <1>4, <1>5, <1>6 DEF Cells
<1>8. Distinct(p)
  <2> SUFFICES ASSUME NEW i \in 1..p.size, NEW j \in 1..p.size, p.container[i] = p.container[j]
               PROVE  i = j
    BY DEF Distinct
  <2>1. CASE i \in 1..v.size /\ j \in 1..v.size
    BY <2>1, <1>1 DEF Holds, Distinct
  <2>2. CASE i = v.size + 1 /\ j \in 1..v.size
    BY <2>2, <1>1, <1>2
  <2>3. CASE i \in 1..v.size /\ j = v.size + 1
    BY <2>3, <1>1, <1>2
  <2> QED
    BY <2>1, <2>2, <2>3, <1>4
<1>9. Holds(p, h1)
  BY <1>1, <1>3, <1>7, <1>8 DEF Holds
<1> QED
  BY <1>1, <1>3, <1>7, <1>9 DEF p, h1

\* A push appends to the list.
LEMMA PushList ==
    ASSUME NEW v, NEW h, Holds(v, h), v.capacity > 0,
           NEW a \in MemoryIds, a \notin DOMAIN h, NEW t \in Texts
    PROVE  ListOf(PushCell(v, a), Alloc(h, a, t)) = Append(ListOf(v, h), t)
<1> DEFINE p == PushCell(v, a)
           h1 == Alloc(h, a, t)
<1>1. /\ IsVector(p, Addresses) /\ p.capacity > 0 /\ p.size = v.size + 1
      /\ p.container[v.size + 1] = a
      /\ \A i \in 1..v.size : p.container[i] = v.container[i]
  BY PushCellVector DEF Holds, Addresses
<1>2. v.size \in Nat /\ \A i \in 1..v.size : v.container[i] \in DOMAIN h
  BY ListIsSeq
<1>3. /\ DOMAIN h1 = DOMAIN h \cup {a} /\ h1[a] = t /\ \A x \in DOMAIN h : h1[x] = h[x]
      /\ h1 \in [DOMAIN h1 -> Texts] /\ DOMAIN h1 \subseteq MemoryIds
  BY DEF Alloc, Holds
<1>4. Holds(p, h1)
  BY PushHolds, Zenon
<1> HIDE DEF p, h1
<1>5. \A i \in 1..p.size : i \in 1..v.size \/ i = v.size + 1
  BY <1>1, <1>2
<1> DEFINE l == ListOf(v, h)
           l1 == ListOf(p, h1)
<1>6. /\ l \in Seq(Texts) /\ Len(l) = v.size /\ \A i \in 1..v.size : l[i] = h[v.container[i]]
      /\ l1 \in Seq(Texts) /\ Len(l1) = p.size /\ \A i \in 1..p.size : l1[i] = h1[p.container[i]]
  BY <1>4, ListIsSeq
<1> DEFINE k == Append(l, t)
<1> HIDE DEF l, l1
<1>7. /\ k \in Seq(Texts) /\ Len(k) = v.size + 1
      /\ k[v.size + 1] = t /\ \A i \in 1..v.size : k[i] = l[i]
  BY <1>6, AppendProperties
<1> HIDE DEF k
<1>8. \A i \in 1..p.size : l1[i] = k[i]
  <2> TAKE i \in 1..p.size
  <2>1. l1[i] = h1[p.container[i]]
    BY ONLY <1>6, i \in 1..p.size
  <2>2. CASE i \in 1..v.size
    <3>1. p.container[i] = v.container[i] /\ l[i] = h[v.container[i]] /\ k[i] = l[i]
      BY ONLY <2>2, <1>1, <1>6, <1>7
    <3>2. h1[v.container[i]] = h[v.container[i]]
      BY ONLY <2>2, <1>2, <1>3
    <3> QED
      BY ONLY <3>1, <3>2, <2>1
  <2>3. CASE i = v.size + 1
    <3>1. p.container[i] = a /\ k[i] = t
      BY ONLY <2>3, <1>1, <1>7
    <3> QED
      BY ONLY <3>1, <2>1, <1>3
  <2> QED
    BY ONLY <2>2, <2>3, <1>5, i \in 1..p.size
<1>9. l1 = k
  <2>1. Len(l1) = Len(k)
    BY ONLY <1>1, <1>6, <1>7
  <2>2. \A i \in 1..Len(l1) : l1[i] = k[i]
    BY ONLY <1>6, <1>8
  <2>3. l1 \in Seq(Texts) /\ k \in Seq(Texts)
    BY ONLY <1>6, <1>7
  <2> QED
    BY ONLY <2>1, <2>2, <2>3, SeqEqual
<1> QED
  BY <1>9 DEF l, l1, k, p, h1

\* A pop takes the last text off the list and frees its memory.
LEMMA PopList ==
    ASSUME NEW v, NEW h, Holds(v, h), v.size > 0
    PROVE  /\ Holds(PopCell(v), Free(h, {v.container[v.size]}))
           /\ PopCell(v).capacity = v.capacity /\ PopCell(v).size = v.size - 1
           /\ Cells(PopCell(v)) = Cells(v) \ {v.container[v.size]} /\ v.container[v.size] \in Cells(v)
           /\ DOMAIN Free(h, {v.container[v.size]}) = DOMAIN h \ {v.container[v.size]}
           /\ ListOf(v, h) # <<>>
           /\ ListOf(PopCell(v), Free(h, {v.container[v.size]}))
                = SubSeq(ListOf(v, h), 1, Len(ListOf(v, h)) - 1)
<1> DEFINE p == PopCell(v)
           h1 == Free(h, {v.container[v.size]})
<1> DEFINE n == v.size
           a == v.container[n]
<1>1. /\ IsVector(p, Addresses) /\ p.capacity = v.capacity /\ p.size = n - 1
      /\ \A i \in 1 .. (n - 1) : p.container[i] = v.container[i]
  <2>1. Nil \in Addresses /\ IsVector(v, Addresses)
    BY DEF Holds, Addresses
  <2> QED
    BY <2>1, PopVector
<1>2. n \in Nat \ {0} /\ \A i \in 1..n : v.container[i] \in DOMAIN h
  BY ListIsSeq
<1>3. \A i, j \in 1..n : v.container[i] = v.container[j] => i = j
  BY DEF Holds, Distinct
<1>4. /\ DOMAIN h1 = DOMAIN h \ {a} /\ \A x \in DOMAIN h1 : h1[x] = h[x]
      /\ h1 \in [DOMAIN h1 -> Texts] /\ DOMAIN h1 \subseteq MemoryIds
  BY DEF Free, Holds
<1> HIDE DEF p, h1
<1>5. Cells(v) = {v.container[i] : i \in 1..n}
  BY DEF Cells
<1>6. Cells(p) = {p.container[i] : i \in 1..p.size}
  BY DEF Cells
<1> HIDE DEF n
<1>7. \A i \in 1..n : i \in 1 .. (n - 1) \/ i = n
  BY <1>2
<1>8. \A i \in 1 .. (n - 1) : i \in 1..n /\ i # n
  BY <1>2
<1>9. n \in 1..n
  BY <1>2
<1>10. a \in Cells(v)
  BY <1>5, <1>9
<1>11. Cells(p) = Cells(v) \ {a}
  <2>1. \A i \in 1 .. (n - 1) : v.container[i] # a
    BY <1>3, <1>8, <1>9
  <2> QED
    BY <2>1, <1>1, <1>5, <1>6, <1>7, <1>8
<1>12. Distinct(p)
  BY <1>1, <1>3, <1>8 DEF Distinct
<1>13. Cells(v) \subseteq DOMAIN h
  BY DEF Holds
<1>14. Holds(p, h1)
  BY <1>1, <1>4, <1>11, <1>12, <1>13 DEF Holds
<1> DEFINE l == ListOf(v, h)
           l1 == ListOf(p, h1)
           m == n - 1
<1>15. /\ l \in Seq(Texts) /\ Len(l) = n /\ \A i \in 1..n : l[i] = h[v.container[i]]
       /\ l1 \in Seq(Texts) /\ Len(l1) = m /\ \A i \in 1..m : l1[i] = h1[p.container[i]]
  <2>1. l \in Seq(Texts) /\ Len(l) = n /\ \A i \in 1..n : l[i] = h[v.container[i]]
    BY ListIsSeq DEF n
  <2>2. /\ l1 \in Seq(Texts) /\ Len(l1) = p.size
        /\ \A i \in 1..p.size : l1[i] = h1[p.container[i]]
    BY <1>14, ListIsSeq
  <2> HIDE DEF l, l1
  <2> QED
    BY <2>1, <2>2, <1>1
<1> HIDE DEF l, l1
<1>16. m \in Nat /\ Len(l) - 1 = m /\ l # <<>>
  BY <1>2, <1>15
<1>17. \A i \in 1..m : l[i] \in Texts
  BY <1>8, <1>15, ElementOfSeq
<1>18. \A i \in 1..m : l1[i] = l[i]
  <2> TAKE i \in 1..m
  <2>1. p.container[i] = v.container[i] /\ v.container[i] \in DOMAIN h1
    BY <1>1, <1>2, <1>3, <1>4, <1>8, <1>9
  <2>2. h1[v.container[i]] = h[v.container[i]] /\ i \in 1..n
    BY <2>1, <1>4, <1>8
  <2> QED
    BY <2>1, <2>2, <1>15
<1> HIDE DEF m
<1>19. /\ SubSeq(l, 1, m) \in Seq(Texts)
       /\ Len(SubSeq(l, 1, m)) = IF 1 <= m THEN m - 1 + 1 ELSE 0
       /\ \A i \in 1 .. (m - 1 + 1) : SubSeq(l, 1, m)[i] = l[1 + i - 1]
  BY <1>16, <1>17, SubSeqProperties
<1>20. Len(SubSeq(l, 1, m)) = m /\ \A i \in 1..m : SubSeq(l, 1, m)[i] = l[i]
  BY <1>16, <1>19
<1>21. l1 = SubSeq(l, 1, m)
  BY <1>15, <1>18, <1>19, <1>20, SeqEqual
<1> QED
  BY <1>1, <1>4, <1>10, <1>11, <1>14, <1>16, <1>21, Zenon DEF n, l, l1, p, h1

\* A vector whose cells are those of x followed by those of y.
LEMMA JoinedCells ==
    ASSUME NEW x \in Seq(MemoryIds), NEW y \in Seq(MemoryIds),
           \A i, j \in 1..Len(x) : x[i] = x[j] => i = j,
           \A i, j \in 1..Len(y) : y[i] = y[j] => i = j,
           \A i \in 1..Len(x), j \in 1..Len(y) : x[i] # y[j],
           NEW v, IsVector(v, Addresses), v.size = Len(x) + Len(y),
           \A i \in 1..v.size : v.container[i] = (x \o y)[i]
    PROVE  /\ Distinct(v)
           /\ Cells(v) = {x[i] : i \in 1..Len(x)} \cup {y[i] : i \in 1..Len(y)}
<1> DEFINE m == Len(x)
           n == Len(y)
<1>1. m \in Nat /\ n \in Nat /\ v.size = m + n
  BY LenProperties
<1>2. \A i \in 1 .. (m + n) : (x \o y)[i] = IF i <= m THEN x[i] ELSE y[i - m]
  BY ConcatProperties
<1>3. \A i \in 1 .. (m + n) : \/ i \in 1..m /\ v.container[i] = x[i]
                              \/ i - m \in 1..n /\ ~(i <= m) /\ v.container[i] = y[i - m]
  BY <1>1, <1>2
<1>4. \A i \in 1..m : i \in 1 .. (m + n) /\ v.container[i] = x[i]
  BY <1>1, <1>2
<1>5. \A i \in 1..n : m + i \in 1 .. (m + n) /\ v.container[m + i] = y[i]
  <2> TAKE i \in 1..n
  <2>1. m + i \in 1 .. (m + n) /\ ~(m + i <= m) /\ (m + i) - m = i
    BY <1>1
  <2> QED
    BY <2>1, <1>1, <1>2
<1>6. Distinct(v)
  <2> SUFFICES ASSUME NEW i \in 1 .. (m + n), NEW j \in 1 .. (m + n), v.container[i] = v.container[j]
               PROVE  i = j
    BY <1>1 DEF Distinct
  <2>1. CASE i \in 1..m /\ j \in 1..m
    BY <2>1, <1>4
  <2>2. CASE i - m \in 1..n /\ v.container[i] = y[i - m] /\ j - m \in 1..n /\ v.container[j] = y[j - m]
    <3>1. i - m = j - m
      BY <2>2, Zenon
    <3> QED
      BY <3>1, <1>1
  <2> QED
    BY <2>1, <2>2, <1>3
<1>7. Cells(v) = {v.container[i] : i \in 1 .. (m + n)}
  BY <1>1 DEF Cells
<1> HIDE DEF m, n
<1>8. Cells(v) = {x[i] : i \in 1..m} \cup {y[i] : i \in 1..n}
  <2>1. Cells(v) \subseteq {x[i] : i \in 1..m} \cup {y[i] : i \in 1..n}
    BY <1>3, <1>7
  <2>2. \A i \in 1..m : x[i] \in Cells(v)
    BY <1>4, <1>7
  <2>3. \A i \in 1..n : y[i] \in Cells(v)
    BY <1>5, <1>7
  <2> QED
    BY <2>1, <2>2, <2>3
<1> QED
  BY <1>6, <1>8 DEF m, n

\* The addresses x have the texts k.
Reads(h, x, k) == Len(k) = Len(x) /\ \A i \in 1..Len(x) : h[x[i]] = k[i]

\* v has the cells x, then the cells y.
Joins(v, x, y) == v.size = Len(x) + Len(y) /\ \A i \in 1..v.size : v.container[i] = (x \o y)[i]

\* Its list is the one of x followed by the one of y.
LEMMA JoinedList ==
    ASSUME NEW x \in Seq(MemoryIds), NEW y \in Seq(MemoryIds),
           NEW v, NEW h, Holds(v, h), Joins(v, x, y),
           NEW k \in Seq(Texts), NEW l \in Seq(Texts), Reads(h, x, k), Reads(h, y, l)
    PROVE  ListOf(v, h) = k \o l
<1> DEFINE m == Len(x)
           n == Len(y)
           t == ListOf(v, h)
<1> USE DEF Joins, Reads
<1>1. m \in Nat /\ n \in Nat /\ v.size = m + n
  BY LenProperties
<1>2. \A i \in 1 .. (m + n) : (x \o y)[i] = IF i <= m THEN x[i] ELSE y[i - m]
  BY ConcatProperties
<1>3. /\ k \o l \in Seq(Texts) /\ Len(k \o l) = m + n
      /\ \A i \in 1 .. (m + n) : (k \o l)[i] = IF i <= m THEN k[i] ELSE l[i - m]
  <2>1. /\ k \o l \in Seq(Texts) /\ Len(k \o l) = Len(k) + Len(l)
        /\ \A i \in 1 .. (Len(k) + Len(l)) :
              (k \o l)[i] = IF i <= Len(k) THEN k[i] ELSE l[i - Len(k)]
    <3>1. k \in Seq(Texts) /\ l \in Seq(Texts)
      OBVIOUS
    <3> QED
      BY ONLY <3>1, ConcatProperties
  <2>2. Len(k) = m /\ Len(l) = n
    OBVIOUS
  <2> QED
    BY ONLY <2>1, <2>2
<1>4. t \in Seq(Texts) /\ Len(t) = m + n /\ \A i \in 1 .. (m + n) : t[i] = h[v.container[i]]
  <2>1. t \in Seq(Texts) /\ Len(t) = v.size /\ \A i \in 1..v.size : t[i] = h[v.container[i]]
    BY ListIsSeq
  <2> HIDE DEF t
  <2> QED
    BY <2>1, <1>1
<1> HIDE DEF t
<1>5. \A i \in 1 .. (m + n) : t[i] = (k \o l)[i]
  <2> TAKE i \in 1 .. (m + n)
  <2>1. v.container[i] = (x \o y)[i]
    BY <1>1
  <2>2. CASE i <= m
    <3>1. i \in 1..m
      BY <2>2, <1>1
    <3> QED
      BY <3>1, <2>1, <2>2, <1>2, <1>3, <1>4, SMTT(30), Z3T(30), Zenon
  <2>3. CASE ~(i <= m)
    <3>1. i - m \in 1..n
      BY <2>3, <1>1
    <3>2. t[i] = h[y[i - m]]
      BY <2>1, <2>3, <1>2, <1>4
    <3>3. h[y[i - m]] = l[i - m]
      BY <3>1
    <3>4. (k \o l)[i] = l[i - m]
      BY <2>3, <1>3
    <3> QED
      BY <3>2, <3>3, <3>4
  <2> QED
    BY <2>2, <2>3
<1>6. Len(t) = Len(k \o l) /\ \A i \in 1..Len(t) : t[i] = (k \o l)[i]
  BY <1>3, <1>4, <1>5
<1>7. t = k \o l
  BY <1>3, <1>4, <1>6, SeqEqual
<1> QED
  BY <1>7 DEF t

(***************************************************************************)
(* Two vectors that share a heap.                                          *)
(***************************************************************************)

\* Every string of the heap is in one of the two vectors, and in one cell of it.
Share(v, w, h) == /\ Holds(v, h) /\ Holds(w, h)
                  /\ Cells(v) \cap Cells(w) = {} /\ DOMAIN h = Cells(v) \cup Cells(w)

\* The invariant in those words.
Sound(o, r, c, h) == /\ Share(o, r, h) /\ o.capacity > 0
                     /\ IsVector(c, {Nil, 1}) /\ c.capacity > 0
                     /\ o.size + r.size <= MaxLen

LEMMA InvIsSound == VectorInv <=> Sound(out, ret, cmd, heap)
  BY DEF VectorInv, Sound, Share, Holds, Addresses, Live

LEMMA NewInvIsSound == VectorInv' <=> Sound(out', ret', cmd', heap')
  BY DEF VectorInv, Sound, Share, Holds, Addresses, Live

\* A push to one of them.
LEMMA PushShare ==
    ASSUME NEW v, NEW w, NEW h, Share(v, w, h), v.capacity > 0,
           NEW a \in MemoryIds, a \notin DOMAIN h, NEW t \in Texts,
           NEW p, p = PushCell(v, a), NEW h1, h1 = Alloc(h, a, t)
    PROVE  /\ Share(p, w, h1) /\ p.capacity > 0 /\ p.size = v.size + 1
           /\ ListOf(p, h1) = Append(ListOf(v, h), t) /\ ListOf(w, h1) = ListOf(w, h)
<1>1. Holds(v, h) /\ Holds(w, h) /\ Cells(v) \cap Cells(w) = {} /\ DOMAIN h = Cells(v) \cup Cells(w)
  BY DEF Share
<1>2. /\ Holds(p, h1) /\ p.capacity > 0 /\ p.size = v.size + 1
      /\ Cells(p) = Cells(v) \cup {a} /\ DOMAIN h1 = DOMAIN h \cup {a}
      /\ ListOf(p, h1) = Append(ListOf(v, h), t)
  <2>1. /\ Holds(v, h) /\ v.capacity > 0 /\ a \in MemoryIds /\ a \notin DOMAIN h /\ t \in Texts
        /\ p = PushCell(v, a) /\ h1 = Alloc(h, a, t)
    BY <1>1
  <2>2. /\ Holds(p, h1) /\ p.capacity > 0 /\ p.size = v.size + 1
        /\ Cells(p) = Cells(v) \cup {a} /\ DOMAIN h1 = DOMAIN h \cup {a}
    BY ONLY <2>1, PushHolds
  <2>3. ListOf(p, h1) = Append(ListOf(v, h), t)
    BY ONLY <2>1, PushList
  <2> QED
    BY ONLY <2>2, <2>3
<1>3. \A x \in DOMAIN h : h1[x] = h[x]
  BY DEF Alloc
<1>4. /\ \A x \in Cells(w) : x \in DOMAIN h1 /\ h1[x] = h[x]
      /\ DOMAIN h1 \subseteq MemoryIds /\ h1 \in [DOMAIN h1 -> Texts]
  <2>1. DOMAIN h1 \subseteq MemoryIds /\ h1 \in [DOMAIN h1 -> Texts]
    BY <1>2 DEF Holds
  <2>2. \A x \in Cells(w) : x \in DOMAIN h1 /\ h1[x] = h[x]
    BY ONLY <1>1, <1>2, <1>3
  <2> QED
    BY <2>1, <2>2
<1>5. Holds(w, h1) /\ ListOf(w, h1) = ListOf(w, h)
  BY <1>1, <1>4, ListKept
<1>6. Cells(p) \cap Cells(w) = {} /\ DOMAIN h1 = Cells(p) \cup Cells(w)
  BY <1>1, <1>2
<1> QED
  BY <1>2, <1>5, <1>6 DEF Share

LEMMA ShareCommutes ==
    ASSUME NEW v, NEW w, NEW h, Share(v, w, h)
    PROVE  Share(w, v, h)
  BY DEF Share

\* l1 is l without its last text.
IsFront(l1, l) == l # <<>> /\ l1 = SubSeq(l, 1, Len(l) - 1)

\* A pop from one of them.
LEMMA PopShare ==
    ASSUME NEW v, NEW w, NEW h, Share(v, w, h), v.size > 0,
           NEW p, p = PopCell(v), NEW h1, h1 = Free(h, {v.container[v.size]})
    PROVE  /\ Share(p, w, h1) /\ p.capacity = v.capacity /\ p.size = v.size - 1
           /\ IsFront(ListOf(p, h1), ListOf(v, h)) /\ ListOf(w, h1) = ListOf(w, h)
<1>1. Holds(v, h) /\ Holds(w, h) /\ Cells(v) \cap Cells(w) = {} /\ DOMAIN h = Cells(v) \cup Cells(w)
  BY DEF Share
<1> DEFINE a == v.container[v.size]
<1>2. /\ Holds(p, h1) /\ p.capacity = v.capacity /\ p.size = v.size - 1
      /\ Cells(p) = Cells(v) \ {a} /\ a \in Cells(v)
      /\ DOMAIN h1 = DOMAIN h \ {a}
      /\ ListOf(v, h) # <<>>
      /\ ListOf(p, h1) = SubSeq(ListOf(v, h), 1, Len(ListOf(v, h)) - 1)
  <2>1. Holds(v, h) /\ v.size > 0 /\ p = PopCell(v) /\ h1 = Free(h, {a})
    BY <1>1
  <2> QED
    BY ONLY Zenon, <2>1, PopList DEF a
<1>3. \A x \in DOMAIN h1 : h1[x] = h[x]
  BY DEF Free
<1> HIDE DEF a
<1>4. DOMAIN h1 \subseteq MemoryIds /\ h1 \in [DOMAIN h1 -> Texts]
  BY <1>2, Zenon DEF Holds
<1>5. \A x \in Cells(w) : x \in DOMAIN h1 /\ h1[x] = h[x]
  BY ONLY <1>1, <1>2, <1>3
<1>6. Holds(w, h1) /\ ListOf(w, h1) = ListOf(w, h)
  BY <1>1, <1>4, <1>5, ListKept, Zenon
<1>7. Cells(p) \cap Cells(w) = {} /\ DOMAIN h1 = Cells(p) \cup Cells(w)
  BY <1>1, <1>2, Zenon
<1> QED
  BY <1>2, <1>6, <1>7, Zenon DEF Share, IsFront

\* A vector without strings, open or freed.
IsEmptyVector(v) == IsVector(v, Addresses) /\ v.size = 0

LEMMA EmptyVectors ==
    /\ IsEmptyVector(Freed) /\ ~IsOpen(Freed)
    /\ IsEmptyVector(vector_str_init) /\ vector_str_init.capacity > 0
    /\ IsVector(vector_str_init, {Nil, 1})
<1>1. \A S : <<>> \in Seq(S) /\ Len(<<>>) = 0
  BY EmptySeq
<1>2. IsEmptyVector(Freed) /\ ~IsOpen(Freed)
  BY <1>1 DEF IsEmptyVector, Freed, IsVector, Vector, IsOpen
<1> DEFINE c == [i \in 1..VECTOR_DEF_CAPACITY |-> Nil]
<1>3. VECTOR_DEF_CAPACITY \in Nat /\ VECTOR_DEF_CAPACITY > 0
  BY DEF VECTOR_DEF_CAPACITY
<1>4. ASSUME NEW S, Nil \in S PROVE IsVector(vector_str_init, S)
  <2>1. c \in Seq(S) /\ Len(c) = VECTOR_DEF_CAPACITY
    BY <1>3, <1>4, IsASeq
  <2>2. vector_str_init = [size |-> 0, capacity |-> VECTOR_DEF_CAPACITY, container |-> c]
    BY DEF vector_str_init
  <2> HIDE DEF c
  <2> QED
    BY <2>1, <2>2, <1>3 DEF IsVector, Vector
<1>5. vector_str_init.size = 0 /\ vector_str_init.capacity > 0
  BY <1>3 DEF vector_str_init
<1> QED
  BY <1>2, <1>4, <1>5 DEF IsEmptyVector, Addresses

\* It stands for the empty list, whatever the heap.
LEMMA EmptyHolds ==
    ASSUME NEW e, IsEmptyVector(e), NEW h, DOMAIN h \subseteq MemoryIds, h \in [DOMAIN h -> Texts]
    PROVE  Holds(e, h) /\ Cells(e) = {} /\ ListOf(e, h) = <<>>
<1>1. IsVector(e, Addresses) /\ e.size = 0
  BY DEF IsEmptyVector
<1>2. 1 .. e.size = {}
  BY <1>1
<1>3. Cells(e) = {} /\ Distinct(e)
  BY <1>2 DEF Cells, Distinct
<1>4. Holds(e, h)
  BY <1>1, <1>3 DEF Holds
<1>5. ListOf(e, h) \in Seq(Texts) /\ Len(ListOf(e, h)) = 0
  BY <1>1, <1>4, ListIsSeq
<1>6. ListOf(e, h) = <<>>
  BY <1>5, EmptySeq, SeqEqual
<1> QED
  BY <1>3, <1>4, <1>6

\* vector_str_dest of one of them, which an empty vector takes the place of.
LEMMA DropShare ==
    ASSUME NEW v, NEW w, NEW h, Share(v, w, h), NEW e, IsEmptyVector(e),
           NEW h1, h1 = vector_str_dest(w, h)
    PROVE  Share(v, e, h1) /\ ListOf(v, h1) = ListOf(v, h) /\ ListOf(e, h1) = <<>>
<1>1. Holds(v, h) /\ Holds(w, h) /\ Cells(v) \cap Cells(w) = {} /\ DOMAIN h = Cells(v) \cup Cells(w)
  BY DEF Share
<1>2. DOMAIN h1 = DOMAIN h \ Cells(w) /\ \A x \in DOMAIN h1 : h1[x] = h[x]
  BY DEF vector_str_dest, Free
<1>3. DOMAIN h1 \subseteq MemoryIds /\ h1 \in [DOMAIN h1 -> Texts]
  BY <1>1 DEF vector_str_dest, Free, Holds
<1>4. DOMAIN h1 = Cells(v) /\ \A x \in Cells(v) : x \in DOMAIN h1 /\ h1[x] = h[x]
  BY ONLY <1>1, <1>2
<1>5. Holds(v, h1) /\ ListOf(v, h1) = ListOf(v, h)
  BY <1>1, <1>3, <1>4, ListKept
<1>6. Holds(e, h1) /\ Cells(e) = {} /\ ListOf(e, h1) = <<>>
  BY <1>3, EmptyHolds
<1> QED
  BY <1>4, <1>5, <1>6 DEF Share

\* The strings at the addresses as are copies of those of w; g is the heap
\* with the copies.
AreCopies(as, g, w, h) ==
    /\ as \in Seq(MemoryIds) /\ Len(as) = w.size
    /\ \A i, j \in 1..w.size : as[i] = as[j] => i = j
    /\ \A i \in 1..w.size : as[i] \notin DOMAIN h
    /\ DOMAIN g = DOMAIN h \cup {as[i] : i \in 1..w.size}
    /\ DOMAIN g \subseteq MemoryIds /\ g \in [DOMAIN g -> Texts]
    /\ \A x \in DOMAIN h : g[x] = h[x]
    /\ \A i \in 1..w.size : g[as[i]] = h[w.container[i]]

\* The copies that a merge makes of the strings of w.
LEMMA CopiedCells ==
    ASSUME NEW v, NEW w, NEW h, Share(v, w, h), Places(w.size, h) # {},
           NEW c, c = Copies(SubSeq(w.container, 1, w.size), h)
    PROVE  AreCopies(c.as, c.h, w, h)
<1> DEFINE n == w.size
           cells == SubSeq(w.container, 1, n)
           as == c.as
<1>1. /\ Holds(w, h) /\ IsVector(w, Addresses) /\ DOMAIN h \subseteq MemoryIds
      /\ h \in [DOMAIN h -> Texts]
  BY DEF Share, Holds
<1>2. n \in Nat /\ \A i \in 1..n : w.container[i] \in DOMAIN h
  BY <1>1, ListIsSeq
<1>3. cells \in Seq(Addresses) /\ Len(cells) = n /\ \A i \in 1..n : cells[i] = w.container[i]
  BY <1>1, FirstCells
<1> HIDE DEF cells, n
<1>4. cells \in Seq(DOMAIN h)
  <2>1. cells \in [1..n -> DOMAIN h]
    BY <1>2, <1>3, LenProperties
  <2> QED
    BY <2>1, <1>2, SeqDef
<1>5. /\ as \in Places(n, h)
      /\ DOMAIN c.h = DOMAIN h \cup {as[i] : i \in 1..n}
      /\ \A x \in DOMAIN h : c.h[x] = h[x]
      /\ \A i \in 1..n : c.h[as[i]] = h[cells[i]]
      /\ c.h \in [DOMAIN c.h -> Texts]
  <2>1. c = Copies(cells, h) /\ h \in [DOMAIN h -> Texts] /\ Places(Len(cells), h) # {}
    BY <1>1, <1>3 DEF cells, n
  <2> QED
    BY ONLY <2>1, <1>3, <1>4, CopiesOf
<1> HIDE DEF as
<1>6. as \in [1..n -> MemoryIds \ DOMAIN h] /\ \A i, j \in 1..n : as[i] = as[j] => i = j
  BY <1>5, Zenon DEF Places
<1>7. as \in Seq(MemoryIds) /\ Len(as) = n
  <2>1. as \in [1..n -> MemoryIds]
    BY <1>6, Zenon
  <2>2. as \in Seq(MemoryIds)
    BY <2>1, <1>2, SeqDef, Zenon
  <2>3. DOMAIN as = 1..n /\ DOMAIN as = 1..Len(as) /\ Len(as) \in Nat
    BY <2>1, <2>2, LenProperties, Zenon
  <2> HIDE DEF as
  <2>4. Len(as) = n
    BY ONLY <2>3, <1>2
  <2> QED
    BY <2>2, <2>4, Zenon
<1>8. DOMAIN c.h \subseteq MemoryIds
  <2>1. \A i \in 1..n : as[i] \in MemoryIds
    BY <1>6, Zenon
  <2> QED
    BY ONLY Zenon, <2>1, <1>1, <1>5
<1>9. \A i \in 1..n : c.h[as[i]] = h[w.container[i]]
  BY <1>3, <1>5, Zenon
<1>10. \A i \in 1..n : as[i] \notin DOMAIN h
  BY <1>6, Zenon
<1> QED
  BY <1>5, <1>6, <1>7, <1>8, <1>9, <1>10, Zenon DEF as, n, AreCopies

\* o is v with copies of the strings of w in front of its own or behind them;
\* w is destroyed, which leaves the heap h1.
Merged(v, w, h, o, h1) ==
    LET c == Copies(SubSeq(w.container, 1, w.size), h)
        s == SubSeq(v.container, 1, v.size)
    IN  \E j \in {Joined(v, w, c.as \o s, c.h), Joined(v, w, s \o c.as, c.h)} :
          o = j.v /\ h1 = vector_str_dest(w, j.h)

IsMerge(l, k1, k2) == l = k1 \o k2 \/ l = k2 \o k1

\* The two merges of w into v; an empty vector takes the place of w.
LEMMA MergeShare ==
    ASSUME NEW v, NEW w, NEW h, Share(v, w, h), w.size > 0, Places(w.size, h) # {},
           NEW e, IsEmptyVector(e), NEW o, NEW h1, Merged(v, w, h, o, h1)
    PROVE  /\ Share(o, e, h1) /\ o.capacity > 0 /\ o.size = v.size + w.size
           /\ IsMerge(ListOf(o, h1), ListOf(v, h), ListOf(w, h)) /\ ListOf(e, h1) = <<>>
<1> DEFINE c == Copies(SubSeq(w.container, 1, w.size), h)
<1>1. \E x, y, j : /\ \/ x = c.as /\ y = SubSeq(v.container, 1, v.size)
                      \/ x = SubSeq(v.container, 1, v.size) /\ y = c.as
                   /\ j = Joined(v, w, x \o y, c.h)
                   /\ o = j.v /\ h1 = vector_str_dest(w, j.h)
  <2> DEFINE d == SubSeq(v.container, 1, v.size)
  <2>1. \E j \in {Joined(v, w, c.as \o d, c.h), Joined(v, w, d \o c.as, c.h)} :
          o = j.v /\ h1 = vector_str_dest(w, j.h)
    BY Zenon DEF Merged
  <2>2. PICK j \in {Joined(v, w, c.as \o d, c.h), Joined(v, w, d \o c.as, c.h)} :
          o = j.v /\ h1 = vector_str_dest(w, j.h)
    BY <2>1, Zenon
  <2> HIDE DEF c, d
  <2>3. CASE j = Joined(v, w, c.as \o d, c.h)
    BY ONLY <2>2, <2>3, Zenon DEF d
  <2>4. CASE j = Joined(v, w, d \o c.as, c.h)
    BY ONLY <2>2, <2>4, Zenon DEF d
  <2> QED
    BY <2>2, <2>3, <2>4, Zenon
<1>2. PICK x, y, j : /\ \/ x = c.as /\ y = SubSeq(v.container, 1, v.size)
                        \/ x = SubSeq(v.container, 1, v.size) /\ y = c.as
                     /\ j = Joined(v, w, x \o y, c.h)
                     /\ o = j.v /\ h1 = vector_str_dest(w, j.h)
  BY <1>1
<1> DEFINE n == w.size
           m == v.size
           as == c.as
           g == c.h
           s == SubSeq(v.container, 1, m)
           k == ListOf(v, h)
           l == ListOf(w, h)
           r == j.v
<1>3. Holds(v, h) /\ Holds(w, h) /\ Cells(v) \cap Cells(w) = {} /\ DOMAIN h = Cells(v) \cup Cells(w)
  BY DEF Share
<1>4. AreCopies(as, g, w, h)
  BY CopiedCells
<1> HIDE DEF as, g, n, c
<1>5. as \in Seq(MemoryIds) /\ Len(as) = n
  BY <1>4, Zenon DEF AreCopies, n
<1>6. \A i, ii \in 1..n : as[i] = as[ii] => i = ii
  BY <1>4, Zenon DEF AreCopies, n
<1>7. \A i \in 1..n : as[i] \notin DOMAIN h
  BY <1>4, Zenon DEF AreCopies, n
<1>8. DOMAIN g = DOMAIN h \cup {as[i] : i \in 1..n}
  BY <1>4 DEF AreCopies, n
<1>9. DOMAIN g \subseteq MemoryIds /\ g \in [DOMAIN g -> Texts]
  BY <1>4, Zenon DEF AreCopies, n
<1>10. \A z \in DOMAIN h : g[z] = h[z]
  BY <1>4 DEF AreCopies, n
<1>11. \A i \in 1..n : g[as[i]] = h[w.container[i]]
  BY <1>4, Zenon DEF AreCopies, n
<1>12. /\ m \in Nat /\ k \in Seq(Texts) /\ Len(k) = m
       /\ \A i \in 1..m : k[i] = h[v.container[i]] /\ v.container[i] \in DOMAIN h
  BY <1>3, ListIsSeq
<1>13. /\ n \in Nat /\ l \in Seq(Texts) /\ Len(l) = n
       /\ \A i \in 1..n : l[i] = h[w.container[i]]
  BY <1>3, ListIsSeq DEF n
<1>14. /\ IsVector(v, Addresses) /\ Distinct(v) /\ IsVector(w, Addresses)
       /\ DOMAIN h \subseteq MemoryIds /\ Nil \in Addresses
  BY <1>3 DEF Holds, Addresses
<1>15. s \in Seq(Addresses) /\ Len(s) = m /\ \A i \in 1..m : s[i] = v.container[i]
  BY <1>14, FirstCells
<1>16. /\ \A i, ii \in 1..m : v.container[i] = v.container[ii] => i = ii
       /\ Cells(v) = {v.container[i] : i \in 1..m}
  BY <1>14 DEF Distinct, Cells
<1>17. \/ x = as /\ y = s
       \/ x = s /\ y = as
  BY <1>2 DEF as
<1>18. DOMAIN h1 = DOMAIN g \ Cells(w) /\ \A z \in DOMAIN h1 : h1[z] = g[z]
  <2>1. j.h = g
    BY <1>2 DEF Joined, g
  <2> QED
    BY <2>1, <1>2 DEF vector_str_dest, Free
<1>19. h1 \in [DOMAIN h1 -> Texts] /\ DOMAIN h1 \subseteq MemoryIds
  <2>1. h1 = [z \in DOMAIN g \ Cells(w) |-> g[z]]
    BY <1>2 DEF vector_str_dest, Free, Joined, g
  <2> QED
    BY <2>1, <1>9
<1> HIDE DEF m, s, k, l
<1>20. s \in Seq(MemoryIds)
  <2>1. s \in [1..m -> MemoryIds]
    <3>1. \A i \in 1..m : s[i] \in MemoryIds
      BY <1>12, <1>14, <1>15
    <3> QED
      BY <3>1, <1>15, LenProperties
  <2> QED
    BY <2>1, <1>12, SeqDef
<1>21. /\ x \in Seq(MemoryIds) /\ y \in Seq(MemoryIds)
       /\ Len(x) \in Nat /\ Len(y) \in Nat /\ Len(x) + Len(y) = m + n
  <2>1. CASE x = as /\ y = s
    <3>1. Len(x) = n /\ Len(y) = m /\ x \in Seq(MemoryIds) /\ y \in Seq(MemoryIds)
      BY <2>1, <1>15, <1>20, <1>5, Zenon
    <3> QED
      BY ONLY <3>1, <1>12, <1>13
  <2>2. CASE x = s /\ y = as
    BY ONLY Zenon, <2>2, <1>12, <1>13, <1>15, <1>20, <1>5
  <2> QED
    BY <2>1, <2>2, <1>17, Zenon
<1> DEFINE xy == x \o y
<1>22. xy \in Seq(Addresses) /\ Len(xy) = m + n
  <2>1. xy \in Seq(MemoryIds) /\ Len(xy) = Len(x) + Len(y)
    BY ONLY <1>21, ConcatProperties
  <2> HIDE DEF xy
  <2>2. xy \in [1..Len(xy) -> MemoryIds] /\ Len(xy) \in Nat
    BY <2>1, LenProperties
  <2>3. xy \in [1..Len(xy) -> Addresses]
    BY <2>2 DEF Addresses
  <2>4. xy \in Seq(Addresses)
    BY <2>2, <2>3, SeqDef
  <2> QED
    BY <2>1, <2>4, <1>21
<1>23. /\ IsVector(r, Addresses) /\ r.capacity > 0 /\ r.size = m + n
       /\ \A i \in 1 .. (m + n) : r.container[i] = xy[i]
  <2>1. j = Joined(v, w, xy, g) /\ v.size = m /\ w.size = n /\ n > 0
    BY <1>2 DEF m, n, g
  <2> HIDE DEF xy
  <2>2. Len(xy) = v.size + w.size /\ w.size > 0
    BY ONLY <1>22, <2>1
  <2>3. /\ IsVector(Joined(v, w, xy, g).v, Addresses)
        /\ Joined(v, w, xy, g).v.capacity > 0
        /\ Joined(v, w, xy, g).v.size = v.size + w.size
        /\ \A i \in 1..Len(xy) : Joined(v, w, xy, g).v.container[i] = xy[i]
    BY ONLY <1>14, <1>22, <2>2, JoinedVector
  <2> QED
    BY ONLY <1>22, <2>1, <2>3
<1> HIDE DEF r
<1>24. /\ \A i, ii \in 1..Len(x) : x[i] = x[ii] => i = ii
       /\ \A i, ii \in 1..Len(y) : y[i] = y[ii] => i = ii
       /\ \A i \in 1..Len(x), ii \in 1..Len(y) : x[i] # y[ii]
  <2>1. \A i, ii \in 1..m : s[i] = s[ii] => i = ii
    BY <1>15, <1>16, Zenon
  <2>2. \A i \in 1..m : s[i] \in DOMAIN h
    BY <1>12, <1>15, Zenon
  <2>3. CASE x = as /\ y = s
    BY ONLY ZenonT(40), <2>1, <2>2, <2>3, <1>15, <1>5, <1>6, <1>7
  <2>4. CASE x = s /\ y = as
    BY ONLY ZenonT(40), <2>1, <2>2, <2>4, <1>15, <1>5, <1>6, <1>7
  <2> QED
    BY <2>3, <2>4, <1>17, Zenon
<1>25. r.size = Len(x) + Len(y) /\ \A i \in 1..r.size : r.container[i] = (x \o y)[i]
  BY <1>21, <1>23
<1>26. /\ Distinct(r)
       /\ Cells(r) = {x[i] : i \in 1..Len(x)} \cup {y[i] : i \in 1..Len(y)}
  BY ONLY Zenon, <1>21, <1>23, <1>24, <1>25, JoinedCells
<1>27. Cells(r) = Cells(v) \cup {as[i] : i \in 1..n}
  <2>1. Cells(v) = {s[i] : i \in 1..m}
    BY <1>15, <1>16
  <2> QED
    BY ONLY Zenon, <2>1, <1>15, <1>17, <1>26, <1>5
<1>28. DOMAIN h1 = Cells(r)
  <2>1. {as[i] : i \in 1..n} \cap Cells(w) = {}
    BY <1>3, <1>7, Zenon
  <2> QED
    BY ONLY Zenon, <2>1, <1>3, <1>18, <1>27, <1>8
<1>29. Holds(r, h1)
  BY <1>19, <1>23, <1>26, <1>28 DEF Holds
<1>30. /\ \A i \in 1..m : h1[s[i]] = k[i]
       /\ \A i \in 1..n : h1[as[i]] = l[i]
  <2>1. \A i \in 1..m : s[i] \in DOMAIN h1 /\ s[i] \in DOMAIN h /\ h[s[i]] = k[i]
    <3> TAKE i \in 1..m
    <3>1. s[i] = v.container[i] /\ v.container[i] \in Cells(v)
      BY <1>15, <1>16
    <3> QED
      BY <3>1, <1>12, <1>27, <1>28, Zenon
  <2>2. \A i \in 1..n : as[i] \in DOMAIN h1 /\ g[as[i]] = l[i]
    BY <1>13, <1>27, <1>28, <1>11, Zenon
  <2> QED
    BY ONLY Zenon, <2>1, <2>2, <1>18, <1>10
<1>31. ListOf(r, h1) = l \o k \/ ListOf(r, h1) = k \o l
  <2>1. Joins(r, x, y)
    BY <1>25 DEF Joins
  <2>2. Reads(h1, s, k) /\ Reads(h1, as, l)
    BY <1>12, <1>13, <1>15, <1>30, <1>5, Zenon DEF Reads
  <2>3. k \in Seq(Texts) /\ l \in Seq(Texts) /\ x \in Seq(MemoryIds) /\ y \in Seq(MemoryIds)
    BY <1>12, <1>13, <1>21
  <2>4. CASE x = as /\ y = s
    <3>1. Reads(h1, x, l) /\ Reads(h1, y, k)
      BY <2>2, <2>4
    <3>2. ListOf(r, h1) = l \o k
      BY ONLY <2>1, <2>3, <3>1, <1>29, JoinedList
    <3> QED
      BY <3>2
  <2>5. CASE x = s /\ y = as
    <3>1. Reads(h1, x, k) /\ Reads(h1, y, l)
      BY <2>2, <2>5
    <3>2. ListOf(r, h1) = k \o l
      BY ONLY <2>1, <2>3, <3>1, <1>29, JoinedList
    <3> QED
      BY <3>2
  <2> QED
    BY <2>4, <2>5, <1>17, Zenon
<1>32. Holds(e, h1) /\ Cells(e) = {} /\ ListOf(e, h1) = <<>>
  BY <1>19, EmptyHolds
<1>33. Share(r, e, h1)
  BY <1>28, <1>29, <1>32 DEF Share
<1> QED
  BY <1>23, <1>31, <1>32, <1>33, <1>2, Zenon DEF r, m, n, k, l, IsMerge

(***************************************************************************)
(* The steps: each preserves the invariant and is a step of the lists of   *)
(* StringList, or none at all.                                             *)
(***************************************************************************)

Main == TextsOf(out)
Side == TextsOf(ret)
Open == IsOpen(ret)

\* The lists before and after a step.
LEMMA Lists ==
    /\ Main = ListOf(out, heap) /\ Side = ListOf(ret, heap)
    /\ Main' = ListOf(out', heap') /\ Side' = ListOf(ret', heap')
  BY DEF Main, Side, TextsOf, ListOf

LEMMA ListSteps ==
    /\ (\E t \in Texts : Main' = Append(Main, t)) /\ Side' = Side /\ Open' = Open => List!Next
    /\ (\E t \in Texts : Side' = Append(Side, t)) /\ Main' = Main /\ Open /\ Open' = Open => List!Next
    /\ Main # <<>> /\ Main' = SubSeq(Main, 1, Len(Main) - 1) /\ Side' = Side /\ Open' = Open => List!Next
    /\ Side # <<>> /\ Side' = SubSeq(Side, 1, Len(Side) - 1) /\ Main' = Main /\ Open' = Open => List!Next
    /\ ~Open /\ Open' /\ Side' = <<>> /\ Main' = Main => List!Next
    /\ Open /\ ~Open' /\ Side' = <<>> /\ (Main' = Side \o Main \/ Main' = Main \o Side) => List!Next
    /\ Open /\ ~Open' /\ Side' = <<>> /\ Main' = Main => List!Next
    /\ Main' = <<>> /\ Side' = Side /\ Open' = Open => List!Next
    /\ Main' = Main /\ Side' = Side /\ Open' = Open => UNCHANGED List!vars
<1>1. (\E t \in Texts : Main' = Append(Main, t)) /\ Side' = Side /\ Open' = Open => List!Next
  BY DEF Main, Side, Open, List!Next, List!Push
<1>2. (\E t \in Texts : Side' = Append(Side, t)) /\ Main' = Main /\ Open /\ Open' = Open => List!Next
  BY DEF Main, Side, Open, List!Next, List!Push
<1>3. Main # <<>> /\ Main' = SubSeq(Main, 1, Len(Main) - 1) /\ Side' = Side /\ Open' = Open => List!Next
  BY DEF Main, Side, Open, List!Next, List!Pop
<1>4. Side # <<>> /\ Side' = SubSeq(Side, 1, Len(Side) - 1) /\ Main' = Main /\ Open' = Open => List!Next
  BY DEF Main, Side, Open, List!Next, List!Pop
<1>5. ~Open /\ Open' /\ Side' = <<>> /\ Main' = Main => List!Next
  BY DEF Main, Side, Open, List!Next, List!Open
<1>6. Open /\ ~Open' /\ Side' = <<>> /\ (Main' = Side \o Main \/ Main' = Main \o Side) => List!Next
  BY DEF Main, Side, Open, List!Next, List!Merge
<1>7. Open /\ ~Open' /\ Side' = <<>> /\ Main' = Main => List!Next
  BY DEF Main, Side, Open, List!Next, List!Drop
<1>8. Main' = <<>> /\ Side' = Side /\ Open' = Open => List!Next
  BY DEF Main, Side, Open, List!Next, List!Reset
<1>9. Main' = Main /\ Side' = Side /\ Open' = Open => UNCHANGED List!vars
  BY DEF Main, Side, Open, List!vars
<1> QED
  BY <1>1, <1>2, <1>3, <1>4, <1>5, <1>6, <1>7, <1>8, <1>9

\* What a step has to show.
Good == VectorInv' /\ (List!Next \/ UNCHANGED List!vars)

LEMMA PushOutGood ==
    ASSUME EnoughMemory, VectorInv, PushOut
    PROVE  Good
<1>1. Sound(out, ret, cmd, heap)
  BY InvIsSound
<1>2. PICK t \in Texts : /\ out.size + ret.size < MaxLen
                         /\ out' = PushCell(out, Fresh) /\ heap' = Alloc(heap, Fresh, t)
                         /\ ret' = ret /\ cmd' = cmd
  BY DEF PushOut, vector_str_push
<1>3. Fresh \in MemoryIds /\ Fresh \notin DOMAIN heap
  BY <1>2, FreshIsFree DEF Live
<1>4. Share(out, ret, heap) /\ out.capacity > 0
  BY <1>1 DEF Sound
<1>5. /\ Share(out', ret, heap') /\ out'.capacity > 0 /\ out'.size = out.size + 1
      /\ ListOf(out', heap') = Append(ListOf(out, heap), t)
      /\ ListOf(ret, heap') = ListOf(ret, heap)
  BY ONLY <1>2, <1>3, <1>4, PushShare
<1>6. out.size \in Nat /\ ret.size \in Nat /\ MaxLen \in Nat
  BY <1>4, ListIsSeq DEF Share, EnoughMemory
<1>7. Sound(out', ret', cmd', heap')
  BY <1>1, <1>2, <1>5, <1>6 DEF Sound
<1>8. Main' = Append(Main, t) /\ Side' = Side /\ Open' = Open
  BY <1>2, <1>5, Lists DEF Open, IsOpen
<1> QED
  BY <1>7, <1>8, NewInvIsSound, ListSteps DEF Good

LEMMA PushRetGood ==
    ASSUME EnoughMemory, VectorInv, PushRet
    PROVE  Good
<1>1. Sound(out, ret, cmd, heap)
  BY InvIsSound
<1>2. PICK t \in Texts : /\ out.size + ret.size < MaxLen /\ IsOpen(ret)
                         /\ ret' = PushCell(ret, Fresh) /\ heap' = Alloc(heap, Fresh, t)
                         /\ out' = out /\ cmd' = cmd
  BY DEF PushRet, vector_str_push
<1>3. Fresh \in MemoryIds /\ Fresh \notin DOMAIN heap
  BY <1>2, FreshIsFree DEF Live
<1>4. Share(ret, out, heap) /\ ret.capacity > 0
  BY <1>1, <1>2, ShareCommutes DEF Sound, IsOpen
<1>5. /\ Share(ret', out, heap') /\ ret'.capacity > 0 /\ ret'.size = ret.size + 1
      /\ ListOf(ret', heap') = Append(ListOf(ret, heap), t)
      /\ ListOf(out, heap') = ListOf(out, heap)
  BY ONLY <1>2, <1>3, <1>4, PushShare
<1>6. out.size \in Nat /\ ret.size \in Nat /\ MaxLen \in Nat
  BY <1>4, ListIsSeq DEF Share, EnoughMemory
<1>7. Sound(out', ret', cmd', heap')
  BY <1>1, <1>2, <1>5, <1>6, ShareCommutes DEF Sound
<1>8. Side' = Append(Side, t) /\ Main' = Main /\ Open /\ Open' = Open
  BY <1>2, <1>5, Lists DEF Open, IsOpen
<1> QED
  BY <1>7, <1>8, NewInvIsSound, ListSteps DEF Good

\* A pop from an empty vector changes nothing.
LEMMA PopOutGood ==
    ASSUME EnoughMemory, VectorInv, PopOut
    PROVE  Good
<1>1. Sound(out, ret, cmd, heap)
  BY InvIsSound
<1>2. CASE out.size = 0
  <2>1. UNCHANGED vars
    BY <1>2 DEF PopOut, vector_str_pop, vars
  <2>2. Main' = Main /\ Side' = Side /\ Open' = Open
    BY <2>1, Lists DEF vars, Open
  <2>3. Sound(out', ret', cmd', heap')
    BY <2>1, <1>1 DEF vars
  <2> QED
    BY <2>2, <2>3, NewInvIsSound, ListSteps DEF Good
<1>3. CASE out.size # 0
  <2>1. /\ out' = PopCell(out) /\ heap' = Free(heap, {out.container[out.size]})
        /\ ret' = ret /\ cmd' = cmd
    BY <1>3 DEF PopOut, vector_str_pop
  <2>2. Share(out, ret, heap) /\ out.capacity > 0
    BY <1>1 DEF Sound
  <2>3. out.size \in Nat /\ ret.size \in Nat /\ MaxLen \in Nat
    BY <2>2, ListIsSeq DEF Share, EnoughMemory
  <2>4. out.size > 0
    BY <1>3, <2>3
  <2>5. /\ Share(out', ret, heap') /\ out'.capacity = out.capacity /\ out'.size = out.size - 1
        /\ IsFront(ListOf(out', heap'), ListOf(out, heap))
        /\ ListOf(ret, heap') = ListOf(ret, heap)
    BY ONLY <2>1, <2>2, <2>4, PopShare
  <2>6. Sound(out', ret', cmd', heap')
    BY <1>1, <2>1, <2>3, <2>5 DEF Sound
  <2>7. Main # <<>> /\ Main' = SubSeq(Main, 1, Len(Main) - 1) /\ Side' = Side /\ Open' = Open
    <3>1. Main = ListOf(out, heap) /\ Main' = ListOf(out', heap')
      BY Lists
    <3>2. Main # <<>> /\ Main' = SubSeq(Main, 1, Len(Main) - 1)
      BY ONLY <3>1, <2>5 DEF IsFront
    <3>3. Side' = Side
      BY <2>1, <2>5, Lists
    <3>4. Open' = Open
      BY <2>1, <2>5 DEF Open, IsOpen
    <3> QED
      BY <3>2, <3>3, <3>4
  <2> QED
    BY <2>6, <2>7, NewInvIsSound, ListSteps DEF Good
<1> QED
  BY <1>2, <1>3

LEMMA PopRetGood ==
    ASSUME EnoughMemory, VectorInv, PopRet
    PROVE  Good
<1>1. Sound(out, ret, cmd, heap)
  BY InvIsSound
<1>2. CASE ret.size = 0
  <2>1. UNCHANGED vars
    BY <1>2 DEF PopRet, vector_str_pop, vars
  <2>2. Main' = Main /\ Side' = Side /\ Open' = Open
    BY <2>1, Lists DEF vars, Open
  <2>3. Sound(out', ret', cmd', heap')
    BY <2>1, <1>1 DEF vars
  <2> QED
    BY <2>2, <2>3, NewInvIsSound, ListSteps DEF Good
<1>3. CASE ret.size # 0
  <2>1. /\ ret' = PopCell(ret) /\ heap' = Free(heap, {ret.container[ret.size]})
        /\ out' = out /\ cmd' = cmd
    BY <1>3 DEF PopRet, vector_str_pop
  <2>2. Share(ret, out, heap)
    BY <1>1, ShareCommutes DEF Sound
  <2>3. out.size \in Nat /\ ret.size \in Nat /\ MaxLen \in Nat
    BY <2>2, ListIsSeq DEF Share, EnoughMemory
  <2>4. ret.size > 0
    BY <1>3, <2>3
  <2>5. /\ Share(ret', out, heap') /\ ret'.capacity = ret.capacity /\ ret'.size = ret.size - 1
        /\ IsFront(ListOf(ret', heap'), ListOf(ret, heap))
        /\ ListOf(out, heap') = ListOf(out, heap)
    BY ONLY <2>1, <2>2, <2>4, PopShare
  <2>6. Sound(out', ret', cmd', heap')
    BY <1>1, <2>1, <2>3, <2>5, ShareCommutes DEF Sound
  <2>7. Side # <<>> /\ Side' = SubSeq(Side, 1, Len(Side) - 1) /\ Main' = Main /\ Open' = Open
    <3>1. Side = ListOf(ret, heap) /\ Side' = ListOf(ret', heap')
      BY Lists
    <3>2. Side # <<>> /\ Side' = SubSeq(Side, 1, Len(Side) - 1)
      BY ONLY <3>1, <2>5 DEF IsFront
    <3>3. Main' = Main
      BY <2>1, <2>5, Lists
    <3>4. Open' = Open
      BY <2>1, <2>5 DEF Open, IsOpen
    <3> QED
      BY <3>2, <3>3, <3>4
  <2> QED
    BY <2>6, <2>7, NewInvIsSound, ListSteps DEF Good
<1> QED
  BY <1>2, <1>3

\* A vector without strings can take the place of another one without strings.
LEMMA InitRetGood ==
    ASSUME EnoughMemory, VectorInv, InitRet
    PROVE  Good
<1>1. Sound(out, ret, cmd, heap)
  BY InvIsSound
<1>2. ~IsOpen(ret) /\ ret' = vector_str_init /\ out' = out /\ cmd' = cmd /\ heap' = heap
  BY DEF InitRet
<1>3. /\ Share(out, ret, heap) /\ IsVector(ret, Addresses)
      /\ DOMAIN heap \subseteq MemoryIds /\ heap \in [DOMAIN heap -> Texts]
  BY <1>1 DEF Sound, Share, Holds
<1>4. ret.size = 0
  BY <1>2, <1>3 DEF IsOpen, IsVector, Vector
<1>5. IsEmptyVector(ret) /\ IsEmptyVector(ret') /\ ret'.capacity > 0 /\ ret'.size = 0
  BY <1>2, <1>3, <1>4, EmptyVectors DEF IsEmptyVector
<1>6. /\ Holds(ret', heap) /\ Cells(ret') = {} /\ ListOf(ret', heap) = <<>>
      /\ Cells(ret) = {}
  BY <1>3, <1>5, EmptyHolds
<1>7. Share(out, ret', heap)
  BY <1>3, <1>6 DEF Share
<1>8. Sound(out', ret', cmd', heap')
  BY <1>1, <1>2, <1>4, <1>5, <1>7 DEF Sound
<1>9. ~Open /\ Open' /\ Side' = <<>> /\ Main' = Main
  <2>1. ~Open /\ Open'
    BY <1>2, <1>5 DEF Open, IsOpen
  <2>2. Side' = <<>> /\ Main' = Main
    BY <1>2, <1>6, Lists
  <2> QED
    BY <2>1, <2>2
<1> QED
  BY <1>8, <1>9, NewInvIsSound, ListSteps DEF Good

\* Both merges: the copies get addresses of their own, the originals are freed.
LEMMA MergeRetGood ==
    ASSUME EnoughMemory, VectorInv, MergeRet
    PROVE  Good
<1>1. Sound(out, ret, cmd, heap)
  BY InvIsSound
<1>2. IsOpen(ret) /\ ret.size > 0 /\ ret' = Freed /\ cmd' = cmd
  BY DEF MergeRet
<1>3. Merged(out, ret, heap, out', heap')
  BY DEF MergeRet, Merged, vector_str_push_vector_head, vector_str_push_vector
<1>4. Share(out, ret, heap)
  BY <1>1 DEF Sound
<1>5. /\ out.size \in Nat /\ ret.size \in Nat /\ MaxLen \in Nat
      /\ out.size + ret.size <= MaxLen
  BY <1>1, <1>4, ListIsSeq DEF Share, EnoughMemory, Sound
<1>6. Places(ret.size, heap) # {}
  <2>1. ret.size <= MaxLen
    BY <1>5
  <2> QED
    BY <2>1, <1>5, PlacesExist
<1>7. IsEmptyVector(Freed) /\ ~IsOpen(Freed)
  BY EmptyVectors
<1>8. /\ Share(out', Freed, heap') /\ out'.capacity > 0 /\ out'.size = out.size + ret.size
      /\ IsMerge(ListOf(out', heap'), ListOf(out, heap), ListOf(ret, heap))
      /\ ListOf(Freed, heap') = <<>>
  BY ONLY <1>2, <1>3, <1>4, <1>6, <1>7, MergeShare
<1>9. ret'.size = 0
  BY <1>2 DEF Freed
<1>10. Sound(out', ret', cmd', heap')
  BY <1>1, <1>2, <1>5, <1>8, <1>9 DEF Sound
<1>11. Open /\ ~Open' /\ Side' = <<>>
  <2>1. Open /\ ~Open'
    BY <1>2, <1>7 DEF Open
  <2> QED
    BY <2>1, <1>2, <1>8, Lists
<1>12. Main' = Side \o Main \/ Main' = Main \o Side
  <2>1. /\ Main = ListOf(out, heap) /\ Side = ListOf(ret, heap)
        /\ Main' = ListOf(out', heap')
    BY Lists
  <2> QED
    BY ONLY <2>1, <1>8 DEF IsMerge
<1> QED
  BY <1>10, <1>11, <1>12, NewInvIsSound, ListSteps DEF Good

LEMMA DropRetGood ==
    ASSUME EnoughMemory, VectorInv, DropRet
    PROVE  Good
<1>1. Sound(out, ret, cmd, heap)
  BY InvIsSound
<1>2. /\ IsOpen(ret) /\ ret' = Freed /\ out' = out /\ cmd' = cmd
      /\ heap' = vector_str_dest(ret, heap)
  BY DEF DropRet
<1>3. Share(out, ret, heap)
  BY <1>1 DEF Sound
<1>4. IsEmptyVector(Freed) /\ ~IsOpen(Freed)
  BY EmptyVectors
<1>5. /\ Share(out, Freed, heap') /\ ListOf(out, heap') = ListOf(out, heap)
      /\ ListOf(Freed, heap') = <<>>
  BY ONLY <1>2, <1>3, <1>4, DropShare
<1>6. ret'.size = 0 /\ out.size \in Nat /\ ret.size \in Nat /\ MaxLen \in Nat
  BY <1>2, <1>3, ListIsSeq DEF Freed, Share, EnoughMemory
<1>7. Sound(out', ret', cmd', heap')
  BY <1>1, <1>2, <1>5, <1>6 DEF Sound
<1>8. Open /\ ~Open' /\ Side' = <<>> /\ Main' = Main
  <2>1. Open /\ ~Open'
    BY <1>2, <1>4 DEF Open
  <2> QED
    BY <2>1, <1>2, <1>5, Lists
<1> QED
  BY <1>7, <1>8, NewInvIsSound, ListSteps DEF Good

\* The vectors of commands and qualifiers do not touch the strings.
LEMMA CmdGood ==
    ASSUME EnoughMemory, VectorInv, PushCmd \/ PopCmd
    PROVE  Good
<1>1. Sound(out, ret, cmd, heap)
  BY InvIsSound
<1>2. IsVector(cmd, {Nil, 1}) /\ cmd.capacity > 0
  BY <1>1 DEF Sound
<1>3. out' = out /\ ret' = ret /\ heap' = heap
  BY DEF PushCmd, PopCmd
<1>4. IsVector(cmd', {Nil, 1}) /\ cmd'.capacity > 0
  <2>1. CASE PushCmd
    <3>1. cmd' = PushCell(cmd, 1)
      BY <2>1 DEF PushCmd, vector_read_cmd_push, vector_type_qualifier_push
    <3> QED
      BY <3>1, <1>2, PushCellVector
  <2>2. CASE PopCmd
    <3>1. cmd.size > 0 /\ cmd' = PopCell(cmd)
      BY <2>2 DEF PopCmd, vector_read_cmd_pop
    <3>2. /\ IsVector(PopCell(cmd), {Nil, 1})
          /\ PopCell(cmd).capacity = cmd.capacity
      BY <3>1, <1>2, PopVector
    <3> QED
      BY <3>1, <3>2, <1>2
  <2> QED
    BY <2>1, <2>2
<1>5. Sound(out', ret', cmd', heap')
  BY <1>1, <1>3, <1>4 DEF Sound
<1>6. Main' = Main /\ Side' = Side /\ Open' = Open
  BY <1>3, Lists DEF Open
<1> QED
  BY <1>5, <1>6, NewInvIsSound, ListSteps DEF Good

LEMMA DestGood ==
    ASSUME EnoughMemory, VectorInv, cpp_demangle_data_dest
    PROVE  Good
<1>1. Sound(out, ret, cmd, heap)
  BY InvIsSound
<1>2. /\ ~IsOpen(ret) /\ ret' = ret /\ out' = vector_str_init /\ cmd' = vector_str_init
      /\ heap' = vector_str_dest(out, heap)
  BY DEF cpp_demangle_data_dest
<1>3. Share(ret, out, heap)
  BY <1>1, ShareCommutes DEF Sound
<1>4. /\ IsEmptyVector(vector_str_init) /\ vector_str_init.capacity > 0
      /\ IsVector(vector_str_init, {Nil, 1})
  BY EmptyVectors
<1>5. /\ Share(ret, vector_str_init, heap') /\ ListOf(ret, heap') = ListOf(ret, heap)
      /\ ListOf(vector_str_init, heap') = <<>>
  BY ONLY <1>2, <1>3, <1>4, DropShare
<1>6. /\ out'.size = 0 /\ out.size \in Nat /\ ret.size \in Nat /\ MaxLen \in Nat
  BY <1>2, <1>3, <1>4, ListIsSeq DEF IsEmptyVector, Share, EnoughMemory
<1>7. Sound(out', ret', cmd', heap')
  BY <1>1, <1>2, <1>4, <1>5, <1>6, ShareCommutes DEF Sound
<1>8. Main' = <<>> /\ Side' = Side /\ Open' = Open
  BY <1>2, <1>5, Lists DEF Open
<1> QED
  BY <1>7, <1>8, NewInvIsSound, ListSteps DEF Good

LEMMA NextGood ==
    ASSUME EnoughMemory, VectorInv, [Next]_vars
    PROVE  Good
<1>1. CASE UNCHANGED vars
  <2>1. Sound(out, ret, cmd, heap)
    BY InvIsSound
  <2>2. Sound(out', ret', cmd', heap')
    BY <2>1, <1>1 DEF vars
  <2>3. Main' = Main /\ Side' = Side /\ Open' = Open
    BY <1>1, Lists DEF vars, Open
  <2> QED
    BY <2>2, <2>3, NewInvIsSound, ListSteps DEF Good
<1> QED
  BY <1>1, PushOutGood, PushRetGood, PopOutGood, PopRetGood, InitRetGood, MergeRetGood,
     DropRetGood, CmdGood, DestGood DEF Next

LEMMA InitGood ==
    ASSUME EnoughMemory, Init
    PROVE  VectorInv /\ List!Init
<1>1. out = vector_str_init /\ ret = Freed /\ cmd = vector_str_init /\ heap = <<>>
  BY DEF Init
<1>2. DOMAIN heap = {} /\ heap \in [DOMAIN heap -> Texts]
  <2>1. heap \in Seq(Texts) /\ Len(heap) = 0
    BY <1>1, EmptySeq
  <2>2. heap \in [1..Len(heap) -> Texts] /\ 1..Len(heap) = {}
    BY <2>1, LenProperties
  <2> QED
    BY <2>2
<1>3. /\ IsEmptyVector(out) /\ out.capacity > 0 /\ IsEmptyVector(ret) /\ ~IsOpen(ret)
      /\ IsVector(cmd, {Nil, 1}) /\ cmd.capacity > 0
  BY <1>1, EmptyVectors
<1>4. /\ Holds(out, heap) /\ Cells(out) = {} /\ ListOf(out, heap) = <<>>
      /\ Holds(ret, heap) /\ Cells(ret) = {} /\ ListOf(ret, heap) = <<>>
  BY <1>2, <1>3, EmptyHolds, Zenon
<1>5. out.size = 0 /\ ret.size = 0 /\ MaxLen \in Nat
  BY <1>3 DEF IsEmptyVector, EnoughMemory
<1>6. Sound(out, ret, cmd, heap)
  BY <1>2, <1>3, <1>4, <1>5 DEF Sound, Share
<1>7. TextsOf(out) = <<>> /\ TextsOf(ret) = <<>> /\ IsOpen(ret) = FALSE
  <2>1. TextsOf(out) = ListOf(out, heap) /\ TextsOf(ret) = ListOf(ret, heap)
    BY DEF TextsOf, ListOf
  <2>2. IsOpen(ret) \in BOOLEAN
    BY DEF IsOpen
  <2> QED
    BY <2>1, <2>2, <1>3, <1>4
<1> QED
  BY <1>6, <1>7, InvIsSound DEF List!Init

(***************************************************************************)
(* The theorems.                                                           *)
(***************************************************************************)

\* The invariant, and with it what the runs check.
LEMMA InvIsEnough ==
    ASSUME VectorInv
    PROVE  VectorsSound
<1>1. OneOwner
  BY LiveCount DEF OneOwner, VectorInv
<1>2. ASSUME NEW v, NEW S, IsVector(v, S)
      PROVE  /\ v.size <= v.capacity /\ DOMAIN v.container = 1..v.capacity
             /\ IsOpen(v) => BUFFER_GROW(v.capacity) > v.capacity
  <2>1. /\ v.capacity \in Nat /\ v.size <= v.capacity
        /\ v.container \in Seq(S) /\ Len(v.container) = v.capacity
    BY <1>2 DEF IsVector, Vector
  <2>2. DOMAIN v.container = 1..v.capacity
    BY <2>1, LenProperties
  <2>3. ASSUME IsOpen(v) PROVE BUFFER_GROW(v.capacity) > v.capacity
    BY <2>1, <2>3, Grows DEF IsOpen
  <2> QED
    BY <2>1, <2>2, <2>3
<1>3. InCapacity
  BY <1>2, Zenon DEF InCapacity, VectorInv
<1> QED
  BY <1>1, <1>3 DEF VectorsSound

LEMMA VectorInvariant == EnoughMemory => (Spec => []VectorInv)
<1> SUFFICES ASSUME EnoughMemory PROVE Spec => []VectorInv
  OBVIOUS
<1>1. Init => VectorInv
  BY InitGood
<1>2. VectorInv /\ [Next]_vars => VectorInv'
  BY NextGood DEF Good
<1> QED
  BY <1>1, <1>2, PTL DEF Spec

\* Whatever the demangler pushes, pops, merges and destroys, and however large
\* its vectors get (vector_str_push, vector_str_pop, vector_str_grow,
\* vector_str_push_vector, vector_str_push_vector_head, vector_str_dest): no
\* vector outgrows its container, grow() always makes room, and every
\* allocated string is in one cell of one vector, so that none is lost and
\* none is freed twice.  malloc() is assumed to succeed (EnoughMemory).
THEOREM VectorsStaySound == EnoughMemory => (Spec => []VectorsSound)
<1> SUFFICES ASSUME EnoughMemory PROVE Spec => []VectorsSound
  OBVIOUS
<1>1. VectorInv => VectorsSound
  BY InvIsEnough
<1>2. Spec => []VectorInv
  BY VectorInvariant
<1> QED
  BY <1>1, <1>2, PTL

\* The vectors implement the lists of StringList: a push appends one text, a
\* pop takes the last one, a merge puts the return type's texts in front of
\* the name's or a local name's behind them, and what is done to one vector
\* changes nothing in the other one.  A pop from an empty vector and what is
\* done to the vector of commands are steps that the lists do not see.
THEOREM VectorsAreLists == EnoughMemory => (Spec => AreLists)
<1> SUFFICES ASSUME EnoughMemory PROVE Spec => AreLists
  OBVIOUS
<1>1. Init => List!Init
  BY InitGood
<1>2. VectorInv /\ [Next]_vars => [List!Next]_(List!vars)
  BY NextGood DEF Good
<1>3. Spec => []VectorInv
  BY VectorInvariant
<1> QED
  BY <1>1, <1>2, <1>3, PTL DEF Spec, AreLists, List!Spec
=============================================================================
