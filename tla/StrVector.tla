----------------------------- MODULE StrVector ------------------------------
(* The growing vectors of the demangler (libelftc_dem_gnu3.c): a container *)
(* with a capacity, whose cells point to allocated copies of the texts.    *)
(* MemoryIds are the addresses malloc() returns; Freed marks a vector      *)
(* whose container was freed.  The vectors of qualifiers and of commands   *)
(* (cmd) hold values instead of copies and grow in the same way.           *)
EXTENDS Naturals, Sequences, FiniteSets

CONSTANTS Texts, MemoryIds,
          MaxLen   \* strings in the vectors, and commands: bound
VECTOR_DEF_CAPACITY == 2   \* 8 in the code: smaller, so that vectors grow
Nil == 0

VARIABLES out,    \* ddata.output
          ret,    \* the vector of the return type or of a local name
          cmd,    \* ddata.cmd
          heap    \* address -> text, for the allocated strings
vars == <<out, ret, cmd, heap>>

Freed == [size |-> 0, capacity |-> 0, container |-> <<>>]
IsOpen(v) == v.capacity > 0
Live == DOMAIN heap
Fresh == CHOOSE a \in MemoryIds : a \notin Live
Alloc(h, a, t) == [x \in DOMAIN h \cup {a} |-> IF x = a THEN t ELSE h[x]]
Free(h, as) == [x \in DOMAIN h \ as |-> h[x]]
Cells(v) == {v.container[i] : i \in 1..v.size}

(* BUFFER_GROW(x) is (x + 0.5) * 1.618, truncated.                         *)
BUFFER_GROW(x) == ((2 * x + 1) * 809) \div 1000

vector_str_init == [size |-> 0, capacity |-> VECTOR_DEF_CAPACITY,
                    container |-> [i \in 1..VECTOR_DEF_CAPACITY |-> Nil]]

(* The cells of a container of n cells that starts with s.                 *)
Container(s, n) == [i \in 1..n |-> IF i <= Len(s) THEN s[i] ELSE Nil]

vector_str_grow(v) ==
  [v EXCEPT !.capacity = BUFFER_GROW(@),
            !.container = Container(SubSeq(@, 1, v.size), BUFFER_GROW(v.capacity))]

Room(v) == IF v.size = v.capacity THEN vector_str_grow(v) ELSE v
PushCell(v, cell) ==
  LET r == Room(v) IN [r EXCEPT !.container[v.size + 1] = cell, !.size = @ + 1]

PopCell(v) == [v EXCEPT !.size = @ - 1, !.container[v.size] = Nil]

vector_str_push(v, t) == [v |-> PushCell(v, Fresh), h |-> Alloc(heap, Fresh, t)]

vector_str_pop(v) ==
  IF v.size = 0 THEN [v |-> v, h |-> heap]
  ELSE [v |-> PopCell(v), h |-> Free(heap, {v.container[v.size]})]

vector_str_dest(v, h) == Free(h, Cells(v))

(* strdup() of every string of org: as many new addresses.                 *)
Places(n, h) == {f \in [1..n -> MemoryIds \ DOMAIN h] :
                   \A i, j \in 1..n : f[i] = f[j] => i = j}
Copies(cells, h) ==
  LET n == Len(cells)
      as == CHOOSE f \in Places(n, h) : TRUE
      Source(x) == cells[CHOOSE i \in 1..n : as[i] = x]
  IN  [as |-> as,
       h |-> [x \in DOMAIN h \cup {as[i] : i \in 1..n} |->
                IF x \in DOMAIN h THEN h[x] ELSE h[Source(x)]]]

Joined(dst, org, cells, h) ==
  [v |-> [size |-> dst.size + org.size, capacity |-> BUFFER_GROW(dst.size + org.size),
          container |-> Container(cells, BUFFER_GROW(dst.size + org.size))],
   h |-> h]

HeadShares(dst, org) ==   \* mutant: the cells are taken over, not copied
  Joined(dst, org, SubSeq(org.container, 1, org.size) \o SubSeq(dst.container, 1, dst.size), heap)

vector_str_push_vector_head(dst, org) ==
  LET c == Copies(SubSeq(org.container, 1, org.size), heap)
  IN  Joined(dst, org, c.as \o SubSeq(dst.container, 1, dst.size), c.h)

Backwards(dst, org) ==   \* mutant: the copies are stored from the last to the first
  LET c == Copies(SubSeq(org.container, 1, org.size), heap)
  IN  Joined(dst, org, SubSeq(dst.container, 1, dst.size)
                       \o [i \in DOMAIN c.as |-> c.as[Len(c.as) + 1 - i]], c.h)

(* Behind a failed copy the code frees what it copied (394-402): malloc()  *)
(* never fails here, it panics (heap.c:89), and that path is left out.     *)
vector_str_push_vector(dst, org) ==
  LET c == Copies(SubSeq(org.container, 1, org.size), heap)
  IN  Joined(dst, org, SubSeq(dst.container, 1, dst.size) \o c.as, c.h)

vector_read_cmd_push(v, item) == PushCell(v, item)
vector_type_qualifier_push(v, t) == PushCell(v, t)
vector_read_cmd_pop(v) == PopCell(v)

-----------------------------------------------------------------------------
Init == out = vector_str_init /\ ret = Freed /\ cmd = vector_str_init /\ heap = <<>>

PushOut == \E t \in Texts : /\ out.size + ret.size < MaxLen
                            /\ LET r == vector_str_push(out, t) IN out' = r.v /\ heap' = r.h
                            /\ UNCHANGED <<ret, cmd>>
PushRet == \E t \in Texts : /\ IsOpen(ret) /\ out.size + ret.size < MaxLen
                            /\ LET r == vector_str_push(ret, t) IN ret' = r.v /\ heap' = r.h
                            /\ UNCHANGED <<out, cmd>>
PopOut == LET r == vector_str_pop(out) IN out' = r.v /\ heap' = r.h /\ UNCHANGED <<ret, cmd>>
PopRet == /\ IsOpen(ret)
          /\ LET r == vector_str_pop(ret) IN ret' = r.v /\ heap' = r.h
          /\ UNCHANGED <<out, cmd>>
InitRet == ~IsOpen(ret) /\ ret' = vector_str_init /\ UNCHANGED <<out, cmd, heap>>

(* __cxa_demangle_gnu3() puts the return type in front of the name,        *)
(* cpp_demangle_read_local_name() the function's name at the end; then the *)
(* vector is destroyed.  The return type is never empty here.              *)
MergeRet ==
  /\ IsOpen(ret) /\ ret.size > 0
  /\ \E r \in {vector_str_push_vector_head(out, ret), vector_str_push_vector(out, ret)} :
       /\ out' = r.v /\ heap' = vector_str_dest(ret, r.h)
       /\ ret' = Freed /\ UNCHANGED cmd
DropRet == /\ IsOpen(ret)
           /\ ret' = Freed /\ heap' = vector_str_dest(ret, heap) /\ UNCHANGED <<out, cmd>>

PushCmd == \E t \in {1} : /\ cmd.size < MaxLen
                             /\ \/ cmd' = vector_read_cmd_push(cmd, t)
                                \/ cmd' = vector_type_qualifier_push(cmd, t)
                             /\ UNCHANGED <<out, ret, heap>>
PopCmd == cmd.size > 0 /\ cmd' = vector_read_cmd_pop(cmd) /\ UNCHANGED <<out, ret, heap>>

(* cpp_demangle_data_dest() at the end of one name, cpp_demangle_data_init() *)
(* for the next one.                                                       *)
cpp_demangle_data_dest ==
  /\ ~IsOpen(ret)
  /\ heap' = vector_str_dest(out, heap)
  /\ out' = vector_str_init /\ cmd' = vector_str_init /\ UNCHANGED ret

Next == \/ PushOut \/ PushRet \/ PopOut \/ PopRet \/ InitRet \/ MergeRet \/ DropRet
        \/ PushCmd \/ PopCmd \/ cpp_demangle_data_dest
Spec == Init /\ [][Next]_vars

-----------------------------------------------------------------------------
(* Every allocated string is in exactly one cell of one vector: none is    *)
(* lost, none would be freed twice (vector_str_dest, vector_str_pop).      *)
OneOwner ==
  /\ Live = Cells(out) \cup Cells(ret)
  /\ Cardinality(Live) = out.size + ret.size

(* A vector never holds more than its container, whatever was merged into  *)
(* it, and grow() can always make room (the assertion tmp_cap > capacity). *)
InCapacity ==
  \A v \in {out, ret, cmd} :
    /\ v.size <= v.capacity /\ DOMAIN v.container = 1..v.capacity
    /\ IsOpen(v) => BUFFER_GROW(v.capacity) > v.capacity

(* The vectors are lists of texts: pushing, popping, growing and merging   *)
(* do what the abstract lists do.                                          *)
TextsOf(v) == [i \in 1..v.size |-> heap[v.container[i]]]
List == INSTANCE StringList WITH main <- TextsOf(out), side <- TextsOf(ret), open <- IsOpen(ret)
AreLists == List!Spec

(* A vector never holds more than its container, and every allocated       *)
(* string is in exactly one cell of one vector.                            *)
VectorsSound == InCapacity /\ OneOwner

(* The inductive invariant: containers are filled from the left with the   *)
(* addresses of allocated strings, each in one cell only.                  *)
Vector(S) == [size : Nat, capacity : Nat, container : Seq(S)]
IsVector(v, S) == /\ v \in Vector(S)
                  /\ v.size <= v.capacity /\ Len(v.container) = v.capacity
Distinct(v) == \A i, j \in 1..v.size : v.container[i] = v.container[j] => i = j
VectorInv ==
  /\ IsVector(out, MemoryIds \cup {Nil}) /\ IsVector(ret, MemoryIds \cup {Nil})
  /\ IsVector(cmd, {Nil, 1})
  /\ out.capacity > 0 /\ cmd.capacity > 0
  /\ Distinct(out) /\ Distinct(ret) /\ Cells(out) \cap Cells(ret) = {}
  /\ Live = Cells(out) \cup Cells(ret) /\ Live \subseteq MemoryIds
  /\ heap \in [Live -> Texts]
  /\ out.size + ret.size <= MaxLen

(* malloc() does not fail: room for all strings and for their copies.      *)
EnoughMemory == /\ MaxLen \in Nat
                /\ IsFiniteSet(MemoryIds) /\ Cardinality(MemoryIds) >= 2 * MaxLen
=============================================================================
