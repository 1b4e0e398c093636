----------------------------- MODULE BlockStore -----------------------------
(***************************************************************************)
(* What a storage allocator promises its callers, without saying how it    *)
(* keeps its books: a set of handed-out blocks that never overlap and stay *)
(* inside the heap they came from, and a request that is refused only when *)
(* no free stretch of that heap is long enough.  Heap.tla implements it.   *)
(***************************************************************************)
EXTENDS Integers, FiniteSets

CONSTANTS
    Heaps,        \* heap handles
    Region(_),    \* Region(h): the addresses heap h may hand out
    Footprint(_), \* Footprint(n): the words a request for n words occupies
    Requests,     \* the sizes callers ask for
    None          \* "no address", the NULL of a refused request

VARIABLES
    blocks,       \* set of [heap, lo, hi]: the blocks handed out, lo..hi-1
    last          \* the last call: [op, heap, need, at]

vars == <<blocks, last>>

Extent(b) == b.lo .. (b.hi - 1)

Used == UNION {Extent(b) : b \in blocks}

\* A stretch of n free words of heap h starts at a.
FreeRun(h, a, n) == (a .. (a + n - 1)) \subseteq (Region(h) \ Used)

Fits(h, n) == \E a \in Region(h) : FreeRun(h, a, n)

Init ==
    /\ blocks = {}
    /\ last = [op |-> "start", heap |-> None, need |-> 0, at |-> None]

Grant(h, n) ==
    \E lo \in Region(h) : \E hi \in (lo + Footprint(n)) .. (lo + Footprint(n) + 3) :
        /\ FreeRun(h, lo, hi - lo)
        /\ blocks' = blocks \cup {[heap |-> h, lo |-> lo, hi |-> hi]}
        /\ last' = [op |-> "alloc", heap |-> h, need |-> Footprint(n), at |-> lo]

Refuse(h, n) ==
    /\ ~Fits(h, Footprint(n))
    /\ last' = [op |-> "alloc", heap |-> h, need |-> Footprint(n), at |-> None]
    /\ UNCHANGED blocks

Release(b) ==
    /\ blocks' = blocks \ {b}
    /\ last' = [op |-> "free", heap |-> b.heap, need |-> 0, at |-> b.lo]

\* realloc: the new block is found while the old one is still held.
Move(b, h, n) ==
    \E lo \in Region(h) : \E hi \in (lo + Footprint(n)) .. (lo + Footprint(n) + 3) :
        /\ FreeRun(h, lo, hi - lo)
        /\ blocks' = (blocks \ {b}) \cup {[heap |-> h, lo |-> lo, hi |-> hi]}
        /\ last' = [op |-> "move", heap |-> h, need |-> Footprint(n), at |-> lo]

Next ==
    \/ \E h \in Heaps, n \in Requests : Grant(h, n) \/ Refuse(h, n)
    \/ \E b \in blocks : Release(b) \/ \E h \in Heaps, n \in Requests : Move(b, h, n)

Spec == Init /\ [][Next]_vars
=============================================================================
