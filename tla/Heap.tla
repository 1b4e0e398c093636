-------------------------------- MODULE Heap --------------------------------
(***************************************************************************)
(* The kernel's storage allocator (src/src/heap.c) with malloc,            *)
(* realloc and free (src/src/stdlib.c) on top of it, at the level of       *)
(* memory words: a node is a two-word header in mem, and the link of a     *)
(* free node is the first word of its payload, so that a wrong size or a   *)
(* late write damages whatever lies there.  Addresses and sizes count      *)
(* 4-byte words.                                                           *)
(*                                                                         *)
(* Callers fill every block they hold with a stamp of their own.  Two      *)
(* heaps exist because the kernel boots on a small static one and then     *)
(* makes a larger one the kernel heap; blocks of the first are freed after *)
(* the switch.                                                             *)
(***************************************************************************)
EXTENDS Integers, FiniteSets, Sequences, FiniteSetsExt

CONSTANTS
    BootSize, MainSize,  \* words of the boot heap and of the main heap
    Requests,            \* sizes asked for; operator new never asks for 0
    MaxLive              \* bound: blocks held at once

NULL == 0
AVAIL_MAGIC == -1
BootHeap == 2
MainHeap == BootHeap + BootSize
Heaps == {BootHeap, MainHeap}
SizeOf(h) == IF h = BootHeap THEN BootSize ELSE MainSize

\* sizeof(HeapNode_t) + 4 bytes
MIN_NODE_SIZE == 4

\* ALIGN_CEIL(size, 8) + offsetof(HeapNode_t, payload)
Footprint(n) == 2 * ((n + 1) \div 2) + 2

Stamp(i) == -10 - i

VARIABLES
    mem,          \* the words of both heaps
    hKernelHeap,
    held,         \* what callers hold: payload address -> [n, id]
    last,         \* the last call, as in BlockStore
    halted        \* panic was called

vars == <<mem, hKernelHeap, held, last, halted>>

Addr == BootHeap .. (BootHeap + BootSize + MainSize - 1)

\* The fields of a HeapInfo and of a node, in memory m.
firstAvail(m, h) == m[h + 1]
size(m, p) == m[p]
free(m, p) == m[p + 1]
next(m, p) == m[p + 2]
FIRST(h) == h + 1
SIZE(p) == p
FREE(p) == p + 1
NEXT(p) == p + 2

HeapInitialize(m, h, n) ==
    LET first == h + 2
    IN  [m EXCEPT ![h] = n, ![FIRST(h)] = first,
                  ![SIZE(first)] = n - 2, ![FREE(first)] = AVAIL_MAGIC, ![NEXT(first)] = NULL]

Init ==
    /\ mem = HeapInitialize(HeapInitialize([a \in Addr |-> 0], BootHeap, BootSize),
                            MainHeap, MainSize)
    /\ hKernelHeap = BootHeap
    /\ held = <<>>
    /\ last = [op |-> "start", heap |-> NULL, need |-> 0, at |-> NULL]
    /\ halted = FALSE

\* main makes the large heap the kernel heap.
setKernelHeap ==
    /\ ~halted
    /\ hKernelHeap = BootHeap
    /\ hKernelHeap' = MainHeap
    /\ UNCHANGED <<mem, held, last, halted>>

\* The free list of heap h, in the order the links give.
FreeList(m, h) ==
    LET RECURSIVE From(_)
        From(p) == IF p = NULL THEN <<>> ELSE <<p>> \o From(next(m, p))
    IN  From(firstAvail(m, h))

\* The tail of node now, behind its first need words, becomes a free node.
Split(m, now, need) ==
    [m EXCEPT ![SIZE(now + need)] = size(m, now) - need, ![NEXT(now + need)] = next(m, now),
              ![FREE(now + need)] = AVAIL_MAGIC, ![SIZE(now)] = need]

\* HeapAlloc's loop: the first node that is large enough, split when the rest
\* can hold a node of its own.  at is NULL when there is none.
HeapAlloc(m, h, n) ==
    LET list == FreeList(m, h)
        need == Footprint(n)
        fit  == {i \in DOMAIN list : size(m, list[i]) >= need}
    IN  IF fit = {} THEN [at |-> NULL, m |-> m]
        ELSE LET i     == Min(fit)
                 now   == list[i]
                 rest  == size(m, now) - need
                 split == rest >= MIN_NODE_SIZE
                 m1    == IF split THEN Split(m, now, need) ELSE m
                 nxt   == IF split THEN now + need ELSE next(m, now)
                 link  == IF i = 1 THEN FIRST(h) ELSE NEXT(list[i - 1])
             IN  [at |-> now, m |-> [m1 EXCEPT ![link] = nxt, ![FREE(now)] = h]]

\* HeapAlloc's panic: a node it looks at is not marked free.
BadMagic(m, h, n) ==
    LET list == FreeList(m, h)
        fit  == {i \in DOMAIN list : size(m, list[i]) >= Footprint(n)}
    IN  \E i \in DOMAIN list : /\ \A j \in fit : i <= j
                               /\ free(m, list[i]) # AVAIL_MAGIC

\* The two merges of HeapFree: prev swallows node, and node swallows now.
Swallow(m, p, q) == \* p, directly below q in memory, takes q's words and link
    IF p # NULL /\ p + size(m, p) = q
    THEN [m EXCEPT ![NEXT(p)] = next(m, q), ![SIZE(p)] = @ + size(m, q)]
    ELSE m
MergeOnlyPrev(m, prev, node, now) == \* mutant: the node above is not merged
    IF prev = NULL THEN m ELSE Swallow(m, prev, node)
MergeStale(m, prev, node, now) == \* mutant: "node = prev" is missing
    LET m1 == IF prev = NULL THEN m ELSE Swallow(m, prev, node)
    IN  IF now = NULL THEN m1 ELSE Swallow(m1, node, now)
Merge(m, prev, node, now) ==
    LET m1   == IF prev = NULL THEN m ELSE Swallow(m, prev, node)
        from == IF prev # NULL /\ prev + size(m, prev) = node THEN prev ELSE node
    IN  IF now = NULL THEN m1 ELSE Swallow(m1, from, now)

\* HeapFree: insert in address order, then merge with both neighbours.
HeapFree(m, node) ==
    LET h     == free(m, node)
        list  == FreeList(m, h)
        above == {i \in DOMAIN list : node < list[i]}
        i     == IF above = {} THEN Len(list) + 1 ELSE Min(above)
        now   == IF above = {} THEN NULL ELSE list[i]
        prev  == IF i = 1 THEN NULL ELSE list[i - 1]
    IN  Merge([m EXCEPT ![FREE(node)] = AVAIL_MAGIC, ![NEXT(node)] = now,
                        ![IF prev = NULL THEN FIRST(h) ELSE NEXT(prev)] = node],
              prev, node, now)

-----------------------------------------------------------------------------
(* Callers. *)

Ids == 1 .. MaxLive
FreshId == Min(Ids \ {held[p].id : p \in DOMAIN held})

\* Words from..to of memory m all hold v.
Filled(m, from, to, v) == [a \in DOMAIN m |-> IF a \in from .. to THEN v ELSE m[a]]

\* The words of free nodes behind the link are never read again before a caller
\* fills them; they are kept at 0, and a held block is filled to its node's end.
Scrub(m) ==
    LET dead == UNION {UNION {LET l == FreeList(m, h) IN (l[i] + 3) .. (l[i] + size(m, l[i]) - 1) :
                                i \in DOMAIN FreeList(m, h)} : h \in Heaps}
    IN  [a \in DOMAIN m |-> IF a \in dead THEN 0 ELSE m[a]]

\* HeapAlloc and what the caller does with the answer.
Alloc(hHeap, n) ==
    LET h == IF hHeap = NULL THEN hKernelHeap ELSE hHeap
        r == HeapAlloc(mem, h, n)
    IN  /\ ~halted
        /\ Cardinality(DOMAIN held) < MaxLive
        /\ hKernelHeap' = hKernelHeap
        /\ IF BadMagic(mem, h, n)
           THEN halted' = TRUE /\ UNCHANGED <<mem, held, last>>
           ELSE /\ last' = [op |-> "alloc", heap |-> h, need |-> Footprint(n), at |-> r.at]
                /\ IF r.at = NULL
                   THEN halted' = (h = hKernelHeap) /\ UNCHANGED <<mem, held>>
                   ELSE LET p == r.at + 2 IN
                        /\ mem' = Scrub(Filled(r.m, p, r.at + size(r.m, r.at) - 1, Stamp(FreshId)))
                        /\ held' = [q \in DOMAIN held \cup {p} |->
                                      IF q = p THEN [n |-> n, id |-> FreshId] ELSE held[q]]
                        /\ halted' = FALSE

\* free(ptr); a second free of the same block panics.
Free(p) ==
    /\ ~halted
    /\ IF free(mem, p - 2) = AVAIL_MAGIC
       THEN halted' = TRUE /\ UNCHANGED <<mem, held, last>>
       ELSE /\ mem' = Scrub(HeapFree(mem, p - 2))
            /\ last' = [op |-> "free", heap |-> free(mem, p - 2), need |-> 0, at |-> p - 2]
            /\ held' = [q \in DOMAIN held \ {p} |-> held[q]]
            /\ halted' = FALSE
    /\ UNCHANGED hKernelHeap

\* realloc(ptr, size): malloc, memcpy of the NEW size, free.  The caller then
\* fills the words the block grew by.
Realloc(p, n) ==
    LET h    == hKernelHeap
        r    == HeapAlloc(mem, h, n)
        q    == r.at + 2
        copy == [a \in DOMAIN mem |->
                   IF a \in q .. (q + n - 1) /\ p + (a - q) \in DOMAIN mem
                   THEN r.m[p + (a - q)] ELSE r.m[a]]
        id   == held[p].id
    IN  /\ ~halted
        /\ hKernelHeap' = hKernelHeap
        /\ IF BadMagic(mem, h, n)
           THEN halted' = TRUE /\ UNCHANGED <<mem, held, last>>
           ELSE IF r.at = NULL
           THEN /\ halted' = TRUE
                /\ last' = [op |-> "alloc", heap |-> h, need |-> Footprint(n), at |-> NULL]
                /\ UNCHANGED <<mem, held>>
           ELSE /\ mem' = Scrub(Filled(HeapFree(copy, p - 2), q + held[p].n,
                                       r.at + size(r.m, r.at) - 1, Stamp(id)))
                /\ last' = [op |-> "move", heap |-> h, need |-> Footprint(n), at |-> r.at]
                /\ held' = [s \in (DOMAIN held \ {p}) \cup {q} |->
                              IF s = q THEN [n |-> n, id |-> id] ELSE held[s]]
                /\ halted' = FALSE

Halted == halted /\ UNCHANGED vars

Next ==
    \/ setKernelHeap
    \/ \E h \in Heaps \cup {NULL}, n \in Requests : Alloc(h, n)
    \/ \E p \in DOMAIN held : Free(p) \/ \E n \in Requests : Realloc(p, n)
    \/ Halted

Spec == Init /\ [][Next]_vars

-----------------------------------------------------------------------------
(* Properties. *)

\* The nodes of heap h: walking by sizes from the first node to the end.
Nodes(h) ==
    LET end == h + SizeOf(h)
        RECURSIVE From(_)
        From(p) == IF p >= end THEN <<p>> ELSE <<p>> \o From(p + size(mem, p))
    IN  From(h + 2)

\* Every heap is tiled by its nodes, each free or held; the free list holds the
\* free ones in address order, and no two free nodes touch: HeapAlloc's split
\* and HeapFree's two merges lose no word and leave no unmerged neighbours.
WellFormed ==
    \A h \in Heaps :
        LET ns     == Nodes(h)
            nodes  == {ns[i] : i \in 1 .. (Len(ns) - 1)}
            isFree == {p \in nodes : free(mem, p) = AVAIL_MAGIC}
            list   == FreeList(mem, h)
        IN  /\ ns[Len(ns)] = h + SizeOf(h)
            /\ {list[i] : i \in DOMAIN list} = isFree
            /\ \A i \in 1 .. (Len(list) - 1) : list[i] + size(mem, list[i]) < list[i + 1]
            /\ nodes \ isFree = {p - 2 : p \in {q \in DOMAIN held : free(mem, q - 2) = h}}

\* What a caller wrote into a block it holds is still there, whatever was
\* allocated, freed, moved, split or merged around it since.
PayloadIntact ==
    \A p \in DOMAIN held : \A a \in p .. (p + held[p].n - 1) : mem[a] = Stamp(held[p].id)

\* HeapAlloc never meets a node that is not marked free, and no block that is
\* held looks free: the only panic is exhaustion of the kernel heap.
PanicsOnlyWhenFull ==
    halted => last.op = "alloc" /\ last.at = NULL /\ last.heap = hKernelHeap

\* The allocator keeps BlockStore's promise: blocks are disjoint, and a request
\* is refused only when no free stretch of the heap is long enough.
Region(h) == (h + 2) .. (h + SizeOf(h) - 1)
Handed == {[heap |-> free(mem, p - 2), lo |-> p - 2, hi |-> p - 2 + size(mem, p - 2)] :
             p \in DOMAIN held}
Store == INSTANCE BlockStore WITH blocks <- Handed, None <- NULL
KeepsStorePromise == Store!Spec

(* heap.c: the nodes tile the heap, payloads stay, and the allocator       *)
(* panics only when nothing fits.                                          *)
HeapSound == WellFormed /\ PayloadIntact /\ PanicsOnlyWhenFull
=============================================================================
