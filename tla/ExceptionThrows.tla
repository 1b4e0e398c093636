-------------------------- MODULE ExceptionThrows ---------------------------
(* The steps of Exceptions that enter and leave constructs, that handle     *)
(* exception pointers and that start a flight keep its invariant.           *)
EXTENDS ExceptionLemmas

(***************************************************************************)
(* Stacks of frames.                                                       *)
(***************************************************************************)

\* Where there is a block below frame i, the innermost one is the exception's.
LEMMA EnclosingIn ==
    ASSUME NEW s \in Seq(Frames), NEW i \in Nat, Enclosing(s, i) # None
    PROVE  \E j \in Kinds(s, "handler") : j < i /\ s[j].ex = Enclosing(s, i)
<1> DEFINE B == {j \in Kinds(s, "handler") : j < i}
<1>1. B # {}
  BY DEF Enclosing
<1>2. B \in SUBSET (1..Len(s)) /\ Len(s) \in Nat
  BY DEF Kinds
<1>3. Max(B) \in B
  BY <1>1, <1>2, MaxIn, Zenon
<1>4. Enclosing(s, i) = s[Max(B)].ex
  BY <1>1 DEF Enclosing
<1> QED
  BY <1>3, <1>4, Zenon

(***************************************************************************)
(* The objects.                                                            *)
(***************************************************************************)

\* One reference to an object is given up; the last one frees it.
LEMMA ReleaseOneObj ==
    ASSUME NEW o \in [Objects -> Exception], NEW p \in Objects, o[p].ref >= 1
    PROVE  LET r == ReleaseOne(o, p) IN
           /\ r \in [Objects -> Exception]
           /\ \A x \in Objects \ {p} : r[x] = o[x]
           /\ o[p].ref = 1 => r[p] = Free
           /\ o[p].ref # 1 => r[p] = [o[p] EXCEPT !.ref = o[p].ref - 1]
<1>1. o[p] \in Exception
  OBVIOUS
<1>2. CASE o[p].ref = 1
  BY <1>1, <1>2, FreeException DEF ReleaseOne, __cxa_free_exception
<1>3. CASE o[p].ref # 1
  BY <1>1, <1>3 DEF ReleaseOne, Exception
<1> QED
  BY <1>2, <1>3

(***************************************************************************)
(* Steps that leave the blocks, the flights or the objects' lives alone.   *)
(***************************************************************************)

\* What pushing, popping and replacing the top frame do to the frames of a kind.
LEMMA PushKinds ==
    ASSUME NEW s \in Seq(Frames), NEW f \in Frames, NEW k
    PROVE  /\ Agree(s, Append(s, f), Len(s))
           /\ Kinds(s, k) \subseteq 1..Len(s)
           /\ Kinds(Append(s, f), k) =
                IF f.kind = k THEN Kinds(s, k) \union {Len(s) + 1} ELSE Kinds(s, k)
<1> DEFINE t == Append(s, f)
<1>1. /\ t \in Seq(Frames) /\ Len(t) = Len(s) + 1 /\ t[Len(s) + 1] = f /\ Len(s) \in Nat
      /\ \A i \in 1..Len(s) : t[i] = s[i]
  BY PushFrame
<1>2. DOMAIN s = 1..Len(s) /\ DOMAIN t = 1..Len(s) + 1
  BY <1>1
<1> HIDE DEF t
<1>3. Agree(s, t, Len(s))
  BY <1>1 DEF Agree
<1>4. Kinds(s, k) \subseteq 1..Len(s)
  BY <1>2 DEF Kinds
<1>5. Kinds(t, k) = IF f.kind = k THEN Kinds(s, k) \union {Len(s) + 1} ELSE Kinds(s, k)
  BY <1>1, <1>2 DEF Kinds
<1> QED
  BY <1>3, <1>4, <1>5 DEF t

LEMMA PopKinds ==
    ASSUME NEW s \in Seq(Frames), s # <<>>, NEW k
    PROVE  /\ Agree(s, Popped(s), Len(s) - 1)
           /\ Kinds(Popped(s), k) = Kinds(s, k) \ {Len(s)}
           /\ Kinds(Popped(s), k) \subseteq 1..Len(s) - 1
           /\ s[Len(s)].kind # k => Kinds(Popped(s), k) = Kinds(s, k)
           /\ s[Len(s)].kind = k => Len(s) \in Kinds(s, k)
<1> DEFINE t == Popped(s)
<1>1. /\ t \in Seq(Frames) /\ Len(t) = Len(s) - 1 /\ Len(s) \in Nat \ {0}
      /\ \A i \in 1..Len(s) - 1 : t[i] = s[i]
  BY PopFrame
<1>2. DOMAIN s = 1..Len(s) /\ DOMAIN t = 1..Len(s) - 1
  BY <1>1
<1> HIDE DEF t
<1>3. Agree(s, t, Len(s) - 1)
  BY <1>1 DEF Agree
<1>4. Kinds(t, k) = Kinds(s, k) \ {Len(s)} /\ Kinds(t, k) \subseteq 1..Len(s) - 1
  BY <1>1, <1>2 DEF Kinds
<1>5. /\ s[Len(s)].kind # k => Kinds(t, k) = Kinds(s, k)
      /\ s[Len(s)].kind = k => Len(s) \in Kinds(s, k)
  BY <1>1, <1>2, <1>4 DEF Kinds
<1> QED
  BY <1>3, <1>4, <1>5 DEF t

(***************************************************************************)
(* The program enters and leaves its constructs.                           *)
(***************************************************************************)

\* The kinds of frames that refer to an exception.
Referring == {"building", "handler", "landing"}

\* Frames of the kinds that refer to an exception do so after a step that
\* leaves those frames alone.
LEMMA FrameTypesKept ==
    ASSUME ExceptionTypes, stack' \in Seq(Frames), NEW n, Agree(stack, stack', n),
           \A k \in Referring : Kinds(stack, k) \subseteq 1..n /\ Kinds(stack', k) = Kinds(stack, k)
    PROVE  \A i \in DOMAIN stack' : stack'[i].kind \in Referring => stack'[i].ex \in Objects
<1> SUFFICES ASSUME NEW i \in DOMAIN stack', stack'[i].kind \in Referring
             PROVE  stack'[i].ex \in Objects
  OBVIOUS
<1>1. i \in Kinds(stack', stack'[i].kind)
  BY DEF Kinds
<1>2. i \in Kinds(stack, stack'[i].kind) /\ i \in 1..n
  BY <1>1
<1>3. stack'[i] = stack[i] /\ i \in DOMAIN stack /\ stack[i].kind \in Referring
  BY <1>2 DEF Kinds, Agree
<1> QED
  BY <1>3 DEF ExceptionTypes, Referring

\* A try block, an object or a barrier comes or goes.
LEMMA PlainStep ==
    ASSUME ExceptionsInv, mode = Run, UNCHANGED <<obj, caught, uncaught, ptrs, mode>>,
           stack' \in Seq(Frames), NEW n, Agree(stack, stack', n),
           \A k \in Referring : Kinds(stack, k) \subseteq 1..n /\ Kinds(stack', k) = Kinds(stack, k)
    PROVE  ExceptionsInv'
<1>1. Live /\ Live'
  BY DEF Live, Run
<1>2. /\ ExceptionTypes /\ FlightsInv /\ ObjectsInv
      /\ ObjectsAccounted /\ CaughtListIsNesting /\ UncaughtExact
  BY <1>1 DEF ExceptionsInv
<1>3. ExceptionTypes'
  <2>1. \A i \in DOMAIN stack' : stack'[i].kind \in Referring => stack'[i].ex \in Objects
    BY <1>2, FrameTypesKept
  <2> QED
    BY <2>1, <1>2 DEF ExceptionTypes, Referring
<1>4. \A k \in {"building", "handler", "landing"} :
        Kinds(stack, k) \subseteq 1..n /\ Kinds(stack', k) = Kinds(stack, k)
  BY DEF Referring
<1>5. \A e : Blocks(stack', e) = Blocks(stack, e)
  BY <1>4, BlocksAgree
<1>6. FlightsInv' /\ InFlight' = InFlight
  <2>1. \A e : SameGoal(obj, obj', e)
    BY DEF SameGoal, realExceptionFromException
  <2> QED
    BY <1>2, <1>3, <1>4, <1>5, <2>1, FlightsKept
<1>7. CaughtListIsNesting'
  BY <1>1, <1>2, <1>3, <1>4, <1>6, CaughtKept
<1>8. Handling' = Handling
  BY <1>4 DEF Handling, Agree
<1>9. ObjectsInv' /\ ObjectsAccounted'
  <2>1. /\ Building' = Building
        /\ \A i, j \in Kinds(stack', "building") : stack'[i].ex = stack'[j].ex => i = j
    BY <1>2, <1>4, BuildingKept
  <2> QED
    BY <1>1, <1>2, <1>3, <1>6, <1>8, <2>1, LifeKept
<1>10. UncaughtExact'
  BY <1>1, <1>2, <1>6 DEF UncaughtExact
<1> QED
  BY <1>3, <1>6, <1>7, <1>9, <1>10 DEF ExceptionsInv

LEMMA EnterKeeps ==
    ASSUME ExceptionsInv, Enter
    PROVE  ExceptionsInv'
<1>1. mode = Run /\ UNCHANGED <<obj, caught, uncaught, ptrs, mode>>
  BY DEF Enter
<1>2. stack \in Seq(Frames)
  BY <1>1 DEF ExceptionsInv, ExceptionTypes, Live, Run
<1>3. PICK f \in Frames : f.kind \in {"try", "scope", "barrier"} /\ stack' = Append(stack, f)
  BY DEF Enter, Push, Frame, Frames
<1>4. /\ stack' \in Seq(Frames) /\ Agree(stack, stack', Len(stack))
      /\ \A k \in Referring : Kinds(stack, k) \subseteq 1..Len(stack)
                              /\ Kinds(stack', k) = Kinds(stack, k)
  BY <1>2, <1>3, PushKinds, PushFrame DEF Referring
<1> QED
  BY <1>1, <1>4, PlainStep

LEMMA LeaveKeeps ==
    ASSUME ExceptionsInv, Leave
    PROVE  ExceptionsInv'
<1>1. /\ mode = Run /\ UNCHANGED <<obj, caught, uncaught, ptrs, mode>>
      /\ stack # <<>> /\ stack' = Popped(stack)
  BY DEF Leave
<1>2. stack \in Seq(Frames)
  BY <1>1 DEF ExceptionsInv, ExceptionTypes, Live, Run
<1>3. stack[Len(stack)].kind \notin Referring
  BY DEF Leave, Top, Referring
<1>4. /\ stack' \in Seq(Frames) /\ Agree(stack, stack', Len(stack) - 1)
      /\ \A k \in Referring : Kinds(stack, k) \subseteq 1..Len(stack) - 1
                              /\ Kinds(stack', k) = Kinds(stack, k)
  BY <1>1, <1>2, <1>3, PopKinds, PopFrame
<1> QED
  BY <1>1, <1>4, PlainStep

(***************************************************************************)
(* Exception pointers.                                                     *)
(***************************************************************************)

\* A stack agrees with itself.
LEMMA AgreeSelf ==
    ASSUME NEW s \in Seq(Frames), NEW k
    PROVE  Agree(s, s, Len(s)) /\ Kinds(s, k) \subseteq 1..Len(s)
  BY DEF Agree, Kinds

\* The head of the list of caught exceptions is being handled.
LEMMA CaughtIsHandled ==
    ASSUME ExceptionTypes, CaughtListIsNesting, Live, caught # None
    PROVE  caught \in Handling
<1>1. caught = Enclosing(stack, Len(stack) + 1)
  BY DEF CaughtListIsNesting
<1>2. stack \in Seq(Frames) /\ Len(stack) + 1 \in Nat
  BY DEF ExceptionTypes
<1>3. \E j \in Kinds(stack, "handler") : stack[j].ex = caught
  BY <1>1, <1>2, EnclosingIn
<1> QED
  BY <1>3 DEF Handling

\* A pointer to e comes or goes, and the count of references with it; the
\* object is freed when nothing else refers to it.
LEMMA PointerStep ==
    ASSUME ExceptionsInv, mode = Run, UNCHANGED <<caught, uncaught, stack, mode>>,
           obj' \in [Objects -> Exception], ptrs' \in [Objects -> Nat],
           NEW e \in Objects, obj[e].alloc, ~obj[e].dependent, e \notin Building,
           \A x \in Objects \ {e} : obj'[x] = obj[x] /\ ptrs'[x] = ptrs[x],
           \/ /\ SameButRef(obj[e], obj'[e])
              /\ obj'[e].ref - obj[e].ref = ptrs'[e] - ptrs[e]
              /\ InUse(e) = 1 \/ ptrs'[e] > 0 \/ Dependents(e) # {}
           \/ obj'[e] = Free /\ InUse(e) = 0 /\ Dependents(e) = {} /\ ptrs'[e] = 0
    PROVE  ExceptionsInv'
<1>1. Live /\ Live'
  BY DEF Live, Run
<1>2. /\ ExceptionTypes /\ FlightsInv /\ ObjectsInv
      /\ ObjectsAccounted /\ CaughtListIsNesting /\ UncaughtExact
  BY <1>1 DEF ExceptionsInv
<1>3. ExceptionTypes' /\ stack \in Seq(Frames)
  BY <1>2 DEF ExceptionTypes
<1>4. /\ Agree(stack, stack', Len(stack))
      /\ \A k : Kinds(stack, k) \subseteq 1..Len(stack) /\ Kinds(stack', k) = Kinds(stack, k)
  BY <1>3, AgreeSelf, Zenon
<1>5. obj[e] \in Exception /\ obj'[e] \in Exception /\ ptrs[e] \in Nat /\ ptrs'[e] \in Nat
  BY <1>2 DEF ExceptionTypes
<1>6. \A x \in Objects \ {e} : SameButRef(obj[x], obj'[x])
  BY DEF SameButRef
<1>7. Handling' = Handling /\ Building' = Building /\ InFlight' = InFlight
  BY DEF Handling, Building, InFlight
<1>8. SameButRef(obj[e], obj'[e]) \/ (e \notin InFlight \union Handling /\ Dependents(e) = {})
  BY DEF InUse
<1>9. \A x \in InFlight : SameGoal(obj, obj', x)
  <2>1. \A x \in Objects : x \in InFlight \/ Dependents(x) # {} => SameButRef(obj[x], obj'[x])
    BY <1>6, <1>8
  <2> QED
    BY <1>1, <1>2, <2>1, ReferredObjects, GoalsKept DEF SameButRef
<1>10. obj[e].hc = 0 \/ SameButRef(obj[e], obj'[e])
  <2>1. CASE e \notin InFlight \union Handling
    <3>1. Blocks(stack, e) = {}
      BY <2>1, HandlingBlocks
    <3>2. obj[e].hc = Cardinality({})
      BY <1>1, <1>2, <2>1, <3>1, Zenon DEF CaughtListIsNesting
    <3> QED
      BY <3>2, FS_EmptySet
  <2> QED
    BY <2>1, <1>8
<1>11. FlightsInv'
  <2>1. \A x \in Objects : obj[x].catchTemp = 0 => obj'[x].catchTemp = 0
    BY <1>6, FreeException, Zenon DEF SameButRef
  <2> QED
    BY <1>2, <1>3, <1>4, <1>9, <2>1, FlightsKept, Zenon
<1>12. CaughtListIsNesting'
  <2>1. \A x \in Objects : obj'[x].hc = obj[x].hc
    BY <1>6, <1>10, FreeException, Zenon DEF SameButRef
  <2>2. \A x \in Handling : obj'[x].next = obj[x].next
    BY <1>2, <1>6, <1>8, ReferredObjects, Zenon DEF SameButRef
  <2> QED
    BY <1>1, <1>2, <1>3, <1>4, <1>7, <2>1, <2>2, CaughtKept, Zenon
<1>13. \A x \in Objects : Dependents(x)' = Dependents(x) /\ InUse(x)' = InUse(x)
  <2>1. \A d \in Objects : /\ obj'[d].alloc /\ obj'[d].dependent
                              <=> obj[d].alloc /\ obj[d].dependent
                           /\ obj[d].dependent => obj'[d].primary = obj[d].primary
    BY <1>6, FreeException, ZenonT(30) DEF SameButRef
  <2> QED
    BY <1>7, <2>1 DEF Dependents, InUse
<1>14. ObjectsAccounted'
  <2> SUFFICES ASSUME NEW x \in Objects
               PROVE  /\ obj'[x].alloc <=> (InUse(x) = 1 \/ x \in Building \/ ptrs'[x] > 0
                                              \/ Dependents(x) # {})
                      /\ obj'[x].alloc /\ ~obj'[x].dependent /\ x \notin Building =>
                           obj'[x].ref = InUse(x) + ptrs'[x] + Cardinality(Dependents(x))
    BY <1>7, <1>13 DEF ObjectsAccounted
  <2>1. /\ obj[x].alloc <=> (InUse(x) = 1 \/ x \in Building \/ ptrs[x] > 0
                               \/ Dependents(x) # {})
        /\ obj[x].alloc /\ ~obj[x].dependent /\ x \notin Building =>
             obj[x].ref = InUse(x) + ptrs[x] + Cardinality(Dependents(x))
    BY <1>1, <1>2 DEF ObjectsAccounted
  <2>2. CASE x # e
    BY <2>1, <2>2
  <2>3. CASE x = e /\ obj'[e] = Free /\ InUse(e) = 0 /\ Dependents(e) = {} /\ ptrs'[e] = 0
    BY <2>3, FreeException
  <2>4. CASE /\ x = e /\ SameButRef(obj[e], obj'[e])
             /\ obj'[e].ref - obj[e].ref = ptrs'[e] - ptrs[e]
             /\ InUse(e) = 1 \/ ptrs'[e] > 0 \/ Dependents(e) # {}
    <3>1. obj[e].ref \in Nat /\ obj'[e].ref \in Nat /\ InUse(e) \in Nat
      BY <1>5 DEF Exception, InUse
    <3>2. Cardinality(Dependents(e)) \in Nat
      BY ObjectsAssumption, FS_Subset, FS_CardinalityType DEF Dependents
    <3> QED
      BY <1>5, <2>1, <2>4, <3>1, <3>2 DEF SameButRef
  <2> QED
    BY <2>2, <2>3, <2>4
<1>15. ObjectsInv'
  <2>1. Building \subseteq Objects
    BY <1>2, ReferredObjects
  <2>2. \A x \in Objects : ~obj'[x].alloc => obj'[x] = Free
    BY <1>2, Zenon DEF ObjectsInv, SameButRef
  <2>3. \A x \in Building : /\ obj'[x] = [Free EXCEPT !.alloc = TRUE] /\ ptrs'[x] = 0
                            /\ x \notin InFlight \union Handling /\ Dependents(x)' = {}
    BY <1>2, <1>13, <2>1, Zenon DEF ObjectsInv
  <2>4. \A d \in Objects : obj'[d].dependent =>
          /\ ptrs'[d] = 0 /\ Dependents(d)' = {}
          /\ obj'[d].primary \in Objects \ Building
    <3> SUFFICES ASSUME NEW d \in Objects, obj'[d].dependent
                 PROVE  /\ ptrs'[d] = 0 /\ Dependents(d)' = {}
                        /\ obj'[d].primary \in Objects \ Building
      OBVIOUS
    <3>1. ~obj'[e].dependent
      BY FreeException, Zenon DEF SameButRef
    <3>2. obj'[d] = obj[d] /\ ptrs'[d] = ptrs[d]
      BY <3>1
    <3>3. /\ ptrs[d] = 0 /\ Dependents(d) = {}
          /\ obj[d].primary \in Objects \ Building
      BY <1>2, <3>2 DEF ObjectsInv
    <3> QED
      BY <1>13, <3>2, <3>3
  <2>5. \A i, j \in Kinds(stack', "building") : stack'[i].ex = stack'[j].ex => i = j
    BY <1>2 DEF ObjectsInv
  <2> QED
    BY <1>7, <2>2, <2>3, <2>4, <2>5, Zenon DEF ObjectsInv
<1>16. UncaughtExact'
  BY <1>1, <1>2, <1>7 DEF UncaughtExact
<1> QED
  BY <1>3, <1>11, <1>12, <1>14, <1>15, <1>16 DEF ExceptionsInv

\* A reference more.
LEMMA RefUp ==
    ASSUME ExceptionTypes, NEW e \in Objects,
           obj' = [obj EXCEPT ![e].ref = @ + 1], ptrs' = [ptrs EXCEPT ![e] = @ + 1]
    PROVE  /\ obj' \in [Objects -> Exception] /\ ptrs' \in [Objects -> Nat]
           /\ \A x \in Objects \ {e} : obj'[x] = obj[x] /\ ptrs'[x] = ptrs[x]
           /\ SameButRef(obj[e], obj'[e])
           /\ obj'[e].ref - obj[e].ref = ptrs'[e] - ptrs[e] /\ ptrs'[e] > 0
<1> DEFINE v == [obj[e] EXCEPT !.ref = @ + 1]
<1>1. obj \in [Objects -> Exception] /\ obj[e] \in Exception /\ ptrs \in [Objects -> Nat]
  BY DEF ExceptionTypes
<1>2. v \in Exception /\ v.ref = obj[e].ref + 1 /\ SameButRef(obj[e], v)
  BY <1>1 DEF Exception, SameButRef
<1>3. obj' = [obj EXCEPT ![e] = v]
  OBVIOUS
<1> HIDE DEF v
<1>4. obj' \in [Objects -> Exception] /\ obj'[e] = v /\ \A x \in Objects \ {e} : obj'[x] = obj[x]
  BY <1>1, <1>2, <1>3
<1>5. /\ ptrs' \in [Objects -> Nat] /\ ptrs'[e] = ptrs[e] + 1 /\ ptrs[e] \in Nat
      /\ \A x \in Objects \ {e} : ptrs'[x] = ptrs[x]
  BY <1>1
<1>6. obj[e].ref \in Nat
  BY <1>1 DEF Exception
<1> QED
  BY <1>2, <1>4, <1>5, <1>6

LEMMA CurrentPrimaryKeeps ==
    ASSUME ExceptionsInv, __cxa_current_primary_exception
    PROVE  ExceptionsInv'
<1>1. mode = Run /\ UNCHANGED <<caught, uncaught, stack, mode>> /\ caught # None
  BY DEF __cxa_current_primary_exception
<1>2. Live /\ ExceptionTypes /\ ObjectsInv /\ ObjectsAccounted /\ CaughtListIsNesting
  BY <1>1 DEF ExceptionsInv, Live, Run
<1> DEFINE e == realExceptionFromException(obj, caught)
<1>3. caught \in Objects \ Building /\ obj[caught].alloc
  BY <1>1, <1>2, CaughtIsHandled, FlyingIsAlive
<1>4. e \in Objects \ Building /\ obj[e].alloc /\ ~obj[e].dependent
  BY <1>2, <1>3, RealIsAlive
<1>5. obj' = [obj EXCEPT ![e].ref = @ + 1] /\ ptrs' = [ptrs EXCEPT ![e] = @ + 1]
  BY DEF __cxa_current_primary_exception
<1> HIDE DEF e
<1> QED
  BY <1>1, <1>2, <1>4, <1>5, RefUp, PointerStep, Zenon

\* Who holds a pointer holds one to a live exception that was thrown.
LEMMA PointedIsAlive ==
    ASSUME ExceptionTypes, ObjectsInv, ObjectsAccounted, Live,
           NEW e \in Objects, ptrs[e] > 0
    PROVE  /\ obj[e].alloc /\ ~obj[e].dependent /\ e \notin Building
           /\ obj[e].ref = InUse(e) + ptrs[e] + Cardinality(Dependents(e))
<1>1. obj[e].alloc
  BY DEF ObjectsAccounted
<1>2. ~obj[e].dependent /\ e \notin Building
  BY DEF ObjectsInv
<1> QED
  BY <1>1, <1>2 DEF ObjectsAccounted

LEMMA IncrementKeeps ==
    ASSUME ExceptionsInv, __cxa_increment_exception_refcount
    PROVE  ExceptionsInv'
<1>1. mode = Run /\ UNCHANGED <<caught, uncaught, stack, mode>>
  BY DEF __cxa_increment_exception_refcount
<1>2. Live /\ ExceptionTypes /\ ObjectsInv /\ ObjectsAccounted
  BY <1>1 DEF ExceptionsInv, Live, Run
<1>3. PICK e \in Objects :
        /\ ptrs[e] \in 1..MaxPtrs - 1
        /\ obj' = [obj EXCEPT ![e].ref = @ + 1] /\ ptrs' = [ptrs EXCEPT ![e] = @ + 1]
  BY Zenon DEF __cxa_increment_exception_refcount
<1>4. ptrs[e] > 0
  BY <1>2, <1>3 DEF ExceptionTypes
<1>5. obj[e].alloc /\ ~obj[e].dependent /\ e \notin Building
  BY <1>2, <1>4, PointedIsAlive
<1> QED
  BY <1>1, <1>2, <1>3, <1>5, RefUp, PointerStep, Zenon

LEMMA DecrementKeeps ==
    ASSUME ExceptionsInv, __cxa_decrement_exception_refcount
    PROVE  ExceptionsInv'
<1>1. mode = Run /\ UNCHANGED <<caught, uncaught, stack, mode>>
  BY DEF __cxa_decrement_exception_refcount
<1>2. Live /\ ExceptionTypes /\ ObjectsInv /\ ObjectsAccounted
  BY <1>1 DEF ExceptionsInv, Live, Run
<1>3. PICK e \in Objects :
        ptrs[e] > 0 /\ obj' = releaseException(obj, e) /\ ptrs' = [ptrs EXCEPT ![e] = @ - 1]
  BY Zenon DEF __cxa_decrement_exception_refcount
<1>4. /\ obj[e].alloc /\ ~obj[e].dependent /\ e \notin Building
      /\ obj[e].ref = InUse(e) + ptrs[e] + Cardinality(Dependents(e))
  BY <1>2, <1>3, PointedIsAlive
<1>5. obj' = ReleaseOne(obj, e)
  BY <1>3, <1>4 DEF releaseException
<1>6. IsFiniteSet(Dependents(e)) /\ Cardinality(Dependents(e)) \in Nat
  BY ObjectsAssumption, FS_Subset, FS_CardinalityType DEF Dependents
<1>7. obj \in [Objects -> Exception] /\ ptrs \in [Objects -> Nat] /\ InUse(e) \in {0, 1}
  BY <1>2 DEF ExceptionTypes, InUse
<1>8. /\ ptrs' \in [Objects -> Nat] /\ ptrs[e] \in Nat \ {0} /\ ptrs'[e] = ptrs[e] - 1
      /\ \A x \in Objects \ {e} : ptrs'[x] = ptrs[x]
  BY <1>3, <1>7
<1>9. obj[e].ref \in Nat /\ obj[e].ref >= 1
  BY <1>4, <1>6, <1>7, <1>8
<1>10. /\ obj' \in [Objects -> Exception] /\ \A x \in Objects \ {e} : obj'[x] = obj[x]
       /\ obj[e].ref = 1 => obj'[e] = Free
       /\ obj[e].ref # 1 => obj'[e] = [obj[e] EXCEPT !.ref = obj[e].ref - 1]
  BY <1>5, <1>7, <1>9, ReleaseOneObj
<1>11. CASE obj[e].ref = 1
  <2>1. InUse(e) = 0 /\ Cardinality(Dependents(e)) = 0 /\ ptrs'[e] = 0
    BY <1>4, <1>6, <1>7, <1>8, <1>11
  <2>2. Dependents(e) = {}
    BY <1>6, <2>1, FS_EmptySet
  <2> QED
    BY <1>1, <1>4, <1>8, <1>10, <1>11, <2>1, <2>2, PointerStep
<1>12. CASE obj[e].ref # 1
  <2>1. obj[e] \in Exception
    BY <1>7
  <2>2. SameButRef(obj[e], obj'[e]) /\ obj'[e].ref = obj[e].ref - 1
    BY <1>10, <1>12, <2>1 DEF SameButRef, Exception
  <2>3. obj'[e].ref - obj[e].ref = ptrs'[e] - ptrs[e]
    BY <1>8, <1>9, <2>2
  <2>4. InUse(e) = 1 \/ ptrs'[e] > 0 \/ Dependents(e) # {}
    <3>1. Dependents(e) = {} => Cardinality(Dependents(e)) = 0
      BY FS_EmptySet
    <3> QED
      BY <1>4, <1>6, <1>7, <1>8, <1>9, <1>12, <3>1
  <2> QED
    BY <1>1, <1>4, <1>8, <1>10, <2>2, <2>3, <2>4, PointerStep
<1> QED
  BY <1>11, <1>12

(***************************************************************************)
(* Throw expressions.                                                      *)
(***************************************************************************)

\* What is not allocated is referred to by nothing.
LEMMA FreeIsUnused ==
    ASSUME ObjectsAccounted, ObjectsInv, Live, NEW e \in Objects, ~obj[e].alloc
    PROVE  /\ obj[e] = Free /\ e \notin InFlight \union Handling /\ e \notin Building
           /\ ~(ptrs[e] > 0) /\ Dependents(e) = {} /\ InUse(e) = 0
<1>1. ~(InUse(e) = 1 \/ e \in Building \/ ptrs[e] > 0 \/ Dependents(e) # {})
  BY DEF ObjectsAccounted
<1> QED
  BY <1>1 DEF InUse, ObjectsInv

LEMMA AllocateKeeps ==
    ASSUME ExceptionsInv, __cxa_allocate_exception
    PROVE  ExceptionsInv'
<1>1. mode = Run /\ UNCHANGED <<caught, uncaught, ptrs, mode>> /\ Live /\ Live'
  BY DEF __cxa_allocate_exception, Live, Run
<1>2. /\ ExceptionTypes /\ FlightsInv /\ ObjectsInv
      /\ ObjectsAccounted /\ CaughtListIsNesting /\ UncaughtExact
  BY <1>1 DEF ExceptionsInv
<1>3. PICK e \in Objects : /\ ~obj[e].alloc /\ obj' = [obj EXCEPT ![e].alloc = TRUE]
                           /\ stack' = Append(stack, Frame("building", {}, e, 0))
  BY Zenon DEF __cxa_allocate_exception, Push
<1> DEFINE f == Frame("building", {}, e, 0)
           b == [Free EXCEPT !.alloc = TRUE]
<1>4. /\ obj[e] = Free /\ e \notin InFlight \union Handling /\ e \notin Building
      /\ ptrs[e] = 0 /\ Dependents(e) = {} /\ InUse(e) = 0
  BY <1>1, <1>2, <1>3, FreeIsUnused DEF ExceptionTypes
<1>5. f \in Frames /\ f.kind = "building" /\ f.ex = e
  BY DEF Frame, Frames
<1>6. b \in Exception /\ b.alloc /\ ~b.dependent /\ b.hc = 0 /\ b.catchTemp = 0
  BY BlankException
<1>7. stack \in Seq(Frames) /\ obj \in [Objects -> Exception] /\ ptrs \in [Objects -> Nat]
  BY <1>2 DEF ExceptionTypes
<1>8. /\ obj' \in [Objects -> Exception] /\ obj'[e] = b
      /\ \A x \in Objects \ {e} : obj'[x] = obj[x]
  <2>1. [obj EXCEPT ![e].alloc = TRUE] = [obj EXCEPT ![e] = b]
    BY <1>4, <1>7
  <2> HIDE DEF b
  <2> QED
    BY <1>3, <1>6, <1>7, <2>1, Zenon
<1>f. stack' = Append(stack, f)
  BY <1>3
<1> HIDE DEF f, b
<1> PICK n \in Nat : n = Len(stack)
  BY <1>7
<1>9. /\ stack' \in Seq(Frames) /\ Agree(stack, stack', n) /\ Len(stack') = n + 1
      /\ stack'[n + 1] = f /\ \A i \in 1..n : stack'[i] = stack[i]
  BY <1>5, <1>7, <1>f, PushKinds, PushFrame, Zenon
<1>10. \A k : /\ Kinds(stack, k) \subseteq 1..n
              /\ Kinds(stack', k) = IF k = "building" THEN Kinds(stack, k) \union {n + 1}
                                    ELSE Kinds(stack, k)
  BY <1>5, <1>7, <1>f, PushKinds
<1>11. ExceptionTypes'
  <2>1. \A i \in DOMAIN stack' : stack'[i].kind \in {"building", "handler", "landing"} =>
          stack'[i].ex \in Objects
    <3>1. \A i \in DOMAIN stack' : i = n + 1 \/ (i \in 1..n /\ i \in DOMAIN stack)
      BY <1>7, <1>9
    <3> QED
      BY <1>2, <1>5, <1>9, <3>1 DEF ExceptionTypes
  <2> QED
    BY <1>1, <1>2, <1>8, <1>9, <2>1 DEF ExceptionTypes
<1>12. Kinds(stack', "landing") = Kinds(stack, "landing")
       /\ Kinds(stack', "handler") = Kinds(stack, "handler")
  BY <1>10
<1>13. \A x : Blocks(stack', x) = Blocks(stack, x)
  BY <1>9, <1>10, <1>12, BlocksAgree
<1>14. FlightsInv' /\ InFlight' = InFlight
  <2>1. \A x \in InFlight : SameGoal(obj, obj', x)
    BY <1>1, <1>2, <1>4, <1>8, ReferredObjects, GoalsKept
  <2>2. \A x \in Objects : obj[x].catchTemp = 0 => obj'[x].catchTemp = 0
    BY <1>6, <1>8
  <2> QED
    BY <1>1, <1>2, <1>9, <1>10, <1>11, <1>12, <1>13, <2>1, <2>2, FlightsKept, Zenon
<1>15. CaughtListIsNesting'
  <2>1. \A x \in Objects : obj'[x].hc = obj[x].hc
    BY <1>4, <1>6, <1>8, FreeException
  <2>2. \A x \in Handling : obj'[x].next = obj[x].next
    BY <1>2, <1>4, <1>8, ReferredObjects
  <2> QED
    BY <1>1, <1>2, <1>9, <1>10, <1>11, <1>12, <1>14, <2>1, <2>2, CaughtKept
<1>16. Handling' = Handling /\ Building' = Building \union {e}
  <2>1. Handling' = Handling
    BY <1>9, <1>10, <1>12 DEF Handling
  <2>2. \A i \in Kinds(stack, "building") : stack'[i] = stack[i]
    BY <1>9, <1>10
  <2>3. Kinds(stack', "building") = Kinds(stack, "building") \union {n + 1}
    BY <1>10
  <2>4. stack'[n + 1].ex = e
    BY <1>5, <1>9
  <2>5. Building' = Building \union {e}
    BY <2>2, <2>3, <2>4 DEF Building
  <2> QED
    BY <2>1, <2>5
<1>17. \A x \in Objects : Dependents(x)' = Dependents(x) /\ InUse(x)' = InUse(x)
  <2>1. \A d \in Objects : /\ (obj'[d].alloc /\ obj'[d].dependent)
                              <=> (obj[d].alloc /\ obj[d].dependent)
                           /\ obj[d].dependent => obj'[d].primary = obj[d].primary
    BY <1>3, <1>4, <1>6, <1>8, FreeException
  <2> QED
    BY <1>14, <1>16, <2>1 DEF Dependents, InUse
<1>18. ObjectsAccounted'
  <2>1. \A x \in Objects \ {e} : x \in Building' <=> x \in Building
    BY <1>16
  <2>2. e \in Building' /\ ~obj'[e].dependent /\ obj'[e].alloc
    BY <1>6, <1>8, <1>16
  <2> QED
    BY <1>1, <1>2, <1>8, <1>17, <2>1, <2>2 DEF ObjectsAccounted
<1>19. ObjectsInv'
  <2>1. \A x \in Objects : ~obj'[x].alloc => obj'[x] = Free
    BY <1>2, <1>6, <1>8 DEF ObjectsInv
  <2>2. \A i, j \in Kinds(stack', "building") : stack'[i].ex = stack'[j].ex => i = j
    <3>1. \A i \in Kinds(stack, "building") : stack'[i] = stack[i] /\ stack[i].ex # e
      BY <1>4, <1>9, <1>10 DEF Building
    <3>2. Kinds(stack', "building") = Kinds(stack, "building") \union {n + 1}
      BY <1>10
    <3>3. stack'[n + 1].ex = e
      BY <1>5, <1>9
    <3> QED
      BY <1>2, <3>1, <3>2, <3>3 DEF ObjectsInv
  <2>3. \A x \in Building' : /\ obj'[x] = [Free EXCEPT !.alloc = TRUE] /\ ptrs'[x] = 0
                             /\ x \notin InFlight' \union Handling' /\ Dependents(x)' = {}
    <3>1. \A x \in Building : x # e /\ x \in Objects
      BY <1>2, <1>4, ReferredObjects
    <3>2. obj'[e] = [Free EXCEPT !.alloc = TRUE] /\ ptrs'[e] = 0
          /\ e \notin InFlight' \union Handling' /\ Dependents(e)' = {}
      BY <1>1, <1>4, <1>8, <1>14, <1>16, <1>17 DEF b
    <3>3. ASSUME NEW x \in Building
          PROVE  /\ obj'[x] = [Free EXCEPT !.alloc = TRUE] /\ ptrs'[x] = 0
                 /\ x \notin InFlight' \union Handling' /\ Dependents(x)' = {}
      BY <1>1, <1>2, <1>8, <1>14, <1>16, <1>17, <3>1, Zenon DEF ObjectsInv
    <3> QED
      BY <1>16, <3>2, <3>3, Zenon
  <2>4. \A d \in Objects : obj'[d].dependent =>
          /\ ptrs'[d] = 0 /\ Dependents(d)' = {}
          /\ obj'[d].primary \in Objects \ Building'
    <3> SUFFICES ASSUME NEW d \in Objects, obj'[d].dependent
                 PROVE  /\ ptrs'[d] = 0 /\ Dependents(d)' = {}
                        /\ obj'[d].primary \in Objects \ Building'
      OBVIOUS
    <3>1. d # e /\ obj'[d] = obj[d]
      BY <1>6, <1>8
    <3>2. obj[d].alloc
      BY <1>2, <3>1, FreeException DEF ObjectsInv
    <3>3. obj[d].primary # e
      BY <1>4, <3>1, <3>2 DEF Dependents
    <3>4. /\ ptrs[d] = 0 /\ Dependents(d) = {} /\ obj[d].primary \in Objects \ Building
      BY <1>2, <3>1 DEF ObjectsInv
    <3> QED
      BY <1>1, <1>16, <1>17, <3>1, <3>3, <3>4
  <2> QED
    BY <2>1, <2>2, <2>3, <2>4, Zenon DEF ObjectsInv
<1>20. UncaughtExact'
  BY <1>1, <1>2, <1>14 DEF UncaughtExact
<1> QED
  BY <1>11, <1>14, <1>15, <1>18, <1>19, <1>20 DEF ExceptionsInv

(***************************************************************************)
(* A new flight.                                                           *)
(***************************************************************************)

\* _Unwind_RaiseException, phase 1, when a frame stops the exception: the
\* flight goes to the frame found, and only catchTemp is written.
LEMMA RaiseGoes ==
    ASSUME NEW o \in [Objects -> Exception], NEW e \in Objects, o[e].catchTemp = 0,
           realExceptionFromException(o, e) \in Objects,
           NEW s \in Seq(Frames), NEW i, i = Search(o, e, s), i # 0,
           NEW q, q = IF Barrier(s[i]) THEN o ELSE [o EXCEPT ![e].catchTemp = i]
    PROVE  /\ q \in [Objects -> Exception]
           /\ \A x \in Objects \ {e} : q[x] = o[x]
           /\ SameButTemp(o[e], q[e])
           /\ GoesTo(q, s, Len(s) + 1, e, i)
<1>1. /\ i \in 1..Len(s) /\ Stops(o, s, e, i) /\ Len(s) \in Nat
      /\ \A j \in i + 1..Len(s) : ~Stops(o, s, e, j)
  BY SearchStops
<1>2. o[e] \in Exception /\ i \in Nat
  BY <1>1
<1>3. q \in [Objects -> Exception] /\ \A x \in Objects \ {e} : q[x] = o[x]
  <2>1. [o[e] EXCEPT !.catchTemp = i] \in Exception
    BY <1>2 DEF Exception
  <2>2. [o EXCEPT ![e].catchTemp = i] = [o EXCEPT ![e] = [o[e] EXCEPT !.catchTemp = i]]
    OBVIOUS
  <2> QED
    BY <2>1, <2>2
<1>4. /\ SameButTemp(o[e], q[e])
      /\ q[e].catchTemp = IF Barrier(s[i]) THEN 0 ELSE i
      /\ q[e].dependent = o[e].dependent /\ q[e].primary = o[e].primary /\ q[e].type = o[e].type
  BY <1>2 DEF Exception, SameButTemp
<1>5. realExceptionFromException(q, e) = realExceptionFromException(o, e)
  BY <1>4 DEF realExceptionFromException
<1>6. q[realExceptionFromException(o, e)].type = o[realExceptionFromException(o, e)].type
  <2>0. q[e].type = o[e].type /\ \A x \in Objects \ {e} : q[x] = o[x]
    BY <1>3, <1>4
  <2>1. \A x \in Objects : q[x].type = o[x].type
    BY ONLY <2>0
  <2> QED
    BY <2>1
<1>7. \A j \in 1..Len(s) : Stops(q, s, e, j) <=> Stops(o, s, e, j)
  BY <1>5, <1>6 DEF Stops, Matches
<1>8. GoesTo(q, s, Len(s) + 1, e, i)
  <2>1. i \in 1..(Len(s) + 1) - 1 /\ (Len(s) + 1) - 1 = Len(s)
    BY <1>1
  <2>2. q[e].catchTemp = IF Barrier(s[i]) THEN 0 ELSE i
    BY <1>4
  <2>3. Stops(q, s, e, i) /\ \A j \in i + 1..Len(s) : ~Stops(q, s, e, j)
    BY ONLY <1>1, <1>7
  <2> QED
    BY ONLY <2>1, <2>2, <2>3 DEF GoesTo
<1> QED
  BY <1>3, <1>4, <1>8

\* The flights after a throw: the new one above the stack, the others as before.
LEMMA FlightAdded ==
    ASSUME ExceptionTypes, ExceptionTypes', FlightsInv, mode = Run,
           NEW n, Agree(stack, stack', n), Kinds(stack, "landing") \subseteq 1..n,
           Kinds(stack', "landing") = Kinds(stack, "landing"),
           \A x : Blocks(stack', x) = Blocks(stack, x),
           NEW e \in Objects, e \notin InFlight, NEW g,
           mode' = [pc |-> "unwind", ex |-> e, target |-> g],
           \A x \in InFlight : SameGoal(obj, obj', x),
           \A x \in Objects \ {e} : obj'[x].catchTemp = obj[x].catchTemp,
           GoesTo(obj', stack', Len(stack') + 1, e, g),
           Blocks(stack', e) # {} => Enclosing(stack', Len(stack') + 1) = e
    PROVE  FlightsInv' /\ InFlight' = InFlight \union {e}
<1>0. stack \in Seq(Frames) /\ stack' \in Seq(Frames)
  BY Zenon DEF ExceptionTypes
<1> PICK m \in Nat : m = Len(stack')
  BY <1>0
<1>1. /\ n \in Nat /\ n <= m /\ n <= Len(stack) /\ DOMAIN stack' = 1..m /\ DOMAIN stack = 1..Len(stack)
      /\ \A k \in 1..n : stack'[k] = stack[k] /\ Len(stack) \in Nat
  BY <1>0, SMTT(30), Z3T(30), Zenon DEF Agree
<1> DEFINE K == Kinds(stack, "landing")
<1>2. Flights = K /\ Flights' = K \union {m + 1}
  BY Zenon DEF Flights, Run
<1>3. \A i \in K : i \in 1..n /\ Flight(i) = stack[i] /\ Flight(i)' = stack[i]
  BY <1>1, SMTT(30), Z3T(30), Zenon DEF Flight
<1>4. Flight(m + 1)' = [pc |-> "unwind", ex |-> e, target |-> g]
  <2>1. m + 1 \notin DOMAIN stack'
    BY <1>1, SMTT(30), Z3T(30), Zenon
  <2> QED
    BY <2>1, Zenon DEF Flight
<1>5. InFlight' = InFlight \union {e}
  <2>1. \A i \in K : stack'[i] = stack[i]
    BY <1>1, Zenon
  <2> QED
    BY <2>1, Zenon DEF InFlight, Run
<1> HIDE DEF K
<1>6. \A i \in K : Flight(i).ex \in InFlight /\ OnCourse(obj, stack, i, Flight(i).ex, Flight(i).target)
  BY <1>2, FlightFrames, Zenon DEF FlightsInv
<1>7. \A i, j \in Flights' : Flight(i)'.ex = Flight(j)'.ex => i = j
  <2>1. \A i, j \in K : Flight(i)'.ex = Flight(j)'.ex => i = j
    BY <1>2, <1>3, SMTT(60), Z3T(60), Zenon DEF FlightsInv
  <2>2. \A i \in K : Flight(i)'.ex # e
    BY <1>3, <1>6, Zenon
  <2> QED
    BY <1>2, <1>4, <2>1, <2>2, SMTT(30), Z3T(30), Zenon
<1>8. ASSUME NEW i \in K PROVE OnCourse(obj', stack', i, Flight(i)'.ex, Flight(i)'.target)
  <2>1. i \in 1..n + 1 /\ Flight(i)' = Flight(i)
    BY <1>1, <1>3, SMTT(30), Z3T(30), Zenon
  <2>2. OnCourse(obj, stack, i, Flight(i).ex, Flight(i).target)
        /\ SameGoal(obj, obj', Flight(i).ex)
    BY <1>6, Zenon
  <2> QED
    BY <1>0, <2>1, <2>2, CourseKept, Zenon
<1>9. OnCourse(obj', stack', m + 1, e, g)
  <2>1. \A j \in Blocks(stack', e) : j < m + 1
    BY <1>1, SMTT(30), Z3T(30), Zenon DEF Blocks, Kinds
  <2> QED
    BY <2>1, Zenon DEF OnCourse
<1>10. \A i \in Flights' : OnCourse(obj', stack', i, Flight(i)'.ex, Flight(i)'.target)
  BY <1>2, <1>4, <1>8, <1>9, SMTT(30), Z3T(30), Zenon
<1>11. \A x \in Objects : x \notin InFlight' => obj'[x].catchTemp = 0
  BY <1>5, Zenon DEF FlightsInv
<1> QED
  BY <1>5, <1>7, <1>10, <1>11, Zenon DEF FlightsInv

\* The count of exceptions on their way goes up by one.
LEMMA OneMoreInFlight ==
    ASSUME ExceptionTypes, UncaughtExact, Live, NEW e \in Objects, e \notin InFlight,
           InFlight' = InFlight \union {e}, uncaught' = uncaught + 1
    PROVE  UncaughtExact'
<1>1. IsFiniteSet(InFlight)
  BY ReferredObjects, ObjectsAssumption, FS_Subset
<1>2. Cardinality(InFlight \union {e}) = Cardinality(InFlight) + 1
  BY <1>1, FS_AddElement
<1> QED
  BY <1>2 DEF UncaughtExact

\* Without a frame that stops it the exception ends the program.
LEMMA RaiseEnds ==
    ASSUME NEW o, NEW e, NEW s, NEW u, Raise(o, e, s, u), Search(o, e, s) = 0
    PROVE  ~Live'
  BY DEF Raise, Stop, Live

\* Otherwise it sets out.
LEMMA RaiseStarts ==
    ASSUME NEW o, NEW e, NEW s, NEW u, Raise(o, e, s, u), Search(o, e, s) # 0
    PROVE  LET i == Search(o, e, s) IN
           /\ obj' = IF Barrier(s[i]) THEN o ELSE [o EXCEPT ![e].catchTemp = i]
           /\ mode' = [pc |-> "unwind", ex |-> e, target |-> i]
           /\ uncaught' = u /\ caught' = caught
  BY DEF Raise

\* Both together: an exception that sets out goes to the frame that stops it.
LEMMA Raised ==
    ASSUME NEW o \in [Objects -> Exception], NEW e \in Objects, o[e].catchTemp = 0,
           realExceptionFromException(o, e) \in Objects,
           NEW s \in Seq(Frames), NEW u, Raise(o, e, s, u), Search(o, e, s) # 0
    PROVE  \E i \in Nat :
             /\ obj' \in [Objects -> Exception]
             /\ \A x \in Objects \ {e} : obj'[x] = o[x]
             /\ SameButTemp(o[e], obj'[e])
             /\ GoesTo(obj', s, Len(s) + 1, e, i)
             /\ mode' = [pc |-> "unwind", ex |-> e, target |-> i]
             /\ uncaught' = u /\ caught' = caught
<1> PICK i : i = Search(o, e, s)
  OBVIOUS
<1>1. /\ obj' = IF Barrier(s[i]) THEN o ELSE [o EXCEPT ![e].catchTemp = i]
      /\ mode' = [pc |-> "unwind", ex |-> e, target |-> i]
      /\ uncaught' = u /\ caught' = caught
  BY RaiseStarts
<1> PICK q : q = obj'
  OBVIOUS
<1>2. q = IF Barrier(s[i]) THEN o ELSE [o EXCEPT ![e].catchTemp = i]
  BY <1>1
<1>3. i # 0 /\ i = Search(o, e, s)
  OBVIOUS
<1>4. /\ q \in [Objects -> Exception]
      /\ \A x \in Objects \ {e} : q[x] = o[x]
      /\ SameButTemp(o[e], q[e])
      /\ GoesTo(q, s, Len(s) + 1, e, i)
  BY <1>2, <1>3, RaiseGoes, Zenon
<1>5. i \in Nat
  BY <1>4 DEF GoesTo
<1> QED
  BY <1>1, <1>4, <1>5

\* __cxa_rethrow of the exception at the head of the list.
LEMMA RethrowKeeps ==
    ASSUME ExceptionsInv, __cxa_rethrow
    PROVE  ExceptionsInv'
<1>0. ASSUME mode' = Stop("terminate") \/ mode' = Stop("assert") PROVE ExceptionsInv'
  BY <1>0 DEF ExceptionsInv, Live, Stop
<1> DEFINE o == [obj EXCEPT ![caught].hc = -@]
<1>1. mode = Run /\ UNCHANGED <<stack, ptrs>> /\ Live
  BY DEF __cxa_rethrow, Live, Run
<1> SUFFICES ASSUME caught # None, obj[caught].hc > 0, Raise(o, caught, stack, uncaught + 1)
             PROVE  ExceptionsInv'
  BY <1>0 DEF __cxa_rethrow, Rethrown
<1>2. CASE Search(o, caught, stack) = 0
  BY <1>2, RaiseEnds DEF ExceptionsInv
<1>3. CASE Search(o, caught, stack) # 0
  <2> PICK e : e = caught
    OBVIOUS
  <2>1. /\ ExceptionTypes /\ FlightsInv /\ ObjectsInv
        /\ ObjectsAccounted /\ CaughtListIsNesting /\ UncaughtExact
    BY <1>1 DEF ExceptionsInv
  <2>2. stack \in Seq(Frames) /\ obj \in [Objects -> Exception] /\ uncaught \in Int
    BY <2>1 DEF ExceptionTypes
  <2>3. e \in Handling /\ e \in Objects \ Building /\ obj[e].alloc
    BY <1>1, <2>1, CaughtIsHandled, FlyingIsAlive
  <2>4. obj[e] \in Exception /\ obj[e].hc \in Nat \ {0}
    BY <2>2, <2>3 DEF Exception
  <2>5. e \notin InFlight /\ obj[e].hc = Cardinality(Blocks(stack, e))
    <3>1. obj[e].hc = IF e \in InFlight THEN -Cardinality(Blocks(stack, e))
                      ELSE Cardinality(Blocks(stack, e))
      BY <1>1, <2>1, <2>3 DEF CaughtListIsNesting
    <3>2. Cardinality(Blocks(stack, e)) \in Nat
      BY <2>2, BlocksFinite
    <3> QED
      BY <2>4, <3>1, <3>2
  <2>6. /\ o \in [Objects -> Exception] /\ \A x \in Objects \ {e} : o[x] = obj[x]
        /\ o[e] = [obj[e] EXCEPT !.hc = -obj[e].hc]
    <3>1. [obj[e] EXCEPT !.hc = -obj[e].hc] \in Exception
      BY <2>4 DEF Exception
    <3>2. o = [obj EXCEPT ![e] = [obj[e] EXCEPT !.hc = -obj[e].hc]]
      OBVIOUS
    <3> QED
      BY <2>2, <2>3, <3>1, <3>2
  <2> HIDE DEF o
  <2>7. /\ o[e].hc = -obj[e].hc /\ o[e].catchTemp = 0
        /\ o[e].alloc = obj[e].alloc /\ o[e].dependent = obj[e].dependent
        /\ o[e].primary = obj[e].primary /\ o[e].ref = obj[e].ref
        /\ o[e].type = obj[e].type /\ o[e].next = obj[e].next
    <3>1. obj[e].catchTemp = 0
      BY <2>1, <2>3, <2>5, Zenon DEF FlightsInv
    <3> QED
      BY <2>4, <2>6, <3>1 DEF Exception
  <2>8. realExceptionFromException(o, e) \in Objects
    <3>1. realExceptionFromException(o, e) = realExceptionFromException(obj, e)
      BY <2>7 DEF realExceptionFromException
    <3> QED
      BY <1>1, <2>1, <2>3, <3>1, RealIsAlive, Zenon
  <2>9. Raise(o, e, stack, uncaught + 1) /\ Search(o, e, stack) # 0 /\ o[e].catchTemp = 0
    BY <1>3, <2>7
  <2>10. PICK i \in Nat :
           /\ obj' \in [Objects -> Exception]
           /\ \A x \in Objects \ {e} : obj'[x] = o[x]
           /\ SameButTemp(o[e], obj'[e])
           /\ GoesTo(obj', stack, Len(stack) + 1, e, i)
           /\ mode' = [pc |-> "unwind", ex |-> e, target |-> i]
           /\ uncaught' = uncaught + 1 /\ caught' = caught
    BY ONLY Zenon, <2>2, <2>3, <2>6, <2>8, <2>9, Raised
  <2>11. /\ obj'[e].hc = -obj[e].hc /\ obj'[e].alloc = obj[e].alloc
         /\ obj'[e].dependent = obj[e].dependent /\ obj'[e].primary = obj[e].primary
         /\ obj'[e].ref = obj[e].ref /\ obj'[e].type = obj[e].type /\ obj'[e].next = obj[e].next
    BY <2>7, <2>10, Zenon DEF SameButTemp
  <2>12. \A x \in Objects \ {e} : obj'[x] = obj[x]
    BY <2>6, <2>10
  <2>14. ExceptionTypes'
    BY <1>1, <2>1, <2>3, <2>10, SMTT(60), Z3T(60), Zenon DEF ExceptionTypes
  <2>15. /\ Agree(stack, stack', Len(stack))
         /\ \A k : Kinds(stack, k) \subseteq 1..Len(stack) /\ Kinds(stack', k) = Kinds(stack, k)
    BY <1>1, <2>2, AgreeSelf
  <2>16. FlightsInv' /\ InFlight' = InFlight \union {e}
    <3>1. \A x \in InFlight : SameGoal(obj, obj', x)
      <4>1. \A x \in Objects : x \in InFlight \/ Dependents(x) # {} =>
              /\ obj'[x].dependent = obj[x].dependent /\ obj'[x].primary = obj[x].primary
              /\ obj'[x].type = obj[x].type
        BY <2>11, <2>12, Zenon
      <4>2. \A x \in InFlight : x \in Objects \ {e}
        BY <2>1, <2>5, ReferredObjects
      <4> QED
        BY <1>1, <2>1, <2>12, <4>1, <4>2, GoalsKept, Zenon
    <3>2. Blocks(stack', e) # {} => Enclosing(stack', Len(stack') + 1) = e
      BY <1>1, <2>1 DEF CaughtListIsNesting
    <3>3. \A x \in Objects \ {e} : obj'[x].catchTemp = obj[x].catchTemp
      BY <2>12
    <3>4. GoesTo(obj', stack', Len(stack') + 1, e, i) /\ \A x : Blocks(stack', x) = Blocks(stack, x)
      BY <1>1, <2>10, Zenon
    <3> QED
      BY <1>1, <2>1, <2>3, <2>5, <2>10, <2>14, <2>15, <3>1, <3>2, <3>3, <3>4, FlightAdded, Zenon
  <2>17. CaughtListIsNesting'
    <3>1. ASSUME NEW x \in Objects
          PROVE  obj'[x].hc = IF x \in InFlight' THEN -Cardinality(Blocks(stack, x))
                              ELSE Cardinality(Blocks(stack, x))
      <4>1. obj[x].hc = IF x \in InFlight THEN -Cardinality(Blocks(stack, x))
                        ELSE Cardinality(Blocks(stack, x))
        BY <1>1, <2>1, Zenon DEF CaughtListIsNesting
      <4>2. CASE x = e
        BY <2>5, <2>11, <2>16, <4>2, Zenon
      <4>3. CASE x # e
        BY <2>12, <2>16, <4>1, <4>3, Zenon
      <4> QED
        BY <4>2, <4>3, Zenon
    <3>2. \A x \in Handling : obj'[x].next = obj[x].next
      BY <2>1, <2>11, <2>12, ReferredObjects, Zenon
    <3> QED
      BY <1>1, <2>1, <2>10, <2>14, <2>15, <3>1, <3>2, ListKept, Zenon
  <2>18. ObjectsInv' /\ ObjectsAccounted'
    <3>1. Handling' = Handling /\ Building' = Building
      BY <1>1 DEF Handling, Building
    <3>2. \A i1, j1 \in Kinds(stack', "building") : stack'[i1].ex = stack'[j1].ex => i1 = j1
      BY <1>1, <2>1 DEF ObjectsInv
    <3>3. \A x \in Objects : /\ obj'[x].alloc = obj[x].alloc
                             /\ obj'[x].dependent = obj[x].dependent
                             /\ obj'[x].primary = obj[x].primary
                             /\ obj'[x].ref = obj[x].ref
      BY <2>11, <2>12, Zenon
    <3>4. \A x \in Objects : ~obj[x].alloc \/ x \in Building => obj'[x] = obj[x]
      BY <2>3, <2>12
    <3>5. \A x : x \in InFlight' \union Handling' <=> x \in InFlight \union Handling
      BY <2>3, <2>16, <3>1
    <3> QED
      BY <1>1, <2>1, <2>14, <3>1, <3>2, <3>3, <3>4, <3>5, LifeKept, Zenon
  <2>19. UncaughtExact'
    BY <1>1, <2>1, <2>3, <2>5, <2>10, <2>16, OneMoreInFlight, Zenon
  <2> QED
    BY <2>14, <2>16, <2>17, <2>18, <2>19 DEF ExceptionsInv
<1> QED
  BY <1>2, <1>3

\* __cxa_throw: the object under construction sets out.
LEMMA ThrowKeeps ==
    ASSUME ExceptionsInv, __cxa_throw
    PROVE  ExceptionsInv'
<1>1. mode = Run /\ stack # <<>> /\ stack' = Popped(stack) /\ ptrs' = ptrs /\ Live
  BY DEF __cxa_throw, Live, Run
<1>2. /\ ExceptionTypes /\ FlightsInv /\ ObjectsInv
      /\ ObjectsAccounted /\ CaughtListIsNesting /\ UncaughtExact
  BY <1>1 DEF ExceptionsInv
<1>3. stack \in Seq(Frames) /\ obj \in [Objects -> Exception] /\ ptrs \in [Objects -> Nat]
  BY <1>2 DEF ExceptionTypes
<1> PICK e : e = Top.ex
  OBVIOUS
<1>4. PICK n \in Nat :
        /\ Len(stack) = n + 1 /\ Len(stack') = n /\ stack' \in Seq(Frames)
        /\ Agree(stack, stack', n)
        /\ DOMAIN stack = 1..n + 1 /\ DOMAIN stack' = 1..n /\ \A i \in 1..n : stack'[i] = stack[i]
        /\ \A k : /\ Kinds(stack', k) = Kinds(stack, k) \ {n + 1} /\ Kinds(stack', k) \subseteq 1..n
                  /\ stack[n + 1].kind = k => n + 1 \in Kinds(stack, k)
                  /\ stack[n + 1].kind # k => Kinds(stack', k) = Kinds(stack, k)
  BY ONLY SMTT(30), Z3T(30), Zenon, <1>1, <1>3, TopPopped
<1>5. /\ stack[n + 1].kind = "building" /\ stack[n + 1].ex = e
      /\ n + 1 \in Kinds(stack, "building")
      /\ \A k : k # "building" => Kinds(stack', k) = Kinds(stack, k)
  <2>1. Top = stack[n + 1] /\ Top.kind = "building"
    BY <1>4 DEF __cxa_throw, Top
  <2> QED
    BY <1>4, <2>1
<1>6. /\ e \in Building /\ e \in Objects /\ obj[e] = [Free EXCEPT !.alloc = TRUE]
      /\ e \notin InFlight \union Handling /\ ptrs[e] = 0 /\ Dependents(e) = {}
  <2>1. e \in Building
    BY <1>5 DEF Building
  <2> QED
    BY <2>1, <1>2, ReferredObjects, Zenon DEF ObjectsInv
<1>7. PICK t \in Types :
        Raise([obj EXCEPT ![e].type = t, ![e].ref = 1], e, stack', uncaught + 1)
  BY <1>1 DEF __cxa_throw
<1> DEFINE o == [obj EXCEPT ![e].type = t, ![e].ref = 1]
           v == [obj[e] EXCEPT !.type = t, !.ref = 1]
<1>8. /\ v \in Exception /\ v.alloc /\ ~v.dependent /\ v.type = t /\ v.ref = 1 /\ v.hc = 0
      /\ v.catchTemp = 0
  <2>1. obj[e] \in Exception /\ obj[e].alloc /\ ~obj[e].dependent /\ obj[e].hc = 0
        /\ obj[e].catchTemp = 0
    BY <1>6, BlankException
  <2> QED
    BY <2>1, Zenon DEF Exception
<1>9. /\ o \in [Objects -> Exception] /\ o[e] = v /\ \A x \in Objects \ {e} : o[x] = obj[x]
  <2>1. o = [obj EXCEPT ![e] = v]
    BY <1>3, <1>6, Zenon
  <2> HIDE DEF v, o
  <2> QED
    BY <2>1, <1>3, <1>6, <1>8
<1>10. Raise(o, e, stack', uncaught + 1)
  BY <1>7
<1> HIDE DEF o, v
<1>11. CASE Search(o, e, stack') = 0
  BY <1>10, <1>11, RaiseEnds DEF ExceptionsInv
<1>12. CASE Search(o, e, stack') # 0
  <2>1. o[e].catchTemp = 0 /\ realExceptionFromException(o, e) \in Objects
    BY <1>6, <1>8, <1>9 DEF realExceptionFromException
  <2>2. PICK i \in Nat :
          /\ obj' \in [Objects -> Exception]
          /\ \A x \in Objects \ {e} : obj'[x] = o[x]
          /\ SameButTemp(o[e], obj'[e])
          /\ GoesTo(obj', stack', Len(stack') + 1, e, i)
          /\ mode' = [pc |-> "unwind", ex |-> e, target |-> i]
          /\ uncaught' = uncaught + 1 /\ caught' = caught
    BY ONLY <1>4, <1>6, <1>9, <1>10, <1>12, <2>1, Raised
  <2>3. /\ obj'[e].alloc /\ ~obj'[e].dependent /\ obj'[e].ref = 1 /\ obj'[e].hc = 0
        /\ \A x \in Objects \ {e} : obj'[x] = obj[x]
    BY <1>8, <1>9, <2>2, Zenon DEF SameButTemp
  <2>4. Live' /\ mode' \in [pc : {"unwind"}, ex : Objects, target : Nat]
    BY <1>6, <2>2 DEF Live
  <2>5. ExceptionTypes'
    <3>1. \A j \in DOMAIN stack' : stack'[j].kind \in {"building", "handler", "landing"} =>
            stack'[j].ex \in Objects
      <4>1. \A j \in DOMAIN stack' : j \in 1..n /\ j \in DOMAIN stack
        BY <1>4
      <4> QED
        BY <1>2, <1>4, <4>1, Zenon DEF ExceptionTypes
    <3>2. caught' \in Objects \union {None} /\ uncaught' \in Int
      BY <1>2, <2>2, SMTT(30), Z3T(30), Zenon DEF ExceptionTypes
    <3> QED
      BY <1>1, <1>3, <1>4, <2>2, <2>4, <3>1, <3>2, Zenon DEF ExceptionTypes
  <2>6. /\ Kinds(stack', "landing") = Kinds(stack, "landing")
        /\ Kinds(stack', "handler") = Kinds(stack, "handler")
        /\ Kinds(stack, "landing") \subseteq 1..n /\ Kinds(stack, "handler") \subseteq 1..n
    BY <1>4, <1>5, Zenon
  <2>7. \A x : Blocks(stack', x) = Blocks(stack, x)
    BY <1>4, <2>6, BlocksAgree, Zenon
  <2>8. FlightsInv' /\ InFlight' = InFlight \union {e}
    <3>1. \A x \in InFlight : SameGoal(obj, obj', x)
      BY <1>1, <1>2, <1>6, <2>3, ReferredObjects, GoalsKept
    <3>2. Blocks(stack', e) = {}
      BY <1>6, <2>7, HandlingBlocks
    <3>3. \A x \in Objects \ {e} : obj'[x].catchTemp = obj[x].catchTemp
      BY <2>3
    <3> QED
      BY <1>1, <1>2, <1>4, <1>6, <2>2, <2>5, <2>6, <2>7, <3>1, <3>2, <3>3, FlightAdded
  <2>9. CaughtListIsNesting'
    <3>1. \A x \in Objects : obj'[x].hc = obj[x].hc
      <4>1. obj[e].hc = 0
        BY <1>6, BlankException
      <4> QED
        BY <2>3, <4>1
    <3>2. \A x \in Handling : x \in Objects \ {e}
      BY <1>2, <1>6, ReferredObjects
    <3>3. \A x \in Handling : obj'[x].next = obj[x].next /\ (x \in InFlight' <=> x \in InFlight)
      BY <2>3, <2>8, <3>2
    <3> QED
      BY <1>1, <1>2, <1>4, <2>2, <2>5, <2>6, <3>1, <3>3, CaughtKept, Zenon
  <2>10. Handling' = Handling /\ Building' = Building \ {e}
    <3>1. Handling' = Handling
      BY <1>4, <2>6 DEF Handling
    <3>2. \A j \in Kinds(stack, "building") : stack[j].ex = e => j = n + 1
      BY <1>2, <1>5 DEF ObjectsInv
    <3>3. /\ Kinds(stack', "building") = Kinds(stack, "building") \ {n + 1}
          /\ \A j \in Kinds(stack', "building") : stack'[j] = stack[j]
      BY <1>4
    <3> QED
      BY <1>5, <3>1, <3>2, <3>3 DEF Building
  <2>11. \A x \in Objects : Dependents(x)' = Dependents(x)
    <3>1. ~obj[e].dependent
      BY <1>6, BlankException
    <3> QED
      BY <2>3, <3>1 DEF Dependents
  <2>12. InUse(e)' = 1 /\ \A x \in Objects \ {e} : InUse(x)' = InUse(x)
    BY <2>8, <2>10 DEF InUse
  <2>13. ObjectsAccounted'
    <3>1. ASSUME NEW x \in Objects
          PROVE  /\ obj'[x].alloc <=> (InUse(x)' = 1 \/ x \in Building' \/ ptrs'[x] > 0
                                         \/ Dependents(x)' # {})
                 /\ obj'[x].alloc /\ ~obj'[x].dependent /\ x \notin Building' =>
                      obj'[x].ref = InUse(x)' + ptrs'[x] + Cardinality(Dependents(x)')
      <4>1. CASE x = e
        <5>1. Cardinality(Dependents(e)') = 0
          BY <1>6, <2>11, FS_EmptySet
        <5> QED
          BY <1>1, <1>6, <2>3, <2>12, <4>1, <5>1
      <4>2. CASE x # e
        <5>1. obj'[x] = obj[x] /\ InUse(x)' = InUse(x) /\ Dependents(x)' = Dependents(x)
              /\ (x \in Building' <=> x \in Building)
          BY <2>3, <2>10, <2>11, <2>12, <4>2, Zenon
        <5> QED
          BY <1>1, <1>2, <5>1, Zenon DEF ObjectsAccounted
      <4> QED
        BY <4>1, <4>2, Zenon
    <3> QED
      BY <3>1, Zenon DEF ObjectsAccounted
  <2>14. ObjectsInv'
    <3>1. \A x \in Objects : ~obj'[x].alloc => obj'[x] = Free
      BY <1>2, <2>3 DEF ObjectsInv
    <3>2. \A j, k \in Kinds(stack', "building") : stack'[j].ex = stack'[k].ex => j = k
      BY <1>2, <1>4 DEF ObjectsInv
    <3>3. \A x \in Building' : /\ obj'[x] = [Free EXCEPT !.alloc = TRUE]
                               /\ x \notin InFlight' \union Handling' /\ ptrs'[x] = 0
                               /\ Dependents(x)' = {}
      <4> SUFFICES ASSUME NEW x \in Building'
                   PROVE  /\ obj'[x] = [Free EXCEPT !.alloc = TRUE]
                          /\ x \notin InFlight' \union Handling' /\ ptrs'[x] = 0
                          /\ Dependents(x)' = {}
        BY Zenon
      <4>1. x \in Building /\ x # e /\ x \in Objects
        BY <1>2, <2>10, ReferredObjects
      <4> QED
        BY <1>1, <1>2, <2>3, <2>8, <2>10, <2>11, <4>1, ZenonT(30) DEF ObjectsInv
    <3>4. \A d \in Objects : obj'[d].dependent =>
            /\ ptrs'[d] = 0 /\ Dependents(d)' = {}
            /\ obj'[d].primary \in Objects \ Building'
      BY <1>1, <1>2, <2>3, <2>10, <2>11 DEF ObjectsInv
    <3> QED
      BY <3>1, <3>2, <3>3, <3>4, Zenon DEF ObjectsInv
  <2>15. UncaughtExact'
    BY <1>1, <1>2, <1>6, <2>2, <2>8, OneMoreInFlight
  <2> QED
    BY <2>5, <2>8, <2>9, <2>13, <2>14, <2>15 DEF ExceptionsInv
<1> QED
  BY <1>11, <1>12

\* The dependent exception made for e, and the reference it holds.
Depending(p, d, e) ==
  [p EXCEPT ![d] = [Free EXCEPT !.alloc = TRUE, !.dependent = TRUE, !.type = Lsda, !.primary = e],
            ![e].ref = @ + 1]

LEMMA DependentMade ==
    ASSUME NEW p \in [Objects -> Exception], NEW e \in Objects, NEW d \in Objects \ {e},
           NEW o, o = Depending(p, d, e)
    PROVE  /\ o \in [Objects -> Exception]
           /\ \A x \in Objects \ {d, e} : o[x] = p[x]
           /\ o[d].alloc /\ o[d].dependent /\ o[d].primary = e /\ o[d].hc = 0
           /\ o[d].catchTemp = 0
           /\ SameButRef(p[e], o[e]) /\ o[e].ref = p[e].ref + 1
<1> DEFINE D == [Free EXCEPT !.alloc = TRUE, !.dependent = TRUE, !.type = Lsda, !.primary = e]
           v == [p[e] EXCEPT !.ref = @ + 1]
<1>1. D.alloc /\ D.dependent /\ D.primary = e /\ D.hc = 0 /\ D.catchTemp = 0
  BY DEF Free
<1>2. D \in Exception
  BY FreeException, Zenon DEF Exception
<1>3. p[e] \in Exception
  OBVIOUS
<1>4. v \in Exception /\ v.ref = p[e].ref + 1 /\ SameButRef(p[e], v)
  BY <1>3 DEF Exception, SameButRef
<1>5. o = [[p EXCEPT ![d] = D] EXCEPT ![e] = v]
  BY Zenon DEF Depending
<1> HIDE DEF D, v
<1>6. /\ o \in [Objects -> Exception] /\ o[d] = D /\ o[e] = v
      /\ \A x \in Objects \ {d, e} : o[x] = p[x]
  BY ONLY <1>2, <1>4, <1>5, p \in [Objects -> Exception], e \in Objects, d \in Objects \ {e}
<1> QED
  BY <1>1, <1>4, <1>6

\* __cxa_rethrow_primary_exception: a dependent exception sets out.
LEMMA RethrowPrimaryKeeps ==
    ASSUME ExceptionsInv, __cxa_rethrow_primary_exception
    PROVE  ExceptionsInv'
<1>1. mode = Run /\ stack' = stack /\ ptrs' = ptrs /\ Live
  BY DEF __cxa_rethrow_primary_exception, Live, Run
<1>2. /\ ExceptionTypes /\ FlightsInv /\ ObjectsInv
      /\ ObjectsAccounted /\ CaughtListIsNesting /\ UncaughtExact
  BY <1>1 DEF ExceptionsInv
<1>3. stack \in Seq(Frames) /\ obj \in [Objects -> Exception] /\ ptrs \in [Objects -> Nat]
  BY <1>2 DEF ExceptionTypes
<1>4. PICK e \in Objects, d \in Objects :
        /\ ptrs[e] > 0 /\ ~obj[d].alloc
        /\ Raise(Depending(obj, d, e), d, stack, uncaught + 1)
  BY Zenon DEF __cxa_rethrow_primary_exception, Depending
<1>5. PICK o : o = Depending(obj, d, e) /\ Raise(o, d, stack, uncaught + 1)
  BY <1>4
<1>6. /\ obj[e].alloc /\ ~obj[e].dependent /\ e \notin Building
      /\ obj[e].ref = InUse(e) + ptrs[e] + Cardinality(Dependents(e))
  BY <1>1, <1>2, <1>4, PointedIsAlive, Zenon
<1>7. /\ obj[d] = Free /\ d \notin InFlight \union Handling /\ d \notin Building
      /\ ptrs[d] = 0 /\ Dependents(d) = {} /\ InUse(d) = 0 /\ d # e
  BY <1>1, <1>2, <1>3, <1>4, <1>6, FreeIsUnused, SMTT(30), Z3T(30), Zenon
<1>8. /\ o \in [Objects -> Exception]
      /\ \A x \in Objects \ {d, e} : o[x] = obj[x]
      /\ o[d].alloc /\ o[d].dependent /\ o[d].primary = e /\ o[d].hc = 0
      /\ o[d].catchTemp = 0
      /\ SameButRef(obj[e], o[e]) /\ o[e].ref = obj[e].ref + 1
  BY <1>3, <1>5, <1>7, DependentMade, SMTT(30), Z3T(30), Zenon
<1>9. CASE Search(o, d, stack) = 0
  BY <1>5, <1>9, RaiseEnds DEF ExceptionsInv
<1>10. CASE Search(o, d, stack) # 0
  <2>0. Raise(o, d, stack, uncaught + 1) /\ realExceptionFromException(o, d) \in Objects
    BY <1>5, <1>8 DEF realExceptionFromException
  <2>1. PICK i \in Nat :
          /\ obj' \in [Objects -> Exception]
          /\ \A x \in Objects \ {d} : obj'[x] = o[x]
          /\ SameButTemp(o[d], obj'[d])
          /\ GoesTo(obj', stack, Len(stack) + 1, d, i)
          /\ mode' = [pc |-> "unwind", ex |-> d, target |-> i]
          /\ uncaught' = uncaught + 1 /\ caught' = caught
    BY ONLY Zenon, <1>3, d \in Objects, <1>8, <1>10, <2>0, Raised
  <2>2. /\ obj'[d].alloc /\ obj'[d].dependent /\ obj'[d].primary = e /\ obj'[d].hc = 0
        /\ obj'[e] = o[e] /\ SameButRef(obj[e], obj'[e]) /\ obj'[e].ref = obj[e].ref + 1
        /\ \A x \in Objects \ {d, e} : obj'[x] = obj[x]
    BY <1>7, <1>8, <2>1, Zenon DEF SameButTemp
  <2>3. \A x \in Objects \ {d} : SameButRef(obj[x], obj'[x])
    BY <2>2, Zenon DEF SameButRef
  <2>4. ExceptionTypes'
    <3>1. mode' \in [pc : {"unwind"}, ex : Objects, target : Nat]
      BY <2>1
    <3>2. caught' \in Objects \union {None} /\ uncaught' \in Int
      BY <1>2, <2>1, SMTT(30), Z3T(30), Zenon DEF ExceptionTypes
    <3> QED
      BY <1>1, <1>2, <1>3, <2>1, <3>1, <3>2, Zenon DEF ExceptionTypes
  <2>5. /\ Agree(stack, stack', Len(stack))
        /\ \A k : Kinds(stack, k) \subseteq 1..Len(stack) /\ Kinds(stack', k) = Kinds(stack, k)
    BY <1>1, <1>3, AgreeSelf, Zenon
  <2>6. FlightsInv' /\ InFlight' = InFlight \union {d}
    <3>1. \A x \in InFlight : SameGoal(obj, obj', x)
      <4>1. \A x \in InFlight : x \in Objects \ {d}
        BY <1>2, <1>7, ReferredObjects
      <4>2. \A x \in Objects : x \in InFlight \/ Dependents(x) # {} => x \in Objects \ {d}
        BY <1>7, Zenon
      <4> QED
        BY <1>1, <1>2, <2>3, <4>1, <4>2, GoalsKept, Zenon DEF SameButRef
    <3>2. Blocks(stack', d) = {}
      BY <1>1, <1>7, HandlingBlocks
    <3>3. \A x \in Objects \ {d} : obj'[x].catchTemp = obj[x].catchTemp
      BY <2>3 DEF SameButRef
    <3>4. GoesTo(obj', stack', Len(stack') + 1, d, i) /\ \A x : Blocks(stack', x) = Blocks(stack, x)
      BY <1>1, <2>1
    <3> QED
      BY <1>1, <1>2, <1>7, <2>1, <2>4, <2>5, <3>1, <3>2, <3>3, <3>4, FlightAdded, Zenon
  <2>7. CaughtListIsNesting'
    <3>1. \A x \in Objects : obj'[x].hc = obj[x].hc
      BY <1>7, <2>2, <2>3, FreeException, SMTT(30), Z3T(30), Zenon DEF SameButRef
    <3>2. \A x \in Handling : x \in Objects \ {d}
      BY <1>2, <1>7, ReferredObjects
    <3>3. \A x \in Handling : obj'[x].next = obj[x].next /\ (x \in InFlight' <=> x \in InFlight)
      BY <2>3, <2>6, <3>2 DEF SameButRef
    <3> QED
      BY <1>1, <1>2, <2>1, <2>4, <2>5, <3>1, <3>3, CaughtKept, Zenon
  <2>8. Handling' = Handling /\ Building' = Building
    BY <1>1 DEF Handling, Building
  <2>9. /\ Dependents(e)' = Dependents(e) \union {d} /\ d \notin Dependents(e)
        /\ \A x \in Objects \ {e} : Dependents(x)' = Dependents(x)
    <3>1. \A x \in Objects \ {d} : /\ obj'[x].alloc = obj[x].alloc
                                   /\ obj'[x].dependent = obj[x].dependent
                                   /\ obj'[x].primary = obj[x].primary
      BY <2>3 DEF SameButRef
    <3> QED
      BY <1>4, <2>2, <3>1, Zenon DEF Dependents
  <2>10. InUse(d)' = 1 /\ \A x \in Objects \ {d} : InUse(x)' = InUse(x)
    BY <2>6, <2>8 DEF InUse
  <2>11. ObjectsAccounted'
    <3>1. ASSUME NEW x \in Objects
          PROVE  /\ obj'[x].alloc <=> (InUse(x)' = 1 \/ x \in Building' \/ ptrs'[x] > 0
                                         \/ Dependents(x)' # {})
                 /\ obj'[x].alloc /\ ~obj'[x].dependent /\ x \notin Building' =>
                      obj'[x].ref = InUse(x)' + ptrs'[x] + Cardinality(Dependents(x)')
      <4>1. CASE x = d
        BY <2>2, <2>10, <4>1, Zenon
      <4>2. CASE x = e
        <5>1. IsFiniteSet(Dependents(e)) /\ Cardinality(Dependents(e)) \in Nat
          BY ObjectsAssumption, FS_Subset, FS_CardinalityType DEF Dependents
        <5>2. Cardinality(Dependents(e)') = Cardinality(Dependents(e)) + 1
          BY <2>9, <5>1, FS_AddElement
        <5>3. InUse(e)' = InUse(e) /\ InUse(e) \in Nat /\ ptrs[e] \in Nat
          BY <1>3, <1>7, <2>10 DEF InUse
        <5>4. obj'[e].alloc
          BY <1>6, <2>2, Zenon DEF SameButRef
        <5>5. ptrs'[e] > 0 /\ ptrs'[e] = ptrs[e]
          BY <1>1, <1>4
        <5>6. obj'[e].ref = InUse(e) + ptrs[e] + Cardinality(Dependents(e)) + 1
          BY <1>6, <2>2, Zenon
        <5>7. obj'[e].ref = InUse(e)' + ptrs'[e] + Cardinality(Dependents(e)')
          BY ONLY SMTT(30), Z3T(30), Zenon, <5>1, <5>2, <5>3, <5>5, <5>6
        <5> QED
          BY <4>2, <5>4, <5>5, <5>7, Zenon
      <4>3. CASE x \in Objects \ {d, e}
        <5>1. obj'[x] = obj[x] /\ InUse(x)' = InUse(x) /\ Dependents(x)' = Dependents(x)
          BY <2>2, <2>9, <2>10, <4>3
        <5> QED
          BY <1>1, <1>2, <2>8, <5>1 DEF ObjectsAccounted
      <4> QED
        BY <4>1, <4>2, <4>3, Zenon
    <3> QED
      BY <3>1 DEF ObjectsAccounted
  <2>12. ObjectsInv'
    <3>1. \A x \in Objects : ~obj'[x].alloc => obj'[x] = Free
      <4>1. obj'[e].alloc
        BY <1>6, <2>2 DEF SameButRef
      <4> QED
        BY <1>2, <2>2, <4>1 DEF ObjectsInv
    <3>2. \A j, k \in Kinds(stack', "building") : stack'[j].ex = stack'[k].ex => j = k
      BY <1>1, <1>2 DEF ObjectsInv
    <3>3. \A x \in Building' : /\ obj'[x] = [Free EXCEPT !.alloc = TRUE]
                               /\ x \notin InFlight' \union Handling' /\ ptrs'[x] = 0
                               /\ Dependents(x)' = {}
      <4> SUFFICES ASSUME NEW x \in Building'
                   PROVE  /\ obj'[x] = [Free EXCEPT !.alloc = TRUE]
                          /\ x \notin InFlight' \union Handling' /\ ptrs'[x] = 0
                          /\ Dependents(x)' = {}
        BY Zenon
      <4>1. x \in Building /\ x \in Objects \ {d, e}
        BY <1>2, <1>6, <1>7, <2>8, ReferredObjects
      <4> QED
        BY <1>1, <1>2, <2>2, <2>6, <2>8, <2>9, <4>1, ZenonT(30) DEF ObjectsInv
    <3>4. ASSUME NEW x \in Objects, obj'[x].dependent
          PROVE  /\ ptrs'[x] = 0 /\ Dependents(x)' = {}
                 /\ obj'[x].primary \in Objects \ Building'
      <4>1. x # e
        BY <1>6, <2>2, <3>4 DEF SameButRef
      <4>2. CASE x = d
        BY <1>1, <1>6, <1>7, <2>2, <2>8, <2>9, <4>2, Zenon
      <4>3. CASE x # d
        BY <1>1, <1>2, <2>2, <2>8, <2>9, <3>4, <4>1, <4>3 DEF ObjectsInv
      <4> QED
        BY <4>2, <4>3
    <3> QED
      BY <3>1, <3>2, <3>3, <3>4, Zenon DEF ObjectsInv
  <2>13. UncaughtExact'
    BY <1>1, <1>2, <1>7, <2>1, <2>6, OneMoreInFlight, Zenon
  <2> QED
    BY <2>4, <2>6, <2>7, <2>11, <2>12, <2>13 DEF ExceptionsInv
<1> QED
  BY <1>9, <1>10

(***************************************************************************)
(* The flights go on.                                                      *)
(***************************************************************************)

\* A landing pad ends, _Unwind_Resume: its flight goes on from there.
LEMMA ResumeKeeps ==
    ASSUME ExceptionsInv, Resume
    PROVE  ExceptionsInv'
<1>1. /\ mode = Run /\ stack # <<>> /\ Top.kind = "landing" /\ stack' = Popped(stack)
      /\ mode' = [pc |-> "unwind", ex |-> Top.ex, target |-> Top.target]
      /\ UNCHANGED <<obj, caught, uncaught, ptrs>> /\ Live /\ Live'
  BY DEF Resume, Live, Run
<1>2. /\ ExceptionTypes /\ FlightsInv /\ ObjectsInv
      /\ ObjectsAccounted /\ CaughtListIsNesting /\ UncaughtExact
  BY <1>1 DEF ExceptionsInv
<1>3. stack \in Seq(Frames)
  BY <1>2 DEF ExceptionTypes
<1>4. PICK n \in Nat :
        /\ Len(stack) = n + 1 /\ Len(stack') = n /\ stack' \in Seq(Frames)
        /\ Agree(stack, stack', n) /\ Top = stack[n + 1]
        /\ DOMAIN stack = 1..n + 1 /\ DOMAIN stack' = 1..n
        /\ \A i \in 1..n : stack'[i] = stack[i]
        /\ \A k : /\ Kinds(stack', k) = Kinds(stack, k) \ {n + 1}
                  /\ Kinds(stack', k) \subseteq 1..n
                  /\ Top.kind = k => n + 1 \in Kinds(stack, k)
                  /\ Top.kind # k => Kinds(stack', k) = Kinds(stack, k)
        /\ \A i \in DOMAIN stack' : stack'[i].kind \in {"building", "handler", "landing"} =>
             stack'[i].ex \in Objects
  BY ONLY Zenon, <1>1, <1>2, StackPopped
<1>5. /\ Top \in Frames /\ Top.ex \in Objects /\ Top.target \in Nat
  <2>1. n + 1 \in DOMAIN stack
    BY <1>4
  <2>2. Top \in Frames /\ Top.ex \in Objects
    BY <1>1, <1>2, <1>3, <1>4, <2>1, SMTT(30), Z3T(30), Zenon DEF ExceptionTypes
  <2> QED
    BY <2>2 DEF Frames
<1>6. ExceptionTypes'
  <2>1. mode' \in [pc : {"unwind"}, ex : Objects, target : Nat]
    BY <1>1, <1>5, Zenon
  <2> QED
    BY <1>1, <1>2, <1>4, <2>1, Zenon DEF ExceptionTypes
<1>7. /\ Kinds(stack', "handler") = Kinds(stack, "handler")
      /\ Kinds(stack', "building") = Kinds(stack, "building")
      /\ Kinds(stack, "handler") \subseteq 1..n /\ Kinds(stack, "building") \subseteq 1..n
      /\ Kinds(stack', "landing") = Kinds(stack, "landing") \ {n + 1}
      /\ n + 1 \in Kinds(stack, "landing") /\ Kinds(stack', "landing") \subseteq 1..n
  BY <1>1, <1>4, Zenon
<1>8. \A x : Blocks(stack', x) = Blocks(stack, x)
  BY <1>4, <1>7, BlocksAgree, Zenon
<1> DEFINE K == Kinds(stack, "landing")
<1>9. Flights = K /\ Flights' = K
  <2>1. Flights = K
    BY <1>1 DEF Flights, Run
  <2>2. Flights' = Kinds(stack', "landing") \union {n + 1}
    BY <1>1, <1>4, Zenon DEF Flights
  <2> QED
    BY <1>7, <2>1, <2>2
<1>10. \A i \in K : /\ i \in 1..n + 1 /\ Flight(i)'.ex = Flight(i).ex
                    /\ Flight(i)'.target = Flight(i).target
  <2> SUFFICES ASSUME NEW i \in K
               PROVE  /\ i \in 1..n + 1 /\ Flight(i)'.ex = Flight(i).ex
                      /\ Flight(i)'.target = Flight(i).target
    OBVIOUS
  <2>1. i \in 1..n + 1 /\ Flight(i) = stack[i]
    BY <1>4, Zenon DEF Kinds, Flight
  <2>2. CASE i = n + 1
    <3>1. Flight(i)' = mode'
      BY <1>4, <2>2 DEF Flight
    <3> QED
      BY <1>1, <1>4, <2>1, <2>2, <3>1, SMTT(30), Z3T(30), Zenon
  <2>3. CASE i # n + 1
    <3>1. i \in 1..n
      BY <2>1, <2>3
    <3>2. Flight(i)' = stack'[i]
      BY <1>4, <3>1 DEF Flight
    <3> QED
      BY <1>4, <2>1, <3>1, <3>2
  <2> QED
    BY <2>2, <2>3
<1> HIDE DEF K
<1>11. InFlight' = InFlight
  <2>1. InFlight = {stack[i].ex : i \in K}
    BY <1>1 DEF InFlight, Run, K
  <2>2. InFlight' = {stack'[i].ex : i \in K \ {n + 1}} \union {stack[n + 1].ex}
    BY <1>1, <1>4, <1>7, Zenon DEF InFlight, K
  <2>3. n + 1 \in K /\ \A i \in K \ {n + 1} : stack'[i] = stack[i]
    BY <1>4, <1>7, Zenon DEF K
  <2> QED
    BY <2>1, <2>2, <2>3
<1>12. FlightsInv'
  <2>1. \A i, j \in Flights' : Flight(i)'.ex = Flight(j)'.ex => i = j
    BY <1>2, <1>9, <1>10, SMTT(30), Z3T(30), Zenon DEF FlightsInv
  <2>2. ASSUME NEW i \in Flights'
        PROVE  OnCourse(obj', stack', i, Flight(i)'.ex, Flight(i)'.target)
    <3>1. OnCourse(obj, stack, i, Flight(i).ex, Flight(i).target)
      BY <1>2, <1>9, Zenon DEF FlightsInv
    <3>2. SameGoal(obj, obj', Flight(i).ex)
      BY <1>1, Zenon DEF SameGoal, realExceptionFromException
    <3>3. Blocks(stack', Flight(i).ex) \subseteq Blocks(stack, Flight(i).ex) /\ i \in 1..n + 1
      BY <1>8, <1>9, <1>10
    <3>4. OnCourse(obj', stack', i, Flight(i).ex, Flight(i).target)
      BY <1>3, <1>4, <3>1, <3>2, <3>3, CourseKept, Zenon
    <3> QED
      BY <1>9, <1>10, <3>4, Zenon
  <2>3. \A x \in Objects : x \notin InFlight' => obj'[x].catchTemp = 0
    BY <1>1, <1>2, <1>11, Zenon DEF FlightsInv
  <2> QED
    BY <2>1, <2>2, <2>3, Zenon DEF FlightsInv
<1>13. CaughtListIsNesting'
  BY <1>1, <1>2, <1>4, <1>6, <1>7, <1>11, CaughtKept, Zenon
<1>14. Handling' = Handling
  BY <1>4, <1>7, SMTT(30), Z3T(30), Zenon DEF Handling
<1>15. ObjectsInv' /\ ObjectsAccounted'
  <2>1. /\ Building' = Building
        /\ \A i, j \in Kinds(stack', "building") : stack'[i].ex = stack'[j].ex => i = j
    BY <1>2, <1>4, <1>7, BuildingKept, Zenon
  <2> QED
    BY <1>1, <1>2, <1>6, <1>11, <1>14, <2>1, LifeKept, Zenon
<1>16. UncaughtExact'
  BY <1>1, <1>2, <1>11 DEF UncaughtExact
<1> QED
  BY <1>6, <1>12, <1>13, <1>15, <1>16 DEF ExceptionsInv

=============================================================================
