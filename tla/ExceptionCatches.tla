-------------------------- MODULE ExceptionCatches --------------------------
(* The steps of Exceptions that unwind the stack and that enter or end a    *)
(* catch block keep its invariant.                                          *)
EXTENDS ExceptionLemmas

(***************************************************************************)
(* Stacks of frames.                                                       *)
(***************************************************************************)

\* A stack with its top frame replaced.
LEMMA ReplaceFrame ==
    ASSUME NEW s \in Seq(Frames), s # <<>>, NEW f \in Frames
    PROVE  /\ Append(Popped(s), f) \in Seq(Frames)
           /\ Len(Append(Popped(s), f)) = Len(s)
           /\ Append(Popped(s), f)[Len(s)] = f
           /\ \A i \in 1..Len(s) - 1 : Append(Popped(s), f)[i] = s[i]
<1> DEFINE q == Popped(s)
<1>1. /\ Len(s) \in Nat \ {0} /\ q \in Seq(Frames) /\ Len(q) = Len(s) - 1
      /\ \A i \in 1..Len(s) - 1 : q[i] = s[i]
  BY PopFrame
<1> HIDE DEF q
<1>2. /\ Append(q, f) \in Seq(Frames)
      /\ Len(Append(q, f)) = Len(s)
      /\ Append(q, f)[Len(s)] = f
      /\ \A i \in 1..Len(s) - 1 : Append(q, f)[i] = s[i]
  BY <1>1, PushFrame
<1> QED
  BY <1>2 DEF q

\* The innermost block below frame i + 1 is frame i if that is a block.
LEMMA EnclosingStep ==
    ASSUME NEW s \in Seq(Frames), NEW i \in DOMAIN s
    PROVE  Enclosing(s, i + 1) = IF s[i].kind = "handler" THEN s[i].ex ELSE Enclosing(s, i)
<1> DEFINE B(k) == {j \in Kinds(s, "handler") : j < k}
<1>1. i \in 1..Len(s) /\ Len(s) \in Nat /\ DOMAIN s = 1..Len(s)
  OBVIOUS
<1>2. B(i + 1) \in SUBSET (1..Len(s))
  BY <1>1 DEF Kinds
<1>3. CASE s[i].kind = "handler"
  <2>1. i \in B(i + 1) /\ \A j \in B(i + 1) : j <= i
    BY <1>1, <1>3 DEF Kinds
  <2>2. Max(B(i + 1)) \in B(i + 1) /\ \A k \in B(i + 1) : k <= Max(B(i + 1))
    BY <2>1, <1>2, <1>1, MaxIn, Zenon
  <2>3. Max(B(i + 1)) = i
    <3> HIDE DEF B
    <3> QED
      BY <2>1, <2>2, <1>2, <1>1
  <2> QED
    BY <2>1, <2>3, <1>3 DEF Enclosing
<1>4. CASE s[i].kind # "handler"
  <2>1. B(i + 1) = B(i)
    BY <1>1, <1>4 DEF Kinds
  <2> QED
    BY <2>1, <1>4, Zenon DEF Enclosing
<1> QED
  BY <1>3, <1>4

(***************************************************************************)
(* The objects.                                                            *)
(***************************************************************************)

\* __cxa_begin_catch on one object: the list and the count of handlers.
LEMMA BeginCatchObj ==
    ASSUME NEW o \in [Objects -> Exception], NEW e \in Objects,
           caught \in Objects \union {None}, NEW r, r = beginCatch(o, e)
    PROVE  /\ r \in [Objects -> Exception]
           /\ \A x \in Objects \ {e} : r[x] = o[x]
           /\ r[e].next = IF o[e].hc = 0 THEN caught ELSE o[e].next
           /\ r[e].hc = IF o[e].hc < 0 THEN 1 - o[e].hc ELSE o[e].hc + 1
           /\ r[e].alloc = o[e].alloc /\ r[e].dependent = o[e].dependent
           /\ r[e].type = o[e].type /\ r[e].ref = o[e].ref /\ r[e].primary = o[e].primary
           /\ r[e].catchTemp = o[e].catchTemp
<1> DEFINE k == IF o[e].hc = 0 THEN caught ELSE o[e].next
           h == IF o[e].hc < 0 THEN 1 - o[e].hc ELSE o[e].hc + 1
           v == [o[e] EXCEPT !.next = k, !.hc = h]
<1>1. o[e] \in Exception
  OBVIOUS
<1>2. k \in Objects \union {None} /\ h \in Int
  BY <1>1 DEF Exception
<1>3. r = [o EXCEPT ![e] = v]
  BY Zenon DEF beginCatch
<1> HIDE DEF k, h
<1>4. /\ v \in Exception /\ v.next = k /\ v.hc = h
      /\ v.alloc = o[e].alloc /\ v.dependent = o[e].dependent
      /\ v.type = o[e].type /\ v.ref = o[e].ref /\ v.primary = o[e].primary
      /\ v.catchTemp = o[e].catchTemp
  BY <1>1, <1>2, Zenon DEF Exception
<1> HIDE DEF v
<1>5. r \in [Objects -> Exception] /\ r[e] = v /\ \A x \in Objects \ {e} : r[x] = o[x]
  BY <1>3, <1>4
<1> QED
  BY <1>4, <1>5 DEF k, h

(***************************************************************************)
(* Steps that leave the blocks, the flights or the objects' lives alone.   *)
(***************************************************************************)

\* A frame above the handler is left behind: the flight comes one frame down.
LEMMA FlightsDown ==
    ASSUME ExceptionTypes, ExceptionTypes', FlightsInv, mode.pc = "unwind", mode' = mode,
           stack # <<>>, Len(stack) > mode.target, Top.kind # "landing",
           stack' = Popped(stack),
           Blocks(stack', mode.ex) # {} => Enclosing(stack', Len(stack') + 1) = mode.ex,
           \A e \in InFlight : SameGoal(obj, obj', e),
           \A e \in Objects : obj[e].catchTemp = 0 => obj'[e].catchTemp = 0
    PROVE  FlightsInv' /\ InFlight' = InFlight
<1>0. stack \in Seq(Frames) /\ stack' \in Seq(Frames)
  BY DEF ExceptionTypes
<1> PICK n \in Nat : n = Len(stack) - 1
  BY <1>0, PopFrame
<1>1. /\ n \in Nat /\ Len(stack) = n + 1 /\ Len(stack') = n
      /\ DOMAIN stack = 1..n + 1 /\ DOMAIN stack' = 1..n
      /\ \A k \in 1..n : stack'[k] = stack[k]
  BY <1>0, PopFrame
<1>2. Agree(stack, stack', n)
  BY <1>1 DEF Agree
<1> DEFINE K == Kinds(stack, "landing")
<1>3. K \subseteq 1..n /\ Kinds(stack', "landing") = K
  BY <1>1 DEF Kinds, Top
<1>4. Flights = K \union {n + 2} /\ Flights' = K \union {n + 1}
  BY <1>1, <1>3 DEF Flights
<1>5. \A i \in K : i \in 1..n /\ Flight(i) = stack[i] /\ Flight(i)' = stack[i]
  BY <1>1, <1>3 DEF Flight
<1>6. Flight(n + 2) = mode /\ Flight(n + 1)' = mode
  <2>1. n + 2 \notin DOMAIN stack /\ n + 1 \notin DOMAIN stack'
    BY <1>1
  <2> QED
    BY <2>1 DEF Flight
<1>7. InFlight' = InFlight
  BY <1>1, <1>3, Zenon DEF InFlight
<1>8. \A e : Blocks(stack', e) \subseteq Blocks(stack, e)
  BY <1>1 DEF Blocks, Kinds
<1> HIDE DEF K
<1>9. \A i, j \in Flights' : Flight(i)'.ex = Flight(j)'.ex => i = j
  <2>1. \A i \in K : i # n + 2 /\ i # n + 1
    BY <1>1, <1>3
  <2>2. \A i, j \in Flights : Flight(i).ex = Flight(j).ex => i = j
    BY DEF FlightsInv
  <2>3. \A i, j \in K : Flight(i)'.ex = Flight(j)'.ex => i = j
    BY <1>4, <1>5, <2>2
  <2>4. \A i \in K : Flight(i)'.ex # mode.ex
    BY <1>4, <1>5, <1>6, <2>1, <2>2
  <2> QED
    BY <1>4, <1>6, <2>3, <2>4
<1>10. ASSUME NEW i \in K
       PROVE  OnCourse(obj', stack', i, Flight(i)'.ex, Flight(i)'.target)
  <2>1. i \in Flights /\ i \in 1..n + 1 /\ Flight(i)' = Flight(i)
    BY <1>1, <1>4, <1>5
  <2>2. OnCourse(obj, stack, i, Flight(i).ex, Flight(i).target) /\ Flight(i).ex \in InFlight
    BY <2>1, FlightFrames DEF FlightsInv
  <2>3. SameGoal(obj, obj', Flight(i).ex)
    BY <2>2
  <2> QED
    BY <1>0, <1>2, <1>8, <2>1, <2>2, <2>3, CourseKept
<1>11. OnCourse(obj', stack', n + 1, mode.ex, mode.target)
  <2>1. OnCourse(obj, stack, n + 2, mode.ex, mode.target) /\ mode.ex \in InFlight
    BY <1>4, <1>6, FlightFrames DEF FlightsInv
  <2>2. SameGoal(obj, obj', mode.ex)
    BY <2>1
  <2>3. GoesTo(obj, stack, n + 2, mode.ex, mode.target)
    BY <2>1 DEF OnCourse
  <2>4. GoesTo(obj, stack, n + 1, mode.ex, mode.target)
    BY <1>1, <2>3 DEF GoesTo
  <2>5. GoesTo(obj', stack', n + 1, mode.ex, mode.target)
    <3>1. n + 1 \in Nat /\ \A k \in 1..(n + 1) - 1 : stack'[k] = stack[k]
      BY <1>1
    <3> QED
      BY ONLY <3>1, <1>0, <2>2, <2>4, GoesToAgree
  <2>6. \A j \in Blocks(stack', mode.ex) : j < n + 1
    BY <1>1 DEF Blocks, Kinds
  <2> QED
    BY <1>1, <2>5, <2>6 DEF OnCourse
<1>12. \A e \in Objects : e \notin InFlight' => obj'[e].catchTemp = 0
  BY <1>7 DEF FlightsInv
<1>13. \A i \in Flights' : OnCourse(obj', stack', i, Flight(i)'.ex, Flight(i)'.target)
  BY ONLY <1>4, <1>6, <1>10, <1>11
<1> QED
  BY <1>7, <1>9, <1>12, <1>13 DEF FlightsInv

(***************************************************************************)
(* The flights go on.                                                      *)
(***************************************************************************)

\* A frame that is no catch block lies between a rethrown exception and its
\* next block as little below the frame as above it.
LEMMA CourseBelow ==
    ASSUME ExceptionTypes, FlightsInv, mode.pc = "unwind", stack # <<>>,
           Top.kind # "handler", NEW n \in Nat, Len(stack) = n + 1,
           NEW t \in Seq(Frames), Agree(stack, t, n),
           Blocks(t, mode.ex) \subseteq Blocks(stack, mode.ex)
    PROVE  Blocks(t, mode.ex) # {} => Enclosing(t, n + 1) = mode.ex
<1>1. stack \in Seq(Frames) /\ n + 1 \in DOMAIN stack /\ DOMAIN stack = 1..n + 1
  BY DEF ExceptionTypes
<1>2. n + 2 \in Flights /\ Flight(n + 2) = mode
  BY <1>1 DEF Flights, Flight
<1>3. Blocks(stack, mode.ex) # {} => Enclosing(stack, n + 2) = mode.ex
  BY <1>2, Zenon DEF FlightsInv, OnCourse
<1>4. Enclosing(stack, (n + 1) + 1) = Enclosing(stack, n + 1)
  BY <1>1, EnclosingStep DEF Top
<1>5. Enclosing(t, n + 1) = Enclosing(stack, n + 1)
  <2>1. n <= Len(stack) /\ n <= Len(t) /\ (\A k \in 1..n : t[k] = stack[k]) /\ n + 1 \in 1..n + 1
    BY DEF Agree
  <2> QED
    BY <1>1, <2>1, EnclosingAgree
<1>6. (n + 1) + 1 = n + 2
  OBVIOUS
<1> QED
  BY <1>3, <1>4, <1>5, <1>6

\* A try block whose clauses do not match is passed.
LEMMA CleanupTry ==
    ASSUME ExceptionsInv, mode.pc = "unwind", Len(stack) > mode.target, stack # <<>>,
           Top.kind = "try", stack' = Popped(stack),
           UNCHANGED <<obj, caught, uncaught, ptrs, mode>>
    PROVE  ExceptionsInv'
<1>1. Live /\ Live'
  BY DEF Live
<1>2. /\ ExceptionTypes /\ FlightsInv /\ ObjectsInv
      /\ ObjectsAccounted /\ CaughtListIsNesting /\ UncaughtExact
  BY <1>1 DEF ExceptionsInv
<1>3. PICK n \in Nat :
        /\ Len(stack) = n + 1 /\ Len(stack') = n /\ stack' \in Seq(Frames)
        /\ Agree(stack, stack', n) /\ Top = stack[n + 1]
        /\ DOMAIN stack = 1..n + 1 /\ DOMAIN stack' = 1..n
        /\ \A i \in 1..n : stack'[i] = stack[i]
        /\ \A k : /\ Kinds(stack', k) = Kinds(stack, k) \ {n + 1}
                  /\ Kinds(stack', k) \subseteq 1..n
                  /\ Top.kind = k => n + 1 \in Kinds(stack, k)
                  /\ Top.kind # k => Kinds(stack', k) = Kinds(stack, k)
        /\ \A i \in DOMAIN stack' : stack'[i].kind \in {"building", "handler", "landing"} =>
             stack'[i].ex \in Objects
  BY ONLY <1>2, stack # <<>>, stack' = Popped(stack), StackPopped
<1>4. ExceptionTypes'
  BY <1>2, <1>3 DEF ExceptionTypes
<1>5. /\ Kinds(stack', "handler") = Kinds(stack, "handler")
      /\ Kinds(stack', "building") = Kinds(stack, "building")
      /\ Kinds(stack, "handler") \subseteq 1..n /\ Kinds(stack, "building") \subseteq 1..n
  BY <1>3
<1>6. \A x : Blocks(stack', x) = Blocks(stack, x)
  BY <1>3, <1>5, BlocksAgree
<1>7. FlightsInv' /\ InFlight' = InFlight
  <2>1. Blocks(stack', mode.ex) # {} => Enclosing(stack', Len(stack') + 1) = mode.ex
    BY <1>2, <1>3, <1>6, CourseBelow
  <2>2. \A x \in InFlight : SameGoal(obj, obj', x)
    BY DEF SameGoal, realExceptionFromException
  <2>3. \A x \in Objects : obj[x].catchTemp = 0 => obj'[x].catchTemp = 0
    OBVIOUS
  <2> QED
    BY <1>2, <1>4, <2>1, <2>2, <2>3, FlightsDown
<1>8. CaughtListIsNesting'
  BY <1>1, <1>2, <1>3, <1>4, <1>5, <1>7, CaughtKept
<1>9. Handling' = Handling
  BY <1>3, <1>5 DEF Handling
<1>10. ObjectsInv' /\ ObjectsAccounted'
  <2>1. /\ Building' = Building
        /\ \A i, j \in Kinds(stack', "building") : stack'[i].ex = stack'[j].ex => i = j
    BY <1>2, <1>3, <1>5, BuildingKept
  <2> QED
    BY <1>1, <1>2, <1>4, <1>7, <1>9, <2>1, LifeKept
<1>11. UncaughtExact'
  BY <1>1, <1>2, <1>7 DEF UncaughtExact
<1> QED
  BY <1>4, <1>7, <1>8, <1>10, <1>11 DEF ExceptionsInv

\* The object of a throw expression that is left is freed.
LEMMA CleanupBuilding ==
    ASSUME ExceptionsInv, mode.pc = "unwind", Len(stack) > mode.target, stack # <<>>,
           Top.kind = "building", stack' = Popped(stack),
           obj' = __cxa_free_exception(obj, Top.ex),
           UNCHANGED <<caught, uncaught, ptrs, mode>>
    PROVE  ExceptionsInv'
<1>1. Live /\ Live'
  BY DEF Live
<1>2. /\ ExceptionTypes /\ FlightsInv /\ ObjectsInv
      /\ ObjectsAccounted /\ CaughtListIsNesting /\ UncaughtExact
  BY <1>1 DEF ExceptionsInv
<1>3. PICK n \in Nat :
        /\ Len(stack) = n + 1 /\ Len(stack') = n /\ stack' \in Seq(Frames)
        /\ Agree(stack, stack', n) /\ Top = stack[n + 1]
        /\ DOMAIN stack = 1..n + 1 /\ DOMAIN stack' = 1..n
        /\ \A i \in 1..n : stack'[i] = stack[i]
        /\ \A k : /\ Kinds(stack', k) = Kinds(stack, k) \ {n + 1}
                  /\ Kinds(stack', k) \subseteq 1..n
                  /\ Top.kind = k => n + 1 \in Kinds(stack, k)
                  /\ Top.kind # k => Kinds(stack', k) = Kinds(stack, k)
        /\ \A i \in DOMAIN stack' : stack'[i].kind \in {"building", "handler", "landing"} =>
             stack'[i].ex \in Objects
  BY ONLY <1>2, stack # <<>>, stack' = Popped(stack), StackPopped
<1> PICK e : e = Top.ex
  OBVIOUS
<1>4. /\ e \in Building /\ e \in Objects /\ obj[e] = [Free EXCEPT !.alloc = TRUE]
      /\ e \notin InFlight \union Handling /\ ptrs[e] = 0 /\ Dependents(e) = {}
  <2>1. n + 1 \in Kinds(stack, "building") /\ stack[n + 1].ex = e
    BY <1>3
  <2>2. e \in Building
    BY <2>1 DEF Building
  <2> QED
    BY <2>2, <1>2, ReferredObjects, Zenon DEF ObjectsInv
<1>5. obj[e].alloc /\ ~obj[e].dependent /\ obj[e].hc = 0 /\ obj[e].catchTemp = 0
  BY <1>4, BlankException
<1>6. /\ obj' \in [Objects -> Exception] /\ obj'[e] = Free
      /\ \A x \in Objects \ {e} : obj'[x] = obj[x]
  BY <1>2, <1>4, FreeException DEF ExceptionTypes, __cxa_free_exception
<1>7. ExceptionTypes'
  BY <1>2, <1>3, <1>6 DEF ExceptionTypes
<1>8. /\ Kinds(stack', "handler") = Kinds(stack, "handler")
      /\ Kinds(stack', "building") = Kinds(stack, "building") \ {n + 1}
      /\ Kinds(stack, "handler") \subseteq 1..n /\ n + 1 \in Kinds(stack, "building")
  BY <1>3
<1>9. \A x : Blocks(stack', x) = Blocks(stack, x)
  BY <1>3, <1>8, BlocksAgree
<1>10. FlightsInv' /\ InFlight' = InFlight
  <2>1. Blocks(stack', mode.ex) # {} => Enclosing(stack', Len(stack') + 1) = mode.ex
    BY <1>2, <1>3, <1>9, CourseBelow
  <2>2. \A x \in InFlight : SameGoal(obj, obj', x)
    BY <1>1, <1>2, <1>4, <1>6, ReferredObjects, GoalsKept
  <2>3. \A x \in Objects : obj[x].catchTemp = 0 => obj'[x].catchTemp = 0
    BY <1>6, FreeException
  <2> QED
    BY <1>2, <1>7, <2>1, <2>2, <2>3, FlightsDown
<1>11. CaughtListIsNesting'
  <2>1. \A x \in Objects : obj'[x].hc = obj[x].hc
    BY <1>5, <1>6, FreeException
  <2>2. \A x \in Handling : obj'[x].next = obj[x].next
    BY <1>2, <1>4, <1>6, ReferredObjects
  <2> QED
    BY <1>1, <1>2, <1>3, <1>7, <1>8, <1>10, <2>1, <2>2, CaughtKept, Zenon
<1>12. Handling' = Handling /\ Building' = Building \ {e}
  <2>1. Handling' = Handling
    BY <1>3, <1>8 DEF Handling
  <2>2. \A j \in Kinds(stack, "building") : stack[j].ex = e => j = n + 1
    BY <1>2, <1>3, <1>8 DEF ObjectsInv
  <2>3. \A j \in Kinds(stack', "building") : stack'[j] = stack[j]
    BY <1>3
  <2>4. stack[n + 1].ex = e
    BY <1>3
  <2> QED
    BY <1>8, <2>1, <2>2, <2>3, <2>4 DEF Building
<1>13. \A x \in Objects : Dependents(x)' = Dependents(x) /\ InUse(x)' = InUse(x)
  <2>1. \A d \in Objects : /\ (obj'[d].alloc /\ obj'[d].dependent)
                              <=> (obj[d].alloc /\ obj[d].dependent)
                           /\ obj[d].dependent => obj'[d].primary = obj[d].primary
    BY <1>5, <1>6, FreeException
  <2> QED
    BY <1>10, <1>12, <2>1 DEF Dependents, InUse
<1>14. ObjectsAccounted'
  <2>1. ASSUME NEW x \in Objects
        PROVE  /\ obj'[x].alloc <=> (InUse(x)' = 1 \/ x \in Building' \/ ptrs'[x] > 0
                                       \/ Dependents(x)' # {})
               /\ obj'[x].alloc /\ ~obj'[x].dependent /\ x \notin Building' =>
                    obj'[x].ref = InUse(x)' + ptrs'[x] + Cardinality(Dependents(x)')
    <3>1. CASE x = e
      <4>1. ~obj'[e].alloc
        BY <1>6, FreeException
      <4>2. InUse(e) = 0 /\ ~(ptrs'[e] > 0) /\ e \notin Building' /\ Dependents(e)' = {}
        BY <1>4, <1>12, <1>13 DEF InUse
      <4> QED
        BY <1>4, <1>13, <3>1, <4>1, <4>2
    <3>2. CASE x # e
      <4>1. obj'[x] = obj[x] /\ InUse(x)' = InUse(x) /\ Dependents(x)' = Dependents(x)
            /\ (x \in Building' <=> x \in Building)
        BY <1>6, <1>12, <1>13, <3>2
      <4> QED
        BY <1>1, <1>2, <4>1 DEF ObjectsAccounted
    <3> QED
      BY <3>1, <3>2, Zenon
  <2> QED
    BY <2>1 DEF ObjectsAccounted
<1>15. ObjectsInv'
  <2>1. \A x \in Objects : ~obj'[x].alloc => obj'[x] = Free
    BY <1>2, <1>6 DEF ObjectsInv
  <2>2. \A j, k \in Kinds(stack', "building") : stack'[j].ex = stack'[k].ex => j = k
    BY <1>2, <1>3 DEF ObjectsInv
  <2>3. ASSUME NEW x \in Building'
        PROVE  /\ obj'[x] = [Free EXCEPT !.alloc = TRUE]
               /\ x \notin InFlight' \union Handling' /\ ptrs'[x] = 0 /\ Dependents(x)' = {}
    <3>1. x \in Building /\ x # e /\ x \in Objects
      BY <1>2, <1>12, ReferredObjects
    <3> QED
      BY <1>2, <1>6, <1>10, <1>12, <1>13, <3>1, Zenon DEF ObjectsInv
  <2>4. \A d \in Objects : obj'[d].dependent =>
          /\ ptrs'[d] = 0 /\ Dependents(d)' = {}
          /\ obj'[d].primary \in Objects \ Building'
    BY <1>2, <1>6, <1>12, <1>13, FreeException DEF ObjectsInv
  <2> QED
    BY <2>1, <2>2, <2>3, <2>4, Zenon DEF ObjectsInv
<1>16. UncaughtExact'
  BY <1>1, <1>2, <1>10 DEF UncaughtExact
<1> QED
  BY <1>7, <1>10, <1>11, <1>14, <1>15, <1>16 DEF ExceptionsInv

\* The top construct gives way to a landing pad or a catch block.
LEMMA StackReplaced ==
    ASSUME ExceptionTypes, stack # <<>>, NEW f \in Frames, f.ex \in Objects,
           stack' = Append(Popped(stack), f)
    PROVE  \E n \in Nat :
             /\ Len(stack) = n + 1 /\ Len(stack') = n + 1 /\ stack' \in Seq(Frames)
             /\ Agree(stack, stack', n) /\ Top = stack[n + 1] /\ stack'[n + 1] = f
             /\ DOMAIN stack = 1..n + 1 /\ DOMAIN stack' = 1..n + 1
             /\ \A i \in 1..n : stack'[i] = stack[i]
             /\ \A k : /\ Kinds(stack, k) \ {n + 1} \subseteq 1..n
                       /\ f.kind = k => Kinds(stack', k) = Kinds(stack, k) \union {n + 1}
                       /\ f.kind # k => Kinds(stack', k) = Kinds(stack, k) \ {n + 1}
                       /\ Top.kind # k => n + 1 \notin Kinds(stack, k)
             /\ \A i \in DOMAIN stack' : stack'[i].kind \in {"building", "handler", "landing"} =>
                  stack'[i].ex \in Objects
<1>1. stack \in Seq(Frames)
  BY DEF ExceptionTypes
<1>2. PICK n \in Nat : Len(stack) = n + 1
  <2>1. Len(stack) \in Nat \ {0}
    BY <1>1, PopFrame
  <2>2. Len(stack) - 1 \in Nat /\ Len(stack) = (Len(stack) - 1) + 1
    BY <2>1
  <2> QED
    BY <2>2, Zenon
<1>3. /\ stack' \in Seq(Frames) /\ Len(stack') = n + 1 /\ stack'[n + 1] = f
      /\ \A i \in 1..(n + 1) - 1 : stack'[i] = stack[i]
  <2>1. /\ Append(Popped(stack), f) \in Seq(Frames)
        /\ Len(Append(Popped(stack), f)) = Len(stack)
        /\ Append(Popped(stack), f)[Len(stack)] = f
        /\ \A i \in 1..Len(stack) - 1 : Append(Popped(stack), f)[i] = stack[i]
    BY ONLY <1>1, stack # <<>>, f \in Frames, ReplaceFrame
  <2> QED
    BY ONLY <1>2, <2>1, stack' = Append(Popped(stack), f)
<1>4. (n + 1) - 1 = n /\ DOMAIN stack = 1..n + 1 /\ DOMAIN stack' = 1..n + 1
  BY <1>1, <1>2, <1>3
<1>5. Agree(stack, stack', n) /\ \A i \in 1..n : stack'[i] = stack[i]
  BY <1>2, <1>3, <1>4 DEF Agree
<1>6. Top = stack[n + 1]
  BY <1>2 DEF Top
<1>7. ASSUME NEW k
      PROVE  /\ Kinds(stack, k) \ {n + 1} \subseteq 1..n
             /\ f.kind = k => Kinds(stack', k) = Kinds(stack, k) \union {n + 1}
             /\ f.kind # k => Kinds(stack', k) = Kinds(stack, k) \ {n + 1}
             /\ Top.kind # k => n + 1 \notin Kinds(stack, k)
  BY <1>3, <1>4, <1>5, <1>6 DEF Kinds
<1>8. \A i \in DOMAIN stack' : stack'[i].kind \in {"building", "handler", "landing"} =>
        stack'[i].ex \in Objects
  <2>1. \A i \in DOMAIN stack' : i = n + 1 \/ (i \in 1..n /\ i \in DOMAIN stack)
    BY <1>4
  <2> QED
    BY <1>3, <1>5, <2>1 DEF ExceptionTypes
<1> QED
  BY <1>2, <1>3, <1>4, <1>5, <1>6, <1>7, <1>8

\* The destructor of an object that is left runs as a landing pad.
LEMMA CleanupScope ==
    ASSUME ExceptionsInv, mode.pc = "unwind", Len(stack) > mode.target, stack # <<>>,
           Top.kind = "scope",
           stack' = Append(Popped(stack), Frame("landing", {}, mode.ex, mode.target)),
           mode' = Run, UNCHANGED <<obj, caught, uncaught, ptrs>>
    PROVE  ExceptionsInv'
<1>1. Live /\ Live'
  BY DEF Live, Run
<1>2. /\ ExceptionTypes /\ FlightsInv /\ ObjectsInv
      /\ ObjectsAccounted /\ CaughtListIsNesting /\ UncaughtExact
  BY <1>1 DEF ExceptionsInv
<1>3. stack \in Seq(Frames) /\ mode \in [pc : {"unwind"}, ex : Objects, target : Nat]
  BY <1>2, UnwindTypes DEF ExceptionTypes
<1> PICK f : f = Frame("landing", {}, mode.ex, mode.target)
  OBVIOUS
<1>4. /\ f \in Frames /\ f.kind = "landing" /\ f.ex = mode.ex /\ f.target = mode.target
      /\ f.ex \in Objects
  BY <1>3 DEF Frame, Frames
<1>5. PICK n \in Nat :
        /\ Len(stack) = n + 1 /\ Len(stack') = n + 1 /\ stack' \in Seq(Frames)
        /\ Agree(stack, stack', n) /\ Top = stack[n + 1] /\ stack'[n + 1] = f
        /\ DOMAIN stack = 1..n + 1 /\ DOMAIN stack' = 1..n + 1
        /\ \A i \in 1..n : stack'[i] = stack[i]
        /\ \A k : /\ Kinds(stack, k) \ {n + 1} \subseteq 1..n
                  /\ f.kind = k => Kinds(stack', k) = Kinds(stack, k) \union {n + 1}
                  /\ f.kind # k => Kinds(stack', k) = Kinds(stack, k) \ {n + 1}
                  /\ Top.kind # k => n + 1 \notin Kinds(stack, k)
        /\ \A i \in DOMAIN stack' : stack'[i].kind \in {"building", "handler", "landing"} =>
             stack'[i].ex \in Objects
  <2>1. stack' = Append(Popped(stack), f)
    OBVIOUS
  <2> QED
    BY ONLY Zenon, <1>2, <1>4, <2>1, stack # <<>>, StackReplaced
<1>6. ExceptionTypes'
  BY <1>2, <1>5 DEF ExceptionTypes
<1>7. /\ Kinds(stack', "handler") = Kinds(stack, "handler")
      /\ Kinds(stack', "building") = Kinds(stack, "building")
      /\ Kinds(stack, "handler") \subseteq 1..n /\ Kinds(stack, "building") \subseteq 1..n
      /\ Kinds(stack', "landing") = Kinds(stack, "landing") \union {n + 1}
      /\ Kinds(stack, "landing") \subseteq 1..n
  <2>1. \A k \in {"handler", "building", "landing"} : n + 1 \notin Kinds(stack, k)
    BY <1>5, Zenon
  <2>2. \A k \in {"handler", "building", "landing"} :
          Kinds(stack, k) \subseteq 1..n /\ Kinds(stack, k) \ {n + 1} = Kinds(stack, k)
    BY <1>5, <2>1
  <2> QED
    BY <1>4, <1>5, <2>2, Zenon
<1>8. \A x : Blocks(stack', x) = Blocks(stack, x)
  BY <1>5, <1>7, BlocksAgree, SMTT(60), Z3T(60), Zenon
<1> DEFINE K == Kinds(stack, "landing")
<1>9. Flights = K \union {n + 2} /\ Flights' = K \union {n + 1}
  <2>1. Flights = K \union {n + 2}
    BY <1>5 DEF Flights
  <2>2. Flights' = K \union {n + 1}
    BY <1>7 DEF Flights, Run
  <2> QED
    BY <2>1, <2>2
<1>10. \A i \in K : i \in 1..n /\ Flight(i) = stack[i] /\ Flight(i)' = stack[i]
  BY <1>5, <1>7 DEF Flight
<1>11. Flight(n + 2) = mode /\ Flight(n + 1)' = f
  <2>1. n + 2 \notin DOMAIN stack /\ n + 1 \in DOMAIN stack'
    BY <1>5
  <2> QED
    BY <1>5, <2>1 DEF Flight
<1>12. InFlight' = InFlight
  <2>1. InFlight = {stack[i].ex : i \in K} \union {mode.ex}
    BY DEF InFlight
  <2>2. InFlight' = {stack'[i].ex : i \in K \union {n + 1}}
    BY <1>7, Zenon DEF InFlight, Run
  <2>3. stack'[n + 1].ex = mode.ex /\ \A i \in K : stack'[i] = stack[i]
    BY <1>4, <1>5, <1>7, Zenon
  <2> HIDE DEF K
  <2> QED
    BY <2>1, <2>2, <2>3, ZenonT(30)
<1> HIDE DEF K
<1>13. FlightsInv'
  <2>1. \A i \in K : i # n + 2 /\ i # n + 1
    BY <1>10
  <2>2. \A i, j \in Flights' : Flight(i)'.ex = Flight(j)'.ex => i = j
    <3>1. \A i, j \in Flights : Flight(i).ex = Flight(j).ex => i = j
      BY <1>2 DEF FlightsInv
    <3>2. \A i, j \in K : Flight(i)'.ex = Flight(j)'.ex => i = j
      BY <1>9, <1>10, <3>1
    <3>3. \A i \in K : Flight(i)'.ex # mode.ex
      BY <1>9, <1>10, <1>11, <2>1, <3>1
    <3> QED
      BY <1>4, <1>9, <1>11, <3>2, <3>3
  <2>3. \A x : SameGoal(obj, obj', x)
    BY DEF SameGoal, realExceptionFromException
  <2>4. ASSUME NEW i \in K
        PROVE  OnCourse(obj', stack', i, Flight(i)'.ex, Flight(i)'.target)
    <3>1. OnCourse(obj, stack, i, Flight(i).ex, Flight(i).target)
      BY <1>2, <1>9 DEF FlightsInv
    <3>2. i \in 1..n + 1 /\ Flight(i)' = Flight(i)
      BY <1>10
    <3>3. SameGoal(obj, obj', Flight(i).ex)
          /\ Blocks(stack', Flight(i).ex) \subseteq Blocks(stack, Flight(i).ex)
      BY <1>8, <2>3
    <3>4. stack \in Seq(Frames) /\ stack' \in Seq(Frames) /\ Agree(stack, stack', n)
      BY <1>3, <1>5
    <3>5. OnCourse(obj', stack', i, Flight(i).ex, Flight(i).target)
      BY ONLY <3>1, <3>2, <3>3, <3>4, CourseKept
    <3> QED
      BY <3>2, <3>5
  <2>5. OnCourse(obj', stack', n + 1, mode.ex, mode.target)
    <3>1. GoesTo(obj, stack, n + 2, mode.ex, mode.target)
      BY <1>2, <1>9, <1>11 DEF FlightsInv, OnCourse
    <3>2. GoesTo(obj, stack, n + 1, mode.ex, mode.target)
      BY <1>3, <1>5, <3>1, SMTT(60), Z3T(60), Zenon DEF GoesTo
    <3>3. GoesTo(obj', stack', n + 1, mode.ex, mode.target)
      <4>1. n + 1 \in Nat /\ \A k \in 1..(n + 1) - 1 : stack'[k] = stack[k]
        BY <1>5
      <4>2. SameGoal(obj, obj', mode.ex)
        BY <2>3
      <4> QED
        BY ONLY Zenon, <1>3, <1>5, <3>2, <4>1, <4>2, GoesToAgree
    <3>4. Blocks(stack', mode.ex) # {} => Enclosing(stack', n + 1) = mode.ex
      BY <1>2, <1>5, <1>8, CourseBelow, Zenon
    <3>5. \A j \in Blocks(stack', mode.ex) : j < n + 1
      BY <1>7 DEF Blocks
    <3> QED
      BY <3>3, <3>4, <3>5 DEF OnCourse
  <2>6. \A i \in Flights' : OnCourse(obj', stack', i, Flight(i)'.ex, Flight(i)'.target)
    BY ONLY <1>4, <1>9, <1>11, <2>4, <2>5
  <2>7. \A x \in Objects : x \notin InFlight' => obj'[x].catchTemp = 0
    BY <1>2, <1>12 DEF FlightsInv
  <2> QED
    BY <2>2, <2>6, <2>7, Zenon DEF FlightsInv
<1>14. CaughtListIsNesting'
  BY <1>1, <1>2, <1>5, <1>6, <1>7, <1>12, CaughtKept, Zenon
<1>15. Handling' = Handling
  BY <1>5, <1>7, SMTT(30), Z3T(30), Zenon DEF Handling
<1>16. ObjectsInv' /\ ObjectsAccounted'
  <2>1. /\ Building' = Building
        /\ \A i, j \in Kinds(stack', "building") : stack'[i].ex = stack'[j].ex => i = j
    BY <1>2, <1>5, <1>7, BuildingKept, Zenon
  <2> QED
    BY <1>1, <1>2, <1>6, <1>12, <1>15, <2>1, LifeKept, Zenon
<1>17. UncaughtExact'
  BY <1>1, <1>2, <1>12 DEF UncaughtExact
<1> QED
  BY <1>6, <1>13, <1>14, <1>16, <1>17 DEF ExceptionsInv

(***************************************************************************)
(* Catch blocks begin.                                                     *)
(***************************************************************************)

\* The landing pad kept is used up and __cxa_begin_catch counts the handler.
LEMMA HandlerObj ==
    ASSUME ExceptionTypes, NEW e \in Objects, NEW r, r = beginCatch(Consume(obj, e), e)
    PROVE  /\ r \in [Objects -> Exception] /\ \A x \in Objects \ {e} : r[x] = obj[x]
           /\ r[e].catchTemp = 0
           /\ r[e].hc = IF obj[e].hc < 0 THEN 1 - obj[e].hc ELSE obj[e].hc + 1
           /\ r[e].next = IF obj[e].hc = 0 THEN caught ELSE obj[e].next
           /\ r[e].alloc = obj[e].alloc /\ r[e].dependent = obj[e].dependent
           /\ r[e].type = obj[e].type /\ r[e].ref = obj[e].ref /\ r[e].primary = obj[e].primary
<1>1. obj \in [Objects -> Exception] /\ obj[e] \in Exception /\ caught \in Objects \union {None}
  BY DEF ExceptionTypes
<1> PICK o : o = Consume(obj, e)
  OBVIOUS
<1> DEFINE v == [obj[e] EXCEPT !.catchTemp = 0]
<1>2. v \in Exception /\ SameButTemp(obj[e], v) /\ v.catchTemp = 0
  BY <1>1 DEF Exception, SameButTemp
<1>3. o = [obj EXCEPT ![e] = v]
  BY DEF Consume
<1> HIDE DEF v
<1>4. /\ o \in [Objects -> Exception] /\ o[e] = v /\ \A x \in Objects \ {e} : o[x] = obj[x]
  BY ONLY <1>1, <1>2, <1>3, e \in Objects
<1>5. r = beginCatch(o, e)
  OBVIOUS
<1>6. /\ r \in [Objects -> Exception]
      /\ \A x \in Objects \ {e} : r[x] = o[x]
      /\ r[e].next = IF o[e].hc = 0 THEN caught ELSE o[e].next
      /\ r[e].hc = IF o[e].hc < 0 THEN 1 - o[e].hc ELSE o[e].hc + 1
      /\ r[e].alloc = o[e].alloc /\ r[e].dependent = o[e].dependent
      /\ r[e].type = o[e].type /\ r[e].ref = o[e].ref /\ r[e].primary = o[e].primary
      /\ r[e].catchTemp = o[e].catchTemp
  BY ONLY SMTT(30), Z3T(30), Zenon, <1>1, <1>4, <1>5, e \in Objects, BeginCatchObj
<1>7. \A x \in Objects \ {e} : r[x] = obj[x]
  BY <1>4, <1>6
<1> QED
  BY ONLY Zenon, <1>2, <1>4, <1>6, <1>7 DEF SameButTemp

\* The exception arrives at a clause that matches.
LEMMA ArrivesAtTry ==
    ASSUME ExceptionTypes, FlightsInv, mode.pc = "unwind", Len(stack) = mode.target,
           obj[mode.ex].catchTemp # 0
    PROVE  stack # <<>> /\ Top.kind = "try"
<1>1. stack \in Seq(Frames) /\ Len(stack) \in Nat
  BY DEF ExceptionTypes
<1>2. Len(stack) + 1 \in Flights /\ Flight(Len(stack) + 1) = mode
  BY <1>1 DEF Flights, Flight
<1>3. GoesTo(obj, stack, Len(stack) + 1, mode.ex, Len(stack))
  BY <1>2 DEF FlightsInv, OnCourse
<1>4. Len(stack) # 0 /\ Stops(obj, stack, mode.ex, Len(stack)) /\ ~Barrier(stack[Len(stack)])
  BY <1>1, <1>3 DEF GoesTo
<1> QED
  BY <1>4 DEF Stops, Matches, Top

\* The top of the stack s of n + 1 frames turns into a block of e, in t.
TopIntoBlock(s, t, n, e) ==
  /\ s \in Seq(Frames) /\ t \in Seq(Frames) /\ n \in Nat
  /\ Len(s) = n + 1 /\ Len(t) = n + 1 /\ Agree(s, t, n)
  /\ s[n + 1].kind # "handler" /\ t[n + 1].kind = "handler" /\ t[n + 1].ex = e

OneBlockMore(s, t, n, e) ==
  /\ Blocks(t, e) = Blocks(s, e) \union {n + 1} /\ n + 1 \notin Blocks(s, e)
  /\ \A x : x # e => Blocks(t, x) = Blocks(s, x)
  /\ \A x : Blocks(s, x) \subseteq 1..n
  /\ Cardinality(Blocks(t, e)) = Cardinality(Blocks(s, e)) + 1
  /\ Enclosing(t, n + 2) = e
  /\ Enclosing(s, n + 2) = Enclosing(s, n + 1)
  /\ \A i \in 1..n + 1 : Enclosing(t, i) = Enclosing(s, i)

LEMMA BlockAdded ==
    ASSUME NEW s, NEW t, NEW n, NEW e, TopIntoBlock(s, t, n, e)
    PROVE  OneBlockMore(s, t, n, e)
<1> USE DEF TopIntoBlock
<1>0. \A i \in 1..n : t[i] = s[i]
  BY DEF Agree
<1>1. DOMAIN s = 1..n + 1 /\ DOMAIN t = 1..n + 1 /\ n + 1 \in 1..n + 1 /\ (n + 1) + 1 = n + 2
  OBVIOUS
<1>2. /\ Blocks(t, e) = Blocks(s, e) \union {n + 1} /\ n + 1 \notin Blocks(s, e)
      /\ \A x : x # e => Blocks(t, x) = Blocks(s, x)
      /\ \A x : Blocks(s, x) \subseteq 1..n
  BY <1>0, <1>1, SMTT(30), Z3T(30), Zenon DEF Blocks, Kinds
<1>3. Cardinality(Blocks(t, e)) = Cardinality(Blocks(s, e)) + 1
  <2>1. IsFiniteSet(Blocks(s, e))
    BY BlocksFinite
  <2> QED
    BY <1>2, <2>1, FS_AddElement, ZenonT(30)
<1>4. Enclosing(t, (n + 1) + 1) = e
  BY <1>1, EnclosingStep
<1>5. Enclosing(s, (n + 1) + 1) = Enclosing(s, n + 1)
  BY <1>1, EnclosingStep
<1>6. \A i \in 1..n + 1 : Enclosing(t, i) = Enclosing(s, i)
  <2>1. n <= Len(s) /\ n <= Len(t)
    OBVIOUS
  <2> QED
    BY <1>0, <2>1, EnclosingAgree
<1> QED
  BY <1>1, <1>2, <1>3, <1>4, <1>5, <1>6, Zenon DEF OneBlockMore

\* The handler found is installed: the catch block begins, or the program
\* ends at a frame that lets nothing out.
LEMMA InstallKeeps ==
    ASSUME ExceptionsInv, InstallHandler
    PROVE  ExceptionsInv'
<1>0. ASSUME mode' = Stop("terminate") PROVE ExceptionsInv'
  BY <1>0 DEF ExceptionsInv, Live, Stop
<1>1. mode.pc = "unwind" /\ Len(stack) = mode.target /\ ptrs' = ptrs /\ Live
  BY DEF InstallHandler, Live
<1>2. /\ ExceptionTypes /\ FlightsInv /\ ObjectsInv
      /\ ObjectsAccounted /\ CaughtListIsNesting /\ UncaughtExact
  BY <1>1 DEF ExceptionsInv
<1>3. stack \in Seq(Frames) /\ mode \in [pc : {"unwind"}, ex : Objects, target : Nat]
  BY <1>1, <1>2, UnwindTypes DEF ExceptionTypes
<1>4. PICK e \in Objects : e = mode.ex
  BY <1>3
<1>5. SUFFICES ASSUME obj[e].catchTemp # 0, obj' = beginCatch(Consume(obj, e), e),
                      caught' = beginCaught(obj, e), uncaught' = uncaught - 1,
                      stack' = Append(Popped(stack), Frame("handler", {}, e, 0)), mode' = Run
               PROVE  ExceptionsInv'
  BY <1>0, <1>4, Zenon DEF InstallHandler
<1>6. stack # <<>> /\ Top.kind = "try"
  BY <1>1, <1>2, <1>4, <1>5, ArrivesAtTry, Zenon
<1>7. Live'
  BY <1>5 DEF Live, Run
<1> PICK f : f = Frame("handler", {}, e, 0)
  OBVIOUS
<1>8. f \in Frames /\ f.kind = "handler" /\ f.ex = e /\ f.ex \in Objects
  BY Zenon DEF Frame, Frames
<1>9. PICK n \in Nat :
        /\ Len(stack) = n + 1 /\ Len(stack') = n + 1 /\ stack' \in Seq(Frames)
        /\ Agree(stack, stack', n) /\ Top = stack[n + 1] /\ stack'[n + 1] = f
        /\ DOMAIN stack = 1..n + 1 /\ DOMAIN stack' = 1..n + 1
        /\ \A i \in 1..n : stack'[i] = stack[i]
        /\ \A k : /\ Kinds(stack, k) \ {n + 1} \subseteq 1..n
                  /\ f.kind = k => Kinds(stack', k) = Kinds(stack, k) \union {n + 1}
                  /\ f.kind # k => Kinds(stack', k) = Kinds(stack, k) \ {n + 1}
                  /\ Top.kind # k => n + 1 \notin Kinds(stack, k)
        /\ \A i \in DOMAIN stack' : stack'[i].kind \in {"building", "handler", "landing"} =>
             stack'[i].ex \in Objects
  <2>1. stack' = Append(Popped(stack), f)
    BY <1>5
  <2> QED
    BY ONLY Zenon, <1>2, <1>6, <1>8, <2>1, StackReplaced
<1>10. /\ Kinds(stack', "handler") = Kinds(stack, "handler") \union {n + 1}
       /\ Kinds(stack', "building") = Kinds(stack, "building")
       /\ Kinds(stack, "handler") \subseteq 1..n /\ Kinds(stack, "building") \subseteq 1..n
       /\ Kinds(stack', "landing") = Kinds(stack, "landing")
       /\ Kinds(stack, "landing") \subseteq 1..n
  <2>1. \A k \in {"handler", "building", "landing"} : n + 1 \notin Kinds(stack, k)
    BY <1>6, <1>9, Zenon
  <2>2. \A k \in {"handler", "building", "landing"} :
          Kinds(stack, k) \subseteq 1..n /\ Kinds(stack, k) \ {n + 1} = Kinds(stack, k)
    BY <1>9, <2>1
  <2> QED
    BY <1>8, <1>9, <2>2, Zenon
<1>11. /\ Blocks(stack', e) = Blocks(stack, e) \union {n + 1} /\ n + 1 \notin Blocks(stack, e)
       /\ \A x : x # e => Blocks(stack', x) = Blocks(stack, x)
       /\ \A x : Blocks(stack, x) \subseteq 1..n
       /\ Cardinality(Blocks(stack', e)) = Cardinality(Blocks(stack, e)) + 1
       /\ Enclosing(stack', n + 2) = e
       /\ Enclosing(stack, n + 2) = Enclosing(stack, n + 1)
       /\ \A i \in 1..n + 1 : Enclosing(stack', i) = Enclosing(stack, i)
  <2>1. stack[n + 1].kind # "handler" /\ stack'[n + 1].kind = "handler" /\ stack'[n + 1].ex = e
    BY <1>6, <1>8, <1>9
  <2>2. TopIntoBlock(stack, stack', n, e)
    BY <1>3, <1>9, <2>1, Zenon DEF TopIntoBlock
  <2>3. OneBlockMore(stack, stack', n, e)
    BY <2>2, BlockAdded
  <2> QED
    BY <2>3 DEF OneBlockMore
<1>12. /\ obj' \in [Objects -> Exception] /\ \A x \in Objects \ {e} : obj'[x] = obj[x]
       /\ obj'[e].catchTemp = 0
       /\ obj'[e].hc = IF obj[e].hc < 0 THEN 1 - obj[e].hc ELSE obj[e].hc + 1
       /\ obj'[e].next = IF obj[e].hc = 0 THEN caught ELSE obj[e].next
       /\ obj'[e].alloc = obj[e].alloc /\ obj'[e].dependent = obj[e].dependent
       /\ obj'[e].type = obj[e].type /\ obj'[e].ref = obj[e].ref
       /\ obj'[e].primary = obj[e].primary
  BY ONLY SMTT(30), Z3T(30), Zenon, <1>2, <1>5, e \in Objects, HandlerObj
<1>13. e \in InFlight /\ e \in Objects \ Building /\ obj[e].alloc
  <2>1. e \in InFlight
    BY <1>1, <1>4 DEF InFlight
  <2> QED
    BY <1>1, <1>2, <2>1, FlyingIsAlive
<1>14. /\ obj[e].hc = -Cardinality(Blocks(stack, e)) /\ Cardinality(Blocks(stack, e)) \in Nat
       /\ obj[e].hc = 0 <=> Blocks(stack, e) = {}
       /\ obj'[e].hc = Cardinality(Blocks(stack, e)) + 1
  <2>1. obj[e].hc = -Cardinality(Blocks(stack, e))
    BY <1>1, <1>2, <1>13 DEF CaughtListIsNesting
  <2>2. IsFiniteSet(Blocks(stack, e)) /\ Cardinality(Blocks(stack, e)) \in Nat
    BY <1>3, BlocksFinite
  <2>3. Cardinality(Blocks(stack, e)) = 0 <=> Blocks(stack, e) = {}
    BY <2>2, FS_EmptySet
  <2>4. obj'[e].hc = IF obj[e].hc < 0 THEN 1 - obj[e].hc ELSE obj[e].hc + 1
    BY <1>12
  <2> QED
    BY ONLY <2>1, <2>2, <2>3, <2>4
<1>15. Blocks(stack, e) # {} => Enclosing(stack, n + 1) = e
  <2>1. Agree(stack, stack, n)
    BY <1>9, Zenon DEF Agree
  <2>2. Top.kind # "handler" /\ stack # <<>>
    BY <1>6
  <2> QED
    BY <1>1, <1>2, <1>3, <1>4, <1>9, <2>1, <2>2, CourseBelow
<1>16. caught = Enclosing(stack, n + 1) /\ caught' = e
  <2>1. caught = Enclosing(stack, (n + 1) + 1) /\ (n + 1) + 1 = n + 2
    BY <1>1, <1>2, <1>9, SMTT(60), Z3T(60), Zenon DEF CaughtListIsNesting
  <2>2. caught = Enclosing(stack, n + 1)
    BY <1>11, <2>1
  <2>3. caught' = IF obj[e].hc = 0 THEN e ELSE caught
    BY <1>5 DEF beginCaught
  <2> QED
    BY <1>14, <1>15, <2>2, <2>3, Zenon
<1>17. ExceptionTypes'
  <2>1. caught' \in Objects \union {None} /\ uncaught' \in Int
    BY <1>2, <1>5, <1>16, SMTT(30), Z3T(30), Zenon DEF ExceptionTypes
  <2> QED
    BY <1>1, <1>2, <1>5, <1>9, <1>12, <2>1, Zenon DEF ExceptionTypes
<1> DEFINE K == Kinds(stack, "landing")
<1>18. Flights = K \union {n + 2} /\ Flights' = K
  <2>1. Flights = K \union {n + 2}
    BY <1>1, <1>9, SMTT(60), Z3T(60), Zenon DEF Flights
  <2>2. Flights' = K
    BY <1>5, <1>10, Zenon DEF Flights, Run
  <2> QED
    BY <2>1, <2>2
<1>19. \A i \in K : i \in 1..n /\ Flight(i) = stack[i] /\ Flight(i)' = stack[i]
  BY <1>9, <1>10, SMTT(30), Z3T(30), Zenon DEF Flight
<1>20. Flight(n + 2) = mode
  <2>1. n + 2 \notin DOMAIN stack
    BY <1>9, SMTT(30), Z3T(30), Zenon
  <2> QED
    BY <2>1 DEF Flight
<1>21. \A i \in K : Flight(i).ex # e
  <2>1. \A i \in K : i # n + 2
    BY <1>19
  <2> QED
    BY <1>2, <1>4, <1>18, <1>20, <2>1, Zenon DEF FlightsInv
<1>22. InFlight' = InFlight \ {e}
  <2>1. InFlight = {stack[i].ex : i \in K} \union {e}
    BY <1>1, <1>4 DEF InFlight
  <2>2. InFlight' = {stack'[i].ex : i \in K}
    BY <1>5, <1>10, Zenon DEF InFlight, Run
  <2>3. \A i \in K : stack'[i] = stack[i] /\ stack[i].ex # e
    BY <1>9, <1>19, <1>21, Zenon
  <2> HIDE DEF K
  <2> QED
    BY <2>1, <2>2, <2>3
<1> HIDE DEF K
<1>23. FlightsInv'
  <2>1. \A i, j \in Flights' : Flight(i)'.ex = Flight(j)'.ex => i = j
    BY <1>2, <1>18, <1>19 DEF FlightsInv
  <2>2. ASSUME NEW x \in InFlight, x # e PROVE SameGoal(obj, obj', x)
    <3>1. x \in Objects \ Building /\ obj[x].alloc
      BY <1>1, <1>2, FlyingIsAlive
    <3>2. realExceptionFromException(obj, x) \in Objects
      BY <1>1, <1>2, <3>1, RealIsAlive
    <3>3. obj'[x] = obj[x] /\ realExceptionFromException(obj', x) = realExceptionFromException(obj, x)
      BY <1>12, <2>2, <3>1 DEF realExceptionFromException
    <3>4. \A y \in Objects : obj'[y].type = obj[y].type
      BY <1>12, Zenon
    <3> QED
      BY <3>2, <3>3, <3>4 DEF SameGoal
  <2>3. ASSUME NEW i \in Flights'
        PROVE  OnCourse(obj', stack', i, Flight(i)'.ex, Flight(i)'.target)
    <3>1. OnCourse(obj, stack, i, Flight(i).ex, Flight(i).target) /\ Flight(i).ex \in InFlight
      BY <1>2, <1>18, FlightFrames, Zenon DEF FlightsInv
    <3>2. i \in 1..n + 1 /\ Flight(i)' = Flight(i) /\ Flight(i).ex # e
      BY <1>18, <1>19, <1>21
    <3>3. SameGoal(obj, obj', Flight(i).ex)
          /\ Blocks(stack', Flight(i).ex) \subseteq Blocks(stack, Flight(i).ex)
      BY <1>11, <2>2, <3>1, <3>2
    <3>4. stack \in Seq(Frames) /\ stack' \in Seq(Frames) /\ Agree(stack, stack', n)
      BY <1>3, <1>9, Zenon
    <3>5. OnCourse(obj', stack', i, Flight(i).ex, Flight(i).target)
      BY ONLY <3>1, <3>2, <3>3, <3>4, CourseKept
    <3> QED
      BY <3>2, <3>5
  <2>4. \A x \in Objects : x \notin InFlight' => obj'[x].catchTemp = 0
    BY <1>2, <1>12, <1>22, Zenon DEF FlightsInv
  <2> QED
    BY <2>1, <2>3, <2>4, Zenon DEF FlightsInv
<1>24. CaughtListIsNesting'
  <2>1. caught' = Enclosing(stack', Len(stack') + 1)
    <3>1. Len(stack') + 1 = n + 2
      BY <1>9
    <3> QED
      BY <1>11, <1>16, <3>1
  <2>2. ASSUME NEW i \in Kinds(stack', "handler"), NEW x, x = stack'[i].ex
        PROVE  IF \E j \in Blocks(stack', x) : j < i THEN Enclosing(stack', i) = x
               ELSE obj'[x].next = Enclosing(stack', i)
    <3>1. CASE i = n + 1
      <4>1. x = e /\ Enclosing(stack', i) = Enclosing(stack, n + 1)
        BY <1>8, <1>9, <1>11, <2>2, <3>1, SMTT(60), Z3T(60), Zenon
      <4>2. (\E j \in Blocks(stack', e) : j < i) => Blocks(stack, e) # {}
        BY <1>11, <3>1
      <4>3. Blocks(stack, e) # {} => \E j \in Blocks(stack', e) : j < i
        BY <1>11, <3>1
      <4>4. Blocks(stack, e) = {} => obj'[e].next = caught
        BY <1>12, <1>14, Zenon
      <4> QED
        BY <1>15, <1>16, <4>1, <4>2, <4>3, <4>4, Zenon
    <3>2. CASE i # n + 1
      <4>1. i \in Kinds(stack, "handler") /\ i \in 1..n /\ stack'[i] = stack[i]
        BY <1>9, <1>10, <2>2, <3>2, Zenon
      <4>2. x = stack[i].ex /\ x \in Objects /\ i \in Blocks(stack, x)
        BY <1>2, <1>9, <2>2, <4>1, Zenon DEF ExceptionTypes, Kinds, Blocks
      <4>3. IF \E j \in Blocks(stack, x) : j < i THEN Enclosing(stack, i) = x
            ELSE obj[x].next = Enclosing(stack, i)
        BY <1>1, <1>2, <4>1, <4>2, Zenon DEF CaughtListIsNesting
      <4>4. Enclosing(stack', i) = Enclosing(stack, i)
        BY <1>11, <4>1
      <4>5. obj'[x].next = obj[x].next
        BY <1>12, <1>14, <4>2, Zenon
      <4>6. (\E j \in Blocks(stack', x) : j < i) <=> (\E j \in Blocks(stack, x) : j < i)
        BY <1>11, <4>1
      <4> QED
        BY <4>3, <4>4, <4>5, <4>6
    <3> QED
      BY <3>1, <3>2
  <2>3. ASSUME NEW x \in Objects
        PROVE  obj'[x].hc = IF x \in InFlight' THEN -Cardinality(Blocks(stack', x))
                            ELSE Cardinality(Blocks(stack', x))
    <3>1. CASE x = e
      BY <1>11, <1>14, <1>22, <3>1, Zenon
    <3>2. CASE x # e
      <4>1. obj[x].hc = IF x \in InFlight THEN -Cardinality(Blocks(stack, x))
                        ELSE Cardinality(Blocks(stack, x))
        BY <1>1, <1>2, Zenon DEF CaughtListIsNesting
      <4> QED
        BY <1>11, <1>12, <1>22, <3>2, <4>1, SMTT(30), Z3T(30), Zenon
    <3> QED
      BY <3>1, <3>2, Zenon
  <2> QED
    BY <2>1, <2>2, <2>3, Zenon DEF CaughtListIsNesting
<1>25. Handling' = Handling \union {e}
  <2>1. \A i \in Kinds(stack, "handler") : stack'[i] = stack[i]
    BY <1>9, <1>10, Zenon
  <2>2. stack'[n + 1].ex = e
    BY <1>8, <1>9, Zenon
  <2> QED
    BY <1>10, <2>1, <2>2, SMTT(30), Z3T(30), Zenon DEF Handling
<1>26. ObjectsInv' /\ ObjectsAccounted'
  <2>1. /\ Building' = Building
        /\ \A i, j \in Kinds(stack', "building") : stack'[i].ex = stack'[j].ex => i = j
    BY <1>2, <1>9, <1>10, BuildingKept, Zenon
  <2>2. \A x \in Objects : /\ obj'[x].alloc = obj[x].alloc
                           /\ obj'[x].dependent = obj[x].dependent
                           /\ obj'[x].primary = obj[x].primary
                           /\ obj'[x].ref = obj[x].ref
    BY <1>12, Zenon
  <2>3. \A x \in Objects : ~obj[x].alloc \/ x \in Building => obj'[x] = obj[x]
    BY <1>12, <1>13, Zenon
  <2>4. \A x : x \in InFlight' \union Handling' <=> x \in InFlight \union Handling
    BY <1>13, <1>22, <1>25
  <2> QED
    BY <1>1, <1>2, <1>17, <2>1, <2>2, <2>3, <2>4, LifeKept, Zenon
<1>27. UncaughtExact'
  <2>1. IsFiniteSet(InFlight)
    BY <1>2, ReferredObjects, ObjectsAssumption, FS_Subset
  <2>2. Cardinality(InFlight \ {e}) = Cardinality(InFlight) - 1
    BY <1>13, <2>1, FS_RemoveElement, Zenon
  <2>3. uncaught = Cardinality(InFlight)
    BY <1>1, <1>2 DEF UncaughtExact
  <2> QED
    BY <1>5, <1>22, <2>2, <2>3, Zenon DEF UncaughtExact
<1> QED
  BY <1>17, <1>23, <1>24, <1>26, <1>27 DEF ExceptionsInv

(***************************************************************************)
(* Catch blocks end.                                                       *)
(***************************************************************************)

\* The top of the stack s of n + 1 frames is a block of e and is gone in t.
BlockLeft(s, t, n, e) ==
  /\ s \in Seq(Frames) /\ t \in Seq(Frames) /\ n \in Nat
  /\ Len(s) = n + 1 /\ Len(t) = n /\ Agree(s, t, n)
  /\ s[n + 1].kind = "handler" /\ s[n + 1].ex = e

OneBlockLess(s, t, n, e) ==
  /\ Blocks(t, e) = Blocks(s, e) \ {n + 1} /\ n + 1 \in Blocks(s, e)
  /\ \A x : x # e => Blocks(t, x) = Blocks(s, x)
  /\ \A x : Blocks(t, x) \subseteq 1..n
  /\ Cardinality(Blocks(s, e)) \in Nat \ {0}
  /\ Cardinality(Blocks(t, e)) = Cardinality(Blocks(s, e)) - 1
  /\ Cardinality(Blocks(s, e)) = 1 <=> Blocks(t, e) = {}
  /\ Enclosing(s, n + 2) = e
  /\ \A i \in 1..n + 1 : Enclosing(t, i) = Enclosing(s, i)

LEMMA BlockRemoved ==
    ASSUME NEW s, NEW t, NEW n, NEW e, BlockLeft(s, t, n, e)
    PROVE  OneBlockLess(s, t, n, e)
<1> USE DEF BlockLeft
<1>0. \A i \in 1..n : t[i] = s[i]
  BY DEF Agree
<1>1. DOMAIN s = 1..n + 1 /\ DOMAIN t = 1..n /\ n + 1 \in 1..n + 1 /\ (n + 1) + 1 = n + 2
  OBVIOUS
<1>2. /\ Blocks(t, e) = Blocks(s, e) \ {n + 1} /\ n + 1 \in Blocks(s, e)
      /\ \A x : x # e => Blocks(t, x) = Blocks(s, x)
      /\ \A x : Blocks(t, x) \subseteq 1..n
  BY <1>0, <1>1 DEF Blocks, Kinds
<1>3. IsFiniteSet(Blocks(s, e)) /\ Cardinality(Blocks(s, e)) \in Nat
  BY BlocksFinite
<1>4. IsFiniteSet(Blocks(t, e)) /\ Cardinality(Blocks(t, e)) \in Nat
  BY BlocksFinite
<1>5. Cardinality(Blocks(t, e)) = Cardinality(Blocks(s, e)) - 1
  BY <1>2, <1>3, FS_RemoveElement, ZenonT(30)
<1>6. Cardinality(Blocks(t, e)) = 0 <=> Blocks(t, e) = {}
  BY <1>4, FS_EmptySet
<1>7. /\ Cardinality(Blocks(s, e)) \in Nat \ {0}
      /\ Cardinality(Blocks(s, e)) = 1 <=> Blocks(t, e) = {}
  BY <1>3, <1>4, <1>5, <1>6
<1>8. Enclosing(s, (n + 1) + 1) = e
  BY <1>1, EnclosingStep
<1>9. \A i \in 1..n + 1 : Enclosing(t, i) = Enclosing(s, i)
  <2>1. n <= Len(s) /\ n <= Len(t)
    OBVIOUS
  <2> QED
    BY <1>0, <2>1, EnclosingAgree
<1> QED
  BY <1>1, <1>2, <1>5, <1>7, <1>8, <1>9, Zenon DEF OneBlockLess

\* The list of caught exceptions when the innermost block ends.
LEMMA EndList ==
    ASSUME ExceptionTypes, CaughtListIsNesting, Live,
           NEW n, NEW e, BlockLeft(stack, stack', n, e),
           caught' = IF Cardinality(Blocks(stack, e)) = 1 THEN obj[e].next ELSE caught,
           \A x \in Objects : Blocks(stack', x) # {} => obj'[x].next = obj[x].next,
           \A x \in Objects : obj'[x].hc = IF x \in InFlight' THEN -Cardinality(Blocks(stack', x))
                                           ELSE Cardinality(Blocks(stack', x))
    PROVE  CaughtListIsNesting'
<1>1. OneBlockLess(stack, stack', n, e)
  BY BlockRemoved, Zenon
<1>2. /\ n \in Nat /\ Len(stack) = n + 1 /\ Len(stack') = n /\ stack[n + 1].kind = "handler"
      /\ stack[n + 1].ex = e /\ stack \in Seq(Frames) /\ stack' \in Seq(Frames)
      /\ \A i \in 1..n : stack'[i] = stack[i]
  BY DEF BlockLeft, Agree
<1>3. DOMAIN stack = 1..n + 1 /\ DOMAIN stack' = 1..n /\ n + 1 \in Kinds(stack, "handler")
  BY <1>2 DEF Kinds
<1>4. caught = e
  <2>1. Len(stack) + 1 = n + 2
    BY <1>2, SMTT(30), Z3T(30), Zenon
  <2> QED
    BY <1>1, <2>1, Zenon DEF CaughtListIsNesting, OneBlockLess
<1>5. IF \E j \in Blocks(stack, e) : j < n + 1 THEN Enclosing(stack, n + 1) = e
      ELSE obj[e].next = Enclosing(stack, n + 1)
  BY <1>2, <1>3, Zenon DEF CaughtListIsNesting
<1>6. (\E j \in Blocks(stack, e) : j < n + 1) <=> Blocks(stack', e) # {}
  <2>1. Blocks(stack, e) \subseteq 1..n + 1
    BY <1>3, Zenon DEF Blocks, Kinds
  <2>2. Blocks(stack', e) = Blocks(stack, e) \ {n + 1}
    BY <1>1, Zenon DEF OneBlockLess
  <2> QED
    BY <1>2, <2>1, <2>2, SMTT(60), Z3T(60), Zenon
<1>7. caught' = Enclosing(stack', Len(stack') + 1)
  <2>1. caught' = Enclosing(stack, n + 1)
    BY <1>1, <1>4, <1>5, <1>6, Zenon DEF OneBlockLess
  <2>2. Enclosing(stack', n + 1) = Enclosing(stack, n + 1)
    BY <1>1, <1>2, SMTT(60), Z3T(60), Zenon DEF OneBlockLess
  <2> QED
    BY <1>2, <2>1, <2>2, Zenon
<1>8. ASSUME NEW i \in Kinds(stack', "handler"), NEW x, x = stack'[i].ex
      PROVE  IF \E j \in Blocks(stack', x) : j < i THEN Enclosing(stack', i) = x
             ELSE obj'[x].next = Enclosing(stack', i)
  <2>1. i \in 1..n /\ stack'[i] = stack[i] /\ i \in Kinds(stack, "handler") /\ x = stack[i].ex
    BY <1>2, <1>3, <1>8, SMTT(30), Z3T(30), Zenon DEF Kinds
  <2>2. x \in Objects /\ i \in Blocks(stack', x)
    BY <1>3, <1>8, <2>1, Zenon DEF ExceptionTypes, Kinds, Blocks
  <2>3. IF \E j \in Blocks(stack, x) : j < i THEN Enclosing(stack, i) = x
        ELSE obj[x].next = Enclosing(stack, i)
    BY <2>1, Zenon DEF CaughtListIsNesting
  <2>4. Enclosing(stack', i) = Enclosing(stack, i)
    BY <1>1, <1>2, <2>1, SMTT(60), Z3T(60), Zenon DEF OneBlockLess
  <2>5. obj'[x].next = obj[x].next
    BY <2>2, Zenon
  <2>6. (\E j \in Blocks(stack', x) : j < i) <=> (\E j \in Blocks(stack, x) : j < i)
    <3>1. Blocks(stack', x) = Blocks(stack, x) \/ Blocks(stack', x) = Blocks(stack, x) \ {n + 1}
      BY <1>1, Zenon DEF OneBlockLess
    <3> QED
      BY <1>2, <2>1, <3>1, SMTT(30), Z3T(30), Zenon
  <2> QED
    BY <2>3, <2>4, <2>5, <2>6, Zenon
<1> QED
  BY <1>7, <1>8, Zenon DEF CaughtListIsNesting

\* An object lives on: at most its counts of references and handlers change.
Survives(a, b) ==
  /\ b.alloc = a.alloc /\ b.dependent = a.dependent /\ b.type = a.type
  /\ b.next = a.next /\ b.catchTemp = a.catchTemp /\ b.primary = a.primary

\* A dependent exception that stands for x is on its way.
FlownFor(x) == \E d \in InFlight : obj[d].dependent /\ obj[d].primary = x

\* A block ends; what flies and what is under construction stays.
LEMMA EndSets ==
    ASSUME ExceptionTypes, ObjectsInv, stack # <<>>, stack' = Popped(stack),
           Top.kind = "handler", mode' = mode
    PROVE  /\ InFlight' = InFlight /\ Building' = Building
           /\ \A i, j \in Kinds(stack', "building") : stack'[i].ex = stack'[j].ex => i = j
           /\ \A x : x \in Handling' <=> Blocks(stack', x) # {}
           /\ \E n \in Nat : BlockLeft(stack, stack', n, Top.ex)
           /\ Top.ex \in Objects /\ Top.ex \in Handling
           /\ stack' \in Seq(Frames)
           /\ \A i \in DOMAIN stack' : stack'[i].kind \in {"building", "handler", "landing"} =>
                stack'[i].ex \in Objects
<1>1. stack \in Seq(Frames)
  BY DEF ExceptionTypes
<1>2. PICK n \in Nat :
        /\ Len(stack) = n + 1 /\ Len(stack') = n /\ stack' \in Seq(Frames)
        /\ Agree(stack, stack', n) /\ Top = stack[n + 1]
        /\ DOMAIN stack = 1..n + 1 /\ DOMAIN stack' = 1..n
        /\ \A i \in 1..n : stack'[i] = stack[i]
        /\ \A k : /\ Kinds(stack', k) = Kinds(stack, k) \ {n + 1}
                  /\ Kinds(stack', k) \subseteq 1..n
                  /\ Top.kind = k => n + 1 \in Kinds(stack, k)
                  /\ Top.kind # k => Kinds(stack', k) = Kinds(stack, k)
        /\ \A i \in DOMAIN stack' : stack'[i].kind \in {"building", "handler", "landing"} =>
             stack'[i].ex \in Objects
  BY ONLY ExceptionTypes, stack # <<>>, stack' = Popped(stack), StackPopped
<1>3. /\ Kinds(stack', "building") = Kinds(stack, "building")
      /\ Kinds(stack', "landing") = Kinds(stack, "landing")
      /\ Kinds(stack, "building") \subseteq 1..n /\ Kinds(stack, "landing") \subseteq 1..n
  BY <1>2
<1>4. InFlight' = InFlight
  BY <1>2, <1>3 DEF InFlight
<1>5. /\ Building' = Building
      /\ \A i, j \in Kinds(stack', "building") : stack'[i].ex = stack'[j].ex => i = j
  BY <1>2, <1>3, BuildingKept
<1>6. \A x : x \in Handling' <=> Blocks(stack', x) # {}
  BY DEF Handling, Blocks
<1>7. BlockLeft(stack, stack', n, Top.ex)
  BY <1>1, <1>2 DEF BlockLeft
<1>8. Top.ex \in Objects /\ Top.ex \in Handling
  <2>1. n + 1 \in DOMAIN stack /\ n + 1 \in Kinds(stack, "handler")
    BY <1>2
  <2> QED
    BY <1>2, <2>1 DEF ExceptionTypes, Handling
<1> QED
  BY <1>2, <1>4, <1>5, <1>6, <1>7, <1>8, Zenon

\* The flights when the innermost block ends, left by the program or by the
\* exception on its way.
LEMMA EndFlights ==
    ASSUME ExceptionTypes, ExceptionTypes', FlightsInv, ObjectsInv, ObjectsAccounted,
           CaughtListIsNesting, Live,
           mode = Run \/ (mode.pc = "unwind" /\ Len(stack) > mode.target), mode' = mode,
           stack # <<>>, stack' = Popped(stack), Top.kind = "handler",
           \A x \in Objects : \/ Survives(obj[x], obj'[x])
                              \/ obj'[x] = Free /\ x \notin InFlight /\ ~FlownFor(x)
    PROVE  FlightsInv'
<1>1. PICK n \in Nat :
        /\ Len(stack) = n + 1 /\ Len(stack') = n /\ stack' \in Seq(Frames)
        /\ Agree(stack, stack', n) /\ Top = stack[n + 1]
        /\ DOMAIN stack = 1..n + 1 /\ DOMAIN stack' = 1..n
        /\ \A i \in 1..n : stack'[i] = stack[i]
        /\ \A k : /\ Kinds(stack', k) = Kinds(stack, k) \ {n + 1}
                  /\ Kinds(stack', k) \subseteq 1..n
                  /\ Top.kind = k => n + 1 \in Kinds(stack, k)
                  /\ Top.kind # k => Kinds(stack', k) = Kinds(stack, k)
        /\ \A i \in DOMAIN stack' : stack'[i].kind \in {"building", "handler", "landing"} =>
             stack'[i].ex \in Objects
  BY ONLY ExceptionTypes, stack # <<>>, stack' = Popped(stack), StackPopped
<1>2. \A x : Blocks(stack', x) \subseteq Blocks(stack, x)
  BY <1>1, SMTT(30), Z3T(30), Zenon DEF Blocks, Kinds
<1>3. ASSUME NEW x \in InFlight PROVE SameGoal(obj, obj', x)
  <2>1. x \in Objects \ Building /\ obj[x].alloc
    BY FlyingIsAlive
  <2> DEFINE r == realExceptionFromException(obj, x)
  <2>2. r \in Objects
    BY <2>1, RealIsAlive, Zenon
  <2>3. Survives(obj[x], obj'[x])
    BY <2>1
  <2>4. r = x \/ FlownFor(r)
    BY DEF realExceptionFromException, FlownFor
  <2>5. realExceptionFromException(obj', x) = r
    BY <2>3, Zenon DEF realExceptionFromException, Survives
  <2> HIDE DEF r
  <2>6. Survives(obj[r], obj'[r])
    BY <2>2, <2>3, <2>4
  <2> QED
    BY <2>3, <2>5, <2>6, Zenon DEF SameGoal, Survives, r
<1>4. \A x \in Objects : obj[x].catchTemp = 0 => obj'[x].catchTemp = 0
  BY FreeException DEF Survives
<1>5. CASE mode = Run
  <2>1. Kinds(stack', "landing") = Kinds(stack, "landing") /\ Kinds(stack, "landing") \subseteq 1..n
    BY <1>1
  <2> QED
    BY <1>1, <1>2, <1>3, <1>4, <1>5, <2>1, FlightsKept, Zenon
<1>6. CASE mode.pc = "unwind" /\ Len(stack) > mode.target
  <2> PICK e : e = Top.ex
    BY Zenon
  <2>1. BlockLeft(stack, stack', n, e) /\ stack \in Seq(Frames)
    BY <1>1, Zenon DEF BlockLeft, ExceptionTypes
  <2>2. OneBlockLess(stack, stack', n, e)
    BY <2>1, BlockRemoved
  <2>3. Blocks(stack', mode.ex) # {} => Enclosing(stack', Len(stack') + 1) = mode.ex
    <3> SUFFICES ASSUME Blocks(stack', mode.ex) # {}
                 PROVE  Enclosing(stack', n + 1) = mode.ex
      BY <1>1, Zenon
    <3>1. n + 2 \in Flights /\ Flight(n + 2) = mode
      <4>1. n + 2 \notin DOMAIN stack /\ Len(stack) + 1 = n + 2
        BY <1>1, SMTT(30), Z3T(30), Zenon
      <4> QED
        BY <1>6, <4>1 DEF Flights, Flight
    <3>2. Enclosing(stack, n + 2) = mode.ex
      BY <1>2, <3>1, Zenon DEF FlightsInv, OnCourse
    <3>3. mode.ex = e
      BY <2>2, <3>2, Zenon DEF OneBlockLess
    <3>4. \E j \in Blocks(stack, e) : j < n + 1
      <4>1. Blocks(stack', e) # {} /\ Blocks(stack', e) \subseteq 1..n
        BY <2>2, <3>3 DEF OneBlockLess
      <4> QED
        BY <1>2, <4>1
    <3>5. n + 1 \in Kinds(stack, "handler") /\ stack[n + 1].ex = e
      BY <1>1, Zenon
    <3>6. Enclosing(stack, n + 1) = e
      BY <3>4, <3>5, Zenon DEF CaughtListIsNesting
    <3>7. Enclosing(stack', n + 1) = Enclosing(stack, n + 1)
      BY <2>2, SMTT(60), Z3T(60), Zenon DEF OneBlockLess
    <3> QED
      BY <3>3, <3>6, <3>7
  <2> QED
    BY <1>3, <1>4, <1>6, <2>3, FlightsDown, Zenon
<1> QED
  BY <1>5, <1>6

\* What is left to show of the end of a block: the lives of the objects.
LEMMA BlockEnds ==
    ASSUME ExceptionsInv,
           mode = Run \/ (mode.pc = "unwind" /\ Len(stack) > mode.target),
           UNCHANGED <<uncaught, ptrs, mode>>,
           stack # <<>>, stack' = Popped(stack), Top.kind = "handler",
           obj' \in [Objects -> Exception], NEW e, e = Top.ex,
           caught' = IF Cardinality(Blocks(stack, e)) = 1 THEN obj[e].next ELSE caught,
           \A x \in Objects : obj'[x].hc = IF x \in InFlight THEN -Cardinality(Blocks(stack', x))
                                           ELSE Cardinality(Blocks(stack', x)),
           \A x \in Objects : \/ Survives(obj[x], obj'[x])
                              \/ /\ obj'[x] = Free /\ x \notin InFlight /\ ~FlownFor(x)
                                 /\ Blocks(stack', x) = {},
           ObjectsInv', ObjectsAccounted'
    PROVE  ExceptionsInv'
<1>1. Live /\ Live'
  BY SMTT(60), Z3T(60), Zenon DEF Live, Run
<1>2. /\ ExceptionTypes /\ FlightsInv /\ ObjectsInv
      /\ ObjectsAccounted /\ CaughtListIsNesting /\ UncaughtExact
  BY <1>1, Zenon DEF ExceptionsInv
<1>3. /\ InFlight' = InFlight /\ e \in Objects /\ stack' \in Seq(Frames)
      /\ \A i \in DOMAIN stack' : stack'[i].kind \in {"building", "handler", "landing"} =>
           stack'[i].ex \in Objects
  BY <1>2, EndSets, Zenon
<1>4. PICK n \in Nat : BlockLeft(stack, stack', n, e)
  BY <1>2, EndSets, Zenon
<1>5. ExceptionTypes'
  <2>1. obj[e] \in Exception
    BY <1>2, <1>3, Zenon DEF ExceptionTypes
  <2>2. obj[e].next \in Objects \union {None}
    BY <2>1, Zenon DEF Exception
  <2>3. caught' \in Objects \union {None}
    BY <1>2, <2>2, Zenon DEF ExceptionTypes
  <2> QED
    BY <1>2, <1>3, <2>3, Zenon DEF ExceptionTypes
<1>6. FlightsInv'
  BY <1>1, <1>2, <1>5, EndFlights, Zenon
<1>7. CaughtListIsNesting'
  <2>1. \A x \in Objects : Blocks(stack', x) # {} => obj'[x].next = obj[x].next
    BY Zenon DEF Survives
  <2>2. \A x \in Objects : obj'[x].hc = IF x \in InFlight' THEN -Cardinality(Blocks(stack', x))
                                        ELSE Cardinality(Blocks(stack', x))
    BY <1>3, Zenon
  <2> QED
    BY <1>1, <1>2, <1>4, <2>1, <2>2, EndList, Zenon
<1>8. UncaughtExact'
  BY <1>1, <1>2, <1>3, Zenon DEF UncaughtExact
<1> QED
  BY <1>5, <1>6, <1>7, <1>8, Zenon DEF ExceptionsInv

\* The dependents of an exception are finitely many.
LEMMA DependentsFinite ==
    ASSUME NEW e
    PROVE  IsFiniteSet(Dependents(e)) /\ Cardinality(Dependents(e)) \in Nat
           /\ (Cardinality(Dependents(e)) = 0 <=> Dependents(e) = {})
<1>1. IsFiniteSet(Dependents(e))
  BY ObjectsAssumption, FS_Subset DEF Dependents
<1> QED
  BY <1>1, FS_CardinalityType, FS_EmptySet

\* The last block of an exception that was thrown here ends: the reference
\* of the throw is given up.
LEMMA ReleasePrimary ==
    ASSUME ExceptionTypes, ObjectsInv, ObjectsAccounted, Live,
           NEW e \in Objects, obj[e].alloc, ~obj[e].dependent, e \notin Building, InUse(e) = 1,
           obj' \in [Objects -> Exception],
           \A x \in Objects \ {e} : obj'[x] = obj[x],
           obj[e].ref = 1 => obj'[e] = Free,
           obj[e].ref # 1 => Survives(obj[e], obj'[e]) /\ obj'[e].ref = obj[e].ref - 1,
           ptrs' = ptrs, Building' = Building,
           \A i, j \in Kinds(stack', "building") : stack'[i].ex = stack'[j].ex => i = j,
           InUse(e)' = 0, \A x \in Objects \ {e} : InUse(x)' = InUse(x)
    PROVE  ObjectsInv' /\ ObjectsAccounted' /\ (obj[e].ref = 1 => Dependents(e) = {})
<1>1. obj[e].ref = 1 + ptrs[e] + Cardinality(Dependents(e)) /\ ptrs[e] \in Nat
  BY Zenon DEF ObjectsAccounted, ExceptionTypes
<1>2. Cardinality(Dependents(e)) \in Nat /\ (Cardinality(Dependents(e)) = 0 <=> Dependents(e) = {})
  BY DependentsFinite, Zenon
<1>3. obj[e].ref = 1 <=> (ptrs[e] = 0 /\ Dependents(e) = {})
  BY <1>1, <1>2, SMTT(30), Z3T(30), Zenon
<1>4. ~obj'[e].dependent /\ (obj'[e].alloc <=> obj[e].ref # 1)
  BY FreeException, Zenon DEF Survives
<1>5. \A x \in Objects : Dependents(x)' = Dependents(x)
  BY <1>4, Zenon DEF Dependents
<1>6. \A x \in Building : x \in Objects \ {e}
  BY ReferredObjects, Zenon
<1>7. ObjectsAccounted'
  <2>1. ASSUME NEW x \in Objects
        PROVE  /\ obj'[x].alloc <=> (InUse(x)' = 1 \/ x \in Building' \/ ptrs'[x] > 0
                                       \/ Dependents(x)' # {})
               /\ obj'[x].alloc /\ ~obj'[x].dependent /\ x \notin Building' =>
                    obj'[x].ref = InUse(x)' + ptrs'[x] + Cardinality(Dependents(x)')
    <3>1. CASE x = e
      <4>1. Dependents(e)' = Dependents(e)
        BY <1>5, Zenon
      <4>2. obj'[e].alloc => obj'[e].ref = ptrs[e] + Cardinality(Dependents(e))
        BY <1>1, <1>2, <1>4, SMTT(60), Z3T(60), Zenon
      <4> QED
        BY <1>1, <1>2, <1>3, <1>4, <3>1, <4>1, <4>2, SMTT(60), Z3T(60), Zenon
    <3>2. CASE x # e
      <4>1. obj'[x] = obj[x] /\ InUse(x)' = InUse(x) /\ Dependents(x)' = Dependents(x)
        BY <1>5, <3>2, Zenon
      <4> QED
        BY <4>1, Zenon DEF ObjectsAccounted
    <3> QED
      BY <3>1, <3>2, Zenon
  <2> QED
    BY <2>1, Zenon DEF ObjectsAccounted
<1>8. ObjectsInv'
  <2>1. \A x \in Objects : ~obj'[x].alloc => obj'[x] = Free
    BY <1>4 DEF ObjectsInv
  <2>2. ASSUME NEW x \in Building'
        PROVE  /\ obj'[x] = [Free EXCEPT !.alloc = TRUE]
               /\ x \notin InFlight' \union Handling' /\ ptrs'[x] = 0 /\ Dependents(x)' = {}
    <3>1. x \in Building /\ x \in Objects \ {e}
      BY <1>6, Zenon
    <3>2. x \notin InFlight' \union Handling'
      BY <3>1 DEF InUse, ObjectsInv
    <3> QED
      BY <1>5, <3>1, <3>2 DEF ObjectsInv
  <2>3. \A d \in Objects : obj'[d].dependent =>
          /\ ptrs'[d] = 0 /\ Dependents(d)' = {}
          /\ obj'[d].primary \in Objects \ Building'
    BY <1>4, <1>5 DEF ObjectsInv
  <2> QED
    BY <2>1, <2>2, <2>3, Zenon DEF ObjectsInv
<1> QED
  BY <1>3, <1>7, <1>8, Zenon

\* The last block of a rethrown pointer's exception ends: the dependent
\* exception is freed and its reference to the primary one is given up.
LEMMA ReleaseDependent ==
    ASSUME ExceptionTypes, ObjectsInv, ObjectsAccounted, Live,
           NEW e \in Objects, obj[e].alloc, obj[e].dependent, e \notin Building,
           NEW p, p = obj[e].primary,
           obj' \in [Objects -> Exception],
           \A x \in Objects \ {e, p} : obj'[x] = obj[x], obj'[e] = Free,
           obj[p].ref = 1 => obj'[p] = Free,
           obj[p].ref # 1 => Survives(obj[p], obj'[p]) /\ obj'[p].ref = obj[p].ref - 1,
           ptrs' = ptrs, Building' = Building,
           \A i, j \in Kinds(stack', "building") : stack'[i].ex = stack'[j].ex => i = j,
           InUse(e)' = 0, \A x \in Objects \ {e} : InUse(x)' = InUse(x)
    PROVE  /\ ObjectsInv' /\ ObjectsAccounted'
           /\ obj[p].ref = 1 => InUse(p) = 0 /\ Dependents(p) = {e}
<1>1. /\ ptrs[e] = 0 /\ Dependents(e) = {} /\ p \in Objects \ Building
      /\ e \in Dependents(p) /\ p # e
  BY DEF ObjectsInv, Dependents
<1>2. obj[p].alloc /\ ~obj[p].dependent
  BY <1>1, RealIsAlive, Zenon DEF realExceptionFromException
<1>3. /\ obj[p].ref = InUse(p) + ptrs[p] + Cardinality(Dependents(p)) /\ ptrs[p] \in Nat
      /\ InUse(p) \in {0, 1}
  BY <1>1, <1>2, Zenon DEF ObjectsAccounted, ExceptionTypes, InUse
<1>4. /\ ~obj'[e].alloc /\ ~obj'[e].dependent /\ ~obj'[p].dependent
      /\ obj'[p].alloc <=> obj[p].ref # 1
  BY <1>2, FreeException, Zenon DEF Survives
<1>5. /\ Dependents(p)' = Dependents(p) \ {e}
      /\ \A x \in Objects \ {p} : Dependents(x)' = Dependents(x)
  BY <1>1, <1>2, <1>4, SMTT(60), Z3T(60), Zenon DEF Dependents
<1>6. /\ Cardinality(Dependents(p)) \in Nat \ {0}
      /\ Cardinality(Dependents(p) \ {e}) = Cardinality(Dependents(p)) - 1
      /\ Cardinality(Dependents(p)) = 1 <=> Dependents(p) \ {e} = {}
  <2>1. /\ IsFiniteSet(Dependents(p)) /\ Cardinality(Dependents(p)) \in Nat
        /\ (Cardinality(Dependents(p)) = 0 <=> Dependents(p) = {})
    BY DependentsFinite, Zenon
  <2>2. Cardinality(Dependents(p) \ {e}) = Cardinality(Dependents(p)) - 1
    BY <1>1, <2>1, FS_RemoveElement, ZenonT(30)
  <2>3. Cardinality(Dependents(p) \ {e}) = 0 <=> Dependents(p) \ {e} = {}
    <3>1. IsFiniteSet(Dependents(p) \ {e})
      BY <2>1, FS_Subset, Zenon
    <3> QED
      BY <3>1, FS_EmptySet, Zenon
  <2> QED
    BY <1>1, <2>1, <2>2, <2>3, SMTT(60), Z3T(60), Zenon
<1>7. obj[p].ref = 1 <=> (InUse(p) = 0 /\ ptrs[p] = 0 /\ Dependents(p) \ {e} = {})
  BY <1>3, <1>6, SMTT(60), Z3T(60), Zenon
<1>8. \A x \in Building : x \in Objects \ {e, p}
  BY <1>1, ReferredObjects, Zenon
<1>9. ObjectsAccounted'
  <2>1. ASSUME NEW x \in Objects
        PROVE  /\ obj'[x].alloc <=> (InUse(x)' = 1 \/ x \in Building' \/ ptrs'[x] > 0
                                       \/ Dependents(x)' # {})
               /\ obj'[x].alloc /\ ~obj'[x].dependent /\ x \notin Building' =>
                    obj'[x].ref = InUse(x)' + ptrs'[x] + Cardinality(Dependents(x)')
    <3>1. CASE x = e
      <4>1. Dependents(e)' = {}
        BY <1>1, <1>5, Zenon
      <4> QED
        BY <1>1, <1>4, <3>1, <4>1, SMTT(60), Z3T(60), Zenon
    <3>2. CASE x = p
      <4>1. InUse(p)' = InUse(p) /\ Dependents(p)' = Dependents(p) \ {e} /\ p \notin Building'
        BY <1>1, <1>5, Zenon
      <4>2. obj'[p].alloc => obj'[p].ref = InUse(p) + ptrs[p] + Cardinality(Dependents(p) \ {e})
        BY <1>3, <1>4, <1>6, SMTT(60), Z3T(60), Zenon
      <4>3. obj'[p].alloc <=> ~(InUse(p) = 0 /\ ptrs[p] = 0 /\ Dependents(p) \ {e} = {})
        BY <1>4, <1>7, Zenon
      <4> QED
        BY <1>3, <3>2, <4>1, <4>2, <4>3, SMTT(60), Z3T(60), Zenon
    <3>3. CASE x \in Objects \ {e, p}
      <4>1. obj'[x] = obj[x] /\ InUse(x)' = InUse(x) /\ Dependents(x)' = Dependents(x)
        BY <1>5, <3>3, Zenon
      <4> QED
        BY <4>1, Zenon DEF ObjectsAccounted
    <3> QED
      BY <3>1, <3>2, <3>3, Zenon
  <2> QED
    BY <2>1, Zenon DEF ObjectsAccounted
<1>10. ObjectsInv'
  <2>1. \A x \in Objects : ~obj'[x].alloc => obj'[x] = Free
    BY <1>4 DEF ObjectsInv
  <2>2. ASSUME NEW x \in Building'
        PROVE  /\ obj'[x] = [Free EXCEPT !.alloc = TRUE]
               /\ x \notin InFlight' \union Handling' /\ ptrs'[x] = 0 /\ Dependents(x)' = {}
    <3>1. x \in Building /\ x \in Objects \ {e, p}
      BY <1>8, Zenon
    <3>2. x \notin InFlight' \union Handling'
      BY <3>1 DEF InUse, ObjectsInv
    <3> QED
      BY <1>5, <3>1, <3>2 DEF ObjectsInv
  <2>3. ASSUME NEW d \in Objects, obj'[d].dependent
        PROVE  /\ ptrs'[d] = 0 /\ Dependents(d)' = {}
               /\ obj'[d].primary \in Objects \ Building'
    <3>1. d \in Objects \ {e, p}
      BY <1>4, <2>3, Zenon
    <3> QED
      BY <1>5, <2>3, <3>1 DEF ObjectsInv
  <2> QED
    BY <2>1, <2>2, <2>3, Zenon DEF ObjectsInv
<1> QED
  BY <1>1, <1>7, <1>9, <1>10, Zenon

\* The count of handlers of one object is changed.
Counted(p, e, h) == [p EXCEPT ![e].hc = h]

LEMMA CountObj ==
    ASSUME NEW p \in [Objects -> Exception], NEW e \in Objects, NEW h \in Int,
           NEW o, o = Counted(p, e, h)
    PROVE  /\ o \in [Objects -> Exception] /\ \A x \in Objects \ {e} : o[x] = p[x]
           /\ Survives(p[e], o[e]) /\ o[e].ref = p[e].ref /\ o[e].hc = h
<1> DEFINE v == [p[e] EXCEPT !.hc = h]
<1>1. p[e] \in Exception
  OBVIOUS
<1>2. v \in Exception /\ Survives(p[e], v) /\ v.ref = p[e].ref /\ v.hc = h
  BY <1>1 DEF Exception, Survives
<1>3. o = [p EXCEPT ![e] = v]
  BY DEF Counted
<1> HIDE DEF v
<1> QED
  BY <1>2, <1>3

\* One reference to an object is given up, field by field.
OneReferenceLess(o, r, p) ==
  /\ r \in [Objects -> Exception]
  /\ \A x \in Objects \ {p} : r[x] = o[x]
  /\ o[p].ref = 1 => r[p] = Free
  /\ o[p].ref # 1 => SameButRef(o[p], r[p]) /\ r[p].ref = o[p].ref - 1

LEMMA ReleasedObj ==
    ASSUME NEW o \in [Objects -> Exception], NEW p \in Objects, o[p].ref >= 1
    PROVE  OneReferenceLess(o, ReleaseOne(o, p), p)
<1> PICK r : r = ReleaseOne(o, p)
  OBVIOUS
<1> SUFFICES OneReferenceLess(o, r, p)
  OBVIOUS
<1>1. o[p] \in Exception
  OBVIOUS
<1>2. CASE o[p].ref = 1
  BY <1>1, <1>2, FreeException DEF ReleaseOne, __cxa_free_exception, OneReferenceLess
<1>3. CASE o[p].ref # 1
  <2> DEFINE v == [o[p] EXCEPT !.ref = @ - 1]
  <2>1. v \in Exception /\ SameButRef(o[p], v) /\ v.ref = o[p].ref - 1
    BY <1>1, <1>3 DEF Exception, SameButRef
  <2>2. r = [o EXCEPT ![p] = v]
    BY <1>3 DEF ReleaseOne
  <2> HIDE DEF v
  <2> QED
    BY <1>3, <2>1, <2>2 DEF OneReferenceLess
<1> QED
  BY <1>2, <1>3

\* The end of a catch block, __cxa_end_catch, wherever it is called from.
LEMMA EndCatchKeeps ==
    ASSUME ExceptionsInv,
           mode = Run \/ (mode.pc = "unwind" /\ Len(stack) > mode.target),
           UNCHANGED <<uncaught, ptrs, mode>>,
           stack # <<>>, stack' = Popped(stack), Top.kind = "handler", endCatch
    PROVE  ExceptionsInv'
<1>1. Live
  BY DEF Live, Run
<1>2. /\ ExceptionTypes /\ FlightsInv /\ ObjectsInv
      /\ ObjectsAccounted /\ CaughtListIsNesting /\ UncaughtExact
  BY <1>1 DEF ExceptionsInv
<1> PICK e : e = Top.ex
  OBVIOUS
<1>3. /\ InFlight' = InFlight /\ Building' = Building
      /\ \A i, j \in Kinds(stack', "building") : stack'[i].ex = stack'[j].ex => i = j
      /\ \A x : x \in Handling' <=> Blocks(stack', x) # {}
      /\ e \in Objects /\ e \in Handling
  BY <1>2, EndSets, Zenon
<1>4. PICK n \in Nat : BlockLeft(stack, stack', n, e)
  BY <1>2, EndSets
<1>5. OneBlockLess(stack, stack', n, e)
  BY <1>4, BlockRemoved
<1> PICK c : c = Cardinality(Blocks(stack, e))
  OBVIOUS
<1>6. /\ c \in Nat \ {0} /\ Cardinality(Blocks(stack', e)) = c - 1
      /\ c = 1 <=> Blocks(stack', e) = {}
      /\ \A x : x # e => Blocks(stack', x) = Blocks(stack, x)
  BY <1>5 DEF OneBlockLess
<1>7. caught = e
  <2>1. Len(stack) + 1 = n + 2
    BY <1>4 DEF BlockLeft
  <2> QED
    BY <1>1, <1>2, <1>5, <2>1, Zenon DEF CaughtListIsNesting, OneBlockLess
<1>8. obj[e].hc = IF e \in InFlight THEN -c ELSE c
  BY <1>1, <1>2, <1>3, Zenon DEF CaughtListIsNesting
<1> PICK h : h = IF e \in InFlight THEN -(c - 1) ELSE c - 1
  OBVIOUS
<1>9. h \in Int /\ (h = 0 <=> c = 1) /\ endCount(obj[e].hc) = h /\ (obj[e].hc > 0 <=> e \notin InFlight)
  BY <1>6, <1>8, SMTT(30), Z3T(30), Zenon DEF endCount
<1>o. PICK o : o = Counted(obj, e, h)
  OBVIOUS
<1>10. /\ caught' = IF c = 1 THEN obj[e].next ELSE caught
       /\ obj' = IF c = 1 /\ e \notin InFlight THEN releaseException(o, e) ELSE o
  BY <1>7, <1>9, <1>o, Zenon DEF endCatch, Counted
<1>11. /\ o \in [Objects -> Exception] /\ \A x \in Objects \ {e} : o[x] = obj[x]
       /\ Survives(obj[e], o[e]) /\ o[e].ref = obj[e].ref /\ o[e].hc = h
  <2>1. obj \in [Objects -> Exception]
    BY <1>2 DEF ExceptionTypes
  <2> QED
    BY ONLY SMTT(60), Z3T(60), Zenon, <2>1, <1>3, <1>9, <1>o, CountObj
<1>12. e \notin Building /\ obj[e].alloc
  BY <1>1, <1>2, <1>3, FlyingIsAlive, Zenon
<1>13. \A x \in Objects : o[x].hc = IF x \in InFlight THEN -Cardinality(Blocks(stack', x))
                                    ELSE Cardinality(Blocks(stack', x))
  <2> SUFFICES ASSUME NEW x \in Objects
               PROVE  o[x].hc = IF x \in InFlight THEN -Cardinality(Blocks(stack', x))
                                ELSE Cardinality(Blocks(stack', x))
    OBVIOUS
  <2>1. CASE x = e
    BY <1>6, <1>11, <2>1, Zenon
  <2>2. CASE x # e
    BY <1>1, <1>2, <1>6, <1>11, <2>2, Zenon DEF CaughtListIsNesting
  <2> QED
    BY <2>1, <2>2, Zenon
<1>14. InUse(e) = 1 /\ \A x \in Objects \ {e} : InUse(x)' = InUse(x)
  <2>1. \A x : x # e => (x \in Handling' <=> x \in Handling)
    BY <1>3, <1>6, HandlingBlocks
  <2> QED
    BY <1>3, <2>1 DEF InUse
<1>15. CASE obj' = o /\ ~(c = 1 /\ e \notin InFlight)
  <2>1. \A x \in Objects : Survives(obj[x], obj'[x]) /\ obj'[x].ref = obj[x].ref
    BY <1>11, <1>15, Zenon DEF Survives
  <2>2. ObjectsInv' /\ ObjectsAccounted'
    <3>1. \A x : x \in InFlight' \union Handling' <=> x \in InFlight \union Handling
      <4>1. e \in InFlight' \union Handling'
        BY <1>3, <1>6, <1>15
      <4>2. \A x : x # e => (x \in Handling' <=> x \in Handling)
        BY <1>3, <1>6, HandlingBlocks
      <4> QED
        BY <1>3, <4>1, <4>2
    <3>2. \A x \in Objects : ~obj[x].alloc \/ x \in Building => obj'[x] = obj[x]
      BY <1>11, <1>12, <1>15, Zenon
    <3>3. \A x \in Objects : /\ obj'[x].alloc = obj[x].alloc
                             /\ obj'[x].dependent = obj[x].dependent
                             /\ obj'[x].primary = obj[x].primary
                             /\ obj'[x].ref = obj[x].ref
      BY <2>1 DEF Survives
    <3> QED
      BY <1>1, <1>2, <1>3, <3>1, <3>2, <3>3, LifeKept, Zenon
  <2>3. obj' \in [Objects -> Exception]
        /\ \A x \in Objects : obj'[x].hc = IF x \in InFlight THEN -Cardinality(Blocks(stack', x))
                                           ELSE Cardinality(Blocks(stack', x))
    BY <1>11, <1>13, <1>15, Zenon
  <2> QED
    BY <1>10, <2>1, <2>2, <2>3, BlockEnds, Zenon
<1>16. CASE c = 1 /\ e \notin InFlight
  <2>1. obj' = releaseException(o, e) /\ InUse(e)' = 0 /\ Blocks(stack', e) = {}
    BY <1>3, <1>6, <1>10, <1>16, Zenon DEF InUse
  <2>2. o[e].dependent = obj[e].dependent /\ o[e].primary = obj[e].primary
    BY <1>11, Zenon DEF Survives
  <2>3. \A x \in Objects : x \notin InFlight /\ Blocks(stack', x) = {} => o[x].hc = 0
    BY <1>13, FS_EmptySet, Zenon
  <2>4. CASE ~obj[e].dependent
    <3>1. obj' = ReleaseOne(o, e)
      BY <2>1, <2>2, <2>4, Zenon DEF releaseException
    <3>2. o[e].ref >= 1
      <4>1. obj[e].ref = 1 + ptrs[e] + Cardinality(Dependents(e)) /\ ptrs[e] \in Nat
        BY <1>1, <1>2, <1>3, <1>12, <1>14, <2>4, Zenon DEF ObjectsAccounted, ExceptionTypes
      <4>2. Cardinality(Dependents(e)) \in Nat
        BY DependentsFinite
      <4> QED
        BY <1>11, <4>1, <4>2, SMTT(60), Z3T(60), Zenon
    <3>3. /\ obj' \in [Objects -> Exception]
          /\ \A x \in Objects \ {e} : obj'[x] = o[x]
          /\ o[e].ref = 1 => obj'[e] = Free
          /\ o[e].ref # 1 => SameButRef(o[e], obj'[e]) /\ obj'[e].ref = o[e].ref - 1
      <4>1. OneReferenceLess(o, obj', e)
        BY ONLY <1>3, <1>11, <3>1, <3>2, ReleasedObj
      <4> QED
        BY ONLY <4>1 DEF OneReferenceLess
    <3>4. /\ \A x \in Objects \ {e} : obj'[x] = obj[x]
          /\ obj[e].ref = 1 => obj'[e] = Free
          /\ obj[e].ref # 1 => Survives(obj[e], obj'[e]) /\ obj'[e].ref = obj[e].ref - 1
      BY <1>11, <3>3, SMTT(30), Z3T(30), Zenon DEF SameButRef, Survives
    <3>5. ObjectsInv' /\ ObjectsAccounted' /\ (obj[e].ref = 1 => Dependents(e) = {})
      BY <1>1, <1>2, <1>3, <1>12, <1>14, <2>1, <2>4, <3>3, <3>4, ReleasePrimary, Zenon
    <3>6. obj[e].ref = 1 => ~FlownFor(e)
      <4>1. \A d \in InFlight : d \in Objects /\ obj[d].alloc
        BY <1>1, <1>2, FlyingIsAlive
      <4> QED
        BY <3>5, <4>1 DEF FlownFor, Dependents
    <3>7. \A x \in Objects : \/ Survives(obj[x], obj'[x])
                             \/ /\ obj'[x] = Free /\ x \notin InFlight /\ ~FlownFor(x)
                                /\ Blocks(stack', x) = {}
      <4>1. \A x \in Objects \ {e} : Survives(obj[x], obj'[x])
        BY <3>4, Zenon DEF Survives
      <4> QED
        BY <1>16, <2>1, <3>4, <3>6, <4>1, Zenon
    <3>8. \A x \in Objects : obj'[x].hc = IF x \in InFlight THEN -Cardinality(Blocks(stack', x))
                                          ELSE Cardinality(Blocks(stack', x))
      <4>1. obj'[e].hc = 0 /\ o[e].hc = 0
        BY <1>3, <1>16, <2>1, <2>3, <3>3, FreeException, Zenon DEF SameButRef
      <4>2. \A x \in Objects : obj'[x].hc = o[x].hc
        BY <3>3, <4>1, Zenon
      <4> QED
        BY <1>13, <4>2, Zenon
    <3> QED
      BY <1>10, <3>3, <3>5, <3>7, <3>8, BlockEnds, Zenon
  <2>5. CASE obj[e].dependent
    <3>p. PICK p : p = obj[e].primary
      OBVIOUS
    <3>1. p \in Objects /\ obj[p].alloc /\ ~obj[p].dependent /\ p # e /\ p \notin Building
          /\ e \in Dependents(p)
      <4>1. p \in Objects \ Building /\ obj[p].alloc /\ ~obj[p].dependent
        BY <1>1, <1>2, <1>3, <1>12, <2>5, <3>p, RealIsAlive, Zenon DEF realExceptionFromException
      <4> QED
        BY <1>3, <1>12, <2>5, <3>p, <4>1, Zenon DEF Dependents
    <3>2. o[p] = obj[p] /\ obj[p].ref >= 1
      <4>1. obj[p].ref = InUse(p) + ptrs[p] + Cardinality(Dependents(p)) /\ ptrs[p] \in Nat
            /\ InUse(p) \in {0, 1}
        BY <1>1, <1>2, <3>1 DEF ObjectsAccounted, ExceptionTypes, InUse
      <4>2. Cardinality(Dependents(p)) \in Nat \ {0}
        BY <3>1, DependentsFinite, Zenon
      <4> QED
        BY <1>11, <3>1, <4>1, <4>2, SMTT(60), Z3T(60), Zenon
    <3>r. PICK r : r = ReleaseOne(o, p)
      OBVIOUS
    <3>3. /\ r \in [Objects -> Exception]
          /\ \A x \in Objects \ {p} : r[x] = o[x]
          /\ o[p].ref = 1 => r[p] = Free
          /\ o[p].ref # 1 => SameButRef(o[p], r[p]) /\ r[p].ref = o[p].ref - 1
      <4>1. OneReferenceLess(o, r, p)
        BY ONLY Zenon, <1>11, <3>1, <3>2, <3>r, ReleasedObj
      <4> QED
        BY ONLY Zenon, <4>1 DEF OneReferenceLess
    <3>4. obj' = [r EXCEPT ![e] = Free]
      BY <2>1, <2>2, <2>5, <3>p, <3>r, Zenon
         DEF releaseException, __cxa_free_dependent_exception, realExceptionFromException
    <3>5. /\ obj' \in [Objects -> Exception] /\ obj'[e] = Free
          /\ \A x \in Objects \ {e} : obj'[x] = r[x]
      BY <1>3, <3>3, <3>4, FreeException, Zenon
    <3>6. /\ \A x \in Objects \ {e, p} : obj'[x] = obj[x]
          /\ obj[p].ref = 1 => obj'[p] = Free
          /\ obj[p].ref # 1 => SameButRef(obj[p], obj'[p]) /\ obj'[p].ref = obj[p].ref - 1
      <4>1. obj'[p] = r[p] /\ o[p] = obj[p]
        BY ONLY <3>1, <3>2, <3>5
      <4>2. \A x \in Objects \ {e, p} : obj'[x] = obj[x]
        BY ONLY Zenon, <1>11, <3>3, <3>5
      <4> QED
        BY ONLY Zenon, <3>3, <4>1, <4>2
    <3>7. /\ ObjectsInv' /\ ObjectsAccounted'
          /\ obj[p].ref = 1 => InUse(p) = 0 /\ Dependents(p) = {e}
      <4>1. obj[p].ref # 1 => Survives(obj[p], obj'[p]) /\ obj'[p].ref = obj[p].ref - 1
        BY <3>6, Zenon DEF SameButRef, Survives
      <4>2. ptrs' = ptrs
        OBVIOUS
      <4> QED
        BY ONLY Zenon, <1>1, <1>2, <1>3, <1>12, <1>14, <2>1, <2>5, <3>p, <3>5, <3>6, <4>1, <4>2,
                ReleaseDependent
    <3>8. ~FlownFor(e) /\ (obj[p].ref = 1 => ~FlownFor(p))
      <4>1. \A d \in InFlight : d \in Objects /\ obj[d].alloc
        BY <1>1, <1>2, FlyingIsAlive
      <4>2. Dependents(e) = {}
        BY <1>2, <1>3, <2>5 DEF ObjectsInv
      <4> QED
        BY <1>16, <3>7, <4>1, <4>2, Zenon DEF FlownFor, Dependents
    <3>9. obj[p].ref = 1 => p \notin InFlight /\ Blocks(stack', p) = {}
      BY <1>6, <3>1, <3>7, HandlingBlocks, SMTT(60), Z3T(60), Zenon DEF InUse
    <3>10. \A x \in Objects : \/ Survives(obj[x], obj'[x])
                              \/ /\ obj'[x] = Free /\ x \notin InFlight /\ ~FlownFor(x)
                                 /\ Blocks(stack', x) = {}
      <4>1. \A x \in Objects \ {e, p} : Survives(obj[x], obj'[x])
        BY <3>6, Zenon DEF Survives
      <4>2. obj[p].ref # 1 => Survives(obj[p], obj'[p])
        BY <3>6, Zenon DEF SameButRef, Survives
      <4> QED
        BY ONLY Zenon, <1>16, <2>1, <3>1, <3>5, <3>6, <3>8, <3>9, <4>1, <4>2
    <3>11. \A x \in Objects : obj'[x].hc = IF x \in InFlight THEN -Cardinality(Blocks(stack', x))
                                           ELSE Cardinality(Blocks(stack', x))
      <4>1. obj'[e].hc = o[e].hc
        BY <1>3, <1>16, <2>1, <2>3, <3>5, FreeException, Zenon
      <4>2. obj[p].ref = 1 => obj'[p].hc = o[p].hc
        BY <2>3, <3>1, <3>6, <3>9, FreeException, Zenon
      <4>3. obj[p].ref # 1 => obj'[p].hc = o[p].hc
        BY <3>2, <3>6, Zenon DEF SameButRef
      <4>4. \A x \in Objects : obj'[x].hc = o[x].hc
        BY <1>11, <3>6, <4>1, <4>2, <4>3, Zenon
      <4> QED
        BY <1>13, <4>4, Zenon
    <3> QED
      BY <1>10, <3>5, <3>7, <3>10, <3>11, BlockEnds, Zenon
  <2> QED
    BY <2>4, <2>5
<1> QED
  BY <1>10, <1>15, <1>16, Zenon

LEMMA EndCatchActionKeeps ==
    ASSUME ExceptionsInv, __cxa_end_catch
    PROVE  ExceptionsInv'
  BY EndCatchKeeps DEF __cxa_end_catch

=============================================================================
