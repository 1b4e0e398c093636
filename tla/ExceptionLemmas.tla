-------------------------- MODULE ExceptionLemmas ---------------------------
(* Proofs about the exceptions of libcxxrt (Exceptions): for any program,   *)
(* any set of exception objects and any nesting of constructs.  This module *)
(* holds what the proofs of all steps share.                                *)
EXTENDS Exceptions, FiniteSetTheorems, WellFoundedInduction, TLAPS

(***************************************************************************)
(* The greatest element of a set of indices.                               *)
(***************************************************************************)

\* A nonempty set of naturals has a least element.
LEMMA LeastElement ==
    ASSUME NEW S \in SUBSET Nat, S # {}
    PROVE  \E m \in S : \A k \in S : m <= k
<1> DEFINE R == {ss \in Nat \X Nat : ss[1] < ss[2]}
<1>1. IsWellFoundedOn(R, Nat)
  BY NatLessThanWellFounded DEF OpToRel
<1> HIDE DEF R
<1>2. PICK m \in S : \A k \in S : ~(<<k, m>> \in R)
  BY <1>1, WFMin, Zenon
<1>3. ASSUME NEW k \in S PROVE m <= k
  <2>1. k \in Nat /\ m \in Nat /\ (k < m => <<k, m>> \in R)
    BY DEF R
  <2> QED
    BY <1>2, <2>1
<1> QED
  BY <1>3

\* The search for a handler and the list of caught exceptions take the
\* greatest index of a set: it exists.
LEMMA MaxIn ==
    ASSUME NEW n \in Nat, NEW S \in SUBSET (1..n), S # {}
    PROVE  Max(S) \in S /\ \A k \in S : k <= Max(S)
<1> DEFINE T == {n - k : k \in S}
<1>1. T \in SUBSET Nat
  OBVIOUS
<1> T # {}
  BY Zenon
<1>2. PICK m \in T : \A k \in T : m <= k
  BY <1>1, LeastElement, Zenon
<1>3. PICK x \in S : m = n - x
  BY <1>2
<1>4. \A k \in S : x >= k
  <2> SUFFICES ASSUME NEW k \in S PROVE x >= k
    OBVIOUS
  <2>1. m <= n - k
    BY <1>2
  <2> QED
    BY <2>1, <1>3
<1>5. Max(S) \in S /\ \A k \in S : Max(S) >= k
  BY <1>4, Zenon DEF Max
<1> QED
  BY <1>5

(***************************************************************************)
(* Stacks of frames.                                                       *)
(***************************************************************************)

\* A stack with its top frame taken away.
LEMMA PopFrame ==
    ASSUME NEW s \in Seq(Frames), s # <<>>
    PROVE  /\ Len(s) \in Nat \ {0}
           /\ Popped(s) \in Seq(Frames)
           /\ Len(Popped(s)) = Len(s) - 1
           /\ \A i \in 1..Len(s) - 1 : Popped(s)[i] = s[i]
<1>1. Len(s) \in Nat \ {0}
  OBVIOUS
<1> DEFINE n == Len(s) - 1
<1>2. n \in Nat /\ n <= Len(s)
  BY <1>1
<1> HIDE DEF n
<1>3. SubSeq(s, 1, n) \in Seq(Frames)
  BY <1>2
<1>4. CASE n = 0
  <2>1. Len(SubSeq(s, 1, n)) = n
    BY <1>4
  <2> QED
    BY <1>4, <1>3, <2>1, <1>1 DEF n, Popped
<1>5. CASE n > 0
  <2>1. Len(SubSeq(s, 1, n)) = n
    BY <1>2, <1>5
  <2>2. \A i \in 1..n : SubSeq(s, 1, n)[i] = s[i]
    BY <1>2
  <2> QED
    BY <1>3, <2>1, <1>1, <2>2 DEF n, Popped
<1> QED
  BY <1>2, <1>4, <1>5

\* A stack with one more frame.
LEMMA PushFrame ==
    ASSUME NEW s \in Seq(Frames), NEW f \in Frames
    PROVE  /\ Append(s, f) \in Seq(Frames)
           /\ Len(Append(s, f)) = Len(s) + 1
           /\ Append(s, f)[Len(s) + 1] = f
           /\ \A i \in 1..Len(s) : Append(s, f)[i] = s[i]
  OBVIOUS

\* The innermost block below frame i depends on the frames below i only.
LEMMA EnclosingAgree ==
    ASSUME NEW s \in Seq(Frames), NEW t \in Seq(Frames), NEW n \in Nat,
           n <= Len(s), n <= Len(t), \A k \in 1..n : t[k] = s[k],
           NEW i \in 1..n + 1
    PROVE  Enclosing(t, i) = Enclosing(s, i)
<1> DEFINE B(u) == {j \in Kinds(u, "handler") : j < i}
<1>1. DOMAIN s = 1..Len(s) /\ DOMAIN t = 1..Len(t) /\ Len(s) \in Nat /\ Len(t) \in Nat
  OBVIOUS
<1>2. B(t) = B(s) /\ B(s) \in SUBSET (1..n)
  BY <1>1 DEF Kinds
<1>3. CASE B(s) = {}
  BY <1>2, <1>3 DEF Enclosing
<1>4. CASE B(s) # {}
  <2>1. Max(B(s)) \in 1..n
    BY <1>2, <1>4, MaxIn, Zenon
  <2>2. t[Max(B(s))] = s[Max(B(s))]
    BY <2>1
  <2> QED
    BY <1>2, <1>4, <2>2, Zenon DEF Enclosing
<1> QED
  BY <1>3, <1>4

\* The blocks of an exception are finitely many.
LEMMA BlocksFinite ==
    ASSUME NEW s \in Seq(Frames), NEW e
    PROVE  IsFiniteSet(Blocks(s, e)) /\ Cardinality(Blocks(s, e)) \in Nat
<1>1. IsFiniteSet(1..Len(s)) /\ Blocks(s, e) \in SUBSET (1..Len(s))
  BY FS_Interval DEF Blocks, Kinds
<1>2. IsFiniteSet(Blocks(s, e))
  BY ONLY <1>1, FS_Subset
<1> QED
  BY <1>2, FS_CardinalityType

(***************************************************************************)
(* The objects.                                                            *)
(***************************************************************************)

\* A blank object and one under construction.
LEMMA FreeException ==
  /\ Free \in Exception
  /\ ~Free.alloc /\ ~Free.dependent /\ Free.hc = 0 /\ Free.catchTemp = 0
  /\ Free.next = None /\ Free.primary = None /\ Free.ref = 0
<1>1. Free \in Exception
  BY DEF Free, Exception
<1>2. /\ ~Free.alloc /\ ~Free.dependent /\ Free.hc = 0 /\ Free.catchTemp = 0
      /\ Free.next = None /\ Free.primary = None /\ Free.ref = 0
  BY DEF Free
<1> QED
  BY <1>1, <1>2

LEMMA BlankException ==
  LET b == [Free EXCEPT !.alloc = TRUE] IN
  b \in Exception /\ b.alloc /\ ~b.dependent /\ b.hc = 0 /\ b.catchTemp = 0
<1> DEFINE b == [Free EXCEPT !.alloc = TRUE]
<1>1. b.alloc /\ ~b.dependent /\ b.hc = 0 /\ b.catchTemp = 0
  BY DEF Free
<1>2. b \in Exception
  BY FreeException, Zenon DEF Exception
<1> QED
  BY <1>1, <1>2

(***************************************************************************)
(* The search for a handler.                                               *)
(***************************************************************************)

\* _Unwind_RaiseException: the search ends at the innermost frame that stops
\* the exception, or at none.
LEMMA SearchStops ==
    ASSUME NEW o, NEW e, NEW s \in Seq(Frames)
    PROVE  LET i == Search(o, e, s) IN
           \/ i = 0 /\ \A j \in 1..Len(s) : ~Stops(o, s, e, j)
           \/ /\ i \in 1..Len(s) /\ Stops(o, s, e, i)
              /\ \A j \in i + 1..Len(s) : ~Stops(o, s, e, j)
<1> DEFINE H == {i \in DOMAIN s : Matches(o, e, s[i]) \/ Barrier(s[i])}
<1>1. H \in SUBSET (1..Len(s)) /\ Len(s) \in Nat /\ DOMAIN s = 1..Len(s)
  OBVIOUS
<1>2. CASE H = {}
  BY <1>1, <1>2 DEF Search, Stops
<1>3. CASE H # {}
  <2>1. Max(H) \in H /\ \A k \in H : k <= Max(H)
    BY <1>1, <1>3, MaxIn, Zenon
  <2>2. Search(o, e, s) = Max(H)
    BY <1>3 DEF Search
  <2> DEFINE m == Max(H)
  <2>3. m \in 1..Len(s) /\ \A j \in m + 1..Len(s) : j \notin H
    <3> HIDE DEF H, m
    <3>1. m \in H /\ \A k \in H : k <= m
      BY <2>1 DEF m
    <3> QED
      BY <3>1, <1>1
  <2> QED
    BY <2>1, <2>2, <2>3, <1>1 DEF Stops
<1> QED
  BY <1>2, <1>3

\* An exception is sought by the type of the real one; what phase 2 does
\* depends on that type, on catchTemp and on the frames below.
SameGoal(o, q, e) ==
  /\ q[realExceptionFromException(q, e)].type = o[realExceptionFromException(o, e)].type
  /\ q[e].catchTemp = o[e].catchTemp

LEMMA GoesToAgree ==
    ASSUME NEW o, NEW q, NEW e, SameGoal(o, q, e),
           NEW s \in Seq(Frames), NEW t \in Seq(Frames), NEW i \in Nat,
           \A k \in 1..i - 1 : t[k] = s[k],
           NEW g, GoesTo(o, s, i, e, g)
    PROVE  GoesTo(q, t, i, e, g)
<1>1. \A k \in 1..i - 1 : Stops(q, t, e, k) <=> Stops(o, s, e, k)
  BY DEF SameGoal, Stops, Matches
<1>2. \A k \in 1..i - 1 : Barrier(t[k]) <=> Barrier(s[k])
  BY DEF Barrier
<1>3. g \in 1..i - 1 /\ \A j \in g + 1..i - 1 : j \in 1..i - 1
  BY DEF GoesTo
<1> QED
  BY <1>1, <1>2, <1>3 DEF GoesTo, SameGoal

(***************************************************************************)
(* Steps that leave the blocks, the flights or the objects' lives alone.   *)
(***************************************************************************)

\* The stacks s and t have the first n frames in common.
Agree(s, t, n) ==
  n \in Nat /\ n <= Len(s) /\ n <= Len(t) /\ \A k \in 1..n : t[k] = s[k]

\* Frames that are not blocks do not change what encloses.
LEMMA EnclosingAbove ==
    ASSUME NEW s \in Seq(Frames), NEW n \in Nat, Kinds(s, "handler") \subseteq 1..n,
           NEW i \in Nat, i > n
    PROVE  Enclosing(s, i) = Enclosing(s, n + 1)
<1>1. {j \in Kinds(s, "handler") : j < i} = {j \in Kinds(s, "handler") : j < n + 1}
  OBVIOUS
<1> QED
  BY <1>1, Zenon DEF Enclosing

\* Stacks with the same blocks have the same blocks for each exception.
LEMMA BlocksAgree ==
    ASSUME NEW s, NEW t, NEW n, Agree(s, t, n), Kinds(s, "handler") \subseteq 1..n,
           Kinds(t, "handler") = Kinds(s, "handler"), NEW e
    PROVE  Blocks(t, e) = Blocks(s, e)
  BY DEF Agree, Blocks

\* The exceptions handled are those with a block.
LEMMA HandlingBlocks ==
    ASSUME NEW e
    PROVE  e \in Handling <=> Blocks(stack, e) # {}
  BY DEF Handling, Blocks

\* A step that leaves the catch blocks and their exceptions' list entries
\* alone keeps the list of caught exceptions.
LEMMA ListKept ==
    ASSUME ExceptionTypes, ExceptionTypes', CaughtListIsNesting, Live,
           NEW n, Agree(stack, stack', n), Kinds(stack, "handler") \subseteq 1..n,
           Kinds(stack', "handler") = Kinds(stack, "handler"),
           caught' = caught,
           \A e \in Handling : obj'[e].next = obj[e].next,
           \A e \in Objects : obj'[e].hc = IF e \in InFlight' THEN -Cardinality(Blocks(stack, e))
                                          ELSE Cardinality(Blocks(stack, e))
    PROVE  CaughtListIsNesting'
<1>0. stack \in Seq(Frames) /\ stack' \in Seq(Frames)
  BY DEF ExceptionTypes
<1>1. n \in Nat /\ n <= Len(stack) /\ n <= Len(stack') /\ Len(stack) \in Nat /\ Len(stack') \in Nat
  BY <1>0 DEF Agree
<1>2. \A k \in 1..n : stack'[k] = stack[k]
  BY DEF Agree
<1>3. \A i \in 1..n + 1 : Enclosing(stack', i) = Enclosing(stack, i)
  BY <1>0, <1>1, <1>2, EnclosingAgree
<1>4. caught' = Enclosing(stack', Len(stack') + 1)
  <2>1. Enclosing(stack, Len(stack) + 1) = Enclosing(stack, n + 1)
    <3>1. Kinds(stack, "handler") \subseteq 1..n /\ Len(stack) + 1 \in Nat /\ Len(stack) + 1 > n
      BY <1>1
    <3> QED
      BY ONLY <3>1, <1>0, <1>1, EnclosingAbove
  <2>2. Enclosing(stack', Len(stack') + 1) = Enclosing(stack', n + 1)
    BY <1>0, <1>1, EnclosingAbove
  <2>3. caught = Enclosing(stack, Len(stack) + 1)
    BY DEF CaughtListIsNesting
  <2> QED
    BY <1>1, <1>3, <2>1, <2>2, <2>3
<1>5. \A e : Blocks(stack', e) = Blocks(stack, e)
  BY BlocksAgree
<1>6. ASSUME NEW i \in Kinds(stack', "handler"), NEW e, e = stack'[i].ex
      PROVE  IF \E j \in Blocks(stack', e) : j < i THEN Enclosing(stack', i) = e
             ELSE obj'[e].next = Enclosing(stack', i)
  <2>1. i \in Kinds(stack, "handler") /\ i \in 1..n /\ e = stack[i].ex /\ e \in Handling
    BY <1>2, <1>6 DEF Handling
  <2>2. IF \E j \in Blocks(stack, e) : j < i THEN Enclosing(stack, i) = e
        ELSE obj[e].next = Enclosing(stack, i)
    BY <2>1 DEF CaughtListIsNesting
  <2>3. Enclosing(stack', i) = Enclosing(stack, i)
    BY <1>1, <1>3, <2>1
  <2>4. obj'[e].next = obj[e].next /\ Blocks(stack', e) = Blocks(stack, e)
    BY <1>5, <2>1
  <2> QED
    BY <2>2, <2>3, <2>4
<1>7. \A e \in Objects :
        obj'[e].hc = IF e \in InFlight' THEN -Cardinality(Blocks(stack', e))
                     ELSE Cardinality(Blocks(stack', e))
  BY <1>5
<1> QED
  BY <1>4, <1>6, <1>7 DEF CaughtListIsNesting

\* The same when the counts and the flights of handled exceptions stay, too.
LEMMA CaughtKept ==
    ASSUME ExceptionTypes, ExceptionTypes', CaughtListIsNesting, Live,
           NEW n, Agree(stack, stack', n), Kinds(stack, "handler") \subseteq 1..n,
           Kinds(stack', "handler") = Kinds(stack, "handler"),
           caught' = caught,
           \A e \in Handling : obj'[e].next = obj[e].next,
           \A e \in Objects : obj'[e].hc = obj[e].hc,
           \A e \in Handling : e \in InFlight' <=> e \in InFlight
    PROVE  CaughtListIsNesting'
<1>1. ASSUME NEW e \in Objects
      PROVE  obj'[e].hc = IF e \in InFlight' THEN -Cardinality(Blocks(stack, e))
                          ELSE Cardinality(Blocks(stack, e))
  <2>1. obj[e].hc = IF e \in InFlight THEN -Cardinality(Blocks(stack, e))
                    ELSE Cardinality(Blocks(stack, e))
    BY DEF CaughtListIsNesting
  <2>2. CASE e \in Handling
    BY <2>1, <2>2
  <2>3. CASE e \notin Handling
    <3>1. Cardinality(Blocks(stack, e)) = 0
      BY <2>3, HandlingBlocks, FS_EmptySet, Zenon
    <3> QED
      BY <3>1, <2>1
  <2> QED
    BY <2>2, <2>3
<1> QED
  BY <1>1, ListKept

\* A flight that is not at the top of the stack is one of a landing pad.
LEMMA FlightFrames ==
    ASSUME ExceptionTypes, NEW i \in Flights
    PROVE  /\ i \in 1..Len(stack) + 1 /\ Len(stack) \in Nat
           /\ i \in DOMAIN stack => i \in Kinds(stack, "landing") /\ Flight(i) = stack[i]
           /\ i \notin DOMAIN stack => i = Len(stack) + 1 /\ mode.pc = "unwind" /\ Flight(i) = mode
           /\ Flight(i).ex \in Objects
           /\ Flight(i).ex \in InFlight
<1> USE DEF ExceptionTypes
<1>1. Len(stack) \in Nat /\ DOMAIN stack = 1..Len(stack) /\ Len(stack) + 1 \notin 1..Len(stack)
  OBVIOUS
<1>2. CASE i \in Kinds(stack, "landing")
  <2>1. i \in DOMAIN stack /\ stack[i].kind = "landing"
    BY <1>2 DEF Kinds
  <2> QED
    BY <1>1, <1>2, <2>1 DEF Flight, InFlight
<1>3. CASE mode.pc = "unwind" /\ i = Len(stack) + 1
  <2>1. mode \in [pc : {"unwind"}, ex : Objects, target : Nat]
    BY <1>3 DEF Run
  <2> QED
    BY <1>1, <1>3, <2>1 DEF Flight, InFlight
<1> QED
  BY <1>2, <1>3 DEF Flights

\* The exceptions on their way are those of the flights.
LEMMA InFlightFlights ==
    ASSUME ExceptionTypes
    PROVE  InFlight = {Flight(i).ex : i \in Flights}
<1>1. Len(stack) \in Nat /\ DOMAIN stack = 1..Len(stack) /\ Len(stack) + 1 \notin DOMAIN stack
  BY DEF ExceptionTypes
<1>2. \A i \in Kinds(stack, "landing") : Flight(i) = stack[i] /\ i \in Flights
  BY DEF Kinds, Flight, Flights
<1>3. mode.pc = "unwind" => Len(stack) + 1 \in Flights /\ Flight(Len(stack) + 1) = mode
  BY <1>1 DEF Flight, Flights
<1>4. \A i \in Flights : i \in Kinds(stack, "landing") \/ (mode.pc = "unwind" /\ i = Len(stack) + 1)
  BY DEF Flights
<1> QED
  BY <1>2, <1>3, <1>4 DEF InFlight

\* A flight whose goal and whose frames below are left alone stays on course.
LEMMA CourseKept ==
    ASSUME NEW o, NEW q, NEW s \in Seq(Frames), NEW t \in Seq(Frames),
           NEW n, Agree(s, t, n), NEW i \in 1..n + 1, NEW e, NEW g,
           OnCourse(o, s, i, e, g), SameGoal(o, q, e), Blocks(t, e) \subseteq Blocks(s, e)
    PROVE  OnCourse(q, t, i, e, g)
<1>1. /\ n \in Nat /\ n <= Len(s) /\ n <= Len(t) /\ i \in Nat
      /\ \A k \in 1..n : t[k] = s[k]
      /\ \A k \in 1..i - 1 : t[k] = s[k]
  BY DEF Agree
<1>2. GoesTo(q, t, i, e, g)
  <2>1. GoesTo(o, s, i, e, g)
    BY DEF OnCourse
  <2> QED
    BY <1>1, <2>1, GoesToAgree
<1>3. Enclosing(t, i) = Enclosing(s, i)
  BY <1>1, EnclosingAgree
<1> QED
  BY <1>2, <1>3 DEF OnCourse

\* A step of the running program that leaves the landing pads and what lies
\* below them alone keeps the flights on their course.
LEMMA FlightsKept ==
    ASSUME ExceptionTypes, ExceptionTypes', FlightsInv, mode = Run, mode' = Run,
           NEW n, Agree(stack, stack', n), Kinds(stack, "landing") \subseteq 1..n,
           Kinds(stack', "landing") = Kinds(stack, "landing"),
           \A e : Blocks(stack', e) \subseteq Blocks(stack, e),
           \A e \in InFlight : SameGoal(obj, obj', e),
           \A e \in Objects : obj[e].catchTemp = 0 => obj'[e].catchTemp = 0
    PROVE  FlightsInv' /\ InFlight' = InFlight
<1>0. stack \in Seq(Frames) /\ stack' \in Seq(Frames)
  BY DEF ExceptionTypes
<1>1. n \in Nat /\ n <= Len(stack) /\ n <= Len(stack') /\ Len(stack) \in Nat /\ Len(stack') \in Nat
  BY <1>0 DEF Agree
<1>2. \A k \in 1..n : stack'[k] = stack[k]
  BY DEF Agree
<1> DEFINE K == Kinds(stack, "landing")
<1>3. Flights = K /\ Flights' = K
  BY DEF Flights, Run
<1>4. InFlight' = InFlight /\ InFlight = {stack[i].ex : i \in K}
  BY <1>2 DEF InFlight, Run
<1>5. \A i \in K : /\ i \in 1..n /\ Flight(i) = stack[i] /\ Flight(i)' = stack[i]
                   /\ stack[i].ex \in InFlight
  <2> TAKE i \in K
  <2>1. i \in 1..n /\ i \in DOMAIN stack /\ i \in DOMAIN stack' /\ stack'[i] = stack[i]
    BY <1>0, <1>1, <1>2
  <2> QED
    BY <2>1, <1>4 DEF Flight
<1> HIDE DEF K
<1>6. \A i, j \in Flights' : Flight(i)'.ex = Flight(j)'.ex => i = j
  BY <1>3, <1>5 DEF FlightsInv
<1>7. ASSUME NEW i \in Flights'
      PROVE  OnCourse(obj', stack', i, Flight(i)'.ex, Flight(i)'.target)
  <2>1. i \in Flights /\ i \in 1..n + 1 /\ Flight(i)' = Flight(i) /\ Flight(i).ex \in InFlight
    BY <1>1, <1>3, <1>5
  <2>2. OnCourse(obj, stack, i, Flight(i).ex, Flight(i).target)
    BY <2>1 DEF FlightsInv
  <2>3. /\ SameGoal(obj, obj', Flight(i).ex)
        /\ Blocks(stack', Flight(i).ex) \subseteq Blocks(stack, Flight(i).ex)
    BY <2>1
  <2> QED
    BY <1>0, <2>1, <2>2, <2>3, CourseKept
<1>8. \A e \in Objects : e \notin InFlight' => obj'[e].catchTemp = 0
  BY <1>4 DEF FlightsInv
<1> QED
  BY <1>4, <1>6, <1>7, <1>8 DEF FlightsInv

\* The objects under construction depend on the throw expressions only.
LEMMA BuildingKept ==
    ASSUME NEW n, Agree(stack, stack', n), Kinds(stack, "building") \subseteq 1..n,
           Kinds(stack', "building") = Kinds(stack, "building"), ObjectsInv
    PROVE  /\ Building' = Building
           /\ \A i, j \in Kinds(stack', "building") : stack'[i].ex = stack'[j].ex => i = j
<1>1. \A i \in Kinds(stack, "building") : stack'[i] = stack[i]
  BY DEF Agree
<1> QED
  BY <1>1 DEF Building, ObjectsInv

\* A step that leaves the lives of the objects and what refers to them alone.
LEMMA LifeKept ==
    ASSUME ExceptionTypes, ObjectsInv, ObjectsAccounted, Live,
           \A x \in Objects : /\ obj'[x].alloc = obj[x].alloc
                              /\ obj'[x].dependent = obj[x].dependent
                              /\ obj'[x].primary = obj[x].primary
                              /\ obj'[x].ref = obj[x].ref,
           \A x \in Objects : ~obj[x].alloc \/ x \in Building => obj'[x] = obj[x],
           \A x : x \in InFlight' \union Handling' <=> x \in InFlight \union Handling,
           Building' = Building,
           \A i, j \in Kinds(stack', "building") : stack'[i].ex = stack'[j].ex => i = j,
           ptrs' = ptrs
    PROVE  ObjectsInv' /\ ObjectsAccounted'
<1>1. \A e \in Objects : Dependents(e)' = Dependents(e) /\ InUse(e)' = InUse(e)
  BY DEF Dependents, InUse
<1>2. ObjectsAccounted'
  BY <1>1 DEF ObjectsAccounted
<1>3. Building \subseteq Objects
  BY DEF Building, ExceptionTypes, Kinds
<1>4. ObjectsInv'
  BY <1>1, <1>3, Zenon DEF ObjectsInv
<1> QED
  BY <1>2, <1>4

(***************************************************************************)
(* Exception pointers.                                                     *)
(***************************************************************************)

\* Building, handled and flying exceptions are objects.
LEMMA ReferredObjects ==
    ASSUME ExceptionTypes
    PROVE  Building \subseteq Objects /\ Handling \subseteq Objects /\ InFlight \subseteq Objects
<1>1. Building \subseteq Objects /\ Handling \subseteq Objects
  BY DEF ExceptionTypes, Building, Handling, Kinds
<1>2. \A i \in Flights : Flight(i).ex \in Objects
  BY FlightFrames
<1> QED
  BY <1>1, <1>2, InFlightFlights

\* The real exception of an object in use is a live one that was thrown.
LEMMA RealIsAlive ==
    ASSUME ExceptionTypes, ObjectsInv, ObjectsAccounted, Live,
           NEW e \in Objects, obj[e].alloc, e \notin Building
    PROVE  LET r == realExceptionFromException(obj, e) IN
           r \in Objects \ Building /\ obj[r].alloc /\ ~obj[r].dependent
<1>1. CASE obj[e].dependent
  <2> DEFINE p == obj[e].primary
  <2>1. p \in Objects \ Building
    BY <1>1 DEF ObjectsInv
  <2>2. e \in Dependents(p)
    BY <1>1 DEF Dependents
  <2>3. obj[p].alloc
    BY <2>1, <2>2 DEF ObjectsAccounted
  <2>4. ~obj[p].dependent
    BY <2>1, <2>2 DEF ObjectsInv
  <2> QED
    BY <1>1, <2>1, <2>3, <2>4 DEF realExceptionFromException
<1>2. CASE ~obj[e].dependent
  BY <1>2 DEF realExceptionFromException
<1> QED
  BY <1>1, <1>2

\* The exceptions on their way are live objects that were thrown.
LEMMA FlyingIsAlive ==
    ASSUME ExceptionTypes, ObjectsInv, ObjectsAccounted, Live,
           NEW e \in InFlight \union Handling
    PROVE  e \in Objects \ Building /\ obj[e].alloc
<1>1. e \in Objects /\ InUse(e) = 1
  BY ReferredObjects DEF InUse
<1> QED
  BY <1>1 DEF ObjectsAccounted, ObjectsInv

\* Two states of an object that differ at most in the count of references.
SameButRef(a, b) ==
  /\ b.alloc = a.alloc /\ b.dependent = a.dependent /\ b.type = a.type /\ b.hc = a.hc
  /\ b.next = a.next /\ b.catchTemp = a.catchTemp /\ b.primary = a.primary

\* What a flight looks at: its own object and the one it stands for.
LEMMA GoalsKept ==
    ASSUME ExceptionTypes, ObjectsInv, ObjectsAccounted, Live,
           \A x \in Objects : x \in InFlight \/ Dependents(x) # {} =>
             /\ obj'[x].dependent = obj[x].dependent /\ obj'[x].primary = obj[x].primary
             /\ obj'[x].type = obj[x].type,
           \A x \in InFlight : obj'[x].catchTemp = obj[x].catchTemp
    PROVE  \A e \in InFlight : SameGoal(obj, obj', e)
<1> SUFFICES ASSUME NEW e \in InFlight PROVE SameGoal(obj, obj', e)
  OBVIOUS
<1>1. e \in Objects \ Building /\ obj[e].alloc
  BY FlyingIsAlive
<1> DEFINE r == realExceptionFromException(obj, e)
<1>2. r \in Objects /\ (r # e => obj[e].dependent /\ obj[e].primary = r)
  BY <1>1, RealIsAlive DEF realExceptionFromException
<1>3. r = e \/ Dependents(r) # {}
  BY <1>1, <1>2 DEF Dependents
<1>4. realExceptionFromException(obj', e) = r
  BY <1>1 DEF realExceptionFromException
<1> HIDE DEF r
<1>5. obj'[r].type = obj[r].type /\ obj'[e].catchTemp = obj[e].catchTemp
  BY <1>1, <1>2, <1>3
<1> QED
  BY <1>4, <1>5 DEF SameGoal, r

(***************************************************************************)
(* A new flight.                                                           *)
(***************************************************************************)

\* Two states of an object that differ at most in the landing pad kept.
SameButTemp(a, b) ==
  /\ b.alloc = a.alloc /\ b.dependent = a.dependent /\ b.type = a.type /\ b.ref = a.ref
  /\ b.hc = a.hc /\ b.next = a.next /\ b.primary = a.primary

\* A construct is left: what is below it stays.
LEMMA TopPopped ==
    ASSUME NEW s \in Seq(Frames), s # <<>>, NEW t, t = Popped(s)
    PROVE  \E n \in Nat :
             /\ Len(s) = n + 1 /\ Len(t) = n /\ t \in Seq(Frames) /\ Agree(s, t, n)
             /\ DOMAIN s = 1..n + 1 /\ DOMAIN t = 1..n /\ \A i \in 1..n : t[i] = s[i]
             /\ \A k : /\ Kinds(t, k) = Kinds(s, k) \ {n + 1} /\ Kinds(t, k) \subseteq 1..n
                       /\ s[n + 1].kind = k => n + 1 \in Kinds(s, k)
                       /\ s[n + 1].kind # k => Kinds(t, k) = Kinds(s, k)
<1> PICK n : n = Len(s) - 1
  OBVIOUS
<1>1. /\ n \in Nat /\ Len(s) = n + 1 /\ t \in Seq(Frames) /\ Len(t) = n
      /\ \A i \in 1..n : t[i] = s[i]
  BY PopFrame
<1>2. DOMAIN s = 1..n + 1 /\ DOMAIN t = 1..n
  BY <1>1
<1>3. Agree(s, t, n)
  BY <1>1 DEF Agree
<1>4. ASSUME NEW k
      PROVE  /\ Kinds(t, k) = Kinds(s, k) \ {n + 1} /\ Kinds(t, k) \subseteq 1..n
             /\ s[n + 1].kind = k => n + 1 \in Kinds(s, k)
             /\ s[n + 1].kind # k => Kinds(t, k) = Kinds(s, k)
  BY <1>1, <1>2 DEF Kinds
<1> QED
  BY <1>1, <1>2, <1>3, <1>4

(***************************************************************************)
(* The flights go on.                                                      *)
(***************************************************************************)

\* The popped stack, in the form the steps of phase 2 use.
LEMMA StackPopped ==
    ASSUME ExceptionTypes, stack # <<>>, stack' = Popped(stack)
    PROVE  \E n \in Nat :
             /\ Len(stack) = n + 1 /\ Len(stack') = n /\ stack' \in Seq(Frames)
             /\ Agree(stack, stack', n) /\ Top = stack[n + 1]
             /\ DOMAIN stack = 1..n + 1 /\ DOMAIN stack' = 1..n
             /\ \A i \in 1..n : stack'[i] = stack[i]
             /\ \A k : /\ Kinds(stack', k) = Kinds(stack, k) \ {n + 1}
                       /\ Kinds(stack', k) \subseteq 1..n
                       /\ Top.kind = k => n + 1 \in Kinds(stack, k)
                       /\ Top.kind # k => Kinds(stack', k) = Kinds(stack, k)
             /\ \A i \in DOMAIN stack' : stack'[i].kind \in {"building", "handler", "landing"} =>
                  stack'[i].ex \in Objects
<1>1. stack \in Seq(Frames)
  BY DEF ExceptionTypes
<1>2. PICK n \in Nat :
        /\ Len(stack) = n + 1 /\ Len(stack') = n /\ stack' \in Seq(Frames)
        /\ Agree(stack, stack', n)
        /\ DOMAIN stack = 1..n + 1 /\ DOMAIN stack' = 1..n /\ \A i \in 1..n : stack'[i] = stack[i]
        /\ \A k : /\ Kinds(stack', k) = Kinds(stack, k) \ {n + 1} /\ Kinds(stack', k) \subseteq 1..n
                  /\ stack[n + 1].kind = k => n + 1 \in Kinds(stack, k)
                  /\ stack[n + 1].kind # k => Kinds(stack', k) = Kinds(stack, k)
  BY ONLY <1>1, stack # <<>>, stack' = Popped(stack), TopPopped
<1>3. Top = stack[n + 1]
  BY <1>2 DEF Top
<1>4. \A i \in DOMAIN stack' : i \in 1..n /\ i \in DOMAIN stack
  BY <1>2
<1>5. \A i \in DOMAIN stack' : stack'[i].kind \in {"building", "handler", "landing"} =>
        stack'[i].ex \in Objects
  BY <1>2, <1>4 DEF ExceptionTypes
<1> QED
  BY <1>2, <1>3, <1>5

\* In phase 2 there is a frame above the handler to clean up.
LEMMA UnwindTypes ==
    ASSUME ExceptionTypes, mode.pc = "unwind"
    PROVE  mode \in [pc : {"unwind"}, ex : Objects, target : Nat] /\ Live
<1>1. mode # Run
  BY DEF Run
<1> QED
  BY <1>1 DEF ExceptionTypes, Live

=============================================================================
