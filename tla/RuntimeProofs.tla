--------------------------- MODULE RuntimeProofs ----------------------------
(* Proofs about the C++ runtime: the guards of local statics (Guard) for    *)
(* any set of threads, the handlers of violated specifications (EhHandlers) *)
(* for any program, and the exceptions (Exceptions) for any program, any    *)
(* set of exception objects and any nesting of constructs.                  *)
EXTENDS Guard, EhHandlers, ExceptionThrows, ExceptionCatches, SequenceTheorems

(***************************************************************************)
(* Guard.                                                                  *)
(***************************************************************************)

\* Every load, store and swap of a thread keeps the guard's invariant.
LEMMA StepGuardInv ==
    ASSUME GuardInv, NEW t \in Threads, Step(t)
    PROVE  GuardInv'
<1> USE DEF GuardInv, Inside, is_initialised, initialised, locked, Goto
<1>1. CASE __cxa_guard_acquire(t)
  BY <1>1 DEF __cxa_guard_acquire
<1>2. CASE try_lock(t)
  BY <1>2 DEF try_lock
<1>3. CASE SecondLook(t)
  BY <1>3 DEF SecondLook, CheckAgain
<1>4. CASE ReleaseDone(t)
  BY <1>4 DEF ReleaseDone
<1>5. CASE Construct(t)
  BY <1>5 DEF Construct
<1>6. CASE StoreInit(t)
  BY <1>6 DEF StoreInit
<1>7. CASE unlock(t)
  BY <1>7 DEF unlock
<1>8. CASE Assertion(t)
  BY <1>8 DEF Assertion
<1>9. CASE Use(t)
  BY <1>9 DEF Use
<1> QED
  BY <1>1, <1>2, <1>3, <1>4, <1>5, <1>6, <1>7, <1>8, <1>9, Zenon DEF Step

\* A set in which any two elements are equal has at most one.
LEMMA AtMostOne ==
    ASSUME NEW S, \A x, y \in S : x = y
    PROVE  Cardinality(S) <= 1
<1>1. CASE S = {}
  BY <1>1, FS_EmptySet
<1>2. CASE S # {}
  <2>1. PICK x : S = {x}
    BY <1>2
  <2> QED
    BY <2>1, FS_Singleton
<1> QED
  BY <1>1, <1>2

\* __cxa_guard_acquire, __cxa_guard_release and __cxa_guard_abort: whatever the
\* number of threads and wherever they are preempted, the object is built at
\* most once, nobody uses it before that, one thread at most is inside, and the
\* assertion of unlock() holds for the thread that built the object.
THEOREM GuardBuildsOnce == GuardSpec => []BuiltOnceBeforeUse
<1>1. GuardInit => GuardInv
  BY DEF GuardInit, GuardInv, Inside, is_initialised, initialised
<1>2. GuardInv /\ [GuardNext]_guardVars => GuardInv'
  <2> SUFFICES ASSUME GuardInv, [GuardNext]_guardVars PROVE GuardInv'
    OBVIOUS
  <2>1. CASE GuardNext
    BY <2>1, StepGuardInv DEF GuardNext
  <2>2. CASE UNCHANGED guardVars
    BY <2>2 DEF guardVars, GuardInv, is_initialised
  <2> QED
    BY <2>1, <2>2
<1>3. GuardInv => BuiltOnceBeforeUse
  <2> SUFFICES ASSUME GuardInv PROVE BuiltOnceBeforeUse
    OBVIOUS
  <2>1. \A x, y \in {t \in Threads : pc[t] \in Inside} : x = y
    BY DEF GuardInv
  <2> DEFINE S == {t \in Threads : pc[t] \in Inside}
  <2>2. Cardinality(S) <= 1
    <3>1. \A x, y \in S : x = y
      BY <2>1
    <3> HIDE DEF S
    <3> QED
      BY <3>1, AtMostOne
  <2>3. /\ built <= 1
        /\ (\E t \in Threads : pc[t] = "use") => built = 1
        /\ (\E t \in Threads : pc[t] = "assert") => is_initialised
    BY DEF GuardInv
  <2> QED
    BY <2>2, <2>3 DEF BuiltOnceBeforeUse
<1> QED
  BY <1>1, <1>2, <1>3, PTL DEF GuardSpec

(***************************************************************************)
(* EhHandlers.                                                             *)
(***************************************************************************)

\* A sequence with an element changed is a sequence.
LEMMA ChangedSeq ==
    ASSUME NEW S, NEW s \in Seq(S), NEW n, NEW c \in S
    PROVE  [s EXCEPT ![n] = c] \in Seq(S)
<1>1. Len(s) \in Nat /\ s \in [1 .. Len(s) -> S]
  BY LenProperties
<1>2. [s EXCEPT ![n] = c] \in [1 .. Len(s) -> S]
  BY <1>1, Zenon
<1>3. [1 .. Len(s) -> S] \subseteq Seq(S)
  BY <1>1, SeqDef
<1> QED
  BY <1>2, <1>3

\* The handlers of the moment are functions of the program.
LEMMA HandlersOfTheMoment ==
    ASSUME HandlerInv
    PROVE  /\ \A c \in ExceptionClasses : Thrown(c) \in ThrownException /\ Thrown(c) = InForce(c)
           /\ \A k \in HandlerKinds : get_handler(k) \in HandlerFunctions
<1>1. \A k \in HandlerKinds : get_handler(k) \in HandlerFunctions
  BY DEF HandlerInv, get_handler, HandlerFunctions, Null
<1>2. Copies = [k \in HandlerKinds |-> get_handler(k)]
  BY DEF Copies, get_handler
<1>3. Copies \in [HandlerKinds -> HandlerFunctions]
  BY <1>1, <1>2
<1> QED
  BY <1>1, <1>2, <1>3, Zenon DEF Thrown, InForce, ThrownException

\* What Call does with a handler f: one or two frames are added.
LEMMA CallFrames ==
    ASSUME HandlerInv, NEW k \in HandlerKinds, NEW f \in HandlerFunctions,
           NEW why \in {"specification", "call"}, Call(k, f, why)
    PROVE  /\ calls' \in Seq(HandlerCall)
           /\ \A i \in Len(calls) + 1 .. Len(calls') :
                 calls'[i] \in {Entry(k, f, why), Inner}
<1> DEFINE e == Entry(k, f, why)
           x == IF f = std_terminate THEN <<e, Inner>> ELSE <<e>>
<1>1. calls \in Seq(HandlerCall) /\ Len(thrown) \in Nat
  BY DEF HandlerInv
<1>2. e \in HandlerCall
  BY <1>1 DEF Entry, HandlerCall
<1>3. Inner \in HandlerCall
  BY <1>1, HandlersOfTheMoment DEF Inner, Entry, HandlerCall, HandlerKinds
<1>4. calls' = calls \o x
  BY DEF Call
<1> HIDE DEF e
<1>5. x \in Seq(HandlerCall) /\ Len(x) \in Nat /\ \A i \in 1 .. Len(x) : x[i] \in {e, Inner}
  <2>1. CASE f = std_terminate
    <3>1. x = <<e, Inner>>
      BY <2>1
    <3> HIDE DEF x
    <3> QED
      BY <3>1, <1>2, <1>3
  <2>2. CASE f # std_terminate
    <3>1. x = <<e>>
      BY <2>2
    <3> HIDE DEF x
    <3> QED
      BY <3>1, <1>2, <1>3
  <2> QED
    BY <2>1, <2>2
<1> HIDE DEF x
<1>6. /\ calls' \in Seq(HandlerCall) /\ Len(calls') = Len(calls) + Len(x)
      /\ \A i \in 1 .. Len(calls) + Len(x) :
            calls'[i] = IF i <= Len(calls) THEN calls[i] ELSE x[i - Len(calls)]
  BY <1>1, <1>4, <1>5, ConcatProperties
<1>7. ASSUME NEW i \in Len(calls) + 1 .. Len(calls')
      PROVE  calls'[i] \in {e, Inner}
  <2>1. Len(calls) \in Nat
    BY <1>1
  <2>2. calls'[i] = x[i - Len(calls)] /\ i - Len(calls) \in 1 .. Len(x)
    BY <2>1, <1>5, <1>6, <1>7
  <2> QED
    BY <2>2, <1>5
<1> QED
  BY <1>6, <1>7 DEF e

\* A handler is entered for a violated specification with the copy in the
\* innermost exception if that is of a throw expression.
LEMMA NextHandlers ==
    ASSUME HandlerInv, [HandlersNext]_handlerVars
    PROVE  /\ HandlerInv'
           /\ \A i \in Len(calls) + 1 .. Len(calls') :
                 calls'[i].why = "specification" =>
                   calls'[i].handler = IF atThrow[calls'[i].ex].class = exception_class
                                       THEN atThrow[calls'[i].ex].copies["unexpected"]
                                       ELSE get_handler("unexpected")
<1> DEFINE Right(c) == c.why = "specification" =>
                         c.handler = IF atThrow[c.ex].class = exception_class
                                     THEN atThrow[c.ex].copies["unexpected"]
                                     ELSE get_handler("unexpected")
           Goal == HandlerInv' /\ \A i \in Len(calls) + 1 .. Len(calls') : Right(calls'[i])
<1> SUFFICES Goal
  OBVIOUS
<1>0. /\ global \in [HandlerKinds -> HandlerFunctions] /\ info \in [HandlerKinds -> Handlers \union {Null}]
      /\ thrown \in Seq(ThrownException) /\ calls \in Seq(HandlerCall) /\ thrown = atThrow
      /\ Len(calls) \in Nat /\ Len(thrown) \in Nat
  BY DEF HandlerInv
<1>1. ASSUME UNCHANGED calls PROVE \A i \in Len(calls) + 1 .. Len(calls') : Right(calls'[i])
  BY <1>0, <1>1
<1>2. ASSUME calls # <<>>, calls' = SubSeq(calls, 1, Len(calls) - 1)
      PROVE  calls' \in Seq(HandlerCall) /\ \A i \in Len(calls) + 1 .. Len(calls') : Right(calls'[i])
  <2>1. Len(calls) \in Nat \ {0}
    BY <1>0, <1>2, EmptySeq
  <2> DEFINE n == Len(calls) - 1
  <2>2. n \in Nat /\ \A i \in 1 .. n : calls[i] \in HandlerCall
    BY <2>1, <1>0, ElementOfSeq
  <2>3. calls' = SubSeq(calls, 1, n)
    BY <1>2
  <2> HIDE DEF n
  <2>4. /\ SubSeq(calls, 1, n) \in Seq(HandlerCall)
        /\ Len(SubSeq(calls, 1, n)) = IF 1 <= n THEN n - 1 + 1 ELSE 0
    BY <2>2, SubSeqProperties
  <2>5. calls' \in Seq(HandlerCall) /\ Len(calls') = n
    BY <2>2, <2>3, <2>4
  <2> QED
    BY <2>1, <2>5 DEF n
<1>3. Right(Inner)
  BY DEF Inner, Entry
<1>4. ASSUME NEW k \in HandlerKinds, NEW f \in HandlerFunctions, NEW why \in {"specification", "call"},
             Call(k, f, why), Right(Entry(k, f, why))
      PROVE  Goal
  <2>1. calls' \in Seq(HandlerCall) /\ \A i \in Len(calls) + 1 .. Len(calls') : Right(calls'[i])
    <3> HIDE DEF Right
    <3> QED
      BY <1>3, <1>4, CallFrames
  <2> QED
    BY <2>1, <1>0, <1>4, Zenon DEF Call, HandlerInv
<1>5. CASE \E flag \in BOOLEAN : set_use_thread_local_handlers(flag)
  BY <1>0, <1>1, <1>5 DEF set_use_thread_local_handlers, HandlerInv
<1>6. CASE \E k \in HandlerKinds, f \in Handlers \union {Null} : pathscale_set(k, f)
  BY <1>0, <1>1, <1>6 DEF pathscale_set, HandlerInv
<1>7. CASE \E k \in HandlerKinds, f \in Handlers : set_handler(k, f)
  <2>1. global' \in [HandlerKinds -> HandlerFunctions] /\ info' \in [HandlerKinds -> Handlers \union {Null}]
    BY <1>0, <1>7 DEF set_handler, HandlerFunctions
  <2> QED
    BY <2>1, <1>0, <1>1, <1>7 DEF set_handler, HandlerInv
<1>8. ASSUME NEW class \in ExceptionClasses, throw_exception(class) PROVE Goal
  <2>0. thrown' = Append(thrown, Thrown(class)) /\ atThrow' = Append(atThrow, InForce(class))
    BY <1>8 DEF throw_exception
  <2>1. thrown' \in Seq(ThrownException) /\ thrown' = atThrow'
    BY <2>0, <1>0, HandlersOfTheMoment, AppendProperties
  <2> QED
    BY <2>1, <1>0, <1>1, <1>8 DEF throw_exception, HandlerInv
<1>9. CASE __cxa_call_unexpected
  <2> DEFINE f == FromException(Len(thrown))
  <2>1. thrown[Len(thrown)] \in ThrownException
    <3>1. Len(thrown) \in 1 .. Len(thrown)
      BY <1>0, <1>9, EmptySeq DEF __cxa_call_unexpected
    <3> QED
      BY <3>1, <1>0, ElementOfSeq
  <2>2. f \in HandlerFunctions /\ "unexpected" \in HandlerKinds
    BY <2>1, HandlersOfTheMoment DEF HandlerKinds, FromException, ThrownException
  <2>3. Right(Entry("unexpected", f, "specification"))
    BY <1>0 DEF Entry, FromException
  <2>4. Call("unexpected", f, "specification")
    BY <1>9 DEF __cxa_call_unexpected
  <2> QED
    BY <2>2, <2>3, <2>4, <1>4, Zenon
<1>10. CASE terminate
  <2>1. get_handler("terminate") \in HandlerFunctions /\ "terminate" \in HandlerKinds
    BY HandlersOfTheMoment DEF HandlerKinds
  <2>2. Right(Entry("terminate", get_handler("terminate"), "call"))
    BY DEF Entry
  <2> QED
    BY <2>1, <2>2, <1>4, <1>10 DEF terminate
<1>11. CASE unexpected
  <2>1. get_handler("unexpected") \in HandlerFunctions /\ "unexpected" \in HandlerKinds
    BY HandlersOfTheMoment DEF HandlerKinds
  <2>2. Right(Entry("unexpected", get_handler("unexpected"), "call"))
    BY DEF Entry
  <2> QED
    BY <2>1, <2>2, <1>4, <1>11 DEF unexpected
<1>12. CASE HandlerReturns
  BY <1>0, <1>2, <1>12 DEF HandlerReturns, HandlerInv
<1>13. ASSUME NEW class \in ExceptionClasses, HandlerThrows(class) PROVE Goal
  <2> DEFINE n == calls[Len(calls)].ex
  <2>1. /\ thrown' = [thrown EXCEPT ![n] = Thrown(class)]
        /\ atThrow' = [atThrow EXCEPT ![n] = InForce(class)]
        /\ n = Len(thrown)
    BY <1>13 DEF HandlerThrows
  <2>2. thrown' = atThrow'
    BY <2>1, <1>0, HandlersOfTheMoment, Zenon
  <2>3. thrown' \in Seq(ThrownException)
    <3>1. Thrown(class) \in ThrownException /\ thrown \in Seq(ThrownException)
      BY <1>0, HandlersOfTheMoment
    <3>2. [thrown EXCEPT ![n] = Thrown(class)] \in Seq(ThrownException)
      BY <3>1, ChangedSeq, Zenon
    <3> QED
      BY <3>2, <2>1
  <2> QED
    BY <2>2, <2>3, <1>0, <1>2, <1>13 DEF HandlerThrows, HandlerInv
<1>14. CASE HandlerEnds
  BY <1>0, <1>1, <1>14 DEF HandlerEnds, HandlerInv
<1>15. CASE UNCHANGED handlerVars
  BY <1>0, <1>1, <1>15 DEF handlerVars, HandlerInv
<1> QED
  BY <1>5, <1>6, <1>7, <1>8, <1>9, <1>10, <1>11, <1>12, <1>13, <1>14, <1>15, Zenon DEF HandlersNext

\* __cxa_call_unexpected with throw_exception: a specification that a throw
\* expression violates runs the handler in force at that throw, whatever the
\* program set, threw or returned from in between; for a rethrown exception_ptr
\* it is the handler of the moment.
THEOREM SpecificationsKeepTheirHandler == HandlersSpec => HandlerOfTheThrow
<1>1. HandlersInit => HandlerInv
  BY DEF HandlersInit, HandlerInv, HandlerFunctions, HandlerKinds
<1>2. HandlerInv /\ [HandlersNext]_handlerVars => HandlerInv'
  BY NextHandlers
<1>3. HandlerInv /\ [HandlersNext]_handlerVars =>
        [\A c \in Possible : Started(c) /\ c.why = "specification" =>
           c.handler = IF atThrow[c.ex].class = exception_class
                       THEN atThrow[c.ex].copies["unexpected"]
                       ELSE get_handler("unexpected")]_handlerVars
  BY NextHandlers DEF Started
<1> QED
  BY <1>1, <1>2, <1>3, PTL DEF HandlersSpec, HandlerOfTheThrow

(***************************************************************************)
(* Exceptions.                                                             *)
(***************************************************************************)

\* Phase 2 finds the frame that phase 1 found.
LEMMA GoesToSearch ==
    ASSUME NEW o, NEW e, NEW s \in Seq(Frames), NEW t, GoesTo(o, s, Len(s) + 1, e, t)
    PROVE  Search(o, e, s) = t
<1> DEFINE i == Search(o, e, s)
<1>1. \/ i = 0 /\ \A j \in 1..Len(s) : ~Stops(o, s, e, j)
      \/ /\ i \in 1..Len(s) /\ Stops(o, s, e, i)
         /\ \A j \in i + 1..Len(s) : ~Stops(o, s, e, j)
  BY SearchStops
<1>2. /\ t \in 1..Len(s) /\ Stops(o, s, e, t) /\ Len(s) \in Nat
      /\ \A j \in t + 1..Len(s) : ~Stops(o, s, e, j)
  BY DEF GoesTo
<1> HIDE DEF i
<1>3. i = t
  BY <1>1, <1>2
<1> QED
  BY <1>3 DEF i

\* Phase 2 of the unwinding, one frame above the handler.
LEMMA CleanupKeeps ==
    ASSUME ExceptionsInv, Cleanup
    PROVE  ExceptionsInv'
<1>1. mode.pc = "unwind" /\ Len(stack) > mode.target /\ UNCHANGED <<uncaught, ptrs>>
  BY DEF Cleanup
<1>2. ExceptionTypes
  BY <1>1 DEF ExceptionsInv, Live
<1>3. mode.target \in Nat
  BY <1>1, <1>2, UnwindTypes
<1>4. stack # <<>>
  BY <1>1, <1>3
<1>5. CASE Top.kind = "try" /\ stack' = Popped(stack) /\ UNCHANGED <<obj, caught, mode>>
  BY <1>1, <1>4, <1>5, CleanupTry
<1>6. CASE /\ Top.kind = "scope" /\ mode' = Run /\ UNCHANGED <<obj, caught>>
           /\ stack' = Append(Popped(stack), Frame("landing", {}, mode.ex, mode.target))
  BY <1>1, <1>4, <1>6, CleanupScope
<1>7. CASE /\ Top.kind = "building" /\ stack' = Popped(stack) /\ UNCHANGED <<caught, mode>>
           /\ obj' = __cxa_free_exception(obj, Top.ex)
  BY <1>1, <1>4, <1>7, CleanupBuilding
<1>8. CASE Top.kind = "handler" /\ endCatch /\ stack' = Popped(stack) /\ UNCHANGED mode
  BY <1>1, <1>4, <1>8, EndCatchKeeps
<1> QED
  BY <1>5, <1>6, <1>7, <1>8 DEF Cleanup

\* Nothing is thrown, caught or pointed to at the start.
LEMMA ExceptionsStart == Init => ExceptionsInv
<1> SUFFICES ASSUME Init PROVE ExceptionsInv
  OBVIOUS
<1>1. /\ obj = [o \in Objects |-> Free] /\ caught = None /\ uncaught = 0 /\ stack = <<>>
      /\ ptrs = [o \in Objects |-> 0] /\ mode = Run
  BY DEF Init
<1>2. /\ \A k : Kinds(stack, k) = {}
      /\ mode.pc = "run" /\ DOMAIN stack = {} /\ Len(stack) = 0
  BY <1>1 DEF Kinds, Run
<1>3. /\ InFlight = {} /\ Handling = {} /\ Building = {} /\ Flights = {}
      /\ \A e : Blocks(stack, e) = {}
  BY <1>2 DEF InFlight, Handling, Building, Flights, Blocks
<1>4. \A e \in Objects : obj[e] = Free /\ ptrs[e] = 0
  BY <1>1
<1>5. \A e : Dependents(e) = {} /\ InUse(e) = 0
  BY <1>3, <1>4, FreeException DEF Dependents, InUse
<1>6. ExceptionTypes
  BY <1>1, <1>2, FreeException DEF ExceptionTypes
<1>7. FlightsInv
  BY <1>3, <1>4, FreeException DEF FlightsInv
<1>8. ObjectsInv
  BY <1>2, <1>3, <1>4, FreeException DEF ObjectsInv
<1>9. ObjectsAccounted
  BY <1>3, <1>4, <1>5, FreeException DEF ObjectsAccounted
<1>10. CaughtListIsNesting
  <2>1. Enclosing(stack, Len(stack) + 1) = None
    BY <1>2 DEF Enclosing
  <2> QED
    BY <1>1, <1>2, <1>3, <1>4, <2>1, FreeException, FS_EmptySet, Zenon DEF CaughtListIsNesting
<1>11. UncaughtExact
  BY <1>1, <1>3, FS_EmptySet DEF UncaughtExact
<1> QED
  BY <1>6, <1>7, <1>8, <1>9, <1>10, <1>11 DEF ExceptionsInv

\* A step of the runtime library or of the program keeps the invariant.
LEMMA ExceptionsStep == ExceptionsInv /\ [Next]_vars => ExceptionsInv'
<1> SUFFICES ASSUME ExceptionsInv, [Next]_vars PROVE ExceptionsInv'
  OBVIOUS
<1>1. CASE Enter
  BY <1>1, EnterKeeps
<1>2. CASE Leave
  BY <1>2, LeaveKeeps
<1>3. CASE __cxa_allocate_exception
  BY <1>3, AllocateKeeps
<1>4. CASE __cxa_throw
  BY <1>4, ThrowKeeps
<1>5. CASE __cxa_rethrow
  BY <1>5, RethrowKeeps
<1>6. CASE __cxa_end_catch
  BY <1>6, EndCatchActionKeeps
<1>7. CASE Resume
  BY <1>7, ResumeKeeps
<1>8. CASE Cleanup
  BY <1>8, CleanupKeeps
<1>9. CASE InstallHandler
  BY <1>9, InstallKeeps
<1>10. CASE __cxa_current_primary_exception
  BY <1>10, CurrentPrimaryKeeps
<1>11. CASE __cxa_increment_exception_refcount
  BY <1>11, IncrementKeeps
<1>12. CASE __cxa_decrement_exception_refcount
  BY <1>12, DecrementKeeps
<1>13. CASE __cxa_rethrow_primary_exception
  BY <1>13, RethrowPrimaryKeeps
<1>14. CASE UNCHANGED vars
  <2>1. UNCHANGED <<obj, caught, uncaught, stack, ptrs, mode>>
    BY <1>14 DEF vars
  <2>2. Live' <=> Live
    BY <2>1 DEF Live
  <2>3. ExceptionTypes' <=> ExceptionTypes
    BY <2>1 DEF ExceptionTypes
  <2>4. /\ InFlight' = InFlight /\ Handling' = Handling /\ Building' = Building
        /\ Flights' = Flights /\ \A i : Flight(i)' = Flight(i)
        /\ \A e : Dependents(e)' = Dependents(e) /\ InUse(e)' = InUse(e)
    BY <2>1 DEF InFlight, Handling, Building, Flights, Flight, Dependents, InUse
  <2>5. FlightsInv' <=> FlightsInv
    BY <2>1, <2>4 DEF FlightsInv
  <2>6. ObjectsInv' <=> ObjectsInv
    BY <2>1, <2>4, Zenon DEF ObjectsInv
  <2>7. ObjectsAccounted' <=> ObjectsAccounted
    BY <2>1, <2>2, <2>4 DEF ObjectsAccounted
  <2>8. CaughtListIsNesting' <=> CaughtListIsNesting
    BY <2>1, <2>2, <2>4 DEF CaughtListIsNesting
  <2>9. UncaughtExact' <=> UncaughtExact
    BY <2>1, <2>2, <2>4 DEF UncaughtExact
  <2> QED
    BY <2>2, <2>3, <2>5, <2>6, <2>7, <2>8, <2>9 DEF ExceptionsInv
<1> QED
  BY <1>1, <1>2, <1>3, <1>4, <1>5, <1>6, <1>7, <1>8, <1>9, <1>10, <1>11, <1>12, <1>13, <1>14
     DEF Next

\* exception.cc, unwind: the inductive invariant holds in every behaviour.
THEOREM ExceptionsInductive == Spec => []ExceptionsInv
  BY ExceptionsStart, ExceptionsStep, PTL DEF Spec

\* exception.cc: an exception object is allocated exactly while a throw
\* expression, a flight, a catch block, an exception_ptr or a dependent
\* exception refers to it, and its count of references is their number.
THEOREM ObjectsStayAccounted == Spec => []ObjectsAccounted
<1>1. ExceptionsInv => ObjectsAccounted
  BY DEF ExceptionsInv, ObjectsAccounted
<1> QED
  BY <1>1, ExceptionsInductive, PTL

\* __cxa_begin_catch, __cxa_end_catch, __cxa_rethrow: the list of caught
\* exceptions is the nesting of the catch blocks, the counts of handlers are
\* the numbers of blocks, and uncaught_exceptions() counts the flights.
THEOREM CatchesStayNested == Spec => []CatchesNest
<1>1. ExceptionsInv => CatchesNest
  BY DEF ExceptionsInv, CatchesNest, CaughtListIsNesting, UncaughtExact
<1> QED
  BY <1>1, ExceptionsInductive, PTL

\* _Unwind_RaiseException, the personality function: whatever cleanups have
\* run since the search, the unwinding still goes to the innermost frame
\* that stops the exception, with the landing pad found for it.
THEOREM UnwindingLands == Spec => []LandsInnermost
<1>1. ExceptionsInv => LandsInnermost
  <2> SUFFICES ASSUME ExceptionsInv, mode.pc = "unwind"
               PROVE  LET i == Search(obj, mode.ex, stack)
                      IN  mode.target = i
                          /\ obj[mode.ex].catchTemp = IF Barrier(stack[i]) THEN 0 ELSE i
    BY DEF LandsInnermost
  <2>1. ExceptionTypes /\ FlightsInv
    BY DEF ExceptionsInv, Live
  <2>2. stack \in Seq(Frames)
    BY <2>1 DEF ExceptionTypes
  <2>3. Len(stack) + 1 \in Flights /\ Flight(Len(stack) + 1) = mode
    BY <2>2 DEF Flights, Flight
  <2>4. GoesTo(obj, stack, Len(stack) + 1, mode.ex, mode.target)
    BY <2>1, <2>3 DEF FlightsInv, OnCourse
  <2>5. Search(obj, mode.ex, stack) = mode.target
    BY <2>2, <2>4, GoesToSearch
  <2> QED
    BY <2>4, <2>5 DEF GoesTo
<1> QED
  BY <1>1, ExceptionsInductive, PTL
=============================================================================
