----------------------------- MODULE Exceptions -----------------------------
(* The life of exceptions in libcxxrt (exception.cc): allocation, throw,   *)
(* the two phases of the personality function, catch blocks, rethrow, and  *)
(* the pointers of current_exception().  The program is any well formed    *)
(* C++ program; its state is the stack of the constructs it is inside:     *)
(*   try       a try block with the types its clauses name                 *)
(*   scope     an object with a destructor                                 *)
(*   barrier   a function that lets nothing out                            *)
(*   building  a throw expression whose object is being constructed        *)
(*   handler   a catch block                                               *)
(*   landing   a destructor that runs because of an unwinding              *)
(* The frames of the unwind library (external) are these constructs.       *)
EXTENDS Integers, Sequences, FiniteSets, FiniteSetsExt

CONSTANTS Objects, Types,
          MaxDepth,   \* nesting of constructs: bound
          MaxPtrs     \* exception pointers to one object: bound

None == "none"
Lsda == "lsda"   \* what is not a type

ASSUME ObjectsAssumption == IsFiniteSet(Objects) /\ None \notin Objects

VARIABLES obj,      \* the __cxa_exception of every object
          caught,   \* globals->caughtExceptions
          uncaught, \* globals->uncaughtExceptions
          stack,    \* the program
          ptrs,     \* exception pointers held, for each object
          mode      \* running, or unwinding with an exception

vars == <<obj, caught, uncaught, stack, ptrs, mode>>

Free == [alloc |-> FALSE, dependent |-> FALSE, type |-> None, ref |-> 0, hc |-> 0,
         next |-> None, catchTemp |-> 0, primary |-> None]
Run == [pc |-> "run", ex |-> None, target |-> 0]
Stop(why) == [pc |-> why, ex |-> None, target |-> 0]
Frame(k, t, e, g) == [kind |-> k, types |-> t, ex |-> e, target |-> g]

Top == stack[Len(stack)]
Popped(s) == SubSeq(s, 1, Len(s) - 1)
Push(f) == stack' = Append(stack, f)
Kinds(s, k) == {i \in DOMAIN s : s[i].kind = k}
InFlight ==
  {stack[i].ex : i \in Kinds(stack, "landing")} \union (IF mode.pc = "unwind" THEN {mode.ex} ELSE {})

Init ==
  /\ obj = [o \in Objects |-> Free]
  /\ caught = None
  /\ uncaught = 0
  /\ stack = <<>>
  /\ ptrs = [o \in Objects |-> 0]
  /\ mode = Run

-----------------------------------------------------------------------------
realExceptionFromException(o, e) == IF o[e].dependent THEN o[e].primary ELSE e

(* The destructor of the thrown object runs first (exception.cc:607-618):  *)
(* it is left out, and so is the std::terminate() when it throws.          *)
__cxa_free_exception(o, e) == [o EXCEPT ![e] = Free]

ReleaseOne(o, e) ==
  IF o[e].ref = 1 THEN __cxa_free_exception(o, e) ELSE [o EXCEPT ![e].ref = @ - 1]

__cxa_free_dependent_exception(o, e) ==
  [ReleaseOne(o, realExceptionFromException(o, e)) EXCEPT ![e] = Free]

DropBoth(o, e) ==   \* mutant: the primary exception is not released
  IF o[e].dependent THEN __cxa_free_exception(o, e) ELSE ReleaseOne(o, e)

releaseException(o, e) ==
  IF o[e].dependent THEN __cxa_free_dependent_exception(o, e) ELSE ReleaseOne(o, e)

-----------------------------------------------------------------------------
(* Phase 1: the personality function of one frame after the other, from    *)
(* the innermost.  A matching clause is a handler, its landing pad is kept *)
(* in the exception; a frame without an entry for the call counts as a     *)
(* handler too, but nothing is kept.                                       *)
Matches(o, e, f) == f.kind = "try" /\ o[realExceptionFromException(o, e)].type \in f.types
Barrier(f) == f.kind \in {"landing", "barrier"}

Search(o, e, s) ==
  LET hits == {i \in DOMAIN s : Matches(o, e, s[i]) \/ Barrier(s[i])}
  IN  IF hits = {} THEN 0 ELSE Max(hits)

beginCatch(o, e) ==
  [o EXCEPT ![e].next = IF o[e].hc = 0 THEN caught ELSE @,
            ![e].hc = IF @ < 0 THEN 1 - @ ELSE @ + 1]
beginCaught(o, e) == IF o[e].hc = 0 THEN e ELSE caught

(* _Unwind_RaiseException() of e with the stack s.  At the end of the      *)
(* stack report_failure() marks e caught and terminates.                   *)
Raise(o, e, s, u) ==
  LET i == Search(o, e, s) IN
  IF i = 0
  THEN /\ obj' = beginCatch(o, e)
       /\ caught' = beginCaught(o, e)
       /\ uncaught' = u - 1
       /\ mode' = Stop("terminate")
  ELSE /\ obj' = IF Barrier(s[i]) THEN o ELSE [o EXCEPT ![e].catchTemp = i]
       /\ mode' = [pc |-> "unwind", ex |-> e, target |-> i]
       /\ uncaught' = u
       /\ UNCHANGED caught

Rethrown(u) == u + 1   \* __cxa_begin_catch() had counted it down

ConsumeKeep(o, e) == o   \* mutant: catchTemp is not cleared

Consume(o, e) == [o EXCEPT ![e].catchTemp = 0]

endCountPlain(n) == n - 1   \* mutant: no case for a rethrown exception

endCount(n) == IF n < 0 THEN n + 1 ELSE n - 1

(* __cxa_end_catch(): for the exception at the head of the list.           *)
endCatch ==
  LET n == endCount(obj[caught].hc)
      o == [obj EXCEPT ![caught].hc = n]
  IN  /\ caught' = IF n = 0 THEN obj[caught].next ELSE caught
      /\ obj' = IF n = 0 /\ obj[caught].hc > 0 THEN releaseException(o, caught) ELSE o

-----------------------------------------------------------------------------
(* The program enters and leaves its constructs.                           *)
Enter ==
  /\ mode = Run
  /\ Len(stack) < MaxDepth
  /\ \E k \in {"try", "scope", "barrier"} :
     \E t \in IF k = "try" THEN (SUBSET Types) \ {{}} ELSE {{}} :
       Push(Frame(k, t, None, 0))
  /\ UNCHANGED <<obj, caught, uncaught, ptrs, mode>>

Leave ==
  /\ mode = Run /\ stack # <<>> /\ Top.kind \in {"try", "scope", "barrier"}
  /\ stack' = Popped(stack)
  /\ UNCHANGED <<obj, caught, uncaught, ptrs, mode>>

__cxa_allocate_exception ==
  /\ mode = Run /\ Len(stack) < MaxDepth
  /\ \E e \in Objects :
       /\ ~obj[e].alloc
       /\ obj' = [obj EXCEPT ![e].alloc = TRUE]
       /\ Push(Frame("building", {}, e, 0))
  /\ UNCHANGED <<caught, uncaught, ptrs, mode>>

__cxa_throw ==
  /\ mode = Run /\ stack # <<>> /\ Top.kind = "building"
  /\ \E t \in Types :
       Raise([obj EXCEPT ![Top.ex].type = t, ![Top.ex].ref = 1], Top.ex,
             Popped(stack), uncaught + 1)
  /\ stack' = Popped(stack)
  /\ UNCHANGED ptrs

__cxa_rethrow ==
  /\ mode = Run
  /\ \/ caught = None /\ mode' = Stop("terminate") /\ UNCHANGED <<obj, caught, uncaught>>
     \/ /\ caught # None /\ obj[caught].hc <= 0
        /\ mode' = Stop("assert")
        /\ UNCHANGED <<obj, caught, uncaught>>
     \/ /\ caught # None /\ obj[caught].hc > 0
        /\ Raise([obj EXCEPT ![caught].hc = -@], caught, stack, Rethrown(uncaught))
  /\ UNCHANGED <<stack, ptrs>>

(* The end of a catch block that is left normally.                         *)
__cxa_end_catch ==
  /\ mode = Run /\ stack # <<>> /\ Top.kind = "handler"
  /\ endCatch
  /\ stack' = Popped(stack)
  /\ UNCHANGED <<uncaught, ptrs, mode>>

(* The end of a landing pad: _Unwind_Resume().                             *)
Resume ==
  /\ mode = Run /\ stack # <<>> /\ Top.kind = "landing"
  /\ mode' = [pc |-> "unwind", ex |-> Top.ex, target |-> Top.target]
  /\ stack' = Popped(stack)
  /\ UNCHANGED <<obj, caught, uncaught, ptrs>>

(* Phase 2, one frame.  Above the handler, cleanups run: a destructor is   *)
(* the program again, the others are calls the compiler put there.         *)
Cleanup ==
  /\ mode.pc = "unwind" /\ Len(stack) > mode.target
  /\ \/ /\ Top.kind = "try"
        /\ stack' = Popped(stack)
        /\ UNCHANGED <<obj, caught, mode>>
     \/ /\ Top.kind = "scope"
        /\ stack' = Append(Popped(stack), Frame("landing", {}, mode.ex, mode.target))
        /\ mode' = Run
        /\ UNCHANGED <<obj, caught>>
     \/ /\ Top.kind = "building"
        /\ obj' = __cxa_free_exception(obj, Top.ex)
        /\ stack' = Popped(stack)
        /\ UNCHANGED <<caught, mode>>
     \/ /\ Top.kind = "handler"
        /\ endCatch
        /\ stack' = Popped(stack)
        /\ UNCHANGED mode
  /\ UNCHANGED <<uncaught, ptrs>>

(* At the handler the kept landing pad is installed and cleared, and the   *)
(* catch block starts; without one the program is terminated.              *)
InstallHandler ==
  /\ mode.pc = "unwind" /\ Len(stack) = mode.target
  /\ LET e == mode.ex IN
     \/ /\ obj[e].catchTemp = 0
        /\ mode' = Stop("terminate")
        /\ UNCHANGED <<obj, caught, uncaught, stack>>
     \/ /\ obj[e].catchTemp # 0
        /\ obj' = beginCatch(Consume(obj, e), e)
        /\ caught' = beginCaught(obj, e)
        /\ uncaught' = uncaught - 1
        /\ stack' = Append(Popped(stack), Frame("handler", {}, e, 0))
        /\ mode' = Run
  /\ UNCHANGED ptrs

-----------------------------------------------------------------------------
(* exception_ptr: taken in a catch block, copied and dropped at any time,  *)
(* rethrown as a dependent exception.  The type recorded in the dependent  *)
(* exception is read through a pointer that was moved by the offset for    *)
(* the other kind of pointer: it hits the field languageSpecificData.      *)
__cxa_current_primary_exception ==
  /\ mode = Run /\ caught # None
  /\ LET e == realExceptionFromException(obj, caught) IN
       /\ ptrs[e] < MaxPtrs
       /\ obj' = [obj EXCEPT ![e].ref = @ + 1]
       /\ ptrs' = [ptrs EXCEPT ![e] = @ + 1]
  /\ UNCHANGED <<caught, uncaught, stack, mode>>

__cxa_increment_exception_refcount ==
  /\ mode = Run
  /\ \E e \in Objects :
       /\ ptrs[e] \in 1..MaxPtrs - 1
       /\ obj' = [obj EXCEPT ![e].ref = @ + 1]
       /\ ptrs' = [ptrs EXCEPT ![e] = @ + 1]
  /\ UNCHANGED <<caught, uncaught, stack, mode>>

__cxa_decrement_exception_refcount ==
  /\ mode = Run
  /\ \E e \in Objects :
       /\ ptrs[e] > 0
       /\ obj' = releaseException(obj, e)
       /\ ptrs' = [ptrs EXCEPT ![e] = @ - 1]
  /\ UNCHANGED <<caught, uncaught, stack, mode>>

__cxa_rethrow_primary_exception ==
  /\ mode = Run
  /\ \E e, d \in Objects :
       /\ ptrs[e] > 0 /\ ~obj[d].alloc
       /\ Raise([obj EXCEPT ![d] = [Free EXCEPT !.alloc = TRUE, !.dependent = TRUE,
                                                !.type = Lsda, !.primary = e],
                            ![e].ref = @ + 1],
                d, stack, uncaught + 1)
  /\ UNCHANGED <<stack, ptrs>>

Next ==
  \/ Enter \/ Leave \/ __cxa_allocate_exception \/ __cxa_throw \/ __cxa_rethrow
  \/ __cxa_end_catch \/ Resume \/ Cleanup \/ InstallHandler
  \/ __cxa_current_primary_exception \/ __cxa_increment_exception_refcount
  \/ __cxa_decrement_exception_refcount \/ __cxa_rethrow_primary_exception

Spec == Init /\ [][Next]_vars

-----------------------------------------------------------------------------
Live == mode.pc \in {"run", "unwind"}
Handling == {stack[i].ex : i \in Kinds(stack, "handler")}
Building == {stack[i].ex : i \in Kinds(stack, "building")}
Dependents(e) == {d \in Objects : obj[d].alloc /\ obj[d].dependent /\ obj[d].primary = e}
InUse(e) == IF e \in InFlight \union Handling THEN 1 ELSE 0

(* An exception object exists exactly as long as something refers to it: a *)
(* throw, an unwinding, a catch block, an exception pointer or a rethrown  *)
(* pointer.  None is used after it was freed, none stays behind.           *)
ObjectsAccounted ==
  Live => \A e \in Objects :
    /\ obj[e].alloc <=> (InUse(e) = 1 \/ e \in Building \/ ptrs[e] > 0
                           \/ Dependents(e) # {})
    /\ obj[e].alloc /\ ~obj[e].dependent /\ e \notin Building =>
         obj[e].ref = InUse(e) + ptrs[e] + Cardinality(Dependents(e))

(* The exception of the innermost catch block below the i-th frame.        *)
Enclosing(s, i) ==
  LET below == {j \in Kinds(s, "handler") : j < i}
  IN  IF below = {} THEN None ELSE s[Max(below)].ex
Blocks(s, e) == {i \in Kinds(s, "handler") : s[i].ex = e}

(* caughtExceptions lists the exceptions of the open catch blocks in the   *)
(* order of nesting, also while exceptions leave several of them: it       *)
(* starts with the innermost block's, the blocks of a rethrown exception   *)
(* follow one another, and from the outermost of them the list goes on     *)
(* with the block around it.  The count of handlers is the number of       *)
(* blocks, negative just as long as the exception is on its way again.     *)
CaughtListIsNesting ==
  Live =>
    /\ caught = Enclosing(stack, Len(stack) + 1)
    /\ \A i \in Kinds(stack, "handler") :
         LET e == stack[i].ex IN
         IF \E j \in Blocks(stack, e) : j < i THEN Enclosing(stack, i) = e
         ELSE obj[e].next = Enclosing(stack, i)
    /\ \A e \in Objects :
         obj[e].hc = IF e \in InFlight THEN -Cardinality(Blocks(stack, e))
                     ELSE Cardinality(Blocks(stack, e))

(* uncaught_exceptions() is the number of exceptions on their way.         *)
UncaughtExact == Live => uncaught = Cardinality(InFlight)

(* The unwinding goes to the innermost clause that matches, unless a frame *)
(* that lets nothing out is met first: then no landing pad of an earlier   *)
(* unwinding is left over and the program is terminated.                   *)
LandsInnermost ==
  mode.pc = "unwind" =>
    LET i == Search(obj, mode.ex, stack)
    IN  mode.target = i /\ obj[mode.ex].catchTemp = IF Barrier(stack[i]) THEN 0 ELSE i

(* exception.cc: the list of caught exceptions and the two counters say    *)
(* what the program is inside of.                                          *)
CatchesNest == CaughtListIsNesting /\ UncaughtExact
-----------------------------------------------------------------------------
(* The inductive invariant.  A flight is an exception on its way: at the   *)
(* index of the landing pad that interrupts it, or above the stack.        *)
Frames == [kind : {"try", "scope", "barrier", "building", "handler", "landing"},
           types : SUBSET Types, ex : Objects \union {None}, target : Nat]
Exception == [alloc : BOOLEAN, dependent : BOOLEAN, type : Types \union {None, Lsda},
              ref : Nat, hc : Int, next : Objects \union {None}, catchTemp : Nat,
              primary : Objects \union {None}]

ExceptionTypes ==
  /\ obj \in [Objects -> Exception]
  /\ caught \in Objects \union {None}
  /\ uncaught \in Int
  /\ stack \in Seq(Frames)
  /\ ptrs \in [Objects -> Nat]
  /\ mode = Run \/ mode \in [pc : {"unwind"}, ex : Objects, target : Nat]
  /\ \A i \in DOMAIN stack : stack[i].kind \in {"building", "handler", "landing"} =>
       stack[i].ex \in Objects

Flights == Kinds(stack, "landing") \union (IF mode.pc = "unwind" THEN {Len(stack) + 1} ELSE {})
Flight(i) == IF i \in DOMAIN stack THEN stack[i] ELSE mode

(* Every flight goes to the nearest frame that stops it.                   *)
Stops(o, s, e, j) == Matches(o, e, s[j]) \/ Barrier(s[j])
GoesTo(o, s, i, e, t) ==
  /\ t \in 1..i - 1 /\ Stops(o, s, e, t)
  /\ \A j \in t + 1..i - 1 : ~Stops(o, s, e, j)
  /\ o[e].catchTemp = IF Barrier(s[t]) THEN 0 ELSE t

(* Its own catch blocks, if it was rethrown, are the next ones it leaves.  *)
OnCourse(o, s, i, e, t) ==
  /\ GoesTo(o, s, i, e, t)
  /\ Blocks(s, e) # {} => Enclosing(s, i) = e
  /\ \A j \in Blocks(s, e) : j < i

FlightsInv ==
  /\ \A i, j \in Flights : Flight(i).ex = Flight(j).ex => i = j
  /\ \A i \in Flights : OnCourse(obj, stack, i, Flight(i).ex, Flight(i).target)
  /\ \A e \in Objects : e \notin InFlight => obj[e].catchTemp = 0

(* What is not allocated is blank; an object under construction belongs to *)
(* one throw expression; a dependent exception has no pointer and stands   *)
(* for an exception that was thrown.                                       *)
ObjectsInv ==
  /\ \A e \in Objects : ~obj[e].alloc => obj[e] = Free
  /\ \A i, j \in Kinds(stack, "building") : stack[i].ex = stack[j].ex => i = j
  /\ \A e \in Building : obj[e] = [Free EXCEPT !.alloc = TRUE]
  /\ \A e \in Building : e \notin InFlight \union Handling /\ ptrs[e] = 0 /\ Dependents(e) = {}
  /\ \A d \in Objects : obj[d].dependent =>
       /\ ptrs[d] = 0 /\ Dependents(d) = {}
       /\ obj[d].primary \in Objects \ Building

ExceptionsInv ==
  Live => /\ ExceptionTypes /\ FlightsInv /\ ObjectsInv
          /\ ObjectsAccounted /\ CaughtListIsNesting /\ UncaughtExact
=============================================================================
