------------------------------- MODULE Guard --------------------------------
(* Guards of function-local statics (guard.cc): the 32-bit little-endian   *)
(* variant with one word for "initialised" and one for the lock.  Threads  *)
(* are contexts that may preempt each other anywhere; every load, store    *)
(* and compare-and-swap is a step.  A constructor may throw.               *)
EXTENDS Naturals, FiniteSets

CONSTANTS Threads

locked == 2        \* 1 << LockedBit, any value but 0 and initialised
initialised == 1   \* 1 << InitBit

VARIABLES init_word, lock_word,   \* the guard
          pc,                     \* where each thread is
          built                   \* constructions completed so far

guardVars == <<init_word, lock_word, pc, built>>

GuardInit ==
  /\ init_word = 0 /\ lock_word = 0
  /\ pc = [t \in Threads |-> "start"]
  /\ built = 0

Goto(t, where) == pc' = [pc EXCEPT ![t] = where]

is_initialised == init_word = initialised

(* The first look of __cxa_guard_acquire(): 0 is returned at once.         *)
__cxa_guard_acquire(t) ==
  /\ pc[t] = "start"
  /\ Goto(t, IF is_initialised THEN "use" ELSE "try")
  /\ UNCHANGED <<init_word, lock_word, built>>

(* try_lock(): the swap fails and the loop tries again, or it succeeds.    *)
try_lock(t) ==
  /\ pc[t] = "try"
  /\ \/ lock_word # 0 /\ UNCHANGED <<lock_word, pc>>
     \/ lock_word = 0 /\ lock_word' = locked /\ Goto(t, "check")
  /\ UNCHANGED <<init_word, built>>

CheckAgainNone(t) == "construct"   \* mutant: no second look under the lock

CheckAgain(t) == IF is_initialised THEN "release" ELSE "construct"

SecondLook(t) ==
  /\ pc[t] = "check"
  /\ Goto(t, CheckAgain(t))
  /\ UNCHANGED <<init_word, lock_word, built>>

(* Somebody else initialised it: the value stored in the lock word is that *)
(* of the other word's flag, not 0.                                        *)
ReleaseDone(t) ==
  /\ pc[t] = "release"
  /\ lock_word' = initialised
  /\ Goto(t, "use")
  /\ UNCHANGED <<init_word, built>>

(* The constructor runs; then __cxa_guard_release(), or, after an          *)
(* exception, __cxa_guard_abort(), both in two stores.                     *)
Construct(t) ==
  /\ pc[t] = "construct"
  /\ \/ built' = built + 1 /\ Goto(t, "done")
     \/ Goto(t, "abort") /\ UNCHANGED built
  /\ UNCHANGED <<init_word, lock_word>>

StoreInit(t) ==
  /\ pc[t] \in {"done", "abort"}
  /\ init_word' = IF pc[t] = "done" THEN initialised ELSE 0
  /\ Goto(t, IF pc[t] = "done" THEN "unlock" ELSE "unlock_abort")
  /\ UNCHANGED <<lock_word, built>>

unlock(t) ==
  /\ pc[t] \in {"unlock", "unlock_abort"}
  /\ lock_word' = 0
  /\ Goto(t, IF pc[t] = "unlock" THEN "assert" ELSE "assert_abort")
  /\ UNCHANGED <<init_word, built>>

(* The assertion at the end of unlock() reads the first word without the   *)
(* lock; if it fails, the kernel panics and nothing goes on.  After an     *)
(* abort the exception leaves the function, which is called again.         *)
Assertion(t) ==
  /\ pc[t] \in {"assert", "assert_abort"}
  /\ IF pc[t] = "assert" THEN Goto(t, IF is_initialised THEN "use" ELSE "panic")
     ELSE Goto(t, IF is_initialised THEN "panic" ELSE "start")
  /\ UNCHANGED <<init_word, lock_word, built>>

(* The object is used; the function is called again.                       *)
Use(t) ==
  /\ pc[t] = "use"
  /\ Goto(t, "start")
  /\ UNCHANGED <<init_word, lock_word, built>>

Step(t) ==
  \/ __cxa_guard_acquire(t) \/ try_lock(t) \/ SecondLook(t) \/ ReleaseDone(t)
  \/ Construct(t) \/ StoreInit(t) \/ unlock(t) \/ Assertion(t) \/ Use(t)

GuardNext == (\A t \in Threads : pc[t] # "panic") /\ \E t \in Threads : Step(t)

GuardSpec == GuardInit /\ [][GuardNext]_guardVars

-----------------------------------------------------------------------------
(* Where a thread holds the lock.                                          *)
Inside == {"check", "release", "construct", "done", "abort", "unlock", "unlock_abort"}

(* guard.cc: the object is constructed once, whoever comes first, and      *)
(* nobody uses it before that; one thread at a time holds the lock; the    *)
(* assertion of unlock() holds for the thread that built the object.  It   *)
(* can fail, and panic, for a thread whose constructor threw, when another *)
(* one finishes before it is evaluated.                                    *)
BuiltOnceBeforeUse ==
  /\ built <= 1
  /\ (\E t \in Threads : pc[t] = "use") => built = 1
  /\ (\E t \in Threads : pc[t] = "assert") => is_initialised
  /\ Cardinality({t \in Threads : pc[t] \in Inside}) <= 1

(* The inductive invariant: who is inside holds the lock and is alone, and *)
(* the word says whether the object exists, but for the thread that has    *)
(* just built it.                                                          *)
GuardInv ==
  /\ pc \in [Threads -> Inside \cup {"start", "try", "use", "assert", "assert_abort", "panic"}]
  /\ init_word \in {0, initialised} /\ built \in {0, 1}
  /\ \A t \in Threads : pc[t] \in Inside =>
       lock_word = locked /\ \A u \in Threads : pc[u] \in Inside => u = t
  /\ \A t \in Threads :
       /\ pc[t] \in {"release", "unlock", "assert", "use"} => is_initialised
       /\ pc[t] \in {"construct", "abort", "unlock_abort"} => built = 0
       /\ pc[t] = "done" => built = 1 /\ ~is_initialised
  /\ is_initialised => built = 1
  /\ built = 1 => is_initialised \/ \E t \in Threads : pc[t] = "done"
=============================================================================
