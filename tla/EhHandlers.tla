----------------------------- MODULE EhHandlers -----------------------------
(* The unexpected and terminate handlers of libcxxrt (exception.cc): a     *)
(* global pair, a pair in the thread's data that wins when it is set, the  *)
(* flag that says which of them std::set_*() changes, and the copies that  *)
(* throw_exception() puts in each exception.  What a handler does is the   *)
(* program's choice: it may set handlers, throw, return or end the program.*)
(* Handlers are set to functions; a null pointer only clears the thread's. *)
EXTENDS Integers, Sequences

CONSTANTS Handlers,    \* functions of the program
          MaxThrown,   \* exceptions in flight: bound
          MaxCalls     \* handlers that run inside one another: bound

HandlerKinds == {"unexpected", "terminate"}
Null == "null"
abort == "abort"   \* the handlers of a program that sets none
std_terminate == "std::terminate"

(* The exception_class of what is thrown: a throw expression's exception,  *)
(* or the dependent one that rethrows an exception_ptr.                    *)
exception_class == "primary"
dependent_exception_class == "dependent"
ExceptionClasses == {exception_class, dependent_exception_class}

VARIABLES global,     \* terminateHandler, unexpectedHandler
          info,       \* those of __cxa_thread_info
          thread_local_handlers,
          thrown,     \* the exceptions on their way: class and copies held
          calls,      \* handlers that run, with the exception each is for
          handler_mode,       \* run, aborted or ended
          atThrow     \* history: what get_*() would have returned at each throw

handlerVars == <<global, info, thread_local_handlers, thrown, calls, handler_mode, atThrow>>

HandlersInit ==
  /\ global = [k \in HandlerKinds |-> IF k = "terminate" THEN abort ELSE std_terminate]
  /\ info = [k \in HandlerKinds |-> Null]
  /\ thread_local_handlers = FALSE
  /\ thrown = <<>>
  /\ calls = <<>>
  /\ handler_mode = "run"
  /\ atThrow = <<>>

-----------------------------------------------------------------------------
get_handler(k) == IF info[k] # Null THEN info[k] ELSE global[k]

set_use_thread_local_handlers(flag) ==
  /\ handler_mode = "run"
  /\ thread_local_handlers' = flag
  /\ UNCHANGED <<global, info, thrown, calls, handler_mode, atThrow>>

pathscale_set(k, f) ==
  /\ handler_mode = "run"
  /\ info' = [info EXCEPT ![k] = f]
  /\ UNCHANGED <<global, thread_local_handlers, thrown, calls, handler_mode, atThrow>>

set_handler(k, f) ==
  /\ handler_mode = "run"
  /\ IF thread_local_handlers
     THEN info' = [info EXCEPT ![k] = f] /\ UNCHANGED global
     ELSE global' = [global EXCEPT ![k] = f] /\ UNCHANGED info
  /\ UNCHANGED <<thread_local_handlers, thrown, calls, handler_mode, atThrow>>

-----------------------------------------------------------------------------
(* throw_exception(): the handlers of the moment go into the exception.    *)
Copies == [k \in HandlerKinds |-> IF info[k] # Null THEN info[k] ELSE global[k]]

Thrown(class) == [class |-> class, copies |-> Copies]
InForce(class) == [class |-> class, copies |-> [k \in HandlerKinds |-> get_handler(k)]]

throw_exception(class) ==
  /\ handler_mode = "run" /\ Len(thrown) < MaxThrown
  /\ thrown' = Append(thrown, Thrown(class))
  /\ atThrow' = Append(atThrow, InForce(class))
  /\ UNCHANGED <<global, info, thread_local_handlers, calls, handler_mode>>

(* A handler starts.  abort() does not return; std::terminate(), which is  *)
(* the first unexpected handler, calls the terminate handler.              *)
Entry(k, f, why) ==
  [kind |-> k, handler |-> f, why |-> why, local |-> info[k] # Null, ex |-> Len(thrown)]
Inner == Entry("terminate", get_handler("terminate"), "call")

Call(k, f, why) ==
  /\ calls' = calls \o IF f = std_terminate THEN <<Entry(k, f, why), Inner>>
                       ELSE <<Entry(k, f, why)>>
  /\ handler_mode' = IF calls'[Len(calls')].handler = abort THEN "aborted" ELSE "run"
  /\ UNCHANGED <<global, info, thread_local_handlers, thrown, atThrow>>

FromNow(e) == Copies["unexpected"]   \* mutant: the handler of the moment

(* The copy is used only for the class of a throw expression; for another  *)
(* the function falls through to std::unexpected().                        *)
FromException(e) ==
  IF thrown[e].class = exception_class THEN thrown[e].copies["unexpected"]
  ELSE get_handler("unexpected")

(* An exception specification is violated by the innermost exception.  The *)
(* program does not go on after either call: abort() stands behind both.   *)
__cxa_call_unexpected ==
  /\ handler_mode = "run" /\ thrown # <<>> /\ Len(calls) < MaxCalls
  /\ Call("unexpected", FromException(Len(thrown)), "specification")

(* Without a clause that matches, or from the program.                     *)
terminate ==
  /\ handler_mode = "run" /\ Len(calls) < MaxCalls
  /\ Call("terminate", get_handler("terminate"), "call")

unexpected ==
  /\ handler_mode = "run" /\ Len(calls) < MaxCalls
  /\ Call("unexpected", get_handler("unexpected"), "call")

(* The innermost handler comes back.  __cxa_call_unexpected() aborts, as   *)
(* do terminate() and unexpected() after a handler of the thread; after a  *)
(* global handler they return to their caller.                             *)
HandlerReturns ==
  /\ handler_mode = "run" /\ calls # <<>>
  /\ LET c == calls[Len(calls)] IN
       handler_mode' = IF c.why = "specification" \/ c.local THEN "aborted" ELSE "run"
  /\ calls' = SubSeq(calls, 1, Len(calls) - 1)
  /\ UNCHANGED <<global, info, thread_local_handlers, thrown, atThrow>>

(* The handler of a violated specification throws an exception that the    *)
(* specification allows: the old one ends in end_catch.                    *)
HandlerThrows(class) ==
  /\ handler_mode = "run" /\ calls # <<>>
  /\ LET c == calls[Len(calls)] IN
       /\ c.why = "specification" /\ c.ex = Len(thrown)
       /\ thrown' = [thrown EXCEPT ![c.ex] = Thrown(class)]
       /\ atThrow' = [atThrow EXCEPT ![c.ex] = InForce(class)]
  /\ calls' = SubSeq(calls, 1, Len(calls) - 1)
  /\ UNCHANGED <<global, info, thread_local_handlers, handler_mode>>

HandlerEnds ==
  /\ handler_mode = "run" /\ calls # <<>>
  /\ handler_mode' = "ended"
  /\ UNCHANGED <<global, info, thread_local_handlers, thrown, calls, atThrow>>

HandlersNext ==
  \/ \E flag \in BOOLEAN : set_use_thread_local_handlers(flag)
  \/ \E k \in HandlerKinds, f \in Handlers \union {Null} : pathscale_set(k, f)
  \/ \E k \in HandlerKinds, f \in Handlers : set_handler(k, f)
  \/ \E class \in ExceptionClasses : throw_exception(class) \/ HandlerThrows(class)
  \/ __cxa_call_unexpected \/ terminate \/ unexpected
  \/ HandlerReturns \/ HandlerEnds

HandlersSpec == HandlersInit /\ [][HandlersNext]_handlerVars

-----------------------------------------------------------------------------
Started(c) == \E i \in Len(calls) + 1..Len(calls') : c = calls'[i]
Possible == [kind : HandlerKinds, handler : Handlers \union {abort, std_terminate}, why : {"specification", "call"},
             local : BOOLEAN, ex : 0..MaxThrown]

(* __cxa_call_unexpected() with throw_exception(): a violated              *)
(* specification runs the handler that was in force when its exception was *)
(* thrown, whatever was set since, in the thread or for all.  This is      *)
(* claimed for throw expressions: of a rethrown exception_ptr the copy is  *)
(* not looked at (exception.cc:1378), and the handler of the moment runs.  *)
HandlerOfTheThrow ==
  [][\A c \in Possible : Started(c) /\ c.why = "specification" =>
       c.handler = IF atThrow[c.ex].class = exception_class
                   THEN atThrow[c.ex].copies["unexpected"]
                   ELSE get_handler("unexpected")]_handlerVars

(* The inductive invariant: the copies in the exceptions are the handlers  *)
(* that were in force at their throws.                                     *)
HandlerFunctions == Handlers \union {abort, std_terminate}
HandlerCall == [kind : HandlerKinds, handler : HandlerFunctions, why : {"specification", "call"},
          local : BOOLEAN, ex : Nat]
ThrownException == [class : ExceptionClasses, copies : [HandlerKinds -> HandlerFunctions]]
HandlerInv ==
  /\ global \in [HandlerKinds -> HandlerFunctions]
  /\ info \in [HandlerKinds -> Handlers \union {Null}]
  /\ thrown \in Seq(ThrownException)
  /\ calls \in Seq(HandlerCall)
  /\ thrown = atThrow
=============================================================================
