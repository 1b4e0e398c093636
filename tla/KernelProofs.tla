--------------------------- MODULE KernelProofs ---------------------------
(***************************************************************************)
(* Proofs about Kernel, for every size of the process table, every time    *)
(* slice and every sequence of devices.                                    *)
(***************************************************************************)
EXTENDS Kernel, WellFoundedInduction, TLAPS

(* A nonempty set has a member of least rank. *)
LEMMA Least ==
    ASSUME NEW S, S # {}, NEW f \in [S -> Nat]
    PROVE  \E q \in S : \A r \in S : f[q] <= f[r]
<1> DEFINE T == {f[x] : x \in S}
           R == OpToRel(<, Nat)
<1>1. T \subseteq Nat /\ T # {}
  OBVIOUS
<1>2. IsWellFoundedOn(R, Nat)
  BY NatLessThanWellFounded, Zenon
<1> HIDE DEF R
<1>3. PICK x \in T : \A y \in T : ~(<<y, x>> \in R)
  BY <1>1, <1>2, WFMin, Zenon
<1>4. \A y \in T : ~(y < x)
  BY <1>1, <1>3, Zenon DEF R, OpToRel
<1>5. PICK q \in S : x = f[q]
  OBVIOUS
<1>6. ASSUME NEW r \in S PROVE f[q] <= f[r]
  <2>1. f[r] \in T /\ f[r] \in Nat /\ f[q] \in Nat
    OBVIOUS
  <2> QED
    BY <2>1, <1>4, <1>5
<1> QED
  BY <1>6

(* The walk of resche() ends on a member of the set it looks for. *)
LEMMA FirstAfterIn ==
    ASSUME NEW cur \in PID, NEW S \in SUBSET PID, S # {}
    PROVE  FirstAfter(cur, S) \in S
<1> DEFINE f == [q \in S |-> Walk(cur, q)]
<1>1. f \in [S -> Nat]
  BY KernelAssumption DEF Walk, PID
<1>2. \E q \in S : \A r \in S : f[q] <= f[r]
  BY <1>1, Least, Zenon
<1>3. \E q \in S : \A r \in S : Walk(cur, q) <= Walk(cur, r)
  BY <1>2
<1> QED
  BY <1>3 DEF FirstAfter

(* resche() chooses among the processes it is given. *)
LEMMA rescheIn ==
    ASSUME NEW cur \in PID, NEW S \in SUBSET PID, S # {}
    PROVE  resche(cur, S) \in S
BY FirstAfterIn DEF resche

(* The slot a new process takes is free. *)
LEMMA FreeSlotIn ==
    ASSUME process_list \in SUBSET PID, process_list # PID
    PROVE  FreeSlot \in PID \ process_list
<1> DEFINE S == PID \ process_list
           f == [q \in S |-> q]
<1>1. S # {} /\ f \in [S -> Nat]
  <2>1. PID \subseteq Nat
    BY KernelAssumption DEF PID
  <2> QED
    BY <2>1, Zenon
<1>2. \E q \in S : \A r \in S : f[q] <= f[r]
  BY <1>1, Least, Zenon
<1>3. \E q \in S : \A r \in S : q <= r
  BY <1>2
<1> QED
  BY <1>3 DEF FreeSlot
-----------------------------------------------------------------------------
(* Consequences of the invariant *)

(* The idle process, or the child it has forked, can always run. *)
LEMMA SomeoneRunnable ==
    ASSUME IInv
    PROVE  Runnable # {} /\ Runnable \in SUBSET PID
<1>1. CASE process_state[Idle] = RUNNABLE
  BY <1>1 DEF IInv, IdleCanRun, Runnable, TypeOK
<1>2. CASE process_state[Idle] # RUNNABLE
  <2>1. Idle \in PID /\ Idle \in process_list
    BY DEF IInv, IdleCanRun, TypeOK
  <2>2. process_state[Idle] = SLEEPING
    BY <1>2, <2>1 DEF IInv, TypeOK
  <2>3. stack_backup[Idle]
    BY <2>1, <2>2 DEF IInv, IdleCanRun, SleepersHaveOneWaker
  <2>4. PICK c \in process_list : onStackOf[c] = Idle
    BY <2>1, <2>3 DEF IInv, ParentHasChild
  <2> QED
    BY <2>4 DEF IInv, IdleCanRun, Runnable, TypeOK
<1> QED
  BY <1>1, <1>2

(* The process in user mode is runnable, queued nowhere, and holds no backup. *)
LEMMA Running ==
    ASSUME IInv, NEW p \in PID, User(p)
    PROVE  /\ p \in process_list /\ process_state[p] = RUNNABLE /\ p \in Runnable
           /\ ~stack_backup[p]
           /\ ~IsQueued(p)
           /\ sys.ind = 0
<1>1. p \in process_list /\ process_state[p] = RUNNABLE /\ p \in Runnable
  BY DEF IInv, SomeoneRuns, User, Runnable
<1>2. RUNNABLE # SLEEPING
  BY DEF RUNNABLE, SLEEPING
<1>3. ~stack_backup[p] /\ ~IsQueued(p)
  BY <1>1, <1>2 DEF IInv, SleepersHaveOneWaker
<1> QED
  BY <1>1, <1>3 DEF IInv, SyscallFrame, User

(* With no request handled yet, every request is queued. *)
LEMMA AllQueued ==
    ASSUME sys.ind = 0, NEW d \in Dev
    PROVE  Queued(d) = 1 .. Len(pending_request[d])
BY DEF Queued

(* A process that is queued nowhere drops nothing. *)
LEMMA DropNothing ==
    ASSUME IInv, NEW p \in PID, ~IsQueued(p), sys.ind = 0,
           NEW devs \in SUBSET Dev, Drop(p, devs)
    PROVE  pending_request' = pending_request
<1>1. ASSUME NEW d \in Dev PROVE onRemovedByOwner(pending_request[d], p) = pending_request[d]
  <2>1. \A i \in 1 .. Len(pending_request[d]) : pending_request[d][i].proc # p
    BY AllQueued DEF IsQueued
  <2> QED
    BY <2>1 DEF onRemovedByOwner
<1>2. pending_request = [d \in Dev |-> pending_request[d]]
  BY DEF IInv, TypeOK
<1> QED
  BY <1>1, <1>2 DEF Drop

(* Nothing about the queues changes when no request is added or handled. *)
LEMMA SameQueues ==
    ASSUME pending_request' = pending_request,
           \/ sys'.ind = 0 /\ sys.ind = 0
           \/ sys'.dev = sys.dev /\ sys'.ind = sys.ind
    PROVE  /\ \A d \in Dev : Queued(d)' = Queued(d)
           /\ \A p \in PID : IsQueued(p)' <=> IsQueued(p)
<1>1. ASSUME NEW d \in Dev PROVE Queued(d)' = Queued(d)
  BY DEF Queued
<1> QED
  BY <1>1 DEF IsQueued
-----------------------------------------------------------------------------
(* Type correctness *)

(* A handler that has returned leaves a well-formed frame. *)
LEMMA HandledType ==
    ASSUME NEW p \in PID, NEW ret \in Result, NEW cur \in PID, Handled(p, ret, cur)
    PROVE  /\ kpc' \in {"user", "hlt", "check", "panic", "kernel"}
           /\ current_process' \in PID
           /\ sys' \in Frame
BY KernelAssumption DEF Handled, Frame

(* Leaving the kernel: the process that runs next is runnable, or is the
   current one when nothing asks for another. *)
LEMMA LeaveKernelType ==
    ASSUME IInv, NEW must \in BOOLEAN, LeaveKernel(must)
    PROVE  /\ kpc' = "user"
           /\ current_process' \in PID
           /\ resche_counter' \in 0 .. PROCESS_TICKS
           /\ \/ current_process' \in Runnable
              \/ ~must /\ current_process' = current_process
<1>1. resche(current_process, Runnable) \in Runnable /\ Runnable \in SUBSET PID /\ Runnable # {}
  BY SomeoneRunnable, rescheIn, Zenon DEF IInv, TypeOK
<1> QED
  BY <1>1, KernelAssumption DEF LeaveKernel, IInv, TypeOK

(* do_read keeps the types of what it changes. *)
LEMMA ReadType ==
    ASSUME TypeOK, NEW d \in Dev, NEW p \in PID, NEW size \in Size, do_read(d, p, size)
    PROVE  /\ cnt' \in [Dev -> Int]
           /\ pending_request' \in [Dev -> Seq(Request)]
           /\ process_state' \in [PID -> {RUNNABLE, SLEEPING}]
           /\ UNCHANGED <<reqs, last_exit_code, sleep_left>>
           /\ readResult(d, p) \in Result
<1>1. cnt' \in [Dev -> Int]
  <2>1. cnt \in [Dev -> Int]
    BY DEF TypeOK
  <2>2. cnt' = cnt \/ cnt' = [cnt EXCEPT ![d] = cnt[d] - 1]
    BY DEF do_read, readEffect
  <2> QED
    BY <2>1, <2>2
<1>2. pending_request' \in [Dev -> Seq(Request)]
  <2>1. pending_request \in [Dev -> Seq(Request)]
    BY DEF TypeOK
  <2> DEFINE r == [proc |-> p, size |-> size]
  <2>2. r \in Request
    BY DEF Request
  <2> HIDE DEF r
  <2>3. Append(pending_request[d], r) \in Seq(Request)
    BY <2>1, <2>2
  <2>4. \/ pending_request' = pending_request
        \/ pending_request' = [pending_request EXCEPT ![d] = Append(pending_request[d], r)]
    BY DEF do_read, r
  <2> QED
    BY <2>1, <2>3, <2>4, Zenon
<1>3. process_state' \in [PID -> {RUNNABLE, SLEEPING}]
  BY DEF do_read, TypeOK
<1> QED
  BY <1>1, <1>2, <1>3 DEF do_read, readEffect, readResult, Result

(* Every step keeps TypeOK. *)
LEMMA TypeStep ==
    ASSUME IInv, [Next]_vars
    PROVE  TypeOK'
<1>0. TypeOK /\ Runnable # {} /\ Runnable \in SUBSET PID
  BY SomeoneRunnable DEF IInv
<1>1. ASSUME NEW p \in PID, Syscall(p) PROVE TypeOK'
  <2>0. Done \in Result
    BY DEF Result
  <2> USE <1>0, <2>0
  <2>1. ASSUME NEW k \in BOOLEAN, User(p), clone(p, k) PROVE TypeOK'
    <3>1. CASE stack_backup[p] \/ process_list = PID
      BY <3>1, <2>1, Zenon DEF clone, Panic, TypeOK, procVars, devVars, progVars
    <3>2. CASE ~(stack_backup[p] \/ process_list = PID)
      <4> DEFINE c == FreeSlot
      <4>1. c \in PID
        BY <3>2, FreeSlotIn DEF TypeOK
      <4>2. Handled(p, Done, c)
        BY <3>2, <2>1 DEF clone
      <4>3. /\ process_list' = process_list \cup {c}
            /\ process_state' = [process_state EXCEPT
                   ![c] = RUNNABLE, ![p] = IF k THEN SLEEPING ELSE @]
            /\ ppid' = [ppid EXCEPT ![c] = p]
            /\ stack_backup' = [stack_backup EXCEPT ![c] = FALSE, ![p] = k]
            /\ retval' = [retval EXCEPT ![c] = Done]
            /\ onStackOf' = [onStackOf EXCEPT ![c] = IF k THEN p ELSE None]
            /\ booted' = TRUE
            /\ UNCHANGED <<resche_counter, pending_request, cnt, reqs, last_exit_code,
                           sleep_left, arming>>
        BY <3>2, <2>1, Zenon DEF clone
      <4> HIDE DEF c
      <4>4. process_state' \in [PID -> {RUNNABLE, SLEEPING}]
        BY <4>1, <4>3 DEF TypeOK
      <4>5. stack_backup' \in [PID -> BOOLEAN]
        BY <2>1, <4>1, <4>3, Zenon DEF TypeOK
      <4> QED
        BY <4>1, <4>2, <4>3, <4>4, <4>5, HandledType, Zenon DEF TypeOK
    <3> QED
      BY <3>1, <3>2
  <2>2. CASE Fork(p) \/ Thread(p)
    BY <2>1, <2>2, Zenon DEF Fork, Thread, Free
  <2>3. CASE ExecFails(p)
    BY <2>3, HandledType DEF ExecFails, TypeOK, procVars, devVars, progVars
  <2>4. ASSUME NEW devs \in SUBSET Dev, Drop(p, devs), User(p) PROVE pending_request' = pending_request
    BY <2>4, Running, DropNothing
  <2>5. ASSUME NEW q \in PID \cup {None}, restoreStack(q)
        PROVE  /\ stack_backup' \in [PID -> BOOLEAN]
               /\ process_state' \in [PID -> {RUNNABLE, SLEEPING}]
    BY <2>5, Zenon DEF restoreStack, Restorable, TypeOK
  <2>6. CASE Exec(p)
    <3>1. pending_request' = pending_request
      BY <2>6, <2>4, Zenon DEF Exec, Free
    <3> QED
      BY <2>6, <2>5, <3>1, HandledType DEF Exec, TypeOK, devVars
  <2>7. ASSUME NEW code \in Code, Exit(p, code) PROVE TypeOK'
    <3>1. pending_request' = pending_request
      BY <2>7, <2>4, Zenon DEF Exit, Free
    <3>2. [pid |-> 0, status |-> code] \in WaitRequest
      BY KernelAssumption DEF WaitRequest, PID
    <3>3. reqs' \in [PID -> WaitRequest] /\ last_exit_code' \in [PID -> Code]
      BY <2>7, <3>2, Zenon DEF Exit, processExit, TypeOK
    <3> QED
      BY <2>7, <2>5, <3>1, <3>3, HandledType, Zenon DEF Exit, TypeOK
  <2>8. CASE Yield(p)
    <3>1. resche(p, Runnable) \in PID
      BY rescheIn
    <3>2. resche_counter' \in 0 .. PROCESS_TICKS
      BY <2>8, KernelAssumption DEF Yield
    <3> QED
      BY <2>8, <3>1, <3>2, HandledType DEF Yield, TypeOK, procVars, devVars, progVars
  <2>9. CASE Hlt(p)
    <3>1. sys' = [pid |-> p, ret |-> Done, dev |-> 1, ind |-> 0, running |-> p, ticks |-> 0]
      BY <2>9, Zenon DEF Hlt, NoSys
    <3>2. sys' \in Frame
      BY <3>1, KernelAssumption DEF Frame
    <3> QED
      BY <2>9, <3>2 DEF Hlt, TypeOK, procVars, devVars, progVars
  <2>10. CASE Unregistered(p)
    BY <2>10, LeaveKernelType, Zenon DEF Unregistered, TypeOK, procVars, devVars, progVars
  <2>11. ASSUME NEW d \in Dev, Close(p, d) PROVE TypeOK'
    <3>1. pending_request' = pending_request
      BY <2>11, <2>4 DEF Close, Free
    <3>2. Handled(p, Done, p)
      BY <2>11 DEF Close
    <3> QED
      BY <2>11, <3>1, <3>2, HandledType DEF Close, TypeOK, procVars, devVars, progVars
  <2>12. ASSUME NEW d \in Dev, NEW size \in Size, Read(p, d, size) PROVE TypeOK'
    BY <2>12, ReadType, HandledType DEF Read, TypeOK
  <2>13. ASSUME NEW d \in Dev, SemWrite(p, d) PROVE TypeOK'
    <3>1. cnt' \in [Dev -> Int]
      BY <2>13 DEF SemWrite, TypeOK
    <3> QED
      BY <2>13, <3>1, HandledType DEF SemWrite, TypeOK, procVars, progVars
  <2>14. ASSUME NEW d \in Dev, NEW t \in PID, WaitWrite(p, d, t) PROVE TypeOK'
    <3>1. /\ [pid |-> t, status |-> 0] \in WaitRequest
          /\ [pid |-> 0, status |-> last_exit_code[t]] \in WaitRequest
      BY KernelAssumption DEF WaitRequest, PID, TypeOK
    <3>2. reqs' \in [PID -> WaitRequest]
      BY <2>14, <3>1, Zenon DEF WaitWrite, TypeOK
    <3> QED
      BY <2>14, <3>2, HandledType, Zenon DEF WaitWrite, arm, TypeOK, procVars
  <2>15. ASSUME NEW d \in Dev, NEW ms \in 0 .. MaxSleep, SleepWrite(p, d, ms) PROVE TypeOK'
    BY <2>15, HandledType DEF SleepWrite, arm, TypeOK, procVars
  <2> QED
    BY <1>1, <2>2, <2>3, <2>6, <2>7, <2>8, <2>9, <2>10, <2>11, <2>12, <2>13, <2>14, <2>15
    DEF Syscall
<1>2. CASE CheckOne
  <2> DEFINE now == pending_request[sys.dev][sys.ind + 1]
  <2>1. now \in Request
    <3>1. pending_request[sys.dev] \in Seq(Request)
      BY <1>0, <1>2, Zenon DEF CheckOne, TypeOK
    <3>2. sys.ind + 1 \in 1 .. Len(pending_request[sys.dev])
      BY <1>0, <1>2, <3>1, SMTT(30), Z3T(30), Zenon DEF CheckOne, TypeOK, Frame
    <3> QED
      BY <3>1, <3>2
  <2>2. now.proc \in PID /\ now.size \in Size
    BY <2>1 DEF Request
  <2>3. do_read(sys.dev, now.proc, now.size) /\ sys.dev \in Dev
    BY <1>2, Zenon DEF CheckOne
  <2>4. sys' \in Frame
    <3>1. sys \in Frame /\ sys' = [sys EXCEPT !.ind = sys.ind + 1]
      BY <1>0, <1>2, Zenon DEF CheckOne, TypeOK
    <3> QED
      BY <3>1 DEF Frame
  <2>5. /\ current_process' = now.proc
        /\ retval' = [retval EXCEPT ![now.proc] = readResult(sys.dev, now.proc)]
    BY <1>2, Zenon DEF CheckOne
  <2> HIDE DEF now
  <2> QED
    BY <1>0, <1>2, <2>2, <2>3, <2>4, <2>5, ReadType, SMTT(30), Z3T(30), Zenon DEF CheckOne, TypeOK, progVars
<1>3. CASE CheckDone
  <2>1. sys.dev \in Dev /\ sys.ind \in Nat
    BY <1>0, <1>3 DEF CheckDone, TypeOK, Frame
  <2>2. pending_request[sys.dev] \in Seq(Request)
    BY <1>0, <2>1 DEF TypeOK
  <2>3. SubSeq(pending_request[sys.dev], sys.ind + 1, Len(pending_request[sys.dev])) \in Seq(Request)
    <3> DEFINE s == pending_request[sys.dev]
               m == sys.ind + 1
    <3>1. s \in Seq(Request) /\ m \in Nat /\ m >= 1
      BY <2>1, <2>2
    <3> HIDE DEF s, m
    <3>2. \A i \in m .. Len(s) : s[i] \in Request
      BY <3>1
    <3>3. SubSeq(s, m, Len(s)) \in Seq(Request)
      BY <3>1, <3>2
    <3> QED
      BY <3>3 DEF s, m
  <2>4. pending_request' \in [Dev -> Seq(Request)]
    BY <1>0, <1>3, <2>3 DEF CheckDone, TypeOK
  <2>5. sys.dev + 1 \in 1 .. Len(Kind) + 1
    BY <2>1, KernelAssumption DEF Dev
  <2>6. sys' \in Frame /\ sys.running \in PID
    BY <1>0, <1>3, <2>5, Zenon DEF CheckDone, TypeOK, Frame
  <2> QED
    BY <1>0, <1>3, <2>4, <2>6, Zenon DEF CheckDone, TypeOK, procVars, devVars, progVars
<1>4. CASE Return
  <2>1. retval' \in [PID -> Result]
    BY <1>0, <1>4 DEF Return, TypeOK, Frame
  <2>2. NoSys \in Frame
    BY KernelAssumption DEF NoSys, Result, PID, Idle, Frame
  <2>3. PICK must \in BOOLEAN : LeaveKernel(must)
    BY <1>4, Zenon DEF Return
  <2> QED
    BY <1>0, <1>4, <2>1, <2>2, <2>3, LeaveKernelType, Zenon
    DEF Return, TypeOK, procVars, devVars, progVars
<1>5. CASE Tick
  <2>1. resche(current_process, Runnable) \in PID /\ current_process \in PID
        /\ retval[current_process] \in Result
    BY <1>0, rescheIn, Zenon DEF TypeOK
  <2>2. sleep_left' \in [PID -> 0 .. MaxSleep]
    <3>1. sleep_left \in [PID -> 0 .. MaxSleep]
      BY <1>0 DEF TypeOK
    <3>2. sleep_left' = [p \in PID |-> IF sleep_left[p] > 0 THEN sleep_left[p] - 1 ELSE 0]
      BY <1>5 DEF Tick
    <3> QED
      BY <3>1, <3>2, KernelAssumption
  <2>3. resche_counter' \in 0 .. PROCESS_TICKS
    <3>1. resche_counter \in 0 .. PROCESS_TICKS
      BY <1>0 DEF TypeOK
    <3> QED
      BY <1>5, <3>1, KernelAssumption DEF Tick, Countdown
  <2>4. /\ kpc' \in {"user", "hlt", "check", "panic", "kernel"}
        /\ current_process' \in PID
        /\ sys' \in Frame
    <3>1. CASE Handled(current_process, retval[current_process],
                       resche(current_process, Runnable))
      BY <2>1, <3>1, HandledType
    <3>2. CASE ~Handled(current_process, retval[current_process],
                        resche(current_process, Runnable))
      <4> DEFINE t == IF kpc = "check" THEN sys.ticks + 1 ELSE sys.ticks
      <4>1. /\ kpc' = IF kpc = "hlt" THEN "check" ELSE kpc
            /\ sys' = [sys EXCEPT !.ticks = t]
            /\ current_process' = current_process
        BY <1>5, <3>2 DEF Tick
      <4>2. sys \in Frame /\ t \in 0 .. MaxKernelTicks
        <5>1. sys \in Frame
          BY <1>0 DEF TypeOK
        <5>2. sys.ticks \in 0 .. MaxKernelTicks
          BY <5>1 DEF Frame
        <5>3. kpc = "check" => sys.ticks < MaxKernelTicks
          BY <1>5 DEF Tick
        <5> QED
          BY <5>1, <5>2, <5>3, KernelAssumption
      <4> HIDE DEF t
      <4>3. sys' \in Frame
        BY <4>1, <4>2 DEF Frame
      <4> QED
        BY <1>0, <4>1, <4>3 DEF TypeOK
    <3> QED
      BY <3>1, <3>2
  <2> QED
    BY <1>0, <1>5, <2>2, <2>3, <2>4, Zenon DEF Tick, TypeOK, procVars, progVars
<1>6. CASE Halted \/ UNCHANGED vars
  BY <1>0, <1>6, Zenon DEF Halted, TypeOK, vars, procVars, devVars, progVars
<1> QED
  BY <1>1, <1>2, <1>3, <1>4, <1>5, <1>6 DEF Next, Kernel

(* The conjuncts of the invariant other than TypeOK *)
Rest ==
    /\ SleepersHaveOneWaker
    /\ RequestsAreLive
    /\ ParentHasChild
    /\ SomeoneRuns
    /\ SyscallFrame
    /\ IdleCanRun

(* A step that changes neither the processes nor the queues, and leaves the
   kernel with a runnable process or stays in it. *)
LEMMA QuietStep ==
    ASSUME IInv, TypeOK',
           UNCHANGED <<procVars, pending_request, onStackOf>>,
           \/ sys.ind = 0 /\ sys'.ind = 0
           \/ sys'.dev = sys.dev /\ sys'.ind = sys.ind /\ kpc' = "check",
           kpc' # "kernel",
           kpc' = "user" => current_process' \in Runnable,
           kpc' \in {"check", "hlt"} =>
               /\ sys'.running \in Runnable \/ sys'.running = sys'.pid
               /\ sys'.ind = 0 => current_process' = sys'.running,
           \A q \in PID : arming'[q] # None =>
               \/ arming[q] # None
               \/ q # Idle /\ onStackOf[q] # Idle /\ q \in process_list
    PROVE  Rest'
<1>1. /\ \A d \in Dev : Queued(d)' = Queued(d)
      /\ \A p \in PID : IsQueued(p)' <=> IsQueued(p)
  BY SameQueues, Zenon
<1>2. SleepersHaveOneWaker'
  BY <1>1, SMTT(30), Z3T(30), Zenon DEF IInv, TypeOK, SleepersHaveOneWaker, procVars
<1>3. RequestsAreLive'
  BY <1>1, Zenon DEF IInv, RequestsAreLive, procVars
<1>4. ParentHasChild'
  BY Zenon DEF IInv, ParentHasChild, procVars
<1>5. SomeoneRuns'
  BY DEF SomeoneRuns, Runnable, procVars
<1>6. SyscallFrame'
  <2>1. sys'.dev \in Dev => Len(pending_request'[sys'.dev]) \in Nat
    BY SMTT(30), Z3T(30), Zenon DEF TypeOK
  <2> QED
    BY <2>1 DEF IInv, SyscallFrame, Runnable, procVars
<1>7. IdleCanRun'
  <2>1. Idle \in PID
    BY KernelAssumption DEF Idle, PID
  <2> QED
    BY <1>1, <2>1, Zenon DEF IInv, IdleCanRun, procVars
<1> QED
  BY <1>2, <1>3, <1>4, <1>5, <1>6, <1>7, Zenon DEF Rest

(* do_read: of the requests that are queued, those of other processes stay,
   and process q, which is not queued or whose request at m is being handled,
   is queued exactly when it sleeps. *)
LEMMA ReadStep ==
    ASSUME IInv, TypeOK', NEW d \in Dev, NEW q \in PID, NEW size \in Size,
           do_read(d, q, size),
           q \in process_list, ~stack_backup[q], q # Idle, onStackOf[q] # Idle,
           UNCHANGED <<process_list, ppid, stack_backup, onStackOf>>,
           \A x \in PID : arming'[x] # None => arming[x] # None,
           NEW m \in Nat,
           \A e \in Dev : \A i \in Queued(e) :
               pending_request[e][i].proc = q <=> e = d /\ i = m,
           \A e \in Dev : Queued(e)' = {i \in 1 .. Len(pending_request'[e]) :
               /\ i \in Queued(e) \/ (e = d /\ i > Len(pending_request[e]))
               /\ ~(e = d /\ i = m)},
           m <= Len(pending_request[d])
    PROVE  SleepersHaveOneWaker' /\ RequestsAreLive' /\ ParentHasChild' /\ IdleCanRun'
<1> DEFINE add == Empty(d, q)
           n == Len(pending_request[d]) + 1
           r == [proc |-> q, size |-> size]
<1>0. /\ pending_request \in [Dev -> Seq(Request)]
      /\ Len(pending_request[d]) \in Nat
      /\ add \in BOOLEAN
  BY SMTT(30), Z3T(30), Zenon DEF IInv, TypeOK, Empty
<1>1. /\ ~add => pending_request' = pending_request
      /\ add => pending_request' = [pending_request EXCEPT ![d] = Append(pending_request[d], r)]
      /\ process_state' = [process_state EXCEPT ![q] = IF add THEN SLEEPING ELSE RUNNABLE]
  BY Zenon DEF do_read
<1> HIDE DEF add
<1>r. r \in Request
  BY Zenon DEF Request
<1> DEFINE s == pending_request[d]
<1>s. s \in Seq(Request) /\ Append(s, r) \in Seq(Request)
      /\ Len(Append(s, r)) = n /\ Append(s, r)[n] = r
      /\ \A i \in 1 .. Len(s) : Append(s, r)[i] = s[i]
  <2> HIDE DEF r
  <2>1. s \in Seq(Request)
    BY <1>0
  <2> HIDE DEF s
  <2> QED
    BY <1>r, <2>1 DEF s
<1>2. /\ \A e \in Dev : e # d => pending_request'[e] = pending_request[e]
      /\ ~add => pending_request'[d] = pending_request[d]
      /\ add => /\ Len(pending_request'[d]) = n
                /\ pending_request'[d][n] = r
                /\ \A i \in 1 .. Len(pending_request[d]) :
                      pending_request'[d][i] = pending_request[d][i]
  <2> HIDE DEF r
  <2> QED
    BY <1>0, <1>1, <1>s, Zenon
<1>3. \A e \in Dev : Queued(e) \subseteq 1 .. Len(pending_request[e])
  BY Zenon DEF Queued
<1>4. \A e \in Dev : \A i \in Queued(e) : pending_request'[e][i] = pending_request[e][i]
  BY <1>2, <1>3, Zenon
<1>5. \A e \in Dev : \A i : i \in Queued(e)' <=>
               \/ e = d /\ i = n /\ add
               \/ i \in Queued(e) /\ ~(e = d /\ i = m)
  <2>1. ASSUME NEW e \in Dev, e # d PROVE Queued(e)' = Queued(e)
    BY <1>2, <1>3, <2>1, Zenon
  <2>2. CASE add
    BY <1>0, <1>2, <1>3, <2>1, <2>2, SMTT(30), Z3T(30), Zenon
  <2>3. CASE ~add
    BY <1>0, <1>2, <1>3, <2>1, <2>3, SMTT(30), Z3T(30), Zenon
  <2> QED
    BY <2>2, <2>3, Zenon
<1>6. add => pending_request'[d][n].proc = q
  BY <1>2, SMTT(30), Z3T(30), Zenon
<1>7. m \in Queued(d) => pending_request[d][m].proc = q
  OBVIOUS
<1>8. \A e \in Dev : \A i \in Queued(e) :
          ~(e = d /\ i = m) => pending_request[e][i].proc # q
  OBVIOUS
<1>9. /\ \A x \in PID : x # q => (IsQueued(x)' <=> IsQueued(x))
      /\ IsQueued(q)' <=> add
      /\ \A e, f \in Dev : \A i \in Queued(e)', j \in Queued(f)' :
            pending_request'[e][i].proc = pending_request'[f][j].proc => e = f /\ i = j
  <2> HIDE DEF n
  <2>1. ASSUME NEW x \in PID, x # q PROVE IsQueued(x)' <=> IsQueued(x)
    BY <1>4, <1>5, <1>6, <1>7, <2>1, SMTT(30), Z3T(30), Zenon DEF IsQueued
  <2>2. IsQueued(q)' <=> add
    BY <1>4, <1>5, <1>6, <1>8, SMTT(30), Z3T(30), Zenon DEF IsQueued
  <2>3. ASSUME NEW e \in Dev, NEW f \in Dev, NEW i \in Queued(e)', NEW j \in Queued(f)',
               pending_request'[e][i].proc = pending_request'[f][j].proc
        PROVE  e = f /\ i = j
    <3>1. \A g \in Dev : \A k \in Queued(g)' :
              \/ g = d /\ k = n /\ pending_request'[g][k].proc = q
              \/ /\ k \in Queued(g) /\ pending_request'[g][k] = pending_request[g][k]
                 /\ pending_request[g][k].proc # q
      BY <1>4, <1>5, <1>6, <1>8, SMTT(30), Z3T(30), Zenon
    <3>2. \A g, h \in Dev : \A k \in Queued(g), l \in Queued(h) :
              pending_request[g][k].proc = pending_request[h][l].proc => g = h /\ k = l
      BY Zenon DEF IInv, SleepersHaveOneWaker
    <3> QED
      BY <2>3, <3>1, <3>2, SMTT(60), Z3T(60), Zenon
  <2> QED
    BY <2>1, <2>2, <2>3, Zenon
<1>10. SleepersHaveOneWaker'
  <2>1. ASSUME NEW x \in process_list'
        PROVE  /\ process_state'[x] = SLEEPING <=> stack_backup'[x] \/ IsQueued(x)'
               /\ ~(stack_backup'[x] /\ IsQueued(x)')
    <3>1. x \in PID /\ x \in process_list
      BY Zenon DEF IInv, TypeOK
    <3>2. CASE x = q
      BY <1>1, <1>9, <3>1, <3>2, SMTT(30), Z3T(30), Zenon DEF IInv, TypeOK, RUNNABLE, SLEEPING
    <3>3. CASE x # q
      BY <1>1, <1>9, <3>1, <3>3, Zenon DEF IInv, TypeOK, SleepersHaveOneWaker
    <3> QED
      BY <3>2, <3>3, Zenon
  <2> QED
    BY <1>9, <2>1, Zenon DEF SleepersHaveOneWaker
<1>11. RequestsAreLive'
  BY <1>4, <1>5, <1>6, SMTT(30), Z3T(30), Zenon DEF IInv, RequestsAreLive
<1>12. ParentHasChild'
  BY DEF IInv, ParentHasChild
<1>13. IdleCanRun'
  <2>1. Idle \in PID
    BY KernelAssumption DEF Idle, PID
  <2> QED
    BY <1>1, <1>9, <2>1, Zenon DEF IInv, TypeOK, IdleCanRun
<1> QED
  BY <1>10, <1>11, <1>12, <1>13, Zenon

(* The read system call keeps the invariant: the caller is queued nowhere. *)
LEMMA ReadPreserves ==
    ASSUME IInv, TypeOK', NEW p \in PID, NEW d \in Dev, NEW size \in Size, Read(p, d, size)
    PROVE  Rest'
<1>1. User(p)
  BY Zenon DEF Read, Free
<1>2. p \in process_list /\ ~stack_backup[p] /\ ~IsQueued(p) /\ sys.ind = 0
  BY <1>1, Running, Zenon
<1>3. p # Idle /\ onStackOf[p] # Idle
  <2>1. d # None
    BY KernelAssumption DEF Dev, None
  <2> QED
    BY <2>1, Zenon DEF Read, Free, IInv, IdleCanRun
<1>4. sys'.ind = 0 /\ sys'.running = p /\ sys'.pid = p /\ kpc' = "check" /\ current_process' = p
  BY Zenon DEF Read, Handled
<1>5. /\ pending_request \in [Dev -> Seq(Request)]
      /\ pending_request' \in [Dev -> Seq(Request)]
  BY Zenon DEF IInv, TypeOK
<1>6. ASSUME NEW e \in Dev
      PROVE  Queued(e)' = {i \in 1 .. Len(pending_request'[e]) :
                 /\ i \in Queued(e) \/ (e = d /\ i > Len(pending_request[e]))
                 /\ ~(e = d /\ i = 0)}
  <2>1. Queued(e)' = 1 .. Len(pending_request'[e]) /\ Queued(e) = 1 .. Len(pending_request[e])
    BY <1>2, <1>4, <1>5, SMTT(30), Z3T(30), Zenon DEF Queued
  <2>2. e # d => pending_request'[e] = pending_request[e]
    BY <1>5 DEF Read, do_read
  <2> QED
    BY <1>5, <2>1, <2>2
<1>7. \A e \in Dev : \A i \in Queued(e) : pending_request[e][i].proc # p /\ i # 0
  BY <1>2 DEF IsQueued, Queued
<1>8. /\ do_read(d, p, size)
      /\ UNCHANGED <<process_list, ppid, stack_backup, onStackOf>>
      /\ \A x \in PID : arming'[x] # None => arming[x] # None
  BY Zenon DEF Read, IInv, TypeOK
<1>9. 0 <= Len(pending_request[d]) /\ Len(pending_request'[d]) \in Nat
  BY <1>5
<1>10. SleepersHaveOneWaker' /\ RequestsAreLive' /\ ParentHasChild' /\ IdleCanRun'
  <2>1. \A e \in Dev : \A i \in Queued(e) : pending_request[e][i].proc = p <=> e = d /\ i = 0
    BY ONLY <1>7
  <2>2. 0 \in Nat
    OBVIOUS
  <2> QED
    BY <1>2, <1>3, <1>6, <1>8, <1>9, <2>1, <2>2, ReadStep, SMTT(30), Z3T(30), Zenon
<1>11. SomeoneRuns' /\ SyscallFrame'
  <2>1. sys'.dev \in Dev => 0 <= Len(pending_request'[sys'.dev])
    BY <1>5
  <2> QED
    BY <1>4, <2>1, Zenon DEF SomeoneRuns, SyscallFrame
<1> QED
  BY <1>10, <1>11 DEF Rest

(* An iteration of check() does: it handles the request of a sleeping
   process, and that process is queued again or runnable. *)
LEMMA CheckOnePreserves ==
    ASSUME IInv, TypeOK', CheckOne
    PROVE  Rest'
<1>0. PICK d \in Dev : d = sys.dev
  BY Zenon DEF CheckOne
<1> DEFINE m == sys.ind + 1
           now == pending_request[d][m]
           p == now.proc
<1>1. /\ d \in Dev /\ m \in Nat /\ m <= Len(pending_request[d]) /\ kpc = "check"
      /\ sys.ind \in Nat
      /\ pending_request \in [Dev -> Seq(Request)]
      /\ pending_request' \in [Dev -> Seq(Request)]
      /\ Len(pending_request[d]) \in Nat
  <2>1. d \in Dev /\ sys.ind < Len(pending_request[d]) /\ kpc = "check"
    BY <1>0, Zenon DEF CheckOne
  <2>2. pending_request \in [Dev -> Seq(Request)] /\ pending_request' \in [Dev -> Seq(Request)]
    BY DEF IInv, TypeOK
  <2>3. sys.ind \in Nat
    BY Zenon DEF IInv, TypeOK, Frame
  <2> QED
    BY <2>1, <2>2, <2>3
<1>2. /\ do_read(d, p, now.size)
      /\ sys' = [sys EXCEPT !.ind = m]
      /\ kpc' = "check"
      /\ UNCHANGED <<process_list, ppid, stack_backup, onStackOf, arming>>
  BY <1>0, Zenon DEF CheckOne, progVars
<1>3. p \in PID /\ now.size \in Size
  <2>1. pending_request[d] \in Seq(Request) /\ m \in 1 .. Len(pending_request[d])
    BY <1>1
  <2>2. now \in Request
    <3> HIDE DEF m
    <3> QED
      BY <2>1
  <2> QED
    BY <2>2 DEF Request
<1>4. m \in Queued(d)
  BY <1>0, <1>1 DEF Queued
<1>5. /\ sys'.dev = d /\ sys'.ind = m /\ sys'.running = sys.running /\ sys'.pid = sys.pid
  BY <1>0, <1>2 DEF IInv, TypeOK, Frame
<1>6. \A e \in Dev : \A i \in Queued(e) :
          pending_request[e][i].proc = p <=> e = d /\ i = m
  BY <1>1, <1>4, SMTT(30), Z3T(30), Zenon DEF IInv, SleepersHaveOneWaker
<1>7. p \in process_list /\ IsQueued(p)
  BY <1>1, <1>4 DEF IInv, RequestsAreLive, IsQueued
<1>8. process_state[p] = SLEEPING /\ ~stack_backup[p]
  BY <1>7, Zenon DEF IInv, SleepersHaveOneWaker
<1>9. p # Idle /\ onStackOf[p] # Idle
  BY <1>3, <1>7, <1>8, Zenon DEF IInv, IdleCanRun, RUNNABLE, SLEEPING
<1>10. ASSUME NEW e \in Dev
       PROVE  Queued(e)' = {i \in 1 .. Len(pending_request'[e]) :
                  /\ i \in Queued(e) \/ (e = d /\ i > Len(pending_request[e]))
                  /\ ~(e = d /\ i = m)}
  <2>1. CASE e # d
    <3>1. pending_request'[e] = pending_request[e]
      BY <1>1, <1>2, <2>1 DEF do_read
    <3> QED
      BY <1>0, <1>5, <2>1, <3>1 DEF Queued
  <2>2. CASE e = d
    <3>1. Queued(d)' = {i \in 1 .. Len(pending_request'[d]) : i > m}
      BY <1>1, <1>5 DEF Queued
    <3>2. Queued(d) = {i \in 1 .. Len(pending_request[d]) : i > sys.ind}
      BY <1>0, <1>1 DEF Queued
    <3>3. Len(pending_request[d]) \in Nat /\ Len(pending_request'[d]) \in Nat
      BY <1>1
    <3> DEFINE a == Len(pending_request[d])
               b == Len(pending_request'[d])
               l == sys.ind
    <3>4. a \in Nat /\ b \in Nat /\ l \in Nat /\ m = l + 1 /\ m <= a
      BY <1>1, <3>3
    <3> HIDE DEF a, b, l, m
    <3>5. {i \in 1 .. b : i > m} = {i \in 1 .. b : /\ i \in {j \in 1 .. a : j > l} \/ i > a
                                                   /\ i # m}
      BY <3>4
    <3> QED
      BY <2>2, <3>1, <3>2, <3>5 DEF a, b, l
  <2> QED
    BY <2>1, <2>2
<1> HIDE DEF now, p, m
<1>11. SleepersHaveOneWaker' /\ RequestsAreLive' /\ ParentHasChild' /\ IdleCanRun'
  BY <1>1, <1>2, <1>3, <1>6, <1>7, <1>8, <1>9, <1>10, ReadStep, ZenonT(40)
<1>12. SyscallFrame'
  <2>1. m <= Len(pending_request'[d]) /\ m # 0
    <3>1. Len(pending_request'[d]) >= Len(pending_request[d])
      <4>1. \/ pending_request'[d] = pending_request[d]
            \/ \E r \in Request : pending_request'[d] = Append(pending_request[d], r)
        BY <1>1, <1>2, <1>3 DEF do_read, Request
      <4> QED
        BY <1>1, <4>1
    <3>2. Len(pending_request'[d]) \in Nat
      BY <1>1
    <3> QED
      BY <1>1, <3>1, <3>2 DEF m
  <2>2. sys.running \in Runnable => sys.running \in Runnable'
    BY <1>2, <1>3, <1>8 DEF Runnable, do_read, RUNNABLE, SLEEPING, IInv, TypeOK
  <2>3. sys.running \in Runnable \/ sys.running = sys.pid
    BY <1>1 DEF IInv, SyscallFrame
  <2> QED
    BY <1>1, <1>2, <1>5, <2>1, <2>2, <2>3 DEF SyscallFrame
<1> QED
  BY <1>2, <1>11, <1>12 DEF SomeoneRuns, Rest

(* Where a request that is queued after the end of check() was before: the
   queued requests keep their order, each one sys.ind places further back. *)
Before(e, i) == IF e = sys.dev THEN i + sys.ind ELSE i
LEMMA CheckDoneQueues ==
    ASSUME IInv, CheckDone, NEW e \in Dev
    PROVE  /\ \A i \in Queued(e)' : /\ Before(e, i) \in Queued(e)
                                    /\ pending_request'[e][i] = pending_request[e][Before(e, i)]
           /\ \A j \in Queued(e) : \E i \in Queued(e)' : Before(e, i) = j
           /\ \A i, j \in Queued(e)' : Before(e, i) = Before(e, j) => i = j
<1>0. PICK d \in Dev : d = sys.dev
  BY DEF CheckDone
<1> DEFINE n == sys.ind
           s == pending_request[d]
           t == pending_request'[d]
<1>1. /\ s \in Seq(Request) /\ t = SubSeq(s, n + 1, Len(s))
      /\ e # d => pending_request'[e] = pending_request[e]
  BY <1>0, Zenon DEF CheckDone, IInv, TypeOK
<1>2. n \in Nat /\ n <= Len(s)
  BY <1>0, <1>1 DEF IInv, TypeOK, SyscallFrame, Frame
<1>3. sys'.ind = 0
  BY DEF CheckDone, IInv, TypeOK, Frame
<1>4. Len(t) = Len(s) - n /\ \A i \in 1 .. Len(t) : t[i] = s[i + n]
  <2> HIDE DEF s, t, n
  <2> QED
    BY <1>1, <1>2
<1>5. CASE e # d
  <2>1. Len(pending_request'[e]) = Len(pending_request[e]) /\ Len(pending_request[e]) \in Nat
    BY <1>1, <1>5 DEF IInv, TypeOK
  <2>2. Queued(e) = 1 .. Len(pending_request[e])
    BY <1>0, <1>5 DEF Queued
  <2>3. Queued(e)' = 1 .. Len(pending_request'[e])
    BY <1>3, <2>1 DEF Queued
  <2> QED
    BY <1>0, <1>1, <1>5, <2>1, <2>2, <2>3, Zenon DEF Before
<1>6. CASE e = d
  <2> DEFINE l == Len(s)
  <2>1. l \in Nat /\ Len(t) = l - n /\ n \in Nat /\ n <= l
    <3> HIDE DEF s, t, n
    <3> QED
      BY <1>1, <1>2, <1>4
  <2>2. Queued(e) = {i \in 1 .. l : i > n}
    BY <1>0, <1>6 DEF Queued
  <2>3. Queued(e)' = {i \in 1 .. Len(t) : e = sys'.dev => i > 0}
    BY <1>3, <1>6 DEF Queued
  <2>b. \A i : Before(e, i) = i + n
    BY <1>0, <1>6 DEF Before
  <2> HIDE DEF s, t, n, l
  <2>4. Queued(e)' = 1 .. l - n
    BY <2>1, <2>3
  <2>5. \A i \in Queued(e)' : i + n \in Queued(e) /\ t[i] = s[i + n]
    BY <1>4, <2>1, <2>2, <2>4
  <2>6. \A j \in Queued(e) : j - n \in Queued(e)' /\ (j - n) + n = j
    BY <2>1, <2>2, <2>4
  <2>7. \A i, j \in Queued(e)' : i + n = j + n => i = j
    BY <2>1, <2>4
  <2> QED
    BY <1>6, <2>b, <2>5, <2>6, <2>7, SMTT(30), Z3T(30), Zenon DEF s, t
<1> QED
  BY <1>5, <1>6, Zenon

(* The end of check() keeps the invariant. *)
LEMMA CheckDonePreserves ==
    ASSUME IInv, TypeOK', CheckDone
    PROVE  Rest'
<1>1. /\ kpc = "check" /\ kpc' = "check"
      /\ UNCHANGED <<procVars, onStackOf, arming>>
      /\ current_process' = sys.running
  BY DEF CheckDone, progVars
<1>2. sys'.ind = 0 /\ sys'.running = sys.running /\ sys'.pid = sys.pid
  BY DEF CheckDone, IInv, TypeOK, Frame
<1>3. ASSUME NEW e \in Dev
      PROVE  /\ \A i \in Queued(e)' : /\ Before(e, i) \in Queued(e)
                                      /\ pending_request'[e][i] = pending_request[e][Before(e, i)]
             /\ \A j \in Queued(e) : \E i \in Queued(e)' : Before(e, i) = j
             /\ \A i, j \in Queued(e)' : Before(e, i) = Before(e, j) => i = j
  BY CheckDoneQueues, Zenon
<1>4. \A p \in PID : IsQueued(p)' <=> IsQueued(p)
  BY <1>3, SMTT(30), Z3T(30), Zenon DEF IsQueued
<1>5. \A e, f \in Dev : \A i \in Queued(e)', j \in Queued(f)' :
          pending_request'[e][i].proc = pending_request'[f][j].proc => e = f /\ i = j
  <2>1. ASSUME NEW e \in Dev, NEW f \in Dev, NEW i \in Queued(e)', NEW j \in Queued(f)',
               pending_request'[e][i].proc = pending_request'[f][j].proc
        PROVE  e = f /\ i = j
    <3>1. e = f /\ Before(e, i) = Before(f, j)
      BY <1>3, <2>1, SMTT(30), Z3T(30), Zenon DEF IInv, SleepersHaveOneWaker
    <3> QED
      BY <1>3, <3>1, Zenon
  <2> QED
    BY <2>1
<1>6. SleepersHaveOneWaker'
  BY <1>1, <1>4, <1>5, Zenon DEF IInv, TypeOK, SleepersHaveOneWaker, procVars
<1>7. RequestsAreLive'
  BY <1>1, <1>3, SMTT(30), Z3T(30), Zenon DEF IInv, RequestsAreLive, procVars
<1>8. ParentHasChild'
  BY <1>1, Zenon DEF IInv, ParentHasChild, procVars
<1>9. SyscallFrame'
  <2>1. sys'.dev \in Dev => 0 <= Len(pending_request'[sys'.dev])
    BY DEF TypeOK
  <2> QED
    BY <1>1, <1>2, <2>1, Zenon DEF IInv, SyscallFrame, Runnable, procVars
<1>10. IdleCanRun'
  <2>1. Idle \in PID
    BY KernelAssumption DEF Idle, PID
  <2> QED
    BY <1>1, <1>4, <2>1, Zenon DEF IInv, IdleCanRun, procVars
<1> QED
  BY <1>1, <1>6, <1>7, <1>8, <1>9, <1>10 DEF SomeoneRuns, Rest

(* Process::clone, for fork and thread: the child is runnable and queued
   nowhere, and a forking parent gets its one waker, the backup. *)
LEMMA ClonePreserves ==
    ASSUME IInv, TypeOK', NEW p \in PID, NEW k \in BOOLEAN, User(p), clone(p, k),
           onStackOf[p] # Idle, arming[p] = None
    PROVE  Rest'
<1>1. CASE stack_backup[p] \/ process_list = PID
  <2>1. /\ kpc' = "panic"
        /\ UNCHANGED <<procVars, sys, pending_request, onStackOf, arming>>
    BY <1>1, Zenon DEF clone, Panic, progVars
  <2>2. sys.ind = 0
    BY Running
  <2> QED
    BY <2>1, <2>2, QuietStep, Zenon
<1>2. CASE ~(stack_backup[p] \/ process_list = PID)
  <2> DEFINE c == FreeSlot
  <2>1. /\ process_list' = process_list \cup {c}
        /\ process_state' = [process_state EXCEPT
               ![c] = RUNNABLE, ![p] = IF k THEN SLEEPING ELSE @]
        /\ ppid' = [ppid EXCEPT ![c] = p]
        /\ stack_backup' = [stack_backup EXCEPT ![c] = FALSE, ![p] = k]
        /\ onStackOf' = [onStackOf EXCEPT ![c] = IF k THEN p ELSE None]
        /\ Handled(p, Done, c)
        /\ UNCHANGED <<pending_request, arming>>
    BY <1>2, Zenon DEF clone
  <2>2. c \in PID /\ c \notin process_list
    BY <1>2, FreeSlotIn, Zenon DEF IInv, TypeOK
  <2> HIDE DEF c
  <2>3. /\ p \in process_list /\ process_state[p] = RUNNABLE
        /\ ~stack_backup[p] /\ ~IsQueued(p) /\ sys.ind = 0
    BY Running
  <2>4. sys'.ind = 0 /\ sys'.running = c /\ kpc' = "check" /\ current_process' = c
    BY <2>1, Zenon DEF Handled
  <2>5. /\ \A d \in Dev : Queued(d)' = Queued(d)
        /\ \A q \in PID : IsQueued(q)' <=> IsQueued(q)
    BY <2>1, <2>3, <2>4, SameQueues, Zenon
  <2>6. ~IsQueued(c)
    BY <2>2, Zenon DEF IInv, RequestsAreLive, IsQueued
  <2>7. /\ \A q \in PID \ {p, c} : process_state'[q] = process_state[q]
                                /\ stack_backup'[q] = stack_backup[q]
        /\ process_state'[c] = RUNNABLE /\ stack_backup'[c] = FALSE
        /\ process_state'[p] = IF k THEN SLEEPING ELSE RUNNABLE
        /\ stack_backup'[p] = k
        /\ \A q \in PID \ {c} : onStackOf'[q] = onStackOf[q] /\ ppid'[q] = ppid[q]
        /\ onStackOf'[c] = IF k THEN p ELSE None
        /\ ppid'[c] = p
        /\ c # p
    BY <2>1, <2>2, <2>3, SMTT(30), Z3T(30), Zenon DEF IInv, TypeOK
  <2>8. SleepersHaveOneWaker'
    <3>1. ASSUME NEW q \in process_list'
          PROVE  /\ process_state'[q] = SLEEPING <=> stack_backup'[q] \/ IsQueued(q)'
                 /\ ~(stack_backup'[q] /\ IsQueued(q)')
      <4>1. CASE q = c
        BY <2>2, <2>5, <2>6, <2>7, <4>1, Zenon DEF RUNNABLE, SLEEPING
      <4>2. CASE q = p
        BY <2>3, <2>5, <2>7, <4>2, Zenon DEF RUNNABLE, SLEEPING
      <4>3. CASE q # c /\ q # p
        <5>1. q \in process_list /\ q \in PID
          BY <2>1, <4>3, Zenon DEF IInv, TypeOK
        <5> QED
          BY <2>5, <2>7, <4>3, <5>1, SMTT(30), Z3T(30), Zenon DEF IInv, SleepersHaveOneWaker
      <4> QED
        BY <4>1, <4>2, <4>3, Zenon
    <3>2. \A d, e \in Dev : \A i \in Queued(d)', j \in Queued(e)' :
              pending_request'[d][i].proc = pending_request'[e][j].proc => d = e /\ i = j
      BY <2>1, <2>5, SMTT(30), Z3T(30), Zenon DEF IInv, SleepersHaveOneWaker
    <3> QED
      BY <3>1, <3>2, Zenon DEF SleepersHaveOneWaker
  <2>9. RequestsAreLive'
    BY <2>1, <2>5, Zenon DEF IInv, RequestsAreLive
  <2>10. ParentHasChild'
    <3>1. ASSUME NEW q \in PID, stack_backup'[q]
          PROVE  /\ q \in process_list'
                 /\ \E x \in process_list' \ {q} : onStackOf'[x] = q /\ ppid'[x] = q
      <4>1. CASE q = p
        BY <2>1, <2>3, <2>7, <3>1, <4>1, SMTT(30), Z3T(30), Zenon
      <4>2. CASE q # p
        <5>1. q # c /\ stack_backup[q]
          BY <2>7, <3>1, <4>2, Zenon
        <5>2. PICK x \in process_list \ {q} : onStackOf[x] = q /\ ppid[x] = q
          BY <5>1, Zenon DEF IInv, ParentHasChild
        <5>3. x # c /\ x \in PID
          BY <2>2, Zenon DEF IInv, TypeOK
        <5> QED
          BY <2>1, <2>7, <5>1, <5>2, <5>3, SMTT(30), Z3T(30), Zenon DEF IInv, ParentHasChild
      <4> QED
        BY <4>1, <4>2
    <3> QED
      BY <3>1, Zenon DEF ParentHasChild
  <2>11. SyscallFrame'
    <3>1. sys'.dev \in Dev => 0 <= Len(pending_request'[sys'.dev])
      BY SMTT(30), Z3T(30), Zenon DEF TypeOK
    <3> QED
      BY <2>1, <2>4, <2>7, <3>1, Zenon DEF SyscallFrame, Runnable
  <2>12. IdleCanRun'
    <3>1. Idle \in PID /\ Idle \in process_list /\ ~IsQueued(Idle)
      BY KernelAssumption DEF Idle, PID, IInv, IdleCanRun
    <3>2. ASSUME NEW q \in PID
          PROVE  /\ onStackOf'[q] # None => q \in process_list'
                 /\ onStackOf'[q] = Idle => q # Idle /\ process_state'[q] = RUNNABLE
                 /\ arming'[q] # None => q # Idle /\ onStackOf'[q] # Idle /\ q \in process_list'
      BY <2>1, <2>2, <2>7, <3>1, ZenonT(40) DEF IInv, IdleCanRun
    <3> QED
      BY <2>1, <2>5, <3>1, <3>2, Zenon DEF IdleCanRun
  <2> QED
    BY <2>4, <2>8, <2>9, <2>10, <2>11, <2>12 DEF SomeoneRuns, Rest
<1> QED
  BY <1>1, <1>2
(* exec and exit of p give the process in the parent's slot its stack back. *)
LEMMA RestorePreserves ==
    ASSUME IInv, TypeOK', NEW p \in PID, User(p), restoreStack(ppid[p]),
           p # Idle, arming[p] = None,
           process_list' = process_list \/ process_list' = process_list \ {p},
           ppid' = ppid \/ ppid' = [ppid EXCEPT ![p] = None],
           onStackOf' = [onStackOf EXCEPT ![p] = None],
           pending_request' = pending_request, arming' = arming,
           Handled(p, Done, p)
    PROVE  Rest'
<1> DEFINE q == ppid[p]
<1>1. /\ p \in process_list /\ process_state[p] = RUNNABLE
      /\ ~stack_backup[p] /\ ~IsQueued(p) /\ sys.ind = 0
  BY Running, Zenon
<1>2. /\ sys'.ind = 0 /\ sys'.running = p /\ sys'.pid = p
      /\ kpc' = "check" /\ current_process' = p
  BY Zenon DEF Handled
<1>3. /\ \A d \in Dev : Queued(d)' = Queued(d)
      /\ \A x \in PID : IsQueued(x)' <=> IsQueued(x)
  BY <1>1, <1>2, SameQueues, Zenon
<1>4. /\ \A x \in PID : x # q => /\ process_state'[x] = process_state[x]
                                 /\ stack_backup'[x] = stack_backup[x]
      /\ q \in process_list /\ stack_backup[q] =>
            process_state'[q] = RUNNABLE /\ ~stack_backup'[q]
      /\ ~(q \in process_list /\ stack_backup[q]) =>
            process_state' = process_state /\ stack_backup' = stack_backup
  <2>1. q = None => q \notin process_list
    BY KernelAssumption, SMTT(30), Z3T(30), Zenon DEF IInv, TypeOK, None, PID
  <2> QED
    BY <2>1, SMTT(30), Z3T(30), Zenon DEF restoreStack, Restorable, IInv, TypeOK
<1>5. \A x \in PID : x # p => onStackOf'[x] = onStackOf[x] /\ ppid'[x] = ppid[x]
  BY Zenon DEF IInv, TypeOK
<1>6. SleepersHaveOneWaker'
  <2>1. ASSUME NEW x \in process_list'
        PROVE  /\ process_state'[x] = SLEEPING <=> stack_backup'[x] \/ IsQueued(x)'
               /\ ~(stack_backup'[x] /\ IsQueued(x)')
    <3>1. x \in process_list /\ x \in PID
      BY Zenon DEF IInv, TypeOK
    <3>2. /\ process_state[x] = SLEEPING <=> stack_backup[x] \/ IsQueued(x)
          /\ ~(stack_backup[x] /\ IsQueued(x))
      BY <3>1, Zenon DEF IInv, SleepersHaveOneWaker
    <3>3. CASE x = q /\ stack_backup[q]
      BY <1>3, <1>4, <3>1, <3>2, <3>3, Zenon DEF RUNNABLE, SLEEPING
    <3>4. CASE ~(x = q /\ stack_backup[q])
      BY <1>3, <1>4, <3>1, <3>2, <3>4, Zenon
    <3> QED
      BY <3>3, <3>4, Zenon
  <2>2. \A d, e \in Dev : \A i \in Queued(d)', j \in Queued(e)' :
            pending_request'[d][i].proc = pending_request'[e][j].proc => d = e /\ i = j
    BY <1>3, SMTT(30), Z3T(30), Zenon DEF IInv, SleepersHaveOneWaker
  <2> QED
    BY <2>1, <2>2, Zenon DEF SleepersHaveOneWaker
<1>7. RequestsAreLive'
  <2>1. ASSUME NEW d \in Dev, NEW i \in Queued(d) PROVE pending_request[d][i].proc # p
    BY <1>1, <2>1, Zenon DEF IsQueued
  <2> QED
    BY <1>3, <2>1, Zenon DEF IInv, RequestsAreLive
<1>8. ParentHasChild'
  <2>1. ASSUME NEW x \in PID, stack_backup'[x]
        PROVE  /\ x \in process_list'
               /\ \E c \in process_list' \ {x} : onStackOf'[c] = x /\ ppid'[c] = x
    <3>1. stack_backup[x] /\ x # p
      <4>1. stack_backup[x]
        BY <1>4, <2>1, Zenon
      <4> QED
        BY <1>1, <4>1, Zenon
    <3>2. x \in process_list
      BY <3>1, Zenon DEF IInv, ParentHasChild
    <3>3. x # q
      BY <1>4, <2>1, <3>1, <3>2, Zenon
    <3>4. PICK c \in process_list \ {x} : onStackOf[c] = x /\ ppid[c] = x
      BY <3>1, Zenon DEF IInv, ParentHasChild
    <3>5. c # p /\ c \in PID
      BY <3>3, <3>4, Zenon DEF IInv, TypeOK
    <3> QED
      BY <1>5, <3>1, <3>2, <3>4, <3>5, Zenon
  <2> QED
    BY <2>1, Zenon DEF ParentHasChild
<1>9. SyscallFrame'
  <2>1. sys'.dev \in Dev => 0 <= Len(pending_request'[sys'.dev])
    <3>1. pending_request' \in [Dev -> Seq(Request)]
      BY Zenon DEF TypeOK
    <3>2. sys'.dev \in Dev => pending_request'[sys'.dev] \in Seq(Request)
      BY ONLY <3>1
    <3> QED
      BY ONLY <3>2
  <2> QED
    BY <1>2, <2>1, Zenon DEF SyscallFrame
<1>10. IdleCanRun'
  <2>1. Idle \in PID /\ Idle \in process_list' /\ ~IsQueued(Idle)
    BY KernelAssumption, SMTT(30), Z3T(30), Zenon DEF Idle, PID, IInv, IdleCanRun
  <2>2. ASSUME NEW x \in PID
        PROVE  /\ onStackOf'[x] # None => x \in process_list'
               /\ onStackOf'[x] = Idle => x # Idle /\ process_state'[x] = RUNNABLE
               /\ arming'[x] # None => x # Idle /\ onStackOf'[x] # Idle /\ x \in process_list'
    <3>1. CASE x = p
      <4>1. onStackOf'[p] = None /\ None # Idle
        BY SMTT(30), Z3T(30), Zenon DEF IInv, TypeOK, None, Idle
      <4> QED
        BY <3>1, <4>1, Zenon
    <3>2. CASE x # p
      <4>1. process_state[x] = RUNNABLE => process_state'[x] = RUNNABLE
        BY <1>4, Zenon
      <4> QED
        BY <1>5, <3>2, <4>1, Zenon DEF IInv, IdleCanRun
    <3> QED
      BY <3>1, <3>2, Zenon
  <2> QED
    BY <1>3, <2>1, <2>2, Zenon DEF IdleCanRun
<1> QED
  BY <1>2, <1>6, <1>7, <1>8, <1>9, <1>10, Zenon DEF SomeoneRuns, Rest

(* Every system call handler keeps the invariant. *)
LEMMA SyscallPreserves ==
    ASSUME IInv, TypeOK', NEW p \in PID, Syscall(p)
    PROVE  Rest'
<1>0. User(p) => /\ p \in process_list /\ p \in Runnable /\ ~IsQueued(p) /\ sys.ind = 0
  BY Running, Zenon
<1>1. CASE Fork(p) \/ Thread(p)
  <2>1. User(p) /\ onStackOf[p] # Idle /\ arming[p] = None
    BY <1>1, Zenon DEF Fork, Thread, Free, IInv, IdleCanRun
  <2> QED
    BY <1>1, <2>1, ClonePreserves, Zenon DEF Fork, Thread
<1>2. ASSUME NEW devs \in SUBSET Dev, Drop(p, devs), User(p) PROVE pending_request' = pending_request
  BY <1>0, <1>2, DropNothing
<1>3. Free(p) \/ (User(p) /\ onStackOf[p] = Idle) => User(p) /\ p # Idle /\ arming[p] = None
  BY Zenon DEF Free, IInv, IdleCanRun
<1>4. CASE Exec(p)
  <2>1. pending_request' = pending_request
    BY <1>2, <1>3, <1>4, Zenon DEF Exec
  <2> QED
    BY <1>3, <1>4, <2>1, RestorePreserves, Zenon DEF Exec
<1>5. ASSUME NEW code \in Code, Exit(p, code) PROVE Rest'
  <2>1. pending_request' = pending_request
    BY <1>2, <1>3, <1>5, Zenon DEF Exit
  <2> QED
    BY <1>3, <1>5, <2>1, RestorePreserves, Zenon DEF Exit
<1>6. ASSUME NEW d \in Dev, NEW size \in Size, Read(p, d, size) PROVE Rest'
  BY <1>6, ReadPreserves
<1>7. ASSUME NEW ret, NEW cur, User(p), Handled(p, ret, cur), cur \in Runnable \/ cur = p,
             UNCHANGED <<procVars, pending_request, onStackOf>>,
             \A q \in PID : arming'[q] # None =>
                 \/ arming[q] # None
                 \/ q # Idle /\ onStackOf[q] # Idle /\ q \in process_list
      PROVE  Rest'
  <2>1. /\ kpc' = "check" /\ current_process' = cur
        /\ sys'.ind = 0 /\ sys'.pid = p /\ sys'.running = cur
    BY <1>7, Zenon DEF Handled
  <2> QED
    BY <1>0, <1>7, <2>1, QuietStep, Zenon
<1>8. CASE ExecFails(p)
  BY <1>3, <1>7, <1>8, Zenon DEF ExecFails, progVars
<1>9. CASE Yield(p)
  <2>1. resche(p, Runnable) \in Runnable
    BY SomeoneRunnable, rescheIn
  <2> QED
    BY <1>7, <1>9, <2>1, Zenon DEF Yield, Free, progVars
<1>10. CASE Hlt(p)
  <2>1. /\ kpc' = "hlt" /\ current_process' = p /\ UNCHANGED <<procVars, pending_request, progVars>>
        /\ sys'.ind = 0 /\ sys'.pid = p /\ sys'.running = p
    BY <1>10 DEF Hlt, NoSys, User
  <2> QED
    BY <1>0, <1>10, <2>1, QuietStep DEF Hlt, progVars
<1>11. CASE Unregistered(p)
  <2>1. kpc' = "user" /\ current_process' \in Runnable
    BY <1>0, <1>11, LeaveKernelType, Zenon DEF Unregistered, Free, User
  <2> QED
    BY <1>0, <1>11, <2>1, QuietStep, Zenon DEF Unregistered, Free, progVars
<1>12. ASSUME NEW d \in Dev, Close(p, d) PROVE Rest'
  <2>1. pending_request' = pending_request
    BY <1>2, <1>12, Zenon DEF Close, Free
  <2> QED
    BY <1>7, <1>12, <2>1, Zenon DEF Close, Free, progVars
<1>13. ASSUME NEW d \in Dev, SemWrite(p, d) PROVE Rest'
  BY <1>7, <1>13, Zenon DEF SemWrite, Free, progVars
<1>14. ASSUME NEW d \in Dev, arm(p, d), Free(p)
       PROVE  \A q \in PID : arming'[q] # None =>
                  \/ arming[q] # None
                  \/ q # Idle /\ onStackOf[q] # Idle /\ q \in process_list
  BY <1>0, <1>14, Zenon DEF arm, Free, IInv, TypeOK
<1>15. ASSUME NEW d \in Dev, NEW t \in PID, WaitWrite(p, d, t) PROVE Rest'
  BY <1>7, <1>14, <1>15, Zenon DEF WaitWrite, Free
<1>16. ASSUME NEW d \in Dev, NEW ms \in 0 .. MaxSleep, SleepWrite(p, d, ms) PROVE Rest'
  BY <1>7, <1>14, <1>16, Zenon DEF SleepWrite, Free
<1> QED
  BY <1>1, <1>4, <1>5, <1>6, <1>8, <1>9, <1>10, <1>11, <1>12, <1>13, <1>15, <1>16 DEF Syscall

(* The end of real_syscall_handler leaves a runnable process on the CPU. *)
LEMMA ReturnPreserves ==
    ASSUME IInv, TypeOK', Return
    PROVE  Rest'
<1> DEFINE alive == sys.pid \in process_list
           must == ~alive \/ process_state[sys.pid] # RUNNABLE
<1>1. /\ kpc = "check" /\ sys.dev \notin Dev /\ sys' = NoSys
      /\ LeaveKernel(must) /\ must \in BOOLEAN
      /\ UNCHANGED <<procVars, pending_request, onStackOf, arming>>
  BY Zenon DEF Return, progVars
<1>2. sys.ind = 0 /\ sys'.ind = 0
  BY <1>1, Zenon DEF IInv, SyscallFrame, NoSys
<1>3. current_process = sys.running /\ (sys.running \in Runnable \/ sys.running = sys.pid)
  BY <1>1, <1>2, Zenon DEF IInv, SyscallFrame
<1>4. ~must => sys.pid \in Runnable
  BY DEF Runnable
<1> HIDE DEF must
<1>5. kpc' = "user" /\ (current_process' \in Runnable \/ (~must /\ current_process' = current_process))
  BY <1>1, LeaveKernelType
<1>6. current_process' \in Runnable
  BY <1>3, <1>4, <1>5
<1> QED
  BY <1>1, <1>2, <1>5, <1>6, QuietStep, Zenon

(* The timer keeps the invariant wherever it fires. *)
LEMMA TickPreserves ==
    ASSUME IInv, TypeOK', Tick
    PROVE  Rest'
<1> DEFINE next == resche(current_process, Runnable)
<1>1. UNCHANGED <<procVars, pending_request, onStackOf, arming>> /\ kpc \in {"user", "hlt", "check"}
  BY DEF Tick, progVars
<1>2. CASE kpc = "user" /\ Handled(current_process, retval[current_process], next)
  <2>1. /\ kpc' = "check" /\ current_process' = next
        /\ sys'.ind = 0 /\ sys'.running = next
    BY <1>2 DEF Handled
  <2>2. next \in Runnable
    BY SomeoneRunnable, rescheIn, Zenon DEF IInv, TypeOK
  <2>3. sys.ind = 0
    BY <1>2 DEF IInv, SyscallFrame
  <2> HIDE DEF next
  <2> QED
    BY <1>1, <2>1, <2>2, <2>3, QuietStep
<1>3. CASE ~(kpc = "user" /\ Handled(current_process, retval[current_process], next))
  <2>1. /\ kpc' = IF kpc = "hlt" THEN "check" ELSE kpc
        /\ sys' = [sys EXCEPT !.ticks = IF kpc = "check" THEN @ + 1 ELSE @]
        /\ current_process' = current_process
    BY <1>3 DEF Tick
  <2>2. /\ sys'.dev = sys.dev /\ sys'.ind = sys.ind
        /\ sys'.running = sys.running /\ sys'.pid = sys.pid
    BY <2>1 DEF IInv, TypeOK, Frame
  <2>3. kpc # "check" => sys.ind = 0
    BY DEF IInv, SyscallFrame
  <2>4. kpc = "user" => current_process' \in Runnable
    BY <2>1 DEF IInv, SomeoneRuns
  <2>5. kpc \in {"check", "hlt"} =>
            /\ sys'.running \in Runnable \/ sys'.running = sys'.pid
            /\ sys'.ind = 0 => current_process' = sys'.running
    BY <2>1, <2>2 DEF IInv, SyscallFrame
  <2>6. kpc' # "kernel" /\ (kpc' = "user" => kpc = "user")
        /\ (kpc' \in {"check", "hlt"} => kpc \in {"check", "hlt"})
    BY <1>1, <2>1
  <2>7. \/ sys.ind = 0 /\ sys'.ind = 0
        \/ sys'.dev = sys.dev /\ sys'.ind = sys.ind /\ kpc' = "check"
    BY <2>1, <2>2, <2>3
  <2> QED
    BY <1>1, <2>4, <2>5, <2>6, <2>7, QuietStep, Zenon
<1> QED
  BY <1>2, <1>3

-----------------------------------------------------------------------------
(* The theorems *)

(* What enter_init sets up satisfies the invariant. *)
LEMMA InitIInv ==
    ASSUME Init
    PROVE  IInv
<1>1. Idle \in PID /\ Idle # None
  BY KernelAssumption DEF Idle, PID, None
<1>2. TypeOK
  <2>1. NoSys \in Frame
    BY KernelAssumption, <1>1 DEF NoSys, Frame, Result
  <2>2. [pid |-> 0, status |-> 0] \in WaitRequest
    BY KernelAssumption, <1>1 DEF WaitRequest, Idle
  <2>3. /\ resche_counter \in 0 .. PROCESS_TICKS
        /\ sleep_left \in [PID -> 0 .. MaxSleep]
        /\ cnt \in [Dev -> Int]
    BY KernelAssumption DEF Init
  <2>4. pending_request \in [Dev -> Seq(Request)] /\ Done \in Result
    BY DEF Init, Result
  <2> QED
    BY <1>1, <2>1, <2>2, <2>3, <2>4, Zenon DEF Init, TypeOK
<1>3. \A d \in Dev : Queued(d) = {}
  BY DEF Init, Queued
<1>4. \A p \in PID : ~IsQueued(p)
  BY <1>3 DEF IsQueued
<1>5. SleepersHaveOneWaker
  BY <1>1, <1>3, <1>4, Zenon DEF Init, SleepersHaveOneWaker, RUNNABLE, SLEEPING
<1>6. RequestsAreLive
  BY <1>3 DEF RequestsAreLive
<1>7. ParentHasChild
  BY Zenon DEF Init, ParentHasChild
<1>8. SomeoneRuns
  BY <1>1 DEF Init, SomeoneRuns, Runnable
<1>9. SyscallFrame
  BY SMTT(30), Z3T(30), Zenon DEF Init, SyscallFrame, NoSys
<1>10. IdleCanRun
  BY <1>1, <1>4 DEF Init, IdleCanRun
<1> QED
  BY <1>2, <1>5, <1>6, <1>7, <1>8, <1>9, <1>10 DEF IInv

(* The invariant is inductive. *)
LEMMA NextIInv ==
    ASSUME IInv, [Next]_vars
    PROVE  IInv'
<1>1. TypeOK'
  BY TypeStep
<1>2. Rest'
  <2>1. CASE Halted \/ UNCHANGED vars
    <3>1. UNCHANGED vars
      BY <2>1 DEF Halted
    <3>2. SleepersHaveOneWaker' /\ RequestsAreLive'
      BY <3>1, SMTT(30), Z3T(30), Zenon DEF IInv, vars, procVars, progVars, SleepersHaveOneWaker, RequestsAreLive,
                  Queued, IsQueued
    <3>3. ParentHasChild' /\ SomeoneRuns'
      BY <3>1, Zenon DEF IInv, vars, procVars, progVars, ParentHasChild, SomeoneRuns, Runnable
    <3>4. SyscallFrame' /\ IdleCanRun'
      BY <3>1, Zenon DEF IInv, vars, procVars, progVars, SyscallFrame, IdleCanRun, Queued, IsQueued,
                  Runnable
    <3> QED
      BY <3>2, <3>3, <3>4 DEF Rest
  <2> QED
    BY <1>1, <2>1, SyscallPreserves, CheckOnePreserves, CheckDonePreserves, ReturnPreserves,
       TickPreserves
    DEF Next, Kernel
<1> QED
  BY <1>1, <1>2 DEF IInv, Rest

(* The kernel's invariant, whatever the sizes and whatever the programs do. *)
THEOREM Invariant == Spec => []IInv
<1>1. Init => IInv
  BY InitIInv
<1>2. IInv /\ [Next]_vars => IInv'
  BY NextIInv
<1> QED
  BY <1>1, <1>2, PTL DEF Spec

(* Every variable keeps its type: no table is indexed outside its bounds. *)
THEOREM TypeCorrect == Spec => []TypeOK
<1>1. IInv => TypeOK
  BY DEF IInv
<1> QED
  BY <1>1, Invariant, PTL

(* A process sleeps exactly when one queued request, or one backup of its
   stack, is there to wake it: fork, the blocking devices and check() agree on
   Process::process_state. *)
THEOREM OneWaker == Spec => []SleepersHaveOneWaker
<1>1. IInv => SleepersHaveOneWaker
  BY DEF IInv
<1> QED
  BY <1>1, Invariant, PTL

(* No PendingRead outlives the process it points to. *)
THEOREM LiveRequests == Spec => []RequestsAreLive
<1>1. IInv => RequestsAreLive
  BY DEF IInv
<1> QED
  BY <1>1, Invariant, PTL

(* A parent whose stack is backed up has a child on that stack, whose exec or
   exit restores it. *)
THEOREM BackupHasChild == Spec => []ParentHasChild
<1>1. IInv => ParentHasChild
  BY DEF IInv
<1> QED
  BY <1>1, Invariant, PTL

(* resche() never runs out of processes, and user mode is only ever entered
   with a process that exists and is runnable. *)
THEOREM AlwaysRunnable == Spec => []SomeoneRuns
<1>1. IInv => SomeoneRuns
  BY DEF IInv
<1> QED
  BY <1>1, Invariant, PTL

(* The assertion of Process::clone never fails. *)
THEOREM ForkStackIsClean == Spec => []CleanForkStack
<1>1. IInv => CleanForkStack
  <2> SUFFICES ASSUME IInv, kpc = "user" PROVE ~stack_backup[current_process]
    BY DEF CleanForkStack
  <2>1. current_process \in PID /\ User(current_process)
    BY DEF IInv, TypeOK, User
  <2> QED
    BY <2>1, Running
<1> QED
  BY <1>1, Invariant, PTL

=============================================================================
