--------------------------- MODULE KernelDevices ---------------------------
(***************************************************************************)
(* Proofs about the blocking devices of Kernel: what check() guarantees to *)
(* those who wait, what holds when only system calls change a device, and  *)
(* what :WAITPID delivers (KernelWait).                                    *)
(***************************************************************************)
EXTENDS KernelWait, KernelProofs, FiniteSetTheorems

(* A system call either reaches checkAll() at its first device, or is one of
   those that do not. *)
LEMMA SyscallShape ==
    ASSUME NEW p \in PID, Syscall(p)
    PROVE  /\ User(p)
           /\ \/ kpc' = "check" /\ sys'.dev = 1 /\ sys'.ind = 0 /\ sys'.pid = p
              \/ Panic \/ Hlt(p) \/ Unregistered(p)
<1>1. ASSUME NEW ret, NEW cur, Handled(p, ret, cur)
      PROVE  kpc' = "check" /\ sys'.dev = 1 /\ sys'.ind = 0 /\ sys'.pid = p
  BY <1>1 DEF Handled
<1>2. CASE Fork(p) \/ Thread(p)
  BY <1>1, <1>2 DEF Fork, Thread, clone, Free
<1>3. CASE ExecFails(p) \/ Exec(p) \/ Yield(p)
  BY <1>1, <1>3 DEF ExecFails, Exec, Yield, Free
<1>4. CASE \E code \in Code : Exit(p, code)
  BY <1>1, <1>4 DEF Exit, Free
<1>5. CASE \E d \in Dev : Close(p, d) \/ (\E size \in Size : Read(p, d, size))
  BY <1>1, <1>5 DEF Close, Read, Free
<1>6. CASE \E d \in Dev : \/ SemWrite(p, d) \/ (\E t \in PID : WaitWrite(p, d, t))
                          \/ (\E ms \in 0 .. MaxSleep : SleepWrite(p, d, ms))
  BY <1>1, <1>6 DEF SemWrite, WaitWrite, SleepWrite, Free
<1>7. CASE Hlt(p) \/ Unregistered(p)
  BY <1>7, Zenon DEF Hlt, Unregistered, Free
<1> QED
  BY <1>2, <1>3, <1>4, <1>5, <1>6, <1>7 DEF Syscall

(* What one iteration of check() leaves alone: the other devices. *)
LEMMA CheckOneElsewhere ==
    ASSUME IInv, CheckOne, NEW d \in Dev, d # sys.dev
    PROVE  cnt'[d] = cnt[d] /\ pending_request'[d] = pending_request[d]
<1> DEFINE now == pending_request[sys.dev][sys.ind + 1]
<1>1. do_read(sys.dev, now.proc, now.size) /\ sys.dev \in Dev
  BY Zenon DEF CheckOne
<1> HIDE DEF now
<1>2. cnt \in [Dev -> Int] /\ pending_request \in [Dev -> Seq(Request)]
  BY DEF IInv, TypeOK
<1> QED
  BY <1>1, <1>2 DEF do_read, readEffect

(* checkAll() leaves no semaphore behind with a unit and a waiter. *)
LEMMA NextSignals ==
    ASSUME IInv, SignalsSeen, [Next]_vars
    PROVE  SignalsSeen'
<1>0. /\ \A d \in Dev : d \in Nat /\ ~(d < 1)
      /\ sys.dev \in 1 .. Len(Kind) + 1 /\ sys.ind \in Nat /\ Len(Kind) \in Nat
  BY KernelAssumption DEF Dev, IInv, TypeOK, Frame
<1>1. ASSUME NEW p \in PID, Syscall(p) PROVE SignalsSeen'
  <2>1. CASE kpc' = "check" /\ sys'.dev = 1
    BY <1>0, <2>1 DEF SignalsSeen
  <2>2. CASE Panic
    BY <2>2 DEF Panic, SignalsSeen
  <2>3. CASE Hlt(p)
    <3>1. kpc' = "hlt" /\ sys'.dev = 1
      BY <2>3 DEF Hlt, NoSys
    <3> QED
      BY <1>0, <3>1 DEF SignalsSeen
  <2>4. CASE Unregistered(p)
    <3>1. kpc = "user" /\ UNCHANGED <<cnt, pending_request>>
      BY <2>4 DEF Unregistered, Free, User, devVars
    <3> QED
      BY <3>1 DEF SignalsSeen
  <2> QED
    BY <1>1, <2>1, <2>2, <2>3, <2>4, SyscallShape
<1>2. CASE CheckOne
  <2>1. kpc = "check" /\ kpc' = "check" /\ sys'.dev = sys.dev
    BY <1>2 DEF CheckOne, IInv, TypeOK, Frame
  <2>2. ASSUME NEW d \in Dev, d < sys.dev
        PROVE  cnt'[d] = cnt[d] /\ pending_request'[d] = pending_request[d]
    BY <1>0, <1>2, <2>2, CheckOneElsewhere
  <2> QED
    BY <2>1, <2>2 DEF SignalsSeen
<1>3. CASE CheckDone
  <2>1. /\ kpc = "check" /\ kpc' = "check" /\ sys.dev \in Dev /\ sys'.dev = sys.dev + 1
        /\ UNCHANGED cnt
        /\ ~(sys.ind < Len(pending_request[sys.dev]) /\ Probed)
        /\ pending_request' = [pending_request EXCEPT ![sys.dev] =
               SubSeq(pending_request[sys.dev], sys.ind + 1, Len(pending_request[sys.dev]))]
    BY <1>3 DEF CheckDone, IInv, TypeOK, Frame, devVars
  <2>2. pending_request \in [Dev -> Seq(Request)]
    BY DEF IInv, TypeOK
  <2>3. Kind[sys.dev] = "sem" /\ cnt[sys.dev] > 0 => Probed
    BY <2>1 DEF Probed, Empty, IInv, TypeOK
  <2>4. ~(sys.ind < Len(pending_request[sys.dev])) => pending_request'[sys.dev] = <<>>
    <3> DEFINE s == pending_request[sys.dev]
    <3>1. s \in Seq(Request) /\ pending_request'[sys.dev] = SubSeq(s, sys.ind + 1, Len(s))
      BY <2>1, <2>2, Zenon
    <3> HIDE DEF s
    <3>2. Len(s) < sys.ind + 1 => SubSeq(s, sys.ind + 1, Len(s)) = <<>>
      BY <1>0, <3>1
    <3> QED
      BY <1>0, <3>1, <3>2 DEF s
  <2>5. ASSUME NEW d \in Dev, d < sys.dev + 1, Kind[d] = "sem", cnt[d] > 0
        PROVE  pending_request'[d] = <<>>
    <3>1. CASE d = sys.dev
      BY <2>1, <2>3, <2>4, <2>5, <3>1
    <3>2. CASE d # sys.dev
      <4>1. d < sys.dev
        BY <1>0, <2>5, <3>2
      <4> QED
        BY <2>1, <2>2, <2>5, <3>2, <4>1 DEF SignalsSeen
    <3> QED
      BY <3>1, <3>2
  <2> QED
    BY <2>1, <2>5 DEF SignalsSeen
<1>4. CASE Return
  <2>1. kpc = "check" /\ sys.dev \notin Dev /\ UNCHANGED <<cnt, pending_request>>
    BY <1>4 DEF Return, devVars
  <2>2. \A d \in Dev : d < sys.dev
    BY <1>0, <2>1 DEF Dev
  <2> QED
    BY <2>1, <2>2 DEF SignalsSeen
<1>5. CASE Tick
  <2>1. UNCHANGED <<cnt, pending_request>> /\ kpc \in {"user", "hlt", "check"}
    BY <1>5 DEF Tick
  <2>2. \/ kpc' = "check" /\ sys'.dev = 1
        \/ sys'.dev = sys.dev /\ kpc' = IF kpc = "hlt" THEN "check" ELSE kpc
    BY <1>5 DEF Tick, Handled, IInv, TypeOK, Frame
  <2> QED
    BY <1>0, <2>1, <2>2 DEF SignalsSeen
<1>6. CASE Halted \/ UNCHANGED vars
  BY <1>6 DEF Halted, vars, devVars, SignalsSeen
<1> QED
  BY <1>1, <1>2, <1>3, <1>4, <1>5, <1>6 DEF Next, Kernel

(* No signal is lost: whenever the kernel has returned to a process, nobody
   waits on a semaphore that has a unit left, although check() is interrupted
   by the timer and serves one request at a time. *)
THEOREM SignalsReachWaiters == Spec => []NoLostSignal
<1>1. Init => SignalsSeen
  BY DEF Init, SignalsSeen
<1>2. IInv /\ SignalsSeen /\ [Next]_vars => SignalsSeen'
  BY NextSignals
<1>3. SignalsSeen => NoLostSignal
  BY DEF SignalsSeen, NoLostSignal
<1> QED
  BY <1>1, <1>2, <1>3, Invariant, PTL DEF Spec
-----------------------------------------------------------------------------
(* :SLEEP *)

(* A queued process sleeps, lives and holds no backup of its stack. *)
LEMMA QueuedSleeps ==
    ASSUME IInv, NEW d \in Dev, NEW i \in Queued(d)
    PROVE  LET p == pending_request[d][i].proc IN
           /\ p \in PID /\ p \in process_list /\ IsQueued(p)
           /\ process_state[p] = SLEEPING /\ ~stack_backup[p] /\ p # Idle
<1> DEFINE p == pending_request[d][i].proc
<1>1. p \in process_list /\ IsQueued(p)
  BY DEF IInv, RequestsAreLive, IsQueued
<1> HIDE DEF p
<1>2. p \in PID /\ process_state[p] = SLEEPING /\ ~stack_backup[p]
  BY <1>1 DEF IInv, TypeOK, SleepersHaveOneWaker
<1>3. p # Idle
  BY <1>1 DEF IInv, IdleCanRun
<1> QED
  BY <1>1, <1>2, <1>3 DEF p

(* The request that check() handles next is queued. *)
LEMMA NextIsQueued ==
    ASSUME IInv, CheckOne
    PROVE  sys.dev \in Dev /\ sys.ind + 1 \in Queued(sys.dev)
<1>1. /\ sys.dev \in Dev /\ sys.ind < Len(pending_request[sys.dev])
      /\ sys.ind \in Nat /\ Len(pending_request[sys.dev]) \in Nat
  BY DEF CheckOne, IInv, TypeOK, Frame
<1> QED
  BY <1>1 DEF Queued

(* Of the processes that are queued, a system call makes none runnable. *)
LEMMA SyscallWakesNobody ==
    ASSUME IInv, NEW p \in PID, Syscall(p), NEW q \in PID, IsQueued(q), q \in process_list
    PROVE  process_state'[q] # RUNNABLE
<1>0. /\ process_state[q] = SLEEPING /\ ~stack_backup[q] /\ RUNNABLE # SLEEPING
      /\ process_state \in [PID -> {RUNNABLE, SLEEPING}]
  BY DEF IInv, TypeOK, SleepersHaveOneWaker, RUNNABLE, SLEEPING
<1>1. q # p
  BY SyscallShape, Running
<1>2. CASE Fork(p) \/ Thread(p)
  <2>1. PICK k \in BOOLEAN : clone(p, k)
    BY <1>2, Zenon DEF Fork, Thread
  <2>2. CASE stack_backup[p] \/ process_list = PID
    BY <1>0, <2>1, <2>2, Zenon DEF clone, Panic, procVars
  <2>3. CASE ~(stack_backup[p] \/ process_list = PID)
    <3>1. FreeSlot # q
      BY <2>3, FreeSlotIn DEF IInv, TypeOK
    <3>2. process_state' = [process_state EXCEPT
              ![FreeSlot] = RUNNABLE, ![p] = IF k THEN SLEEPING ELSE @]
      BY <2>1, <2>3 DEF clone
    <3> QED
      BY <1>0, <1>1, <3>1, <3>2
  <2> QED
    BY <2>2, <2>3
<1>3. CASE Exec(p) \/ (\E code \in Code : Exit(p, code))
  <2>1. restoreStack(ppid[p])
    BY <1>3 DEF Exec, Exit
  <2> QED
    BY <1>0, <2>1 DEF restoreStack, Restorable
<1>4. CASE \E d \in Dev, size \in Size : Read(p, d, size)
  <2>1. PICK d \in Dev, size \in Size : do_read(d, p, size)
    BY <1>4 DEF Read
  <2> QED
    BY <1>0, <1>1, <2>1 DEF do_read
<1>5. CASE UNCHANGED process_state
  BY <1>0, <1>5
<1>6. CASE ExecFails(p) \/ Yield(p) \/ Hlt(p) \/ Unregistered(p)
  BY <1>5, <1>6, Zenon DEF ExecFails, Yield, Hlt, Unregistered, procVars
<1>7. CASE \E d \in Dev : \/ Close(p, d) \/ SemWrite(p, d)
                          \/ (\E t \in PID : WaitWrite(p, d, t))
                          \/ (\E ms \in 0 .. MaxSleep : SleepWrite(p, d, ms))
  BY <1>5, <1>7, Zenon DEF Close, SemWrite, WaitWrite, SleepWrite, procVars
<1> QED
  BY <1>2, <1>3, <1>4, <1>6, <1>7 DEF Syscall

(* check() wakes a process from :SLEEP only when its time has come, whoever
   is current when it probes the device. *)
THEOREM NobodyWakesEarly == Spec => SleepsLongEnough
<1>1. ASSUME IInv, [Next]_vars, NEW d \in Dev, NEW i \in Queued(d), Kind[d] = "sleep",
             process_state'[pending_request[d][i].proc] = RUNNABLE
      PROVE  sleep_left[pending_request[d][i].proc] = 0
  <2> DEFINE p == pending_request[d][i].proc
  <2>1. /\ p \in PID /\ p \in process_list /\ IsQueued(p) /\ process_state[p] = SLEEPING
        /\ RUNNABLE # SLEEPING
    BY <1>1, QueuedSleeps, Zenon DEF RUNNABLE, SLEEPING
  <2>2. process_state'[p] = RUNNABLE
    BY <1>1
  <2> HIDE DEF p
  <2>3. ASSUME NEW q \in PID, Syscall(q) PROVE FALSE
    BY <1>1, <2>1, <2>2, <2>3, SyscallWakesNobody
  <2>4. UNCHANGED process_state => FALSE
    BY <2>1, <2>2
  <2>5. CASE CheckDone \/ Return \/ Tick \/ Halted \/ UNCHANGED vars
    BY <2>4, <2>5 DEF CheckDone, Return, Tick, Halted, vars, procVars
  <2>6. CASE CheckOne
    <3> DEFINE m == sys.ind + 1
               now == pending_request[sys.dev][m]
    <3>1. sys.dev \in Dev /\ m \in Queued(sys.dev)
      BY <1>1, <2>6, NextIsQueued
    <3>2. do_read(sys.dev, now.proc, now.size)
      BY <2>6, Zenon DEF CheckOne
    <3>3. now.proc \in PID
      BY <1>1, <3>1, QueuedSleeps
    <3> HIDE DEF m
    <3>4. p = now.proc /\ ~Empty(sys.dev, p)
      <4> HIDE DEF now
      <4> QED
        BY <1>1, <2>1, <2>2, <3>2, <3>3, Zenon DEF do_read, IInv, TypeOK
    <3>5. d = sys.dev
      BY <1>1, <3>1, <3>4, Zenon DEF IInv, SleepersHaveOneWaker, p
    <3>6. ~(sleep_left[p] > 0) /\ sleep_left[p] \in 0 .. MaxSleep
      BY <1>1, <2>1, <3>4, <3>5, Zenon DEF Empty, IInv, TypeOK
    <3> QED
      BY <3>6, KernelAssumption DEF p
  <2> QED
    BY <1>1, <2>3, <2>5, <2>6, Zenon DEF Next, Kernel
<1>2. IInv /\ [Next]_vars =>
        [\A d \in Dev : \A i \in Queued(d) :
            LET p == pending_request[d][i].proc IN
            Kind[d] = "sleep" /\ process_state'[p] = RUNNABLE => sleep_left[p] = 0]_vars
  BY <1>1, Zenon
<1> QED
  BY <1>2, Invariant, PTL DEF Spec, SleepsLongEnough
-----------------------------------------------------------------------------
(* Devices that only system calls change *)

(* As many processes as fit in the table, the idle one left out, bound a queue
   in which each is at most once. *)
LEMMA QueueFits ==
    ASSUME NEW q \in Seq(Request), NEW n \in 0 .. Len(q), OncePerProcess(q, n),
           \A i \in 1 .. n : q[i].proc # Idle
    PROVE  n <= MAX_PROCESS_NUM - 1
<1> DEFINE S == 1 .. n
           T == 1 .. MAX_PROCESS_NUM - 1
           f == [i \in S |-> q[i].proc]
<1>1. n \in Nat /\ MAX_PROCESS_NUM \in Nat \ {0}
  BY KernelAssumption
<1>2. \A i \in S : q[i] \in Request
  BY <1>1
<1>3. \A i \in S : q[i].proc \in T
  BY <1>1, <1>2 DEF Request, PID, Idle
<1>4. f \in Injection(S, T)
  BY <1>3 DEF Injection, IsInjective, OncePerProcess
<1>5. IsFiniteSet(T) /\ Cardinality(T) = MAX_PROCESS_NUM - 1
  BY <1>1, FS_Interval
<1>6. IsFiniteSet(S) /\ Cardinality(S) = n
  BY <1>1, FS_Interval
<1> HIDE DEF S, T, f
<1>7. Cardinality(S) <= Cardinality(T)
  BY <1>4, <1>5, FS_Injection
<1> QED
  BY <1>5, <1>6, <1>7

(* A queue of which nothing has been handled holds each process at most once,
   and never the idle one. *)
LEMMA FreshQueue ==
    ASSUME IInv, NEW d \in Dev, d # sys.dev \/ sys.ind = 0
    PROVE  /\ \A i \in 1 .. Len(pending_request[d]) : pending_request[d][i].proc # Idle
           /\ OncePerProcess(pending_request[d], Len(pending_request[d]))
<1>1. Queued(d) = 1 .. Len(pending_request[d])
  BY DEF Queued
<1> QED
  BY <1>1, SMTT(30), Z3T(30), Zenon DEF IInv, SleepersHaveOneWaker, IdleCanRun, IsQueued, OncePerProcess

(* The walk of check() keeps the queue's shape: a request is appended again
   only for a process that the next probe, made in its name, stops at. *)
LEMMA NextServedOnce ==
    ASSUME Synchronous, IInv, IInv', ServedOnce, [Next]_vars
    PROVE  ServedOnce'
<1> SUFFICES ASSUME kpc' = "check", sys'.dev \in Dev PROVE ServedOnce'
  BY Zenon DEF ServedOnce
<1>1. CASE sys'.ind = 0
  <2>0. PICK e \in Dev : e = sys'.dev
    OBVIOUS
  <2> DEFINE r == pending_request'[e]
  <2>1. Queued(e)' = 1 .. Len(r)
    <3>1. r \in Seq(Request)
      BY DEF IInv, TypeOK
    <3>2. Len(r) \in Nat
      <4> HIDE DEF r
      <4> QED
        BY <3>1
    <3>3. Queued(e)' = {i \in 1 .. Len(r) : i > 0}
      BY <1>1, <2>0 DEF Queued
    <3> HIDE DEF r
    <3> QED
      BY <3>2, <3>3
  <2>2. \A i \in 1 .. Len(r) : r[i].proc # Idle
    BY <2>1, Zenon DEF IInv, IdleCanRun, IsQueued
  <2>3. OncePerProcess(r, Len(r))
    BY <2>1, SMTT(30), Z3T(30), Zenon DEF IInv, SleepersHaveOneWaker, OncePerProcess
  <2> QED
    BY <2>0, <2>2, <2>3, Zenon DEF ServedOnce, OncePerProcess
<1>2. CASE CheckOne
  <2>0. PICK d \in Dev, p \in PID :
            d = sys.dev /\ p = pending_request[d][sys.ind + 1].proc /\ p # Idle
    BY <1>2, NextIsQueued, QueuedSleeps, Zenon
  <2> DEFINE s == pending_request[d]
             now == s[sys.ind + 1]
             r == [proc |-> p, size |-> now.size]
  <2>1. /\ sys.ind < Len(s) /\ Probed /\ do_read(d, p, now.size)
        /\ current_process' = p /\ kpc = "check" /\ sys'.dev = d
    BY <1>2, <2>0, Zenon DEF CheckOne, IInv, TypeOK, Frame
  <2>2. s \in Seq(Request) /\ sys.ind \in Nat
    BY <2>1, Zenon DEF IInv, TypeOK, Frame
  <2>4. OncePerProcess(s, Len(s)) /\ \A i \in 1 .. Len(s) : s[i].proc # Idle
    BY <2>0, <2>1, Zenon DEF ServedOnce, Probed
  <2>5. CASE ~Empty(d, p)
    <3>1. pending_request' = pending_request
      BY <2>1, <2>5 DEF do_read
    <3>2. pending_request'[sys'.dev] = s
      BY <2>1, <3>1
    <3> HIDE DEF s
    <3> QED
      BY ONLY <2>4, <3>2 DEF ServedOnce, OncePerProcess
  <2>6. CASE Empty(d, p)
    <3>1. Kind[d] = "wait"
      BY <2>0, <2>1, <2>6, KernelAssumption, Zenon DEF Synchronous, Probed, Empty
    <3>2. Empty(d, p)'
      <4>1. UNCHANGED reqs
        BY <2>1 DEF do_read, readEffect
      <4>2. reqs[p].pid # 0
        BY <2>6, <3>1 DEF Empty
      <4> QED
        BY <3>1, <4>1, <4>2 DEF Empty
    <3>3. pending_request'[d] = Append(s, r)
      BY <2>1, <2>6, Zenon DEF do_read, IInv, TypeOK
    <3>4. r.proc = p
      BY Zenon
    <3> HIDE DEF s, r
    <3> DEFINE t == Append(s, r)
    <3>5. /\ Len(t) = Len(s) + 1 /\ Len(s) \in Nat /\ t[Len(s) + 1] = r
          /\ \A i \in 1 .. Len(s) : t[i] = s[i]
      BY <2>2
    <3> HIDE DEF t
    <3>6. \A i \in 1 .. Len(t) : t[i].proc # Idle
      BY <2>0, <2>4, <3>4, <3>5
    <3>7. OncePerProcess(t, Len(t) - 1)
      BY <2>4, <3>5 DEF OncePerProcess
    <3>8. Empty(sys.dev, current_process)'
      BY <2>0, <2>1, <3>2, Zenon DEF Empty
    <3> QED
      BY <2>0, <2>1, <3>3, <3>6, <3>7, <3>8, SMTT(30), Z3T(30), Zenon DEF ServedOnce, OncePerProcess, t
  <2> QED
    BY <2>5, <2>6
<1>3. CASE Tick /\ sys'.ind # 0
  <2>1. /\ UNCHANGED <<pending_request, cnt, reqs, current_process>> /\ kpc = "check"
        /\ sys'.dev = sys.dev
    <3>1. ~Handled(current_process, retval[current_process], resche(current_process, Runnable))
      BY <1>3 DEF Handled
    <3>2. /\ UNCHANGED <<pending_request, cnt, reqs, current_process>>
          /\ kpc' = IF kpc = "hlt" THEN "check" ELSE kpc
          /\ sys' = [sys EXCEPT !.ticks = IF kpc = "check" THEN @ + 1 ELSE @]
      BY <1>3, <3>1 DEF Tick
    <3>3. sys'.dev = sys.dev /\ sys'.ind = sys.ind
      BY <3>2 DEF IInv, TypeOK, Frame
    <3> QED
      BY <1>3, <3>2, <3>3 DEF IInv, SyscallFrame
  <2>2. Empty(sys.dev, current_process) => Empty(sys.dev, current_process)'
    BY <2>1, KernelAssumption DEF Synchronous, Empty
  <2> QED
    BY <2>1, <2>2, SMTT(30), Z3T(30), Zenon DEF ServedOnce, OncePerProcess
<1>4. CASE CheckDone
  <2>1. sys'.ind = 0
    BY <1>4 DEF CheckDone, IInv, TypeOK, Frame
  <2> QED
    BY <1>1, <2>1
<1>5. CASE Return
  <2>1. sys'.ind = 0
    BY <1>5 DEF Return, NoSys
  <2> QED
    BY <1>1, <2>1
<1>6. ASSUME NEW p \in PID, Syscall(p) PROVE ServedOnce'
  <2>1. CASE Panic \/ Hlt(p)
    BY <2>1 DEF Panic, Hlt
  <2>2. CASE Unregistered(p)
    <3>1. sys'.ind = 0
      BY <2>2, Running, Zenon DEF Unregistered, Free
    <3> QED
      BY <1>1, <3>1
  <2> QED
    BY <1>1, <1>6, <2>1, <2>2, SyscallShape
<1>7. CASE Halted \/ UNCHANGED vars
  BY <1>7, Zenon DEF Halted, vars, devVars, ServedOnce, OncePerProcess, Empty
<1> QED
  BY <1>1, <1>2, <1>3, <1>4, <1>5, <1>6, <1>7 DEF Next, Kernel

(* A system call leaves every process that is not blocked with its result. *)
LEMMA SyscallResultsDue ==
    ASSUME IInv, IInv', ResultsDue, NEW p \in PID, Syscall(p)
    PROVE  ResultsDue'
<1>0. /\ User(p) /\ p \in process_list /\ ~IsQueued(p) /\ sys.ind = 0 /\ kpc = "user"
      /\ \A q \in process_list : ~IsQueued(q) => retval[q] = Done
      /\ process_list \in SUBSET PID /\ process_list' \in SUBSET PID
      /\ retval \in [PID -> Result]
      /\ Done # EAGAIN
  BY SyscallShape, Running, Zenon DEF User, ResultsDue, IInv, TypeOK, Done, EAGAIN
<1>1. ASSUME UNCHANGED pending_request, NEW cur, Handled(p, Done, cur),
             \A q \in process_list' \ {p} :
                 retval'[q] = Done \/ (q \in process_list /\ retval'[q] = retval[q])
      PROVE  ResultsDue'
  <2>1. kpc' = "check" /\ sys'.ind = 0 /\ sys'.pid = p /\ sys'.ret = Done
    BY <1>1, Zenon DEF Handled
  <2>2. \A q \in PID : IsQueued(q)' <=> IsQueued(q)
    BY <1>0, <1>1, <2>1, SameQueues, Zenon
  <2> QED
    BY <1>0, <1>1, <2>1, <2>2, Zenon DEF ResultsDue
<1>2. ASSUME NEW devs \in SUBSET Dev, Drop(p, devs) PROVE pending_request' = pending_request
  BY <1>0, <1>2, DropNothing
<1>3. CASE Fork(p) \/ Thread(p)
  <2>1. PICK k \in BOOLEAN : clone(p, k)
    BY <1>3, Zenon DEF Fork, Thread
  <2>2. CASE stack_backup[p] \/ process_list = PID
    <3>1. kpc' = "panic" /\ UNCHANGED <<pending_request, sys, process_list, retval>>
      BY <2>1, <2>2, Zenon DEF clone, Panic, procVars
    <3>2. \A q \in PID : IsQueued(q)' <=> IsQueued(q)
      BY <1>0, <3>1, SameQueues
    <3> QED
      BY <1>0, <3>1, <3>2 DEF ResultsDue
  <2>3. CASE ~(stack_backup[p] \/ process_list = PID)
    <3> DEFINE c == FreeSlot
    <3>1. /\ process_list' = process_list \cup {c} /\ retval' = [retval EXCEPT ![c] = Done]
          /\ Handled(p, Done, c) /\ UNCHANGED pending_request
      BY <2>1, <2>3 DEF clone
    <3> HIDE DEF c
    <3> QED
      BY <1>0, <1>1, <3>1
  <2> QED
    BY <2>2, <2>3
<1>4. CASE Exec(p)
  <2>1. UNCHANGED <<pending_request, process_list, retval>> /\ Handled(p, Done, p)
    BY <1>2, <1>4 DEF Exec
  <2> QED
    BY <1>1, <2>1
<1>5. CASE \E code \in Code : Exit(p, code)
  <2>1. /\ UNCHANGED pending_request /\ Handled(p, Done, p)
        /\ process_list' = process_list \ {p} /\ retval' = [retval EXCEPT ![p] = Done]
    BY <1>2, <1>5 DEF Exit
  <2> QED
    BY <1>0, <1>1, <2>1
<1>6. CASE ExecFails(p) \/ Yield(p)
  BY <1>1, <1>6, Zenon DEF ExecFails, Yield, procVars
<1>7. CASE \E d \in Dev : Close(p, d)
  <2>1. UNCHANGED <<pending_request, process_list, retval>> /\ Handled(p, Done, p)
    BY <1>2, <1>7 DEF Close, procVars
  <2> QED
    BY <1>1, <2>1
<1>8. CASE \E d \in Dev : \/ SemWrite(p, d) \/ (\E t \in PID : WaitWrite(p, d, t))
                          \/ (\E ms \in 0 .. MaxSleep : SleepWrite(p, d, ms))
  BY <1>1, <1>8, Zenon DEF SemWrite, WaitWrite, SleepWrite, procVars
<1>9. CASE Hlt(p)
  <2>1. kpc' = "hlt" /\ UNCHANGED <<pending_request, process_list, retval>>
    BY <1>9 DEF Hlt, procVars
  <2>2. sys'.ind = 0 /\ sys'.ret = Done
    BY <1>9 DEF Hlt, NoSys
  <2>3. \A q \in PID : IsQueued(q)' <=> IsQueued(q)
    BY <1>0, <2>1, <2>2, SameQueues, Zenon
  <2> QED
    BY <1>0, <2>1, <2>2, <2>3, Zenon DEF ResultsDue
<1>10. CASE Unregistered(p)
  <2>1. UNCHANGED <<pending_request, process_list, retval, sys>> /\ LeaveKernel(FALSE)
    BY <1>10, Zenon DEF Unregistered, procVars
  <2>2. kpc' = "user"
    BY <2>1, LeaveKernelType, Zenon
  <2>3. \A q \in PID : IsQueued(q)' <=> IsQueued(q)
    BY <1>0, <2>1, SameQueues
  <2> QED
    BY <1>0, <2>1, <2>2, <2>3 DEF ResultsDue
<1>11. ASSUME NEW d \in Dev, NEW size \in Size, Read(p, d, size) PROVE ResultsDue'
  <2>1. do_read(d, p, size) /\ Handled(p, readResult(d, p), p) /\ UNCHANGED <<process_list, retval>>
    BY <1>11 DEF Read
  <2>2. kpc' = "check" /\ sys'.ind = 0 /\ sys'.pid = p /\ sys'.ret = readResult(d, p)
    BY <2>1 DEF Handled
  <2>3. CASE ~Empty(d, p)
    BY <1>1, <2>1, <2>3 DEF do_read, readResult
  <2>4. CASE Empty(d, p)
    <3> DEFINE s == pending_request[d]
               r == [proc |-> p, size |-> size]
    <3>1. pending_request \in [Dev -> Seq(Request)] /\ pending_request' \in [Dev -> Seq(Request)]
      BY Zenon DEF IInv, TypeOK
    <3>2. pending_request' = [pending_request EXCEPT ![d] = Append(s, r)]
      BY <2>1, <2>4 DEF do_read
    <3>3. r.proc = p
      OBVIOUS
    <3> HIDE DEF s, r
    <3>4. /\ Len(Append(s, r)) = Len(s) + 1 /\ Len(s) \in Nat /\ Append(s, r)[Len(s) + 1] = r
          /\ \A i \in 1 .. Len(s) : Append(s, r)[i] = s[i]
      BY <3>1, SMTT(30), Z3T(30), Zenon DEF s
    <3>5. \A e \in Dev : /\ Queued(e) = 1 .. Len(pending_request[e])
                         /\ Queued(e)' = 1 .. Len(pending_request'[e])
      <4> TAKE e \in Dev
      <4>1. Queued(e) = {i \in 1 .. Len(pending_request[e]) : e = sys.dev => i > 0}
        BY ONLY <1>0 DEF Queued
      <4>2. Queued(e)' = {i \in 1 .. Len(pending_request'[e]) : e = sys'.dev => i > 0}
        BY ONLY <2>2 DEF Queued
      <4>3. pending_request[e] \in Seq(Request) /\ pending_request'[e] \in Seq(Request)
        BY <3>1
      <4>4. Len(pending_request[e]) \in Nat /\ Len(pending_request'[e]) \in Nat
        BY ONLY SMTT(30), Z3T(30), Zenon, <4>3
      <4> QED
        BY ONLY <4>1, <4>2, <4>4
    <3>6. ASSUME NEW e \in Dev, NEW i \in Queued(e)
          PROVE  i \in Queued(e)' /\ pending_request'[e][i] = pending_request[e][i]
      <4>1. CASE e = d
        BY <3>1, <3>2, <3>4, <3>5, <3>6, <4>1 DEF s
      <4>2. CASE e # d
        BY <3>1, <3>2, <3>5, <3>6, <4>2
      <4> QED
        BY <4>1, <4>2, Zenon
    <3>7. \A q \in PID : IsQueued(q) => IsQueued(q)'
      BY <3>6, Zenon DEF IsQueued
    <3>8. IsQueuedOn(p, d)'
      <4>1. Len(s) + 1 \in Queued(d)' /\ pending_request'[d][Len(s) + 1] = r
        BY <3>1, <3>2, <3>4, <3>5, SMTT(30), Z3T(30), Zenon
      <4> QED
        BY <3>3, <4>1 DEF IsQueuedOn
    <3>9. Empty(d, p)'
      BY <2>1, <2>4, Zenon DEF do_read, readEffect, Empty
    <3> QED
      BY <1>0, <2>1, <2>2, <3>7, <3>8, <3>9, Zenon DEF ResultsDue
  <2> QED
    BY <2>3, <2>4
<1> QED
  BY <1>3, <1>4, <1>5, <1>6, <1>7, <1>8, <1>9, <1>10, <1>11 DEF Syscall

(* Every step does, when only system calls change the devices. *)
LEMMA NextResultsDue ==
    ASSUME Synchronous, IInv, IInv', ResultsDue, [Next]_vars
    PROVE  ResultsDue'
<1>0. /\ process_list \in SUBSET PID /\ retval \in [PID -> Result] /\ Done # EAGAIN
      /\ Result = {EAGAIN, Done} /\ sys.ret \in Result /\ sys.pid \in PID
      /\ pending_request \in [Dev -> Seq(Request)] /\ pending_request' \in [Dev -> Seq(Request)]
  BY Zenon DEF IInv, TypeOK, Frame, Result, Done, EAGAIN
<1>1. ASSUME NEW p \in PID, Syscall(p) PROVE ResultsDue'
  BY <1>1, SyscallResultsDue
<1>2. CASE CheckOne
  <2>0. PICK d \in Dev, p \in PID, m \in Nat :
            /\ d = sys.dev /\ m = sys.ind + 1 /\ p = pending_request[d][m].proc
            /\ m \in Queued(d)
    <3>1. sys.ind + 1 \in Nat
      <4>1. sys.ind \in Nat
        BY Zenon DEF IInv, TypeOK, Frame
      <4> QED
        BY <4>1
    <3>2. sys.dev \in Dev /\ sys.ind + 1 \in Queued(sys.dev)
      BY <1>2, NextIsQueued
    <3>3. pending_request[sys.dev][sys.ind + 1].proc \in PID
      BY <3>2, QueuedSleeps, Zenon
    <3> QED
      BY <3>1, <3>2, <3>3, Zenon
  <2> DEFINE s == pending_request[d]
             r == [proc |-> p, size |-> s[m].size]
  <2>1. /\ Probed /\ do_read(d, p, s[m].size)
        /\ retval' = [retval EXCEPT ![p] = readResult(d, p)]
        /\ kpc = "check" /\ kpc' = "check" /\ UNCHANGED process_list
        /\ sys'.dev = d /\ sys'.ind = m /\ sys'.pid = sys.pid /\ sys'.ret = sys.ret
        /\ m \in Nat
    BY <1>2, <2>0, Zenon DEF CheckOne, IInv, TypeOK, Frame
  <2>2. /\ ~Empty(d, p) => pending_request' = pending_request
        /\ Empty(d, p) => pending_request' = [pending_request EXCEPT ![d] = Append(s, r)]
        /\ UNCHANGED reqs
    BY <2>1, Zenon DEF do_read, readEffect
  <2>3. r.proc = p
    BY Zenon
  <2> HIDE DEF s, r
  <2>4. /\ Len(Append(s, r)) = Len(s) + 1 /\ Len(s) \in Nat /\ Append(s, r)[Len(s) + 1] = r
        /\ \A i \in 1 .. Len(s) : Append(s, r)[i] = s[i]
    BY <1>0 DEF s
  <2>5. /\ \A e \in Dev : Queued(e) \subseteq 1 .. Len(pending_request[e])
        /\ \A e \in Dev : e # d => Queued(e)' = 1 .. Len(pending_request'[e])
        /\ Queued(d)' = {i \in 1 .. Len(pending_request'[d]) : i > m}
        /\ \A i \in Queued(d) : i >= m
    <3>1. \A e \in Dev : Queued(e) \subseteq 1 .. Len(pending_request[e])
      BY DEF Queued
    <3>2. \A e \in Dev : e # d => Queued(e)' = 1 .. Len(pending_request'[e])
      BY <2>1, Zenon DEF Queued
    <3>3. Queued(d)' = {i \in 1 .. Len(pending_request'[d]) : i > m}
      BY <2>1, Zenon DEF Queued
    <3>4. sys.ind \in Nat /\ Queued(d) = {i \in 1 .. Len(pending_request[d]) : i > sys.ind}
      BY <2>0, Zenon DEF Queued, IInv, TypeOK, Frame
    <3>5. Len(pending_request[d]) \in Nat
      BY <1>0
    <3>6. \A i \in Queued(d) : i >= m
      BY <2>0, <3>4, <3>5, SMTT(30), Z3T(30), Zenon
    <3> QED
      BY <3>1, <3>2, <3>3, <3>6
  <2>6. ASSUME NEW e \in Dev, NEW i \in Queued(e), ~(e = d /\ i = m)
        PROVE  i \in Queued(e)' /\ pending_request'[e][i] = pending_request[e][i]
    <3>1. CASE e # d
      <4>1. pending_request'[e] = pending_request[e]
        BY <1>0, <2>2, <3>1
      <4> QED
        BY <2>5, <2>6, <3>1, <4>1
    <3>2. CASE e = d /\ ~Empty(d, p)
      <4>1. pending_request' = pending_request
        BY <2>2, <3>2
      <4>2. i \in 1 .. Len(pending_request[d]) /\ i > m
        BY <2>1, <2>5, <2>6, <3>2, SMTT(30), Z3T(30), Zenon
      <4> QED
        BY <2>5, <3>2, <4>1, <4>2, Zenon
    <3>3. CASE e = d /\ Empty(d, p)
      <4>1. pending_request'[d] = Append(s, r)
        <5>1. pending_request' = [pending_request EXCEPT ![d] = Append(s, r)]
          BY <2>2, <3>3
        <5> QED
          BY ONLY <1>0, <5>1, d \in Dev
      <4>2. i \in 1 .. Len(s) /\ i > m
        BY <1>0, <2>1, <2>5, <2>6, <3>3, SMTT(30), Z3T(30), Zenon DEF s
      <4>3. i \in 1 .. Len(pending_request'[d]) /\ pending_request'[d][i] = s[i]
        BY <2>4, <4>1, <4>2, SMTT(30), Z3T(30), Zenon
      <4> QED
        BY <2>5, <3>3, <4>2, <4>3, Zenon DEF s
    <3> QED
      BY <3>1, <3>2, <3>3, Zenon
  <2>7. \A e \in Dev : \A q \in PID \ {p} : IsQueuedOn(q, e) => IsQueuedOn(q, e)'
    BY <2>0, <2>6, Zenon DEF IsQueuedOn
  <2>8. Empty(d, p) => IsQueuedOn(p, d)'
    <3>1. Empty(d, p) => Len(s) + 1 \in Queued(d)' /\ pending_request'[d][Len(s) + 1] = r
      <4> SUFFICES ASSUME Empty(d, p)
                   PROVE  Len(s) + 1 \in Queued(d)' /\ pending_request'[d][Len(s) + 1] = r
        BY Zenon
      <4>1. pending_request'[d] = Append(s, r)
        BY <1>0, <2>2
      <4>2. Queued(d)' = {i \in 1 .. Len(Append(s, r)) : i > m}
        BY <2>5, <4>1
      <4>3. m \in 1 .. Len(s)
        BY <2>0, <2>5, Zenon DEF s
      <4> QED
        BY ONLY SMTT(30), Z3T(30), Zenon, <2>4, <4>1, <4>2, <4>3
    <3> QED
      BY <2>3, <3>1, Zenon DEF IsQueuedOn
  <2>9. \A q \in PID : /\ IsQueued(q) <=> \E e \in Dev : IsQueuedOn(q, e)
                       /\ IsQueued(q)' <=> \E e \in Dev : IsQueuedOn(q, e)'
    BY Zenon DEF IsQueued, IsQueuedOn
  <2>10. ASSUME NEW q \in process_list', ~IsQueued(q)'
         PROVE  retval'[q] = Done \/ (kpc' = "check" /\ q = sys'.pid)
    <3>1. q \in PID
      BY <1>0, <2>1, Zenon
    <3>2. CASE q = p
      BY <1>0, <2>1, <2>8, <2>9, <2>10, <3>2, Zenon DEF readResult
    <3>3. CASE q # p
      BY <1>0, <2>1, <2>7, <2>9, <2>10, <3>1, <3>3, Zenon DEF ResultsDue
    <3> QED
      BY <3>2, <3>3
  <2>11. PICK c \in PID : c = sys.pid /\ c = sys'.pid
    BY <1>0, <2>1, Zenon
  <2>12. ASSUME sys'.ret = EAGAIN
         PROVE  \E e \in Dev : IsQueuedOn(c, e)' /\ Empty(e, c)'
    <3>1. PICK e \in Dev : IsQueuedOn(c, e) /\ Empty(e, c)
      BY <2>1, <2>11, <2>12, Zenon DEF ResultsDue
    <3>2. Empty(e, c)'
      <4>1. CASE Kind[e] = "wait"
        BY <2>1, <2>2, <3>1, <4>1, Zenon DEF Empty
      <4>2. CASE Kind[e] = "sem"
        <5>1. e # d
          BY <2>0, <2>1, <3>1, <4>2, Zenon DEF Probed, Empty
        <5>2. cnt'[e] = cnt[e]
          BY <1>2, <2>0, <5>1, CheckOneElsewhere, Zenon
        <5> QED
          BY <3>1, <4>2, <5>2, Zenon DEF Empty
      <4> QED
        BY <3>1, <4>1, <4>2, Zenon DEF Synchronous, Empty
    <3>3. IsQueuedOn(c, e)'
      <4>1. CASE c # p
        BY <2>7, <3>1, <4>1
      <4>2. CASE c = p
        <5>1. e = d
          BY <2>0, <3>1, <4>2, SMTT(30), Z3T(30), Zenon DEF IsQueuedOn, IInv, SleepersHaveOneWaker
        <5> QED
          BY <2>8, <3>1, <4>2, <5>1
      <4> QED
        BY <4>1, <4>2
    <3> QED
      BY <3>2, <3>3
  <2>13. sys'.ret = EAGAIN => \E e \in Dev : IsQueuedOn(sys.pid, e)' /\ Empty(e, sys.pid)'
    BY <2>11, <2>12, Zenon DEF IsQueuedOn, Empty
  <2> QED
    BY <2>1, <2>10, <2>13, Zenon DEF ResultsDue
<1>3. CASE CheckDone
  <2>1. /\ kpc = "check" /\ kpc' = "check" /\ UNCHANGED <<process_list, retval, cnt, reqs, sleep_left>>
        /\ sys'.pid = sys.pid /\ sys'.ret = sys.ret
    BY <1>3 DEF CheckDone, procVars, devVars, IInv, TypeOK, Frame
  <2>2. \A e \in Dev : \A q \in PID : IsQueuedOn(q, e)' <=> IsQueuedOn(q, e)
    BY <1>3, CheckDoneQueues, SMTT(30), Z3T(30), Zenon DEF IsQueuedOn
  <2>3. \A q \in PID : IsQueued(q)' <=> IsQueued(q)
    BY <2>2, Zenon DEF IsQueued, IsQueuedOn
  <2>4. PICK c \in PID : c = sys.pid /\ c = sys'.pid
    BY <1>0, <2>1
  <2>5. ASSUME sys'.ret = EAGAIN
        PROVE  \E e \in Dev : IsQueuedOn(c, e)' /\ Empty(e, c)'
    <3>1. PICK e \in Dev : IsQueuedOn(c, e) /\ Empty(e, c)
      BY <2>1, <2>4, <2>5, Zenon DEF ResultsDue
    <3> QED
      BY <2>1, <2>2, <3>1, Zenon DEF Empty
  <2>6. sys'.ret = EAGAIN => \E e \in Dev : IsQueuedOn(sys.pid, e)' /\ Empty(e, sys.pid)'
    BY <2>4, <2>5, Zenon DEF IsQueuedOn, Empty
  <2>7. \A q \in process_list' : ~IsQueued(q)' => retval'[q] = Done \/ (kpc' = "check" /\ q = sys'.pid)
    BY <1>0, <2>1, <2>3, Zenon DEF ResultsDue
  <2> QED
    BY <2>6, <2>7, Zenon DEF ResultsDue
<1>4. CASE Return
  <2>1. /\ kpc = "check" /\ sys.dev \notin Dev /\ UNCHANGED <<process_list, pending_request>>
        /\ retval' = IF sys.pid \in process_list THEN [retval EXCEPT ![sys.pid] = sys.ret] ELSE retval
        /\ sys'.ind = 0
        /\ \E must \in BOOLEAN : LeaveKernel(must)
    BY <1>4, Zenon DEF Return, procVars, NoSys
  <2>2. sys.ind = 0 /\ kpc' = "user"
    BY <2>1, LeaveKernelType, Zenon DEF IInv, SyscallFrame
  <2>3. \A q \in PID : IsQueued(q)' <=> IsQueued(q)
    BY <2>1, <2>2, SameQueues, Zenon
  <2>4. sys.ret = EAGAIN => IsQueued(sys.pid)
    BY <2>1, Zenon DEF ResultsDue, IsQueued, IsQueuedOn
  <2>5. ASSUME NEW q \in process_list', ~IsQueued(q)' PROVE retval'[q] = Done
    <3>1. q \in PID /\ q \in process_list /\ ~IsQueued(q)
      BY <1>0, <2>1, <2>3, <2>5
    <3>2. CASE q = sys.pid
      BY <1>0, <2>1, <2>4, <3>1, <3>2, Zenon
    <3>3. CASE q # sys.pid
      BY <1>0, <2>1, <3>1, <3>3, Zenon DEF ResultsDue
    <3> QED
      BY <3>2, <3>3
  <2> QED
    BY <2>2, <2>5, Zenon DEF ResultsDue
<1>5. CASE Tick
  <2>1. UNCHANGED <<process_list, pending_request, retval, cnt, reqs>>
    BY <1>5 DEF Tick, procVars
  <2>2. CASE kpc = "user" /\ Handled(current_process, retval[current_process],
                                     resche(current_process, Runnable))
    <3>1. /\ kpc' = "check" /\ sys'.ind = 0 /\ sys'.pid = current_process
          /\ sys'.ret = retval[current_process]
      BY <2>2, Zenon DEF Handled
    <3>2. current_process \in PID /\ User(current_process)
      BY <2>2, Zenon DEF User, IInv, TypeOK
    <3>3. current_process \in process_list /\ ~IsQueued(current_process) /\ sys.ind = 0
      BY <3>2, Running
    <3>4. \A q \in PID : IsQueued(q)' <=> IsQueued(q)
      BY <2>1, <3>1, <3>3, SameQueues, Zenon
    <3>5. \A q \in process_list : ~IsQueued(q) => retval[q] = Done
      BY <2>2, Zenon DEF ResultsDue
    <3> QED
      BY <1>0, <2>1, <3>1, <3>3, <3>4, <3>5, Zenon DEF ResultsDue
  <2>3. CASE ~(kpc = "user" /\ Handled(current_process, retval[current_process],
                                       resche(current_process, Runnable)))
    <3>1. /\ kpc' = IF kpc = "hlt" THEN "check" ELSE kpc
          /\ sys' = [sys EXCEPT !.ticks = IF kpc = "check" THEN @ + 1 ELSE @]
          /\ kpc \in {"user", "hlt", "check"}
      BY <1>5, <2>3 DEF Tick
    <3>2. /\ sys'.dev = sys.dev /\ sys'.ind = sys.ind /\ sys'.pid = sys.pid /\ sys'.ret = sys.ret
      BY <3>1 DEF IInv, TypeOK, Frame
    <3>3. /\ \A e \in Dev : Queued(e)' = Queued(e)
          /\ \A q \in PID : IsQueued(q)' <=> IsQueued(q)
      BY <2>1, <3>2, SameQueues, Zenon
    <3>4. \A e \in Dev : IsQueuedOn(sys.pid, e)' <=> IsQueuedOn(sys.pid, e)
      BY <2>1, <3>2, <3>3, Zenon DEF IsQueuedOn
    <3>5. \A e \in Dev : Empty(e, sys.pid)' <=> Empty(e, sys.pid)
      BY <2>1, <3>2, Zenon DEF Synchronous, Empty
    <3>6. \A q \in process_list' : ~IsQueued(q)' => retval'[q] = Done \/ (kpc' = "check" /\ q = sys'.pid)
      BY <1>0, <2>1, <3>1, <3>2, <3>3 DEF ResultsDue
    <3>7. kpc' \in {"check", "hlt"} /\ sys'.ret = EAGAIN =>
              \E e \in Dev : IsQueuedOn(sys.pid, e)' /\ Empty(e, sys.pid)'
      BY <3>1, <3>2, <3>4, <3>5 DEF ResultsDue
    <3> QED
      BY <3>6, <3>7, Zenon DEF ResultsDue
  <2> QED
    BY <2>2, <2>3
<1>6. CASE Halted \/ UNCHANGED vars
  <2>1. UNCHANGED <<process_list, retval, kpc, sys, pending_request, cnt, reqs, sleep_left>>
    BY <1>6, Zenon DEF Halted, vars, procVars, devVars
  <2> QED
    BY <2>1, SMTT(30), Z3T(30), Zenon DEF ResultsDue, IsQueued, IsQueuedOn, Queued, Empty
<1> QED
  BY <1>1, <1>2, <1>3, <1>4, <1>5, <1>6 DEF Next, Kernel

(* What holds with synchronous devices, in every reachable state. *)
LEMMA SyncInvariant == Synchronous => (Spec => [](IInv /\ SyncInv))
<1> SUFFICES ASSUME Synchronous PROVE Spec => [](IInv /\ SyncInv)
  OBVIOUS
<1>1. Init => SyncInv
  <2> SUFFICES ASSUME Init PROVE SyncInv
    OBVIOUS
  <2>1. kpc = "user" /\ \A p \in process_list : retval[p] = Done
    BY KernelAssumption, SMTT(30), Z3T(30), Zenon DEF Init, PID, Idle
  <2> QED
    BY <2>1, Zenon DEF SyncInv, ServedOnce, ResultsDue
<1>2. IInv /\ IInv' /\ SyncInv /\ [Next]_vars => SyncInv'
  BY NextServedOnce, NextResultsDue DEF SyncInv
<1> QED
  BY <1>1, <1>2, Invariant, PTL DEF Spec

(* With semaphores and :WAITPID only, a blocked read never comes back with
   -EAGAIN: check() does not serve the caller's own request before the
   handler's result is stored, and wakes nobody without a result. *)
THEOREM SyncReadsHaveResults == Synchronous => (Spec => []BlockingReadHasResult)
<1>1. IInv /\ SyncInv => BlockingReadHasResult
  <2> SUFFICES ASSUME IInv, SyncInv, kpc = "user" PROVE retval[current_process] # EAGAIN
    BY DEF BlockingReadHasResult
  <2>1. current_process \in PID /\ User(current_process)
    BY Zenon DEF IInv, TypeOK, User
  <2>2. current_process \in process_list /\ ~IsQueued(current_process)
    BY <2>1, Running
  <2> QED
    BY <2>2, Zenon DEF SyncInv, ResultsDue, Done, EAGAIN
<1> QED
  BY <1>1, SyncInvariant, PTL

(* With semaphores and :WAITPID only, pending_request never overflows its
   MAX_PROCESS_NUM entries, the one that check() appends again included. *)
THEOREM SyncQueuesFit == Synchronous => (Spec => []PendingInBounds)
<1>1. IInv /\ SyncInv => PendingInBounds
  <2> SUFFICES ASSUME IInv, SyncInv, NEW d \in Dev
               PROVE  Len(pending_request[d]) <= MAX_PROCESS_NUM
    BY DEF PendingInBounds
  <2> DEFINE q == pending_request[d]
  <2>1. q \in Seq(Request)
    BY Zenon DEF IInv, TypeOK
  <2>2. CASE d # sys.dev \/ sys.ind = 0
    <3>1. OncePerProcess(q, Len(q)) /\ \A i \in 1 .. Len(q) : q[i].proc # Idle
      BY <2>2, FreshQueue, Zenon
    <3> HIDE DEF q
    <3>2. Len(q) <= MAX_PROCESS_NUM - 1
      BY <2>1, <3>1, QueueFits
    <3> QED
      BY <2>1, <3>2, KernelAssumption DEF q
  <2>3. CASE d = sys.dev /\ sys.ind # 0
    <3>1. /\ \A i \in 1 .. Len(q) : q[i].proc # Idle
          /\ OncePerProcess(q, Len(q)) \/ OncePerProcess(q, Len(q) - 1)
      BY <2>3, Zenon DEF IInv, SyscallFrame, SyncInv, ServedOnce
    <3>2. Len(q) # 0
      <4>1. sys.ind \in Nat /\ sys.ind <= Len(q)
        BY <2>3, Zenon DEF IInv, TypeOK, Frame, SyscallFrame
      <4> HIDE DEF q
      <4> QED
        BY <2>1, <2>3, <4>1
    <3> HIDE DEF q
    <3>3. Len(q) \in Nat /\ Len(q) - 1 \in 0 .. Len(q) /\ Len(q) \in 0 .. Len(q)
      BY <2>1, <3>2
    <3>4. Len(q) <= MAX_PROCESS_NUM - 1 \/ Len(q) - 1 <= MAX_PROCESS_NUM - 1
      BY <2>1, <3>1, <3>3, QueueFits
    <3> QED
      BY <3>3, <3>4, KernelAssumption DEF q
  <2> QED
    BY <2>2, <2>3
<1> QED
  BY <1>1, SyncInvariant, PTL

(***************************************************************************)
(* :WAITPID delivers the exit code of the process that was asked for, for  *)
(* every number of processes and devices.                                  *)
(***************************************************************************)

(* KernelWait takes the steps of Kernel. *)
LEMMA WaitNextIsNext ==
    ASSUME [WaitNext]_allVars
    PROVE  [Next]_vars
<1>1. CASE UNCHANGED allVars
  BY <1>1 DEF allVars
<1>2. CASE WaitNext
  <2>1. CASE CheckOne \/ CheckDone \/ Return \/ Tick \/ Halted
    BY <2>1 DEF Next, Kernel
  <2>2. ASSUME NEW p \in PID, Syscall(p) PROVE Next
    BY <2>2 DEF Next
  <2>3. ASSUME NEW p \in PID, NEW d \in Dev,
               \/ \E t \in PID : WaitWrite(p, d, t)
               \/ \E size \in Size : Read(p, d, size)
               \/ Close(p, d) \/ SemWrite(p, d)
        PROVE  Syscall(p)
    BY <2>3 DEF Syscall
  <2>4. ASSUME NEW p \in PID,
               \/ \E code \in Code : Exit(p, code)
               \/ Fork(p) \/ Thread(p) \/ ExecFails(p) \/ Exec(p)
               \/ Yield(p) \/ Hlt(p) \/ Unregistered(p)
        PROVE  Syscall(p)
    BY <2>4 DEF Syscall
  <2> QED
    BY <1>2, <2>1, <2>2, <2>3, <2>4, Zenon DEF WaitNext
<1> QED
  BY <1>1, <1>2

(* The part of the invariant that is about one process *)
Agrees(p) ==
    /\ waits[p] # None => reqs[p].pid = waits[p] /\ waits[p] # Idle /\ buffer[p] = None
    /\ owed[p] # None => reqs[p].pid = 0 /\ reqs[p].status = owed[p]
    /\ owed[p] # None /\ buffer[p] # None => buffer[p] = owed[p]

(* ProcessWait::read stores a status only for a process that no longer waits,
   and then the one its request holds. *)
LEMMA StoreAgrees ==
    ASSUME WaitInv, NEW d \in Dev, NEW p \in PID, NEW size, Store(d, p, p, size), UNCHANGED reqs
    PROVE  /\ buffer' \in [PID -> Code \cup {None}]
           /\ waits' = waits /\ owed' = owed
           /\ \A q \in PID : Agrees(q)'
<1>1. /\ buffer \in [PID -> Code \cup {None}] /\ reqs \in [PID -> WaitRequest]
      /\ UNCHANGED <<waits, owed>>
      /\ \A q \in PID : Agrees(q)
  BY Zenon DEF WaitInv, WaitTypeOK, TypeOK, Store, Agrees
<1>2. CASE UNCHANGED buffer
  BY <1>1, <1>2, Zenon DEF Agrees
<1>3. CASE ~Empty(d, p) /\ Kind[d] = "wait" /\ buffer' = [buffer EXCEPT ![p] = reqs[p].status]
  <2>1. reqs[p].pid = 0
    BY <1>3, Zenon DEF Empty
  <2>2. reqs[p].status \in Code
    BY <1>1 DEF WaitRequest
  <2>3. waits[p] = None
    BY <1>1, <2>1, Zenon DEF Agrees, Idle
  <2> QED
    BY <1>1, <1>3, <2>1, <2>2, <2>3, Zenon DEF Agrees
<1> QED
  BY <1>2, <1>3, Zenon DEF Store

(* Every step keeps the invariant. *)
LEMMA NextWaitInv ==
    ASSUME WaitInv, [WaitNext]_allVars
    PROVE  WaitInv'
<1>0. /\ IInv /\ \A q \in PID : Agrees(q)
      /\ buffer \in [PID -> Code \cup {None}] /\ waits \in [PID -> PID \cup {None}]
      /\ owed \in [PID -> Code \cup {None}] /\ reqs \in [PID -> WaitRequest]
      /\ last_exit_code \in [PID -> Code] /\ 0 \in Code /\ Idle = 0
      /\ None \notin PID /\ None \notin Code
  <2>1. IInv /\ \A q \in PID : Agrees(q)
    BY Zenon DEF WaitInv, Agrees
  <2>2. /\ buffer \in [PID -> Code \cup {None}] /\ waits \in [PID -> PID \cup {None}]
        /\ owed \in [PID -> Code \cup {None}]
    BY Zenon DEF WaitInv, WaitTypeOK
  <2>3. reqs \in [PID -> WaitRequest] /\ last_exit_code \in [PID -> Code]
    BY <2>1, Zenon DEF IInv, TypeOK, WaitInv, WaitTypeOK
  <2>4. 0 \in Code /\ Idle = 0 /\ None \notin PID /\ None \notin Code
    BY KernelAssumption DEF Idle, None, PID
  <2> QED
    BY <2>1, <2>2, <2>3, <2>4, Zenon
<1>1. IInv' /\ TypeOK'
  BY <1>0, WaitNextIsNext, NextIInv DEF IInv
<1>2. SUFFICES /\ buffer' \in [PID -> Code \cup {None}] /\ waits' \in [PID -> PID \cup {None}]
               /\ owed' \in [PID -> Code \cup {None}]
               /\ \A q \in PID : Agrees(q)'
  BY <1>1, Zenon DEF WaitInv, WaitTypeOK, Agrees
<1>3. ASSUME NEW p \in PID, NEW d \in Dev, NEW t \in PID, WaitWrite(p, d, t), Ask(p, t)
      PROVE  /\ buffer' \in [PID -> Code \cup {None}] /\ waits' \in [PID -> PID \cup {None}]
             /\ owed' \in [PID -> Code \cup {None}]
             /\ \A q \in PID : Agrees(q)'
  <2> DEFINE lives == t \in process_list \ {Idle}
             code == IF t = Idle THEN 0 ELSE last_exit_code[t]
             req == IF t \in process_list THEN [pid |-> t, status |-> 0]
                                          ELSE [pid |-> 0, status |-> last_exit_code[t]]
  <2>1. /\ buffer' = [buffer EXCEPT ![p] = None]
        /\ waits' = [waits EXCEPT ![p] = IF lives THEN t ELSE None]
        /\ owed' = [owed EXCEPT ![p] = IF lives THEN None ELSE code]
        /\ reqs' = [reqs EXCEPT ![p] = req]
    BY <1>3, Zenon DEF Ask, WaitWrite
  <2>2. /\ code \in Code
        /\ lives => req.pid = t /\ t # Idle
        /\ ~lives => req.pid = 0 /\ req.status = code
    <3>1. Idle \in process_list
      BY <1>0, Zenon DEF IInv, IdleCanRun
    <3> QED
      BY <1>0, <3>1, Zenon
  <2> HIDE DEF lives, code, req
  <2>3. /\ buffer' \in [PID -> Code \cup {None}] /\ waits' \in [PID -> PID \cup {None}]
        /\ owed' \in [PID -> Code \cup {None}]
    BY <1>0, <2>1, <2>2, Zenon
  <2>4. \A q \in PID \ {p} : /\ buffer'[q] = buffer[q] /\ waits'[q] = waits[q]
                             /\ owed'[q] = owed[q] /\ reqs'[q] = reqs[q]
    BY <1>0, <2>1, Zenon
  <2>5. /\ buffer'[p] = None /\ waits'[p] = (IF lives THEN t ELSE None)
        /\ owed'[p] = (IF lives THEN None ELSE code) /\ reqs'[p] = req
    BY <1>0, <2>1
  <2>6. Agrees(p)'
    BY <2>2, <2>5, Zenon DEF Agrees
  <2>7. ASSUME NEW q \in PID \ {p} PROVE Agrees(q)'
    BY <1>0, <2>4, Zenon DEF Agrees
  <2> QED
    BY <2>3, <2>6, <2>7, Zenon
<1>4. ASSUME NEW p \in PID, NEW d \in Dev, NEW size \in Size, Read(p, d, size), Store(d, p, p, size)
      PROVE  /\ buffer' \in [PID -> Code \cup {None}] /\ waits' \in [PID -> PID \cup {None}]
             /\ owed' \in [PID -> Code \cup {None}]
             /\ \A q \in PID : Agrees(q)'
  <2>1. UNCHANGED reqs
    BY <1>4, Zenon DEF Read, do_read, readEffect
  <2> QED
    BY <1>0, <1>4, <2>1, StoreAgrees
<1>5. ASSUME NEW p \in PID, NEW code \in Code, Exit(p, code), Died(p, code)
      PROVE  /\ buffer' \in [PID -> Code \cup {None}] /\ waits' \in [PID -> PID \cup {None}]
             /\ owed' \in [PID -> Code \cup {None}]
             /\ \A q \in PID : Agrees(q)'
  <2>1. p # Idle
    BY <1>0, <1>5, Zenon DEF Exit, Free, IInv, IdleCanRun
  <2>2. /\ buffer' = [buffer EXCEPT ![p] = None]
        /\ waits' = [q \in PID |-> IF q = p \/ waits[q] = p THEN None ELSE waits[q]]
        /\ owed' = [q \in PID |-> IF q = p THEN None
                                  ELSE IF waits[q] = p THEN code ELSE owed[q]]
        /\ reqs' = [q \in PID |-> IF reqs[q].pid = p THEN [pid |-> 0, status |-> code] ELSE reqs[q]]
    BY <1>5, Zenon DEF Died, Exit, processExit
  <2>3. /\ buffer' \in [PID -> Code \cup {None}] /\ waits' \in [PID -> PID \cup {None}]
        /\ owed' \in [PID -> Code \cup {None}]
    BY <1>0, <2>2, Zenon
  <2>4. ASSUME NEW q \in PID PROVE Agrees(q)'
    <3>1. CASE q = p
      BY <1>0, <2>2, <3>1, Zenon DEF Agrees
    <3>2. CASE q # p /\ waits[q] = p
      <4>1. buffer[q] = None /\ reqs[q].pid = p
        BY <1>0, <3>2, Zenon DEF Agrees
      <4> QED
        BY <1>0, <2>2, <3>2, <4>1, Zenon DEF Agrees
    <3>3. CASE q # p /\ waits[q] # p
      <4>1. /\ buffer'[q] = buffer[q] /\ waits'[q] = waits[q] /\ owed'[q] = owed[q]
            /\ reqs'[q] = IF reqs[q].pid = p THEN [pid |-> 0, status |-> code] ELSE reqs[q]
        BY <1>0, <2>2, <3>3, SMTT(60), Z3T(60), Zenon
      <4>2. waits[q] # None \/ owed[q] # None => reqs'[q] = reqs[q]
        BY <1>0, <2>1, <3>3, <4>1, Zenon DEF Agrees
      <4> QED
        BY <1>0, <4>1, <4>2, Zenon DEF Agrees
    <3> QED
      BY <3>1, <3>2, <3>3
  <2> QED
    BY <2>3, <2>4
<1>6. ASSUME CheckOne,
             LET now == pending_request[sys.dev][sys.ind + 1] IN
             Store(sys.dev, current_process', now.proc, now.size)
      PROVE  /\ buffer' \in [PID -> Code \cup {None}] /\ waits' \in [PID -> PID \cup {None}]
             /\ owed' \in [PID -> Code \cup {None}]
             /\ \A q \in PID : Agrees(q)'
  <2>1. PICK d \in Dev, p \in PID :
            d = sys.dev /\ p = pending_request[sys.dev][sys.ind + 1].proc
    <3>1. sys.dev \in Dev
      BY <1>6, Zenon DEF CheckOne
    <3>2. current_process' = pending_request[sys.dev][sys.ind + 1].proc
      BY <1>6, Zenon DEF CheckOne
    <3>3. current_process' \in PID
      BY <1>1, Zenon DEF TypeOK
    <3> QED
      BY <3>1, <3>2, <3>3, Zenon
  <2> DEFINE size == pending_request[sys.dev][sys.ind + 1].size
  <2>2. Store(d, p, p, size)
    BY <1>6, <2>1, Zenon DEF CheckOne
  <2>3. UNCHANGED reqs
    BY <1>6, Zenon DEF CheckOne, do_read, readEffect
  <2> HIDE DEF size
  <2> QED
    BY <1>0, <2>1, <2>2, <2>3, StoreAgrees, Zenon
<1>7. ASSUME UNCHANGED <<buffer, waits, owed, reqs>>
      PROVE  /\ buffer' \in [PID -> Code \cup {None}] /\ waits' \in [PID -> PID \cup {None}]
             /\ owed' \in [PID -> Code \cup {None}]
             /\ \A q \in PID : Agrees(q)'
  BY <1>0, <1>7, Zenon DEF Agrees
<1>8. CASE UNCHANGED allVars
  BY <1>7, <1>8, Zenon DEF allVars, waitVars, vars, devVars
<1>9. CASE UNCHANGED waitVars /\ (CheckDone \/ Return \/ Tick \/ Halted)
  BY <1>7, <1>9 DEF CheckDone, Return, Tick, Halted, vars, waitVars, devVars
<1>10. ASSUME NEW p \in PID, UNCHANGED waitVars,
              \/ Fork(p) \/ Thread(p) \/ ExecFails(p) \/ Exec(p)
              \/ Yield(p) \/ Hlt(p) \/ Unregistered(p)
              \/ \E d \in Dev : Close(p, d) \/ SemWrite(p, d)
       PROVE  UNCHANGED reqs
  <2>1. CASE Fork(p) \/ Thread(p)
    BY <2>1, Zenon DEF Fork, Thread, clone, Panic, devVars
  <2>2. CASE ExecFails(p) \/ Exec(p) \/ Yield(p) \/ Hlt(p) \/ Unregistered(p)
    BY <2>2, Zenon DEF ExecFails, Exec, Yield, Hlt, Unregistered, devVars
  <2>3. CASE \E d \in Dev : Close(p, d) \/ SemWrite(p, d)
    BY <2>3, Zenon DEF Close, SemWrite, devVars
  <2> QED
    BY <1>10, <2>1, <2>2, <2>3, Zenon
<1> QED
  BY <1>3, <1>4, <1>5, <1>6, <1>7, <1>8, <1>9, <1>10, Zenon DEF WaitNext, waitVars

(* KernelWait's own invariant, and with it that of Kernel. *)
THEOREM WaitInvariant == WaitSpec => []WaitInv
<1>1. WaitInit => WaitInv
  <2> SUFFICES ASSUME WaitInit PROVE WaitInv
    OBVIOUS
  <2>1. IInv
    BY InitIInv DEF WaitInit
  <2> QED
    BY <2>1, Zenon DEF WaitInit, WaitInv, WaitTypeOK, IInv
<1>2. WaitInv /\ [WaitNext]_allVars => WaitInv'
  BY NextWaitInv
<1> QED
  BY <1>1, <1>2, PTL DEF WaitSpec

(* A read of :WAITPID reports the exit, and the exit code, of the very process
   that was asked for, whatever process uses its slot later and whichever is
   current while check() serves the request. *)
THEOREM WaitersLearnTheStatus == WaitSpec => []WaitStatus
<1>1. WaitInv => WaitStatus
  BY Zenon DEF WaitInv, WaitStatus, IInv, TypeOK
<1> QED
  BY <1>1, WaitInvariant, PTL
=============================================================================
