------------------------------- MODULE Kernel -------------------------------
(***************************************************************************)
(* The kernel's core: the process table, the scheduler, the system call    *)
(* path and the blocking devices (semaphores, :WAITPID and :SLEEP).        *)
(*                                                                         *)
(* The kernel is one thread, entered by `int 0x80` through a task gate.    *)
(* Interrupts stay enabled while a system call runs, so a system call is a *)
(* sequence of steps between which the timer may fire: the handler, one    *)
(* iteration of BlockInputDeviceWrapper::check at a time, and the return.  *)
(* Which system call a process makes next is up to the process, except for *)
(* pid 0, which runs user/hlt/hlt.c.                                       *)
(***************************************************************************)
EXTENDS Integers, Sequences

CONSTANTS
    MAX_PROCESS_NUM,  \* slots of the process table
    PROCESS_TICKS,    \* timer ticks in a time slice
    Kind,             \* kind of each blocking device, in checkAll's order
    Code,             \* exit codes
    Size,             \* byte counts passed to read()
    MaxSleep,         \* longest sleep, in ticks
    SemInit,          \* initial count of every semaphore
    SemMax,           \* bound on a semaphore's count
    MaxKernelTicks,   \* most timer ticks that fall into one system call
    ArmThenRead       \* do programs read :SLEEP and :WAITPID right after
                      \* writing them, as user/sleep, user/sh and user/thread do?

PID == 0 .. MAX_PROCESS_NUM - 1
Dev == 1 .. Len(Kind)
None == -1

(* Process 0 is the idle process, as long as it lives. *)
Idle == 0

(* What a system call returns: -EAGAIN, or anything else. *)
EAGAIN == "EAGAIN"
Done == "done"
Result == {EAGAIN, Done}

ASSUME KernelAssumption ==
    /\ MAX_PROCESS_NUM \in Nat \ {0}
    /\ PROCESS_TICKS \in Nat \ {0}
    /\ Kind \in Seq({"sem", "wait", "sleep"})
    /\ Code \subseteq Nat /\ 0 \in Code
    /\ Size \subseteq Nat
    /\ MaxSleep \in Nat
    /\ SemInit \in Int /\ SemMax \in Int /\ SemInit <= SemMax
    /\ MaxKernelTicks \in Nat
    /\ ArmThenRead \in BOOLEAN

VARIABLES
    process_list,    \* the slots that hold a process
    process_state,
    ppid,
    stack_backup,    \* does the process hold a backup of its stack top?
    current_process,
    retval,          \* what syscall_set_retval last left in the process's eax
    resche_counter,
    kpc,             \* where the CPU is: "user", "hlt" (inside hlt_handler),
                     \* "check" (inside checkAll), "panic", or "kernel" (the
                     \* last process is gone, back in enter_init)
    sys,             \* locals of real_syscall_handler, checkAll and check
    pending_request, \* per device: the blocked reads
    cnt,             \* per semaphore: its count
    reqs,            \* per process: its :WAITPID request (pid 0: none)
    last_exit_code,
    sleep_left,      \* process_sleep_until - pit_ticks, or 0 when that is past
    booted,          \* has pid 0 forked yet?
    arming,          \* per process: the device it wrote and will read next
    onStackOf        \* history: whose stack a forked process still runs on

procVars == <<process_list, process_state, ppid, stack_backup>>
devVars == <<cnt, reqs, last_exit_code, sleep_left>>
progVars == <<booted, arming, onStackOf>>
vars == <<procVars, current_process, retval, resche_counter, kpc, sys,
          pending_request, devVars, progVars>>

RUNNABLE == "RUNNABLE"
SLEEPING == "SLEEPING"
NoSys == [pid |-> Idle, ret |-> Done, dev |-> 1, ind |-> 0, running |-> Idle, ticks |-> 0]
Request == [proc : PID, size : Size]
WaitRequest == [pid : PID, status : Code]
Frame == [pid : PID, ret : Result, dev : 1 .. Len(Kind) + 1, ind : Nat,
          running : PID, ticks : 0 .. MaxKernelTicks]

TypeOK ==
    /\ process_list \in SUBSET PID
    /\ process_state \in [PID -> {RUNNABLE, SLEEPING}]
    /\ ppid \in [PID -> PID \cup {None}]
    /\ stack_backup \in [PID -> BOOLEAN]
    /\ current_process \in PID
    /\ retval \in [PID -> Result]
    /\ resche_counter \in 0 .. PROCESS_TICKS
    /\ kpc \in {"user", "hlt", "check", "panic", "kernel"}
    /\ sys \in Frame
    /\ pending_request \in [Dev -> Seq(Request)]
    /\ cnt \in [Dev -> Int]
    /\ reqs \in [PID -> WaitRequest]
    /\ last_exit_code \in [PID -> Code]
    /\ sleep_left \in [PID -> 0 .. MaxSleep]
    /\ booted \in BOOLEAN
    /\ arming \in [PID -> Dev \cup {None}]
    /\ onStackOf \in [PID -> PID \cup {None}]

(* enter_init has loaded /bin/hlt.elf as process 0 and jumped to it.
   last_exit_code is never initialised. *)
Init ==
    /\ process_list = {Idle}
    /\ process_state = [p \in PID |-> RUNNABLE]
    /\ ppid = [p \in PID |-> None]
    /\ stack_backup = [p \in PID |-> FALSE]
    /\ current_process = Idle
    /\ retval = [p \in PID |-> Done]
    /\ resche_counter = PROCESS_TICKS
    /\ kpc = "user"
    /\ sys = NoSys
    /\ pending_request = [d \in Dev |-> <<>>]
    /\ cnt = [d \in Dev |-> SemInit]
    /\ reqs = [p \in PID |-> [pid |-> 0, status |-> 0]]
    /\ last_exit_code \in [PID -> Code]
    /\ sleep_left = [p \in PID |-> 0]
    /\ booted = FALSE
    /\ arming = [p \in PID |-> None]
    /\ onStackOf = [p \in PID |-> None]

-----------------------------------------------------------------------------
(* resche.cpp *)

Runnable == {p \in process_list : process_state[p] = RUNNABLE}

(* The member of S that a walk over the table meets first, starting in the
   slot after slot cur and wrapping around. *)
Walk(cur, q) == (q - cur - 1) % MAX_PROCESS_NUM
FirstSlot(cur, S) == CHOOSE q \in S : \A r \in S : q <= r \* mutant: no rotation
FirstAfter(cur, S) == CHOOSE q \in S : \A r \in S : Walk(cur, q) <= Walk(cur, r)

(* resche(): round robin over the runnable processes, the idle one last. *)
resche(cur, S) == IF S \ {Idle} # {} THEN FirstAfter(cur, S \ {Idle}) ELSE FirstAfter(cur, S)

(* The end of real_syscall_handler: reschedule if asked to, or if the time
   slice ran out meanwhile, and load the chosen process's registers. With
   nothing left to run, resche() leaves for enter_init and never returns. *)
LeaveKernelAnyway(must) == \* mutant: the caller's state is not looked at
    /\ kpc' = "user"
    /\ IF resche_counter = 0
       THEN /\ current_process' = resche(current_process, Runnable)
            /\ resche_counter' = PROCESS_TICKS
       ELSE UNCHANGED <<current_process, resche_counter>>
LeaveKernel(must) ==
    IF must \/ resche_counter = 0
    THEN IF Runnable = {}
         THEN kpc' = "kernel" /\ UNCHANGED <<current_process, resche_counter>>
         ELSE /\ kpc' = "user"
              /\ current_process' = resche(current_process, Runnable)
              /\ resche_counter' = PROCESS_TICKS
    ELSE kpc' = "user" /\ UNCHANGED <<current_process, resche_counter>>

-----------------------------------------------------------------------------
(* System calls. p is the process that makes the call. *)

User(p) == kpc = "user" /\ current_process = p

(* A process whose program may make any system call: not pid 0, and not the
   child that pid 0 forked, which only execs, or exits when that fails. A
   disciplined program makes no call between writing :SLEEP or :WAITPID and
   reading it. *)
Free(p) == User(p) /\ p # Idle /\ onStackOf[p] # Idle /\ arming[p] = None

(* The handler is done: it returned ret, and cur is the current process.
   checkAll() comes next. *)
Handled(p, ret, cur) ==
    /\ kpc' = "check"
    /\ current_process' = cur
    /\ sys' = [pid |-> p, ret |-> ret, dev |-> 1, ind |-> 0, running |-> cur,
               ticks |-> 0]

(* An exception left the handler, or an assertion failed: panic(). *)
Panic ==
    /\ kpc' = "panic"
    /\ UNCHANGED <<procVars, current_process, retval, resche_counter, sys,
                   pending_request, devVars, progVars>>

(* Process::Process takes the lowest free slot. *)
FreeSlot == CHOOSE c \in PID \ process_list : \A q \in PID \ process_list : c <= q

(* Process::clone. A forked child (keepStack) runs on the parent's stack, and
   the parent backs the top of it up and sleeps; a thread has its own. *)
clone(p, keepStack) ==
    IF stack_backup[p] \/ process_list = PID
    THEN Panic
    ELSE LET c == FreeSlot IN
         /\ process_list' = process_list \cup {c}
         /\ process_state' = [process_state EXCEPT
                ![c] = RUNNABLE, ![p] = IF keepStack THEN SLEEPING ELSE @]
         /\ ppid' = [ppid EXCEPT ![c] = p]
         /\ stack_backup' = [stack_backup EXCEPT ![c] = FALSE, ![p] = keepStack]
         /\ retval' = [retval EXCEPT ![c] = Done]
         /\ onStackOf' = [onStackOf EXCEPT ![c] = IF keepStack THEN p ELSE None]
         /\ booted' = TRUE
         /\ Handled(p, Done, c)
         /\ UNCHANGED <<resche_counter, pending_request, cnt, reqs, last_exit_code,
                        sleep_left, arming>>

Fork(p) ==
    /\ (User(p) /\ p = Idle /\ ~booted) \/ Free(p)
    /\ clone(p, TRUE)

Thread(p) == Free(p) /\ clone(p, FALSE)

(* Process::restoreStack on slot q, if there is a process in it and it holds
   a backup: its stack is as it was at the fork, and it may run again. *)
Restorable(q) == q # None /\ q \in process_list /\ stack_backup[q]
restoreStackAsleep(q) == \* mutant: the process is not made runnable
    /\ stack_backup' = IF Restorable(q) THEN [stack_backup EXCEPT ![q] = FALSE] ELSE stack_backup
    /\ UNCHANGED process_state
restoreStackAgain(q) == \* mutant: the backup is not released
    /\ process_state' = IF Restorable(q) THEN [process_state EXCEPT ![q] = RUNNABLE]
                                         ELSE process_state
    /\ UNCHANGED stack_backup
restoreStack(q) ==
    IF Restorable(q)
    THEN /\ stack_backup' = [stack_backup EXCEPT ![q] = FALSE]
         /\ process_state' = [process_state EXCEPT ![q] = RUNNABLE]
    ELSE UNCHANGED <<stack_backup, process_state>>

(* BlockInputDeviceWrapper::onRemovedByOwner, when p drops device d. *)
onRemovedByOwner(q, p) ==
    LET own == {i \in 1 .. Len(q) : q[i].proc = p}
        owner_pos == CHOOSE i \in own : \A j \in own : i <= j IN
    IF own = {} THEN q
    ELSE [i \in 1 .. Len(q) - 1 |-> q[IF i < owner_pos THEN i ELSE i + 1]]
Drop(p, devs) ==
    pending_request' = [d \in Dev |-> IF d \in devs THEN onRemovedByOwner(pending_request[d], p)
                                                    ELSE pending_request[d]]

(* execv: nothing happens when there is no such program, or it is invalid.
   Otherwise the objects outside the keep bitmap are dropped, and the process
   in the parent's slot gets its stack back. *)
ExecFails(p) ==
    /\ Free(p) \/ (User(p) /\ onStackOf[p] = Idle)
    /\ Handled(p, Done, p)
    /\ UNCHANGED <<procVars, retval, resche_counter, pending_request, devVars, progVars>>

Exec(p) ==
    /\ Free(p) \/ (User(p) /\ onStackOf[p] = Idle)
    /\ \E dropped \in SUBSET Dev : Drop(p, dropped)
    /\ restoreStack(ppid[p])
    /\ onStackOf' = [onStackOf EXCEPT ![p] = None]
    /\ Handled(p, Done, p)
    /\ UNCHANGED <<process_list, ppid, retval, resche_counter, devVars, booted, arming>>

(* ProcessWait::processExit *)
processExitStale(p, code) == \* mutant: the waiters' status is not filled in
    /\ last_exit_code' = [last_exit_code EXCEPT ![p] = code]
    /\ reqs' = [q \in PID |-> IF reqs[q].pid = p THEN [reqs[q] EXCEPT !.pid = 0] ELSE reqs[q]]
processExit(p, code) ==
    /\ last_exit_code' = [last_exit_code EXCEPT ![p] = code]
    /\ reqs' = [q \in PID |-> IF reqs[q].pid = p THEN [pid |-> 0, status |-> code] ELSE reqs[q]]

(* Process::deleteProcess and ~Process *)
Exit(p, code) ==
    /\ Free(p) \/ (User(p) /\ onStackOf[p] = Idle)
    /\ process_list' = process_list \ {p}
    /\ Drop(p, Dev)
    /\ restoreStack(ppid[p])
    /\ processExit(p, code)
    /\ ppid' = [ppid EXCEPT ![p] = None]
    /\ onStackOf' = [onStackOf EXCEPT ![p] = None]
    /\ retval' = [retval EXCEPT ![p] = Done]
    /\ Handled(p, Done, p)
    /\ UNCHANGED <<resche_counter, cnt, sleep_left, booted, arming>>

(* sched_yield_handler: the current process changes before checkAll(). *)
Yield(p) ==
    /\ Free(p)
    /\ Handled(p, Done, resche(p, Runnable))
    /\ resche_counter' = PROCESS_TICKS
    /\ UNCHANGED <<procVars, retval, pending_request, devVars, progVars>>

(* hlt_handler: the idle process stops the CPU until the next interrupt. *)
Hlt(p) ==
    /\ User(p) /\ p = Idle /\ booted
    /\ kpc' = "hlt"
    /\ sys' = [NoSys EXCEPT !.pid = p, !.running = p]
    /\ UNCHANGED <<procVars, current_process, retval, resche_counter,
                   pending_request, devVars, progVars>>

(* close, and dup2 over an open device. The calls that touch nothing of this
   state (open, readdir, write to a terminal) look like the close of a device
   on which the caller has no request. *)
Close(p, d) ==
    /\ Free(p)
    /\ Drop(p, {d})
    /\ Handled(p, Done, p)
    /\ UNCHANGED <<procVars, retval, resche_counter, devVars, progVars>>

(* A number without a handler: neither checkAll() nor a return value. *)
Unregistered(p) ==
    /\ Free(p)
    /\ LeaveKernel(FALSE)
    /\ UNCHANGED <<procVars, retval, sys, pending_request, devVars, progVars>>

-----------------------------------------------------------------------------
(* The devices: Semaphore, ProcessWait and SleepDevice *)

(* Does input->read on device d return -EAGAIN, in the name of process cur? *)
EmptyEarly(d, cur) == \* mutant: a tick too early
    \/ Kind[d] = "sem"   /\ cnt[d] <= 0
    \/ Kind[d] = "wait"  /\ reqs[cur].pid # 0
    \/ Kind[d] = "sleep" /\ sleep_left[cur] > 1
EmptyAtZero(d, cur) == \* mutant: >= for >
    \/ Kind[d] = "sem"   /\ cnt[d] <= 0
    \/ Kind[d] = "wait"  /\ reqs[cur].pid # 0
    \/ Kind[d] = "sleep" /\ sleep_left[cur] >= 0
Empty(d, cur) ==
    \/ Kind[d] = "sem"   /\ cnt[d] <= 0
    \/ Kind[d] = "wait"  /\ reqs[cur].pid # 0
    \/ Kind[d] = "sleep" /\ sleep_left[cur] > 0
readResult(d, cur) == IF Empty(d, cur) THEN EAGAIN ELSE Done

(* What that read changes: it takes a unit of a semaphore, unless its size is
   0. (The status a :WAITPID read stores is in KernelWait.) *)
readEffect(d, cur, size) ==
    /\ cnt' = IF Kind[d] = "sem" /\ ~Empty(d, cur) /\ size # 0
              THEN [cnt EXCEPT ![d] = @ - 1] ELSE cnt
    /\ UNCHANGED <<reqs, last_exit_code, sleep_left>>

(* BlockInputDeviceWrapper::do_read for process p: on -EAGAIN the request is
   queued and p sleeps. Otherwise p is runnable: it is running, or check() has
   just made it so. *)
do_readAwake(d, p, size) == \* mutant: the process does not go to sleep
    /\ readEffect(d, p, size)
    /\ pending_request' = IF Empty(d, p)
           THEN [pending_request EXCEPT ![d] = Append(@, [proc |-> p, size |-> size])]
           ELSE pending_request
    /\ process_state' = [process_state EXCEPT ![p] = RUNNABLE]
do_read(d, p, size) ==
    /\ readEffect(d, p, size)
    /\ pending_request' = IF Empty(d, p)
           THEN [pending_request EXCEPT ![d] = Append(@, [proc |-> p, size |-> size])]
           ELSE pending_request
    /\ process_state' = [process_state EXCEPT ![p] = IF Empty(d, p) THEN SLEEPING ELSE RUNNABLE]

Read(p, d, size) ==
    /\ Free(p) \/ (User(p) /\ arming[p] = d)
    /\ arming' = [arming EXCEPT ![p] = None]
    /\ do_read(d, p, size)
    /\ Handled(p, readResult(d, p), p)
    /\ UNCHANGED <<process_list, ppid, stack_backup, retval, resche_counter, booted, onStackOf>>

SemWrite(p, d) ==
    /\ Free(p) /\ Kind[d] = "sem" /\ cnt[d] < SemMax
    /\ cnt' = [cnt EXCEPT ![d] = @ + 1]
    /\ Handled(p, Done, p)
    /\ UNCHANGED <<procVars, retval, resche_counter, pending_request, reqs,
                   last_exit_code, sleep_left, progVars>>

arm(p, d) == arming' = IF ArmThenRead THEN [arming EXCEPT ![p] = d] ELSE arming

(* ProcessWait::write: ask for the exit status of process t. *)
WaitWrite(p, d, t) ==
    /\ Free(p) /\ Kind[d] = "wait"
    /\ reqs' = [reqs EXCEPT ![p] =
           IF t \in process_list THEN [pid |-> t, status |-> 0]
                                 ELSE [pid |-> 0, status |-> last_exit_code[t]]]
    /\ arm(p, d)
    /\ Handled(p, Done, p)
    /\ UNCHANGED <<procVars, retval, resche_counter, pending_request, cnt,
                   last_exit_code, sleep_left, booted, onStackOf>>

(* SleepDevice::write *)
SleepWrite(p, d, ms) ==
    /\ Free(p) /\ Kind[d] = "sleep"
    /\ sleep_left' = [sleep_left EXCEPT ![p] = ms]
    /\ arm(p, d)
    /\ Handled(p, Done, p)
    /\ UNCHANGED <<procVars, retval, resche_counter, pending_request, cnt, reqs,
                   last_exit_code, booted, onStackOf>>

-----------------------------------------------------------------------------
(* BlockInputDeviceWrapper::check, an iteration at a time, and the return *)

ProbedButLast == \* mutant: the last request is left out
    ~Empty(sys.dev, current_process) /\ sys.ind + 1 < Len(pending_request[sys.dev])
Probed == ~Empty(sys.dev, current_process)

(* One iteration: the probe is made in the name of whoever is current, the
   running process at first and the last one served after that. *)
CheckOne ==
    /\ kpc = "check" /\ sys.dev \in Dev
    /\ sys.ind < Len(pending_request[sys.dev]) /\ Probed
    /\ LET now == pending_request[sys.dev][sys.ind + 1] IN
       /\ do_read(sys.dev, now.proc, now.size)
       /\ current_process' = now.proc
       /\ retval' = [retval EXCEPT ![now.proc] = readResult(sys.dev, now.proc)]
    /\ sys' = [sys EXCEPT !.ind = @ + 1]
    /\ UNCHANGED <<process_list, ppid, stack_backup, resche_counter, kpc, progVars>>

(* The loop is over: drop what was handled, go on to the next device. *)
CheckDoneElsewhere == \* mutant: the current process is not put back
    /\ kpc = "check" /\ sys.dev \in Dev
    /\ ~(sys.ind < Len(pending_request[sys.dev]) /\ Probed)
    /\ pending_request' = [pending_request EXCEPT ![sys.dev] = SubSeq(@, sys.ind + 1, Len(@))]
    /\ sys' = [sys EXCEPT !.dev = @ + 1, !.ind = 0]
    /\ UNCHANGED <<procVars, current_process, retval, resche_counter, kpc, devVars, progVars>>
CheckDone ==
    /\ kpc = "check" /\ sys.dev \in Dev
    /\ ~(sys.ind < Len(pending_request[sys.dev]) /\ Probed)
    /\ pending_request' = [pending_request EXCEPT ![sys.dev] = SubSeq(@, sys.ind + 1, Len(@))]
    /\ current_process' = sys.running
    /\ sys' = [sys EXCEPT !.dev = @ + 1, !.ind = 0]
    /\ UNCHANGED <<procVars, retval, resche_counter, kpc, devVars, progVars>>

(* The rest of real_syscall_handler. *)
Return ==
    /\ kpc = "check" /\ sys.dev \notin Dev
    /\ LET alive == sys.pid \in process_list IN
       /\ retval' = IF alive THEN [retval EXCEPT ![sys.pid] = sys.ret] ELSE retval
       /\ LeaveKernel(~alive \/ process_state[sys.pid] # RUNNABLE)
    /\ sys' = NoSys
    /\ UNCHANGED <<procVars, pending_request, devVars, progVars>>

-----------------------------------------------------------------------------
(* The time slice counts down to 0 and stays there. *)
Countdown == IF resche_counter > 0 THEN resche_counter - 1 ELSE 0

(* timer_handler and resche_tick. In user mode, at the end of the time slice,
   the handler makes a sched_yield call in the process's name; the register
   that call returns in is restored when the handler ends. *)
Tick ==
    /\ kpc \in {"user", "hlt"} \/ (kpc = "check" /\ sys.ticks < MaxKernelTicks)
    /\ sleep_left' = [p \in PID |-> IF sleep_left[p] > 0 THEN sleep_left[p] - 1 ELSE 0]
    /\ IF kpc = "user" /\ Countdown = 0
       THEN /\ Handled(current_process, retval[current_process],
                       resche(current_process, Runnable))
            /\ resche_counter' = PROCESS_TICKS
       ELSE /\ resche_counter' = Countdown
            /\ kpc' = IF kpc = "hlt" THEN "check" ELSE kpc
            /\ sys' = [sys EXCEPT !.ticks = IF kpc = "check" THEN @ + 1 ELSE @]
            /\ UNCHANGED current_process
    /\ UNCHANGED <<procVars, retval, pending_request, cnt, reqs, last_exit_code, progVars>>

(* panic() halts for good, and so does main once enter_init returns. *)
Halted == kpc \in {"panic", "kernel"} /\ UNCHANGED vars

Syscall(p) ==
    \/ Fork(p) \/ Thread(p) \/ ExecFails(p) \/ Exec(p) \/ Yield(p) \/ Hlt(p) \/ Unregistered(p)
    \/ \E code \in Code : Exit(p, code)
    \/ \E d \in Dev :
          \/ Close(p, d)
          \/ \E size \in Size : Read(p, d, size)
          \/ SemWrite(p, d)
          \/ \E t \in PID : WaitWrite(p, d, t)
          \/ \E ms \in 0 .. MaxSleep : SleepWrite(p, d, ms)

Kernel == CheckOne \/ CheckDone \/ Return

Next == Kernel \/ Tick \/ Halted \/ \E p \in PID : Syscall(p)

(* The processor keeps executing the kernel, and the timer keeps firing. *)
Fairness == WF_vars(Kernel) /\ WF_vars(Tick)

Spec == Init /\ [][Next]_vars /\ Fairness

-----------------------------------------------------------------------------
(* Properties *)

(* The requests of device d that check() has not handled yet. *)
Queued(d) == {i \in 1 .. Len(pending_request[d]) : d = sys.dev => i > sys.ind}
IsQueued(p) == \E d \in Dev : \E i \in Queued(d) : pending_request[d][i].proc = p

(* Nobody sleeps for good, and nobody is woken twice: a process sleeps exactly
   when it is queued on a device or its stack is backed up, never both, and
   it is queued at most once over all devices. Process::process_state is one
   flag shared by fork and by every blocking device. *)
SleepersHaveOneWaker ==
    /\ \A p \in process_list :
          /\ process_state[p] = SLEEPING <=> stack_backup[p] \/ IsQueued(p)
          /\ ~(stack_backup[p] /\ IsQueued(p))
    /\ \A d, e \in Dev : \A i \in Queued(d), j \in Queued(e) :
          pending_request[d][i].proc = pending_request[e][j].proc => d = e /\ i = j

(* A queued PendingRead points to a process that still exists: its raw
   Process* is never left dangling by exit. *)
RequestsAreLive ==
    \A d \in Dev : \A i \in Queued(d) : pending_request[d][i].proc \in process_list

(* The wake-up of a forking parent is never lost: as long as its stack is
   backed up, a child that still runs on that stack is there to exec or exit. *)
ParentHasChild ==
    \A p \in PID : stack_backup[p] =>
        /\ p \in process_list
        /\ \E c \in process_list \ {p} : onStackOf[c] = p /\ ppid[c] = p

(* resche() always finds a process to run, and the one that runs in user mode
   exists and is runnable: the kernel never falls back into enter_init. *)
SomeoneRuns ==
    /\ kpc # "kernel"
    /\ kpc = "user" => current_process \in Runnable

(* The assertion of Process::clone: whoever is in user mode, and so might
   fork, holds no backup of its stack. *)
CleanForkStack == kpc = "user" => ~stack_backup[current_process]

(* No lost signal: back in user mode, nobody waits on a semaphore that has a
   unit left. *)
NoLostSignal ==
    kpc = "user" => \A d \in Dev :
        Kind[d] = "sem" /\ cnt[d] > 0 => pending_request[d] = <<>>

(* The array of MAX_PROCESS_NUM requests never overflows, not even while
   check() appends a request again before it drops the handled ones. *)
PendingInBounds == \A d \in Dev : Len(pending_request[d]) <= MAX_PROCESS_NUM

(* check() never wakes a process from :SLEEP before its time. *)
SleepsLongEnough ==
    [][\A d \in Dev : \A i \in Queued(d) :
          LET p == pending_request[d][i].proc IN
          Kind[d] = "sleep" /\ process_state'[p] = RUNNABLE => sleep_left[p] = 0]_vars

(* A process blocked by read() comes back with a result and never with
   -EAGAIN, which says that there is no data. *)
BlockingReadHasResult == kpc = "user" => retval[current_process] # EAGAIN

(* The parent of a forked process sleeps until that process execs or exits. *)
ParentKeepsSleeping ==
    \A c \in process_list : onStackOf[c] # None => stack_backup[onStackOf[c]]

(* The idle process runs only when no other process can. *)
IdleOnlyWhenIdle == kpc = "user" /\ current_process = Idle => Runnable = {Idle}

(* Round robin starves nobody: a runnable process other than the idle one gets
   the CPU, unless processes are created forever (resche() starts at the slot
   of the newest process, which skips the slots before it). *)
CloneForever == []<><<\E p \in PID : Fork(p) \/ Thread(p)>>_vars
EveryRunnableRuns ==
    CloneForever \/ \A p \in PID \ {Idle} :
        p \in Runnable ~> (User(p) \/ p \notin Runnable \/ kpc = "panic")

(* A sleeper whose time has come is woken, although each check() serves the
   head of the queue only and probes it in the name of another process. *)
BlockedOn(p, kind) ==
    \E d \in Dev : Kind[d] = kind /\ \E i \in Queued(d) : pending_request[d][i].proc = p
SleeperWakes ==
    \A p \in PID : BlockedOn(p, "sleep") ~> (~BlockedOn(p, "sleep") \/ kpc = "panic")

(* A process that waits for another is woken once that one has exited. *)
WaiterWakes ==
    \A p \in PID : (BlockedOn(p, "wait") /\ reqs[p].pid = 0)
                       ~> (~BlockedOn(p, "wait") \/ kpc = "panic")

-----------------------------------------------------------------------------
(* The inductive invariant *)

(* Where real_syscall_handler is, and what it still knows of the caller: the
   process that will be current at the end either runs or made the call. *)
SyscallFrame ==
    /\ kpc # "check" => sys.ind = 0
    /\ sys.dev \in Dev => sys.ind <= Len(pending_request[sys.dev])
    /\ sys.dev \notin Dev => sys.ind = 0
    /\ kpc \in {"check", "hlt"} =>
          /\ sys.running \in Runnable \/ sys.running = sys.pid
          /\ sys.ind = 0 => current_process = sys.running

(* The idle process never blocks on a device, and the child it forked stays
   runnable until it execs or exits. *)
IdleCanRun ==
    /\ Idle \in process_list
    /\ ~IsQueued(Idle)
    /\ \A p \in PID :
          /\ onStackOf[p] # None => p \in process_list
          /\ onStackOf[p] = Idle => p # Idle /\ process_state[p] = RUNNABLE
          /\ arming[p] # None => p # Idle /\ onStackOf[p] # Idle /\ p \in process_list

(* The conjunction that every step preserves. *)
IInv ==
    /\ TypeOK
    /\ SleepersHaveOneWaker
    /\ RequestsAreLive
    /\ ParentHasChild
    /\ SomeoneRuns
    /\ SyscallFrame
    /\ IdleCanRun
(* Further invariants that the properties above rest on *)

(* NoLostSignal while checkAll() is under way: the semaphores it has passed
   have no unit left that somebody waits for. *)
SignalsSeen ==
    \A d \in Dev :
        (kpc = "user" \/ (kpc \in {"check", "hlt"} /\ d < sys.dev)) =>
            (Kind[d] = "sem" /\ cnt[d] > 0 => pending_request[d] = <<>>)

(* Only system calls change the state of the devices. *)
Synchronous == \A d \in Dev : Kind[d] # "sleep"

(* A device's queue while check() walks over it: nobody is in it twice, except
   that the last process served may be there again, and then check() stops. *)
OncePerProcess(q, n) == \A i, j \in 1 .. n : q[i].proc = q[j].proc => i = j
ServedOnce ==
    kpc = "check" /\ sys.dev \in Dev =>
        LET q == pending_request[sys.dev] IN
        /\ \A i \in 1 .. Len(q) : q[i].proc # Idle
        /\ \/ OncePerProcess(q, Len(q))
           \/ Empty(sys.dev, current_process) /\ OncePerProcess(q, Len(q) - 1)

(* Who is not blocked has its result, or is the caller and gets it at the end;
   a caller whose read found nothing is blocked on a device that has nothing
   for it. *)
IsQueuedOn(p, d) == \E i \in Queued(d) : pending_request[d][i].proc = p
ResultsDue ==
    /\ \A p \in process_list :
          ~IsQueued(p) => retval[p] = Done \/ (kpc = "check" /\ p = sys.pid)
    /\ kpc \in {"check", "hlt"} /\ sys.ret = EAGAIN =>
          \E d \in Dev : IsQueuedOn(sys.pid, d) /\ Empty(d, sys.pid)

(* What holds in addition when the devices are synchronous. *)
SyncInv == ServedOnce /\ ResultsDue
=============================================================================
