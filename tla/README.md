# A verification of SysImpl

SysImpl is a small i386 kernel in C and C++ with its own C library, C++ runtime
and user programs. It has one kernel thread, 32 process slots, no paging, and
system calls through `int 0x80`. This directory keeps TLA+ models of its parts,
the TLC runs that check them on small instances, and TLAPS proofs of the main
invariants for every instance.

## The system and its models

| Part | Sources | Module |
|---|---|---|
| Process life cycle, scheduler, system call path, blocking devices, semaphores, `:WAITPID`, `:SLEEP` | `objects/{Process,BlockInputDevice,Semaphore,ProcessWait,SleepDevice}.*`, `resche.cpp`, `syscall/*`, `exec.cpp` | `Kernel`, `KernelWait` |
| Boot, hardware tasks, interrupts, BIOS calls | `main.cpp`, `crt_init.cpp`, `protected_mode.cpp`, `intr.cpp`, `8259.c`, `pit.cpp`, `v8086.cpp`, `Disk.cpp` | `Machine` |
| Descriptors, reference counts, special paths | `objects/Process.cpp`, `shared_ptr.hpp`, `SpecialPathManager.cpp`, `syscall/{open,close,dup2,sem_create}.cpp` | `ObjectTable`, `DescriptorStore` |
| Loader, arguments, command line | `elf-loader.cpp`, `exec.cpp`, `main.cpp`, `user_call_main.c` | `Loader`, `Cmdline` |
| Keyboard and console | `keyboard.c`, `VGATextIODevice.cpp`, `LineBufferedIOMixin.hpp` | `Keyboard`, `LineInput` |
| FAT16 file system | `File.cpp`, `FileSystem.cpp`, `Directory.cpp`, `readdir.cpp` | `FatFile`, `FatVolumes` |
| Heap | `heap.c`, `stdlib.c` | `Heap`, `BlockStore` |
| C library, kernel and user | `printf.c`, `stdio.c`, `string.c`, `ctype.c`, `strtok.c` | `Printf`, `PrintfCalls`, `CString`, `Strtol`, `Strtok` |
| Compiler builtins | `compile-rt-builtins/` | `WideInt`, `SoftFloat` |
| C++ runtime | `libcxxrt/`, `dwarf_eh.h`, `typeinfo.h` | `Exceptions`, `EhHandlers`, `Guard`, `TypeInfo`, `DwarfEh` |
| Demangler | `libcxxrt/libelftc_dem_gnu3.c` | `Demangle`, `DemangleTables`, `DemangleFp`, `StrVector`, `StringList`, `Mangle` |

`DescriptorStore`, `BlockStore` and `StringList` are abstract specifications: what the
descriptor tables, the allocator and the demangler's vectors promise. The
modules above them are shown to implement them. `Mangle` stands for the
compiler that writes the names the demangler reads.

How the parts interact: a system call runs one handler. The handler may queue a
request on a blocking device and put the caller to sleep. After every handler
`checkAll` walks over the devices. `check` probes a device, serves requests from
the head of its queue, and lends each served process the role of current
process while it does. The handler's value is stored in the caller only after
that. Fork and the devices put a process to sleep through one and the same
flag, `process_state`. Below that, a process is the content of the one USER
task of the processor, which is copied out when it enters the kernel and in
when it leaves; every character written and every sector read is a BIOS call in
a fourth task. Memory comes from one heap; objects are shared between
descriptors and live by their reference counts.

What makes it hard:

- interrupts stay enabled in the kernel, so the timer and the keyboard fire
  between any two steps of a system call, the probe and the read of one request
  included;
- the probe in `check` is made in the name of whichever process is current;
- requests, waiters and parents are named by slot or raw pointer, and slots are
  reused;
- a forked child runs on its parent's stack until it execs or exits, and the
  parent is woken by whichever process has the parent's slot as its `ppid`;
- hardware tasks carry a busy bit and a back link, and a second entry of a busy
  task is a fault;
- the arrays have fixed sizes, and some have no bound check;
- the library code keeps static state between calls, rewrites its buffers in
  place and has its corner cases at the ends of ranges.

The modules `MC...` give the constants for TLC. Five of them put several small
components side by side: a behaviour exercises the one that the variable `part`
names, and the others stay at an initial state. Each property there is the one of the
component's own module.

## Kernel

The variables keep the names of the code. Some stand for more than one thing.

- `kpc` says where the processor is: `"user"`, `"check"` (in `checkAll`),
  `"hlt"` (stopped in `hlt_handler`), `"panic"`, or `"kernel"` (`resche` found
  nothing and returned to the boot task).
- `sys` holds the locals of the system call: the caller, the handler's value,
  the device and index `check` has reached, the process to restore
  (`now_running_process`), and how many ticks fell into this call.
- `sleep_left[p]` is `process_sleep_until[p] - pit_ticks`, cut off at 0: the
  code only compares the two, so the distance is all that matters.
- `retval` tells `-EAGAIN` from any other value.
- `onStackOf` is a history variable: the parent on whose stack a child runs.
- `booted` and `arming` are the position of the program: whether the idle program has
  forked, and which device a process has written and will read next.

| Action | Code |
|---|---|
| `Fork`, `Thread` | `fork_handler`, `thread_handler`, `Process::clone`, the constructor |
| `Exec`, `ExecFails` | `execv`, `Process::exec` with `removeObject` and `restoreStack`; its early returns |
| `Exit` | `exit_handler`, `deleteProcess`, `~Process`, `processExit` |
| `Yield`, `Hlt`, `Close`, `Unregistered` | the handlers of those names; a number without a handler |
| `Read` | `read_handler`, `do_read` and the device's `read` |
| `SemWrite`, `WaitWrite`, `SleepWrite` | the devices' `write` |
| `CheckOne`, `CheckDone` | one iteration of the loop in `check`; the code after it |
| `Return` | the end of `real_syscall_handler`, `resche` and the hook on leaving |
| `Tick` | `timer_handler` and `resche_tick`, in user mode, in the kernel and in `hlt` |
| `Halted` | `panic`; the boot task after the last process |

A handler is one step: it only touches state the interrupt does not, except
`sleep_left`, which a handler reads or writes once. The loop of `checkAll` is
one step per iteration, with the probe and the read of one iteration together.
That is exact for semaphores and `:WAITPID`, which no interrupt changes. For
`:SLEEP` a tick between the probe and the read can only make the read more
ready, so the model leaves out no failure; the two can still disagree because
the probe asks about another process, and the model has that.

Process 0 is the idle program (`user/hlt/hlt.c`): it forks once and then only
halts, and its child execs or exits. Every other process makes any system call
at any time. `ArmThenRead` is TRUE in the liveness run: there a process that
writes `:SLEEP` or `:WAITPID` reads it next, as `sleep.c`, `sh.c` and `thread.c`
do.

**KernelWait** extends Kernel with the exit codes that `:WAITPID` delivers. `buffer`
is what a read stored in the user's memory; `waits` and `owed` record which
process was asked for and the code its exit then gave.

## The other modules

**Machine.** Four hardware tasks, each with a stack of frames (the code still to
run, the ring, IF and NT); the busy bits, the back links, the interrupt table,
mask, request and in-service registers, and the process slots as saved
contexts. Every step of `main`, of a handler and of a system call is an action
and the interrupt controller may deliver between any two. It has three process
slots, and it follows a behaviour up to the point where a parent was woken
early (`early`, finding 1): from there two processes share one stack and the
contexts no longer mean anything.

**ObjectTable.** One action per system call on descriptors. `ref` is the
reference count that `shared_ptr` keeps, changed by copy, assignment and destruction
as the code orders them. `DescriptorStore` has no counts: an object lives while
a descriptor or a name refers to it.

**Loader, Cmdline.** The two passes over the program headers, the checks of
exec, the copying and packing of arguments, and the program's `start` that
unpacks them; the command line cut in place word by word.

**Keyboard, LineInput.** Scan codes through the tables and modifiers to
characters, over interrupts that come at any time. The ring between the
interrupt and the reader at the level of its two indices, with the interrupt
between the test, the fetch and the advance; then the line editor, the
committed ring and end of file. `wanted` is a history variable: the text as the
user edited it, by `Edit`, which knows nothing of the buffers. `half` is one
too: the modifiers that the driver has turned off although a key of theirs is
still down. A key held down does not repeat.

**FatFile.** Path lookup, directories, cluster chains and the buffers in
between, one of which all transfers share. A transfer may fail unnoticed.

**Heap.** Words of memory: headers and links lie where the code puts them, so a
wrong size damages the neighbour. `BlockStore` hands out disjoint blocks that
keep their content.

**Printf, CString, Strtol, Strtok.** The formatter one format character at a
time, with the pointer that runs ahead of the count; byte loops; limits; the
static pointer of strtok. Each is compared with what the C standard says of the
result, written down apart from the code; where the code departs from it, the
departure is named next to the property (`Departures` in `Printf`, `barePrefix`
in `Strtol`) and listed below, and the result must be C's everywhere else.

**WideInt, SoftFloat.** Words of `W` bits and numbers of a small format stand
for 32, 64 bits and IEEE single and double; results are compared with exact
integer arithmetic and with the nearest representable number.

**Exceptions, EhHandlers, Guard, TypeInfo, DwarfEh.** Throw, search, unwinding,
catch, rethrow and exception pointers with their reference counts; which
handler runs; the two words of a local static's guard, one step per access, and
the assertion behind them; casts and catch matching over class hierarchies with
multiple, virtual, private and repeated bases; the personality function's tables
as bytes. Exceptions are thrown by an expression or rethrown from an exception
pointer, which makes a dependent exception. The destructor that
`__cxa_free_exception` runs is left out: an object is freed, and what its
destructor does is not explored. Handlers are set to functions; a null pointer
only clears a thread's own.

**Demangle.** The recursive descent parser on the tokens of the ABI's grammar, with the
substitution and template lists it numbers; `Mangle` produces the names and
their meaning in C++, and the two must agree but for what `AsDemangled` names.
`StrVector` has the growing vectors with addresses, copies at fresh addresses
and frees, without the paths behind a failed `malloc`, which panics instead;
`DemangleFp` the bytes of floating-point literals and the text that the kernel's
own `snprintf` makes of them.

## Runs

Every passing run explores all reachable states of its instance.

| Run | Instance | Shows |
|---|---|---|
| `kernel_safety` | 3 slots, three kinds of device, slices of 2, sleeps up to 2, up to 2 ticks in a call | the safety of Kernel and `IInv`, the invariant of its proofs |
| `kernel_liveness` | the same with 1 tick in a call, reads after writes | runnable processes run, sleepers and waiters wake |
| `kernel_sync` | 3 slots, a semaphore and `:WAITPID`, two exit codes | `PendingInBounds`, `BlockingReadHasResult`, `WaitStatus` |
| `kernel_services` | 3 slots of Machine; 2 processes, 3 descriptors, 3 objects; programs with small headers and argument lists; command lines up to 7 characters | the processor's tasks, descriptors, loader, command line |
| `devices` | 4 key events on ten keys, both Shift and both Control keys among them; rings and lines of 2 characters, 4 typed; volumes of 4 clusters, 2 open files, one failed transfer | keyboard, console, files |
| `c_library` | heaps of 8 and 16 words; all formats around the boundaries; strings up to 3, numbers up to 5 characters; words of 8 bits; floats of 7 bits | heap, C library, builtins |
| `cxx_runtime` | 3 exceptions, 3 nested constructs; 3 threads; seven hierarchies; 200 functions' tables | C++ runtime |
| `demangler` | names with up to three parameters of every kind of type; vectors of 4 | demangler |
| `parent_keeps_sleeping`, `blocking_read_result`, `idle_priority`, `pending_bound` | 3 or 4 slots | violated, see Findings |

Kernel: a process sleeps exactly when it has one waker
(`SleepersHaveOneWaker`); a parent asleep in fork has a child that will wake it
(`ParentHasChild`); the kernel always has a process to run (`SomeoneRuns`); the
assertion in `clone` holds (`CleanForkStack`); nobody waits on a semaphore that
has a unit left (`NoLostSignal`); no sleeper returns early
(`SleepsLongEnough`); a `:WAITPID` read reports the exit that was asked for
(`WaitStatus`).

Machine (`TasksNeverFault`): the processor never faults on a missing handler or
a busy task, busy bits are exactly the nesting of tasks, and a line in service
is one a handler has still to acknowledge. `ProcessesResume`: a process
continues where it left, and processes in the kernel have stacks of their own.

Services: counts equal references (`RefCountsExact`); the table implements
`DescriptorStore` and the kernel stops only at a limit
(`KeepsDescriptorPromise`); the program gets its sections, arguments and path
(`ProgramIsLoaded`, `CmdlineParsed`).

Devices: characters and modifiers are those of the keys, but for a modifier with
both keys down of which one is released (`KeysGiveCharacters`);
the ring is a queue (`RingIsQueue`); readers get the edited text, each end of
file once, and the screen shows the line (`ConsoleEdits`); every line whose
Enter was not dropped is read, the n-th newline typed as the n-th read
(`EnteredLineIsRead`); paths, reads and listings are those of the volume
(`FilesMatchVolume`).

Library: nodes tile the heap, neighbours are merged, payloads survive and panic
comes only when nothing fits (`HeapSound`); the allocator implements
`BlockStore` (`KeepsStorePromise`); text, cut, terminator and length of the
formatter, C's but for its departures (`PrintfFollowsC`); copies, orders and searches of strings, numbers
and words read (`TextFollowsC`); integer helpers (`IntegersExact`); rounding,
order and conversion of floats (`FloatsRound`).

C++ runtime: every exception object is freed once (`ObjectsAccounted`); caught
exceptions are in the order of nesting and counted (`CatchesNest`); control
lands in the innermost handler that matches (`LandsInnermost`); a violated
specification runs the unexpected handler of the throw, or the present one for a
dependent exception (`HandlerOfTheThrow`); a static is built once and used
after that, and who built it passes the assertion (`BuiltOnceBeforeUse`); casts
and catches follow the language but for the departures below (`TypesFollowCpp`); the tables give the compiler's answer
(`TablesGiveTheHandler`).

Demangler: the text is the entity's and literals have its bytes (`NamesTheEntity`); vectors own
their strings and stay within capacity (`VectorsSound`) and implement
`StringList` (`AreLists`).

Bounds. Three slots are the idle process, a caller, and another process that is
waiting, being created or gone; a slot is then reused at once, which is the
case of interest. Four are used where a thread and a forked child of one
parent exist together. Slices of 1 or 2 ticks make the slice end both inside
and outside a system call. `MaxKernelTicks` bounds the ticks inside one call:
one tick, between two iterations of `check`, is what the findings need.
Semaphore counts stay at or below `SemMax` = 1, enough for a unit to be there
or not; sleeps of 2 ticks tell apart two deadlines. Rings, lines, vectors and
heaps are small enough to fill, wrap and grow within a behaviour. Words of 8
bits keep every case of the division by the distance of leading bits; the
float format has denormals, ties and overflow in all combinations of two
operands.

Fairness. `WF(Kernel)`: the processor goes on executing the kernel. `WF(Tick)`:
the timer goes on firing. No process is assumed to make any system call.
Two liveness properties hold under conditions, and these are part of what the
runs show. `EveryRunnableRuns` excludes behaviours that create processes for
ever: the round robin restarts at each new slot, so an older process can be
passed over. `WaiterWakes` is for programs that read after they have written: a
process that wrote `:WAITPID` and then computes without reading makes every
probe made in its name fail, and those who wait behind it are not served.
`EnteredLineIsRead` assumes that a reading system call runs to its end and that
programs keep reading.
## Proofs

Eight modules hold the theorems and their lemmas. Each theorem is for every value of the
constants, under the assumptions named.

| Module | Theorem | Property | Assumes |
|---|---|---|---|
| `KernelProofs` | `Invariant` | `IInv` | `KernelAssumption` |
| | `TypeCorrect` | `TypeOK` | |
| | `OneWaker` | `SleepersHaveOneWaker` | |
| | `LiveRequests` | `RequestsAreLive` | |
| | `BackupHasChild` | `ParentHasChild` | |
| | `AlwaysRunnable` | `SomeoneRuns` | |
| | `ForkStackIsClean` | `CleanForkStack` | |
| `KernelDevices` | `SignalsReachWaiters` | `NoLostSignal` | `KernelAssumption` |
| | `NobodyWakesEarly` | `SleepsLongEnough` (action property) | |
| | `SyncReadsHaveResults` | `BlockingReadHasResult` | and `Synchronous` |
| | `SyncQueuesFit` | `PendingInBounds` | and `Synchronous` |
| | `WaitersLearnTheStatus` | `WaitStatus` | |
| `LineInputProofs` | `RingQueues` | `RingIsQueue` | `SizesOK` |
| | `ConsoleFollowsTheUser` | `ConsoleEdits` | `SizesOK` |
| `RuntimeProofs` | `GuardBuildsOnce` | `BuiltOnceBeforeUse` | none |
| | `SpecificationsKeepTheirHandler` | `HandlerOfTheThrow` (action property) | none |
| | `ExceptionsInductive` | `ExceptionsInv` | `ObjectsAssumption` |
| | `ObjectsStayAccounted` | `ObjectsAccounted` | |
| | `CatchesStayNested` | `CatchesNest` | |
| | `UnwindingLands` | `LandsInnermost` | |
| `StrVectorProofs` | `VectorsStaySound` | `VectorsSound` | `EnoughMemory` |
| | `VectorsAreLists` | `AreLists` (refinement) | `EnoughMemory` |

`ExceptionLemmas`, `ExceptionThrows` and `ExceptionCatches` hold the lemmas for
the exceptions. Where a leaf names several provers, they are tried in that order.
`KernelAssumption`: natural numbers, at least one slot and one tick in a slice.
`Synchronous`: no `:SLEEP` device, so that no interrupt changes a device.
`SizesOK`: rings of at least one cell. `EnoughMemory`: `malloc` does not fail;
there are addresses for all strings and the copies a merge makes of them.
`ObjectsAssumption`: finitely many exception objects, none of which is `None`.

**The scheduler.** None of the six properties is inductive by itself. That a
process sleeps exactly when it has a waker is broken in the middle of `check`,
where requests already handled are still in the array: `Queued(d)` therefore leaves out the first `sys.ind` entries
of the device being checked. `SyscallFrame` says what the interrupted handler
may still rely on: the process it will restore is runnable or made the call.
`IdleCanRun` gives `SomeoneRuns`: process 0 never waits on a device, so it is
asleep only while the child it forked runs on its stack, and that child is
runnable because it only execs or exits. With that, `resche` always finds a
process. `CleanForkStack` follows from `OneWaker` and `SomeoneRuns`: a process
in user mode is runnable, so it holds no backup.

The step lemmas have one case per action. `ReadStep` is the heart: it says what
`do_read` does to the set of sleepers and the queues, and both `Read` and
`CheckOne` use it. `CheckDone` renumbers the queue; its proof carries each
position to the old one.

**Devices.** `NoLostSignal` speaks of user mode only; `SignalsSeen` carries it
through `checkAll`: a semaphore already walked over has no unit that somebody
waits for, whichever process is current, because a semaphore's probe does not
depend on it. Findings 2 and 4 refute `BlockingReadHasResult` and
`PendingInBounds` when a tick falls into `check`. The two theorems show the
other half: the tick is the only cause. `ServedOnce` says that the array holds a
process twice only if that is the last one served and the probe in its name
fails, so that `check` stops at once and the array has room; `ResultsDue` says
who still waits for a result. `WaitInv` relates `ProcessWait::reqs`
to the history variables: a slot's request names the process that was asked for
until it exits, and keeps its status from then on.

**Console.** `LineInv` adds to the two properties that `getc0` fetches from a
ring that is not empty (the interrupt only adds to it), and that a system call
which looks at the keyboard runs with no end of file remembered. What the user
meant is the history variable `wanted`, edited one key at a time by `Edit`: a
definition by recursion over the typed text would have needed induction over data.

**C++ runtime.** `GuardInv`: who is between taking the lock and giving it back
holds it and is alone; the first word says that the object exists, except for the
thread that has just built it. The assertion of `unlock` is made without the
lock, so the invariant also says that nothing takes back a word that is set.
`HandlerInv`: the copies in an exception are the handlers in force at its throw;
the class test of `__cxa_call_unexpected` then decides between them and the
handlers of the moment.

**Exceptions.** `ExceptionsInv` joins what the three properties need. `FlightsInv`:
each exception on its way, the one being unwound or one that a destructor's
landing pad interrupts, goes to the nearest frame below it that stops it, has
that frame's landing pad cached, and leaves its own catch blocks next; so a
frame popped or a throw within a cleanup changes no other flight's search.
`ObjectsInv`: an object under construction belongs to one throw expression, a
dependent exception stands for a thrown one. `ObjectsAccounted`,
`CaughtListIsNesting` and `UncaughtExact` need each other: a catch block frees
its exception when the count of handlers reaches 0, and that the list then goes
on with the block around it needs the order of nesting. The nesting is stated
by the greatest index below a frame (`Enclosing`), not by recursion over the
list, which keeps it within the prover's reach. `ExceptionThrows` has the steps
that enter constructs and start a flight, `ExceptionCatches` those that unwind,
catch and end a catch block.

**Vectors.** `VectorInv`: sizes within capacities, the cells in use hold
addresses of allocated strings, each in one cell of one vector, and no other
string is allocated. The lemmas treat one vector (`PushHolds`, `PushList`,
`PopList`, `JoinedCells`), then two that share a heap (`PushShare`, `PopShare`,
`DropShare`, `MergeShare`), then have one case per action, which shows both that the
invariant is preserved and that the lists take the step of `StringList`.

Only model-checked:

- Liveness (`EveryRunnableRuns`, `SleeperWakes`, `WaiterWakes`,
  `EnteredLineIsRead`): fairness is outside the prover's reach.
- What a recursive definition or a fold computes for every input, since that
  takes induction over data: the parsers, formatters, searches and arithmetic
  (`Demangle`, `DemangleFp`, `Printf`, `CString`, `Strtol`, `Strtok`, `Loader`,
  `WideInt`, `TypeInfo`, `DwarfEh`, `FatFile`, `Keyboard`), the free list of
  `Heap` and with it the refinement of `BlockStore`.
- `SoftFloat`, whose rounding is arithmetic with powers of two, nonlinear for the
  solver.
- `RefCountsExact` and the refinement of `DescriptorStore`: a count is a sum
  over descriptors.
- `Machine` and `Cmdline` are within the prover's reach, but no proof of them
  exists: their properties are shown for the instances of the runs.


## Findings

1. **A forked parent can be woken early.** `Process.hpp:161` says the parent
   sleeps until exec; README line 94 says until exec or exit. The code wakes it
   when any process with that `ppid` execs or exits, a thread started earlier
   for instance. (`parent_keeps_sleeping`)
2. **A completed read can return -EAGAIN.** A tick between the handler and
   `checkAll` makes the caller's own request ready. `check` serves it, and
   `syscall_handler.cpp:46` overwrites the result. (`blocking_read_result`)
3. **The idle process runs beside a runnable one.** The TODO marks "runs only
   when idle" as done, but the kernel returns to the caller whenever it is
   runnable, the idle process included. (`idle_priority`)
4. **The array of pending requests can overflow.** The README says a
   single-threaded kernel needs no locks. But a tick inside `check` makes the
   process served last ready, the probe in its name passes, and the next request,
   which is not ready, is appended again before the handled ones are dropped.
   Two such requests in a nearly full array are enough. (`pending_bound`)

## Differences met while modelling

These were seen in the source. The models have them as the code does, and the
properties that compare a result with a standard name them as exceptions.

- The driver has one bit for both keys of a modifier: with both Control keys
  down, the release of one turns Control off (`keyboard.c:132`).
- Enter is dropped when the line is full (`LineBufferedIOMixin.hpp:82`). The
  line stays uncommitted until something is erased and Enter is pressed again.
- `printf`: `%.0d` of 0 has a digit (`printf.c:83`), `#` marks 0 as hexadecimal
  (129), the flag 0 pads although there is a precision (136), `+` and blank put a
  sign before unsigned numbers (104, 122-127). Floating-point conversions do not
  exist: an unknown conversion prints its own letter (499).
- `strtol` of `0x` without a digit finds no number; C reads the 0.
- The demangler writes unary operators behind their operand
  (`libelftc_dem_gnu3.c:1600`), leaves only the type of a `sizeof` (1277), and
  gives up on thunks with a virtual offset, whose reader returns the opposite of
  what it means (3855). The text of a floating-point literal is that of its
  format (`fld`, `ff` or `fd`), since the kernel's `snprintf` has no `%f`.
- `dynamic_cast` never asks whether a base is public and takes the first
  sub-object of the class asked for if there are several (`dynamic_cast.cc:208`).
  Catch clauses accept private and repeated bases, and convert the pointer behind
  a pointer like one at the outermost level (`:101-106`).
- A dependent exception that violates a specification is not asked for its
  handler (`exception.cc:1378`): the one of the moment runs.
- The assertion of `unlock` (`guard.cc:247`) can fail, and the kernel panic, for a
  thread whose constructor threw: another one may have taken the lock and built
  the object before it is evaluated. It cannot for a thread that built it.

About the following no property of a run speaks.

- A read of size 0 on the console drains the keyboard and commits at C-d
  (`LineBufferedIOMixin.hpp:71`), although `InputDevice.hpp:13` says it should
  have no side effect.
- exec tests `bitmap & (1 << i)` in 32 bits (`Process.cpp:199`), so descriptor
  `i` follows bit `i mod 32`. `IntBits` is that width in `ObjectTable`.
- The number of data sectors subtracts `sectors_per_fat` squared
  (`FileSystem.cpp:29`); a small valid volume fails the assertion three lines
  below. `FatFile` starts from a mounted volume.
- The loop over program headers runs to `e_phoff` (`elf-loader.cpp:27`) and
  stores header `i` in entry `i`. `ProgramIsLoaded` is for images whose
  loadable headers come first, as the user programs are linked.
- `__cxa_rethrow_primary_exception` reads the type of a rethrown exception from
  the wrong header (`exception.cc:788`); a `throw;` in a destructor that a
  rethrow runs fails an assertion (`:860`) and is left out of `Exceptions`; a
  thread's handler hides `std::set_terminate` (`:1460`).
- After a waiter found the object initialised, the guard's lock word is never 0
  again and a third thread spins (`guard.cc:229`). `Guard` has that behaviour;
  its safety does not suffer.
- The call-site search reads one record behind its table (`dwarf_eh.h:416`). With
  the `uleb128` fields that GCC writes `NoRecordNoHit` shows that it is never
  taken for a call site; with fields of fixed size it may be.
- `open` with a full table returns `ENOSPC`, a positive number (`open.cpp:36`);
  `ObjectTable` leaves out the values that calls return.
- The demangler departs from the ABI in more places; `Mangle` produces names outside
  them: the back reference lookup by prefix, the numbering of function types,
  the function name kept in local names, qualifiers of pointers to members,
  negated offsets of thunks, more than one instance of a template, operators
  inside operands (no parentheses are written), pointers and references to
  arrays, a `_GLOBAL__I_` prefix that is never reached, unary operators read as
  binary ones, and `long double` literals.

## Not modelled

- Bytes of user memory, stacks and program images; user programs beyond the
  system calls they make; the serial port, whose FIFO feeds the same line editor.
- Boot code in assembly, the multiboot header, test code.
- Floating-point division (its iteration is tied to constants for 32 and 64
  bits), conversion between formats, complex arithmetic, powers, 80- and
  128-bit types, and what the i386 build does not reach (Apple and OS version
  queries, caches, other processors).
- Emergency buffers, destructors of exception objects and foreign exceptions of libcxxrt, its ARM variants, and
  the wrapper `__cxa_demangle`.
- Malformed volumes, path components longer than 15 characters, images that are
  not ELF: the code does not check them and the outcome is undefined.
