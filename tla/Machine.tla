------------------------------ MODULE Machine ------------------------------
(* The processor under the kernel: four hardware tasks (INIT, USER,        *)
(* SYSCALL, V8086), the interrupt descriptor table, the interrupt          *)
(* controller, and the boot that sets them up.  A task's context is a      *)
(* stack of frames, the innermost interrupt handler last; a frame holds    *)
(* the steps it has still to run, its ring and its IF and NT flags.        *)
(* Kernel.tla takes a system call as one step; here every step of it can   *)
(* be interrupted, and a process is the contents of the one USER TSS.      *)
EXTENDS Naturals, Sequences, FiniteSets, FiniteSetsExt

CONSTANT Slots   \* process slots, 0..MAX_PROCESS_NUM-1

VARIABLES
  tr,        \* task register: the running task
  busy,      \* tasks whose descriptor has the busy bit (gdts[].read_write)
  tss,       \* [ctx, prev, esp0, who] of every task
  idt,       \* vector -> handler
  imr, irr, isr,   \* the interrupt controller: masked, requested, in service
  code16,    \* the 16 bit code is in place
  mode,      \* "runs", or how the machine stopped
  procs, ppid, saved,   \* process_list: state, parent, usermode_state
  current_process,
  left,      \* (history) the context in which a process entered the kernel
  early      \* (history) a parent was woken while another child uses its stack

Tasks == {"INIT", "USER", "SYSCALL", "V8086"}
Lines == {0, 1}           \* the lines a driver unmasks: timer and keyboard
Vectors == {"#", "#GP", "irq0", "irq1", "0x80"}   \* "#": any other exception
Vector(i) == IF i = 0 THEN "irq0" ELSE "irq1"

process == <<procs, ppid, saved, current_process, left, early>>
vars == <<tr, busy, tss, idt, imr, irr, isr, code16, mode, procs, ppid, saved,
          current_process, left, early>>

Frame(run, ring, if, nt) == [run |-> run, ring |-> ring, if |-> if, nt |-> nt]
Task(ctx) == [ctx |-> ctx, prev |-> "none", esp0 |-> 0, who |-> 0]

(* What the code runs, step by step.                                       *)
OrderBug ==   \* mutant: the default handlers are installed after pit_init()
  <<"initialize_gdt", "PIC_remap", "pit_init", "initialize_intr", "v8086_init",
    "VGATextIODevice", "write", "getBootDisk", "enter_init", "write", "halt">>
main ==
  <<"initialize_gdt", "initialize_intr", "PIC_remap", "pit_init", "v8086_init",
    "VGATextIODevice", "write", "getBootDisk", "enter_init", "write", "halt">>
timer_handler == <<"PIC_sendEOI", "resche_tick", "iret">>
irq1_handler == <<"PIC_sendEOI", "iret">>   \* the ring it fills: LineInput.tla
trap_handler == <<"write", "panic">>
LeaveFirst ==   \* mutant: the TSS is written before the last change of process
  <<"enterKernelMode", "apply", "leaveKernelMode", "resche_leave_kernel_mode_hook", "iret">>
syscall_handler ==
  <<"enterKernelMode", "apply", "resche_leave_kernel_mode_hook", "leaveKernelMode", "iret">>
code16_source == <<"int", "bios", "hlt">>
SyscallEntry == <<Frame(syscall_handler, "kernel", TRUE, FALSE)>>
UserEntry == <<Frame(<<"user">>, "user", TRUE, FALSE)>>

Init ==
  /\ tr = "INIT" /\ busy = {} /\ mode = "runs" /\ code16 = FALSE
  /\ tss = [t \in Tasks |-> Task(IF t = "INIT" THEN <<Frame(main, "kernel", FALSE, FALSE)>>
                                 ELSE IF t = "SYSCALL" THEN SyscallEntry ELSE UserEntry)]
  /\ idt = [v \in Vectors |-> "none"]
  /\ imr = {} /\ irr = {} /\ isr = {}
  /\ procs = [p \in Slots |-> "free"] /\ ppid = [p \in Slots |-> p]
  /\ saved = [p \in Slots |-> Task(UserEntry)] /\ current_process = 0
  /\ left = [p \in Slots |-> UserEntry] /\ early = FALSE

-----------------------------------------------------------------------------
(* The processor.                                                          *)
Ctx == tss[tr].ctx
Top == Ctx[Len(Ctx)]
Below == Ctx[Len(Ctx) - 1]
At(step) == mode = "runs" /\ Head(Top.run) = step
Passed == [tss EXCEPT ![tr].ctx[Len(Ctx)].run = Tail(@)]       \* the step is done
Then(steps) == [tss EXCEPT ![tr].ctx[Len(Ctx)].run = steps \o Tail(@)]

Stop(how) == mode' = how /\ UNCHANGED <<tr, busy, tss>>

(* A far call of a task or an interrupt through a task gate, from the      *)
(* state s of the tasks: a busy task cannot be entered.                    *)
CallTask(t, s) ==
  IF t \in busy \/ busy = {}
  THEN Stop("fault")
  ELSE /\ busy' = busy \cup {t} /\ tr' = t
       /\ tss' = [s EXCEPT ![t].prev = tr, ![t].ctx[Len(s[t].ctx)].nt = TRUE]
       /\ UNCHANGED mode

(* iret with NT set: back to the task of the link, which must be busy.     *)
ReturnTask(s, b) ==
  IF s[tr].prev \notin b
  THEN Stop("fault")
  ELSE /\ busy' = b \ {tr} /\ tr' = s[tr].prev /\ tss' = s
       /\ UNCHANGED mode

Interrupt(handler) ==   \* through an interrupt gate: IF and NT are cleared
  /\ tss' = [tss EXCEPT ![tr].ctx = Append(@, Frame(handler, "kernel", FALSE, FALSE))]
  /\ UNCHANGED <<tr, busy, mode>>

devices == <<idt, imr, irr, isr, code16>>

-----------------------------------------------------------------------------
(* Boot: main() and what it calls, with interrupts off.                    *)
initialize_gdt ==
  /\ At("initialize_gdt")
  /\ busy' = {"INIT"} /\ tss' = Passed   \* ltr
  /\ UNCHANGED <<tr, mode, devices, process>>

initialize_intr ==
  /\ At("initialize_intr")
  /\ idt' = [v \in Vectors |-> CASE v = "#GP" -> "gp_handler"
                                 [] v = "0x80" -> "task gate"
                                 [] OTHER -> "trap_handler"]
  /\ tss' = Passed
  /\ UNCHANGED <<tr, busy, mode, imr, irr, isr, code16, process>>

PIC_remap ==
  /\ At("PIC_remap")
  /\ imr' = Lines /\ irr' = {} /\ isr' = {}
  /\ tss' = Passed
  /\ UNCHANGED <<tr, busy, mode, idt, code16, process>>

Install(i, handler) ==   \* idt_set_descriptor(), IRQ_clear_mask()
  /\ idt' = [idt EXCEPT ![Vector(i)] = handler]
  /\ imr' = imr \ {i}
  /\ tss' = Passed
  /\ UNCHANGED <<tr, busy, mode, irr, isr, code16, process>>
pit_init == At("pit_init") /\ Install(0, "timer_handler")
VGATextIODevice == At("VGATextIODevice") /\ Install(1, "irq1_handler")

v8086_init ==
  /\ At("v8086_init")
  /\ code16' = TRUE /\ tss' = Passed
  /\ UNCHANGED <<tr, busy, mode, idt, imr, irr, isr, process>>

(* exec() of the first program and the far jump to its task.               *)
Exec(p) == [Task(UserEntry) EXCEPT !.esp0 = p, !.who = p]
enter_init ==
  /\ At("enter_init")
  /\ procs' = [procs EXCEPT ![0] = "runnable"]
  /\ saved' = [saved EXCEPT ![0] = Exec(0)]
  /\ left' = [left EXCEPT ![0] = UserEntry]
  /\ current_process' = 0
  /\ tss' = [Passed EXCEPT !["USER"] = Exec(0)]
  /\ busy' = (busy \ {tr}) \cup {"USER"} /\ tr' = "USER"
  /\ UNCHANGED <<mode, ppid, early, devices>>

-----------------------------------------------------------------------------
(* Calls of the BIOS in the V8086 task.                                    *)
v8086_call ==
  IF code16
  THEN CallTask("V8086", [Passed EXCEPT !["V8086"].ctx = <<Frame(code16_source, "vm", Top.if, Top.nt)>>])
  ELSE Stop("fault")

write ==   \* VGATextIODevice::write(), one character
  IF "V8086" \in busy
  THEN tss' = Passed /\ UNCHANGED <<tr, busy, mode>>   \* EarlyStageOutputDevice::write()
  ELSE v8086_call

Write == At("write") /\ write /\ UNCHANGED <<devices, process>>
readSector == At("getBootDisk") /\ v8086_call /\ UNCHANGED <<devices, process>>

(* The BIOS may switch interrupts on or off; its int and hlt, and anything *)
(* else it may not do, end in gp_handler().                                *)
BiosRuns ==
  /\ At("bios")
  /\ \E f \in BOOLEAN : tss' = [Passed EXCEPT ![tr].ctx[Len(Ctx)].if = f]
  /\ UNCHANGED <<tr, busy, mode, devices, process>>
BiosTraps ==
  /\ At("int") \/ At("hlt") \/ At("bios")
  /\ IF idt["#GP"] = "gp_handler" THEN Interrupt(<<"v8086_gp_handler">>) ELSE Stop("fault")
  /\ UNCHANGED <<devices, process>>

v8086_gp_handler ==
  /\ At("v8086_gp_handler")
  /\ CASE Head(Below.run) = "hlt" -> ReturnTask(tss, busy)   \* NT is set
       [] Head(Below.run) = "int" ->   \* the vector's handler is entered
            /\ tss' = [tss EXCEPT ![tr].ctx =
                        <<[Below EXCEPT !.run = Tail(@)]>>]
            /\ UNCHANGED <<tr, busy, mode>>
       [] OTHER -> tss' = Then(trap_handler) /\ UNCHANGED <<tr, busy, mode>>
  /\ UNCHANGED <<devices, process>>

-----------------------------------------------------------------------------
(* Interrupts.                                                             *)
Raise(i) ==   \* a device requests service
  /\ mode = "runs" /\ i \notin irr
  /\ irr' = irr \cup {i}
  /\ UNCHANGED <<tr, busy, tss, mode, idt, imr, isr, code16, process>>

HandlerOf(h) == IF h = "timer_handler" THEN timer_handler ELSE irq1_handler
Deliver(i) ==
  /\ mode = "runs" /\ Top.if
  /\ i \in irr \ imr /\ \A j \in isr : i < j
  /\ \A j \in irr \ imr : i <= j
  /\ irr' = irr \ {i} /\ isr' = isr \cup {i}
  /\ IF idt[Vector(i)] \in {"timer_handler", "irq1_handler"}
     THEN Interrupt(HandlerOf(idt[Vector(i)]))
     ELSE Stop("stray")
  /\ UNCHANGED <<idt, imr, code16, process>>

PIC_sendEOI ==   \* not specific: ends the service of the highest priority
  /\ At("PIC_sendEOI")
  /\ isr' = isr \ {Min(isr)} /\ tss' = Passed
  /\ UNCHANGED <<tr, busy, mode, idt, imr, irr, code16, process>>

(* resche_tick(): at the end of a time slice, a frame of ring 3 is made to *)
(* yield from inside the handler.                                          *)
UserMode == Below.ring = "user"
resche_tick ==
  /\ At("resche_tick")
  /\ \E expired \in BOOLEAN :
       IF expired /\ UserMode
       THEN /\ CallTask("SYSCALL", Passed)
            /\ left' = [left EXCEPT ![current_process] = Passed["USER"].ctx]
       ELSE tss' = Passed /\ UNCHANGED <<tr, busy, mode, left>>
  /\ UNCHANGED <<devices, procs, ppid, saved, current_process, early>>

iret ==
  /\ At("iret")
  /\ IF Top.nt
     THEN /\ ReturnTask([tss EXCEPT ![tr].ctx = SyscallEntry], busy)   \* jmp syscall_handler
          /\ left' = [left EXCEPT ![current_process] = UserEntry]
     ELSE /\ tss' = [tss EXCEPT ![tr].ctx = SubSeq(@, 1, Len(@) - 1)]
          /\ UNCHANGED <<tr, busy, mode, left>>
  /\ UNCHANGED <<devices, procs, ppid, saved, current_process, early>>

panic == At("panic") /\ Stop("panic") /\ UNCHANGED <<devices, process>>
halt == At("halt") /\ Stop("halted") /\ UNCHANGED <<devices, process>>

-----------------------------------------------------------------------------
(* System calls.                                                           *)
UserCalls ==
  /\ At("user")
  /\ CallTask("SYSCALL", tss)
  /\ left' = [left EXCEPT ![current_process] = tss["USER"].ctx]
  /\ UNCHANGED <<devices, procs, ppid, saved, current_process, early>>
UserFaults ==
  /\ At("user") /\ Interrupt(trap_handler)
  /\ UNCHANGED <<devices, process>>

enterKernelMode ==
  /\ At("enterKernelMode")
  /\ saved' = IF procs[current_process] # "free"
              THEN [saved EXCEPT ![current_process] = tss["USER"]] ELSE saved
  /\ tss' = Passed
  /\ UNCHANGED <<tr, busy, mode, devices, procs, ppid, current_process, left, early>>

leaveKernelMode ==
  /\ At("leaveKernelMode")
  /\ tss' = IF procs[current_process] # "free"
            THEN [Passed EXCEPT !["USER"] = saved[current_process]] ELSE Passed
  /\ UNCHANGED <<tr, busy, mode, devices, process>>

(* resche() with the processes ps: any runnable one (which one it is:      *)
(* Kernel.tla), or back to the INIT task when there is none.               *)
resche(ps) ==
  IF \E q \in Slots : ps[q] = "runnable"
  THEN /\ \E q \in Slots : ps[q] = "runnable" /\ current_process' = q
       /\ tss' = Passed /\ UNCHANGED <<tr, busy, mode>>
  ELSE /\ ReturnTask([tss EXCEPT !["USER"].prev = "none", !["SYSCALL"].prev = "INIT"],
                     (busy \cup {"INIT"}) \ {"USER"})
       /\ UNCHANGED current_process

yield == resche(procs) /\ UNCHANGED <<procs, ppid, saved, left, early>>

fork ==   \* clone(PROCESS_CLONE_KEEP_STACK): the parent sleeps
  \E c \in Slots :
    /\ procs[c] = "free" /\ \A d \in Slots : d < c => procs[d] # "free"
    /\ procs' = [procs EXCEPT ![c] = "runnable", ![current_process] = "sleeping"]
    /\ ppid' = [ppid EXCEPT ![c] = current_process]
    /\ saved' = [saved EXCEPT ![c] = [saved[current_process] EXCEPT !.who = c]]
    /\ left' = [left EXCEPT ![c] = left[current_process]]
    /\ resche(procs') /\ UNCHANGED early

Woken(ps, p) == [ps EXCEPT ![ppid[p]] = IF @ = "sleeping" THEN "runnable" ELSE @]
WokenEarly(p) ==
  /\ procs[ppid[p]] = "sleeping"
  /\ \E c \in Slots \ {p, ppid[p]} : procs[c] = "runnable" /\ saved[c].esp0 = saved[ppid[p]].esp0

NewImage(p) == Exec(p)
exec ==
  /\ procs' = Woken(procs, current_process)
  /\ saved' = [saved EXCEPT ![current_process] = NewImage(current_process)]
  /\ left' = [left EXCEPT ![current_process] = UserEntry]
  /\ early' = (early \/ WokenEarly(current_process))
  /\ tss' = Passed
  /\ UNCHANGED <<tr, busy, mode, ppid, current_process>>

exit ==
  /\ procs' = [Woken(procs, current_process) EXCEPT ![current_process] = "free"]
  /\ early' = (early \/ WokenEarly(current_process))
  /\ saved' = [saved EXCEPT ![current_process] = Task(UserEntry)]
  /\ left' = [left EXCEPT ![current_process] = UserEntry]
  /\ ppid' = [ppid EXCEPT ![current_process] = current_process]
  /\ resche(procs')

(* Output and disk access inside a system call.                            *)
DeviceCall ==
  /\ \E s \in {"write", "getBootDisk"} : tss' = Then(<<s>>)
  /\ UNCHANGED <<tr, busy, mode, process>>

(* Two processes on one stack are the subject of Kernel.tla's              *)
(* ParentKeepsSleeping; no further call is followed here once they are.    *)
InScope == ~early
apply ==
  /\ At("apply") /\ InScope
  /\ \/ yield
     \/ /\ Len(saved[current_process].ctx) = 1   \* the program's own call
        /\ fork \/ exec \/ exit \/ DeviceCall
  /\ UNCHANGED devices

resche_leave_kernel_mode_hook ==
  /\ At("resche_leave_kernel_mode_hook")
  /\ \/ tss' = Passed /\ UNCHANGED <<tr, busy, mode, current_process>>
     \/ resche(procs)
  /\ UNCHANGED <<devices, procs, ppid, saved, left, early>>

Next ==
  \/ initialize_gdt \/ initialize_intr \/ PIC_remap \/ pit_init \/ VGATextIODevice
  \/ v8086_init \/ enter_init
  \/ Write \/ readSector \/ BiosRuns \/ BiosTraps \/ v8086_gp_handler
  \/ \E i \in Lines : Raise(i) \/ Deliver(i)
  \/ PIC_sendEOI \/ resche_tick \/ iret \/ panic \/ halt
  \/ UserCalls \/ UserFaults \/ enterKernelMode \/ leaveKernelMode \/ apply
  \/ resche_leave_kernel_mode_hook

Spec == Init /\ [][Next]_vars

-----------------------------------------------------------------------------
(* No interrupt arrives before its handler is installed, no busy task is   *)
(* entered and no return goes to an idle one, whatever the BIOS does with  *)
(* IF and wherever ticks and keys fall: the machine only stops by a panic  *)
(* after a fault of a program or of the BIOS, or when the last process is  *)
(* gone.                                                                   *)
NeverFaults == mode \in {"runs", "panic", "halted"}

(* The busy bits are the nesting of the tasks: the running task, what      *)
(* called it, and so on to USER or INIT (v8086_call(), the task gate of    *)
(* int 0x80, and the bits resche() sets by hand).                          *)
Callers(t) ==
  IF t \in {"SYSCALL", "V8086"}
  THEN {tss[t].prev} \cup (IF tss[t].prev = "SYSCALL" THEN {tss["SYSCALL"].prev} ELSE {})
  ELSE {}
BusyIsNesting == busy # {} /\ mode # "fault" => busy = {tr} \cup Callers(tr)

(* An interrupt is in service only while a frame of its handler has not    *)
(* acknowledged it yet, so no tick is held back while a process runs:      *)
(* timer_handler() acknowledges before resche_tick() leaves it for good.   *)
InServiceIsUnacknowledged ==
  mode = "runs" =>
    Cardinality(isr) = Cardinality({k \in 1..Len(Ctx) : \E j \in 1..Len(Ctx[k].run) :
                                      Ctx[k].run[j] = "PIC_sendEOI"})

(* A process continues where it left user mode, with its own registers and *)
(* stack, whatever ran on the one USER TSS in between.                     *)
ResumesWhereItLeft ==
  tr = "SYSCALL" /\ Len(Ctx) = 1 /\ At("iret") =>
    /\ tss["USER"].ctx = left[current_process]
    /\ tss["USER"].who = current_process

(* No two processes are suspended inside a handler on the same kernel      *)
(* stack, although a forked child interrupts on its parent's stack: the    *)
(* parent sleeps meanwhile (Kernel!ParentKeepsSleeping says when it does   *)
(* not).                                                                   *)
HandlerStacksApart ==
  ~early => \A p, q \in Slots :
    p # q /\ procs[p] # "free" /\ procs[q] # "free"
    /\ Len(left[p]) > 1 /\ Len(left[q]) > 1 => saved[p].esp0 # saved[q].esp0

(* The hardware is never asked for what it refuses: no fault, busy bits    *)
(* that follow the nesting, interrupts that are acknowledged.              *)
TasksNeverFault == NeverFaults /\ BusyIsNesting /\ InServiceIsUnacknowledged

(* Processes do not disturb each other through the one USER TSS or through *)
(* a kernel stack they share.                                              *)
ProcessesResume == ResumesWhereItLeft /\ HandlerStacksApart
=============================================================================
