----------------------------- MODULE KernelWait -----------------------------
(***************************************************************************)
(* What processes learn through :WAITPID. Kernel's ProcessWait, with the   *)
(* user's memory that its reads store a status in, and two history         *)
(* variables that say which status each process is owed.                   *)
(***************************************************************************)
EXTENDS Kernel

VARIABLES
    buffer,  \* per process: the status the read since its last request stored
    waits,   \* history: the living process whose exit it asked for
    owed     \* history: the status it must get

waitVars == <<buffer, waits, owed>>
allVars == <<vars, waitVars>>

WaitTypeOK ==
    /\ TypeOK
    /\ buffer \in [PID -> Code \cup {None}]
    /\ waits \in [PID -> PID \cup {None}]
    /\ owed \in [PID -> Code \cup {None}]

WaitInit ==
    /\ Init
    /\ buffer = [p \in PID |-> None]
    /\ waits = [p \in PID |-> None]
    /\ owed = [p \in PID |-> None]

(* p asks for t. Pid 0 never exits, and a request for it is none at all. *)
Ask(p, t) ==
    LET lives == t \in process_list \ {Idle} IN
    /\ buffer' = [buffer EXCEPT ![p] = None]
    /\ waits' = [waits EXCEPT ![p] = IF lives THEN t ELSE None]
    /\ owed' = [owed EXCEPT ![p] = IF lives THEN None ELSE
                                   IF t = Idle THEN 0 ELSE last_exit_code[t]]

(* t exits: that code is owed to those who asked, and t's own memory is gone. *)
Died(t, code) ==
    /\ buffer' = [buffer EXCEPT ![t] = None]
    /\ waits' = [q \in PID |-> IF q = t \/ waits[q] = t THEN None ELSE waits[q]]
    /\ owed' = [q \in PID |-> IF q = t THEN None
                              ELSE IF waits[q] = t THEN code ELSE owed[q]]

(* ProcessWait::read in the name of cur, with p's buffer. *)
Store(d, cur, p, size) ==
    /\ buffer' = IF Kind[d] = "wait" /\ ~Empty(d, cur) /\ size = 4
                 THEN [buffer EXCEPT ![p] = reqs[cur].status] ELSE buffer
    /\ UNCHANGED <<waits, owed>>

(* Every step of Kernel but the writes to :SLEEP. *)
WaitNext ==
    \/ \E p \in PID : \E d \in Dev :
          \/ \E t \in PID : WaitWrite(p, d, t) /\ Ask(p, t)
          \/ \E size \in Size : Read(p, d, size) /\ Store(d, p, p, size)
    \/ \E p \in PID : \E code \in Code : Exit(p, code) /\ Died(p, code)
    \/ /\ CheckOne
       /\ LET now == pending_request[sys.dev][sys.ind + 1] IN
          Store(sys.dev, current_process', now.proc, now.size)
    \/ /\ \/ CheckDone \/ Return \/ Tick \/ Halted
          \/ \E p \in PID : \/ Fork(p) \/ Thread(p) \/ ExecFails(p) \/ Exec(p)
                            \/ Yield(p) \/ Hlt(p) \/ Unregistered(p)
                            \/ \E d \in Dev : Close(p, d) \/ SemWrite(p, d)
       /\ UNCHANGED waitVars

WaitSpec == WaitInit /\ [][WaitNext]_allVars

(* A :WAITPID read gives a status only after the process that was asked for
   has exited, and gives the status of that very process, whoever uses its
   slot later and whatever process is current while check() serves it. *)
WaitStatus ==
    \A p \in process_list :
        /\ waits[p] # None => buffer[p] = None
        /\ owed[p] # None /\ buffer[p] # None => buffer[p] = owed[p]

(* What WaitStatus rests on: ProcessWait::reqs agrees with the history. *)
WaitInv ==
    /\ IInv
    /\ WaitTypeOK
    /\ \A p \in PID :
          /\ waits[p] # None => reqs[p].pid = waits[p] /\ waits[p] # Idle /\ buffer[p] = None
          /\ owed[p] # None => reqs[p].pid = 0 /\ reqs[p].status = owed[p]
          /\ owed[p] # None /\ buffer[p] # None => buffer[p] = owed[p]
=============================================================================
