---------------------------- MODULE ObjectTable ----------------------------
(* Objects, the shared_ptr reference counts that keep them alive, the      *)
(* descriptor tables that refer to them, the names under which devices are *)
(* opened and the registry of blocking devices that checkAll() polls.      *)
(* One action is one system call.  Threads and forks copy tables alike     *)
(* (Process::clone); what else they do is in Kernel.tla.                   *)
EXTENDS Integers, FiniteSets, FiniteSetsExt, Functions

CONSTANTS Pids,            \* 0 .. MAX_PROCESS_NUM - 1
          MaxObjects,      \* PROCESS_MAX_OBJECTS
          NormalBegin,     \* PROCESS_NORMAL_OBJECT_BEGIN
          SegmentBegin,    \* PROCESS_SEGMENT_BEGIN
          MaxDevices,      \* MAX_BLOCK_INPUT_DEVICE_NUM
          MaxPaths,        \* MAX_SPECIAL_PATH_NUM
          Names,           \* the special paths main() registers
          Objs,            \* object addresses: bound, positive
          IntBits,         \* bits of int, the type of 1 << i
          Keeps,           \* keep bitmaps exec is called with: sets of bits
          MaxSections      \* segments of a program: bound

VARIABLES objects,   \* Process::objects, per process
          procs,     \* the entries of process_list that are not null
          ref,       \* shared_buffer::ref
          kind,      \* what lives at an address; "free" once destroyed
          devices,   \* BlockInputDeviceWrapper::devices
          paths,     \* SpecialPathManager::devices
          halted     \* an exception nobody catches ended in abort()

vars == <<objects, procs, ref, kind, devices, paths, halted>>

NULL == 0
Fds == 0..MaxObjects - 1
NoPath == [name |-> "", obj |-> NULL]

Init ==
  /\ objects = [p \in Pids |-> [i \in Fds |-> NULL]]
  /\ procs = {}
  /\ ref = [o \in Objs |-> 0]
  /\ kind = [o \in Objs |-> "free"]
  /\ devices = [d \in 1..MaxDevices |-> NULL]
  /\ paths = [s \in 1..MaxPaths |-> NoPath]
  /\ halted = FALSE

-----------------------------------------------------------------------------
(* The part of the state that reference counting works on, as a value that *)
(* the statements of a handler pass along.                                 *)
World == [objects |-> objects, ref |-> ref, kind |-> kind, devices |-> devices]

Become(w) ==
  /\ objects' = w.objects
  /\ ref' = w.ref
  /\ kind' = w.kind
  /\ devices' = w.devices

Blocking(k) == k \in {"device", "sem"}

addRef(w, o) == IF o = NULL THEN w ELSE [w EXCEPT !.ref[o] = @ + 1]

UnregisterNone(w, o) == w.devices   \* mutant: the destructor leaves the entry

(* ~BlockInputDeviceWrapper.                                               *)
Unregister(w, o) ==
  [d \in DOMAIN w.devices |-> IF w.devices[d] = o THEN NULL ELSE w.devices[d]]

decRef(w, o) ==
  IF o = NULL THEN w
  ELSE LET v == [w EXCEPT !.ref[o] = @ - 1]
       IN  IF v.ref[o] # 0 THEN v
           ELSE [v EXCEPT !.kind[o] = "free", !.devices = Unregister(v, o)]

AssignLeak(w, p, i, o) ==   \* mutant: operator= forgets the old value
  addRef([w EXCEPT !.objects[p][i] = o], o)

(* shared_ptr::operator=: the old value goes first, then the new is taken. *)
Assign(w, p, i, o) ==
  addRef([decRef(w, w.objects[p][i]) EXCEPT !.objects[p][i] = o], o)

removeObject(w, p, i) ==
  IF i \in Fds /\ w.objects[p][i] # NULL THEN Assign(w, p, i, NULL) ELSE w

setObject(w, p, i, o) ==
  IF i \in Fds THEN Assign(removeObject(w, p, i), p, i, o) ELSE w

EntriesFor(w, p, o) ==
  {i \in (IF w.kind[o] = "segment" THEN SegmentBegin ELSE NormalBegin)
           .. MaxObjects - 1 : w.objects[p][i] = NULL}

(* The descriptor, or -1 for ObjectLimitExceededException.                 *)
SlotFor(w, p, o) == IF EntriesFor(w, p, o) = {} THEN -1 ELSE Min(EntriesFor(w, p, o))

addObject(w, p, o) ==
  IF SlotFor(w, p, o) = -1 THEN w ELSE Assign(w, p, SlotFor(w, p, o), o)

FreeDevices(w) == {d \in DOMAIN w.devices : w.devices[d] = NULL}

(* make_shared / create_shared: the local pointer holds one reference, and *)
(* a blocking object has entered itself in the registry.                   *)
create(w, o, k) ==
  LET v == [w EXCEPT !.kind[o] = k, !.ref[o] = 1]
  IN  IF Blocking(k) THEN [v EXCEPT !.devices[Min(FreeDevices(w))] = o] ELSE v

(* Where the next object is put; Objs bounds how many there are.           *)
Fresh == {o \in Objs : kind[o] = "free"}

-----------------------------------------------------------------------------
NameSlots(n) == {s \in DOMAIN paths : paths[s].name = n}

(* SpecialPathManager::get.                                                *)
get(n) == IF NameSlots(n) = {} THEN NULL ELSE paths[Min(NameSlots(n))].obj

(* main(): the device is created, the static instance keeps one reference  *)
(* and registerObject another.                                             *)
RegisterObject(n) ==
  /\ ~halted
  /\ procs = {}
  /\ get(n) = NULL
  /\ Fresh # {}
  /\ FreeDevices(World) # {}
  /\ NameSlots("") # {}
  /\ LET o == Min(Fresh)
     IN  /\ Become(addRef(create(World, o, "device"), o))
         /\ paths' = [paths EXCEPT ![Min(NameSlots(""))] =
                        [name |-> n, obj |-> o]]
  /\ UNCHANGED <<procs, halted>>

(* main() calls enter_init() once the names are there: the first process   *)
(* gets a device at descriptors 0 up to NormalBegin.                       *)
EnterInit ==
  /\ ~halted
  /\ procs = {}
  /\ \A n \in Names : get(n) # NULL
  /\ \E n \in Names :
       Become(FoldSet(LAMBDA i, w : setObject(w, 0, i, get(n)),
                      World, 0..NormalBegin - 1))
  /\ procs' = {0}
  /\ UNCHANGED <<paths, halted>>

Abort == halted' = TRUE /\ UNCHANGED <<objects, procs, ref, kind, devices, paths>>

(* The tail of open() and sem_create(): attach, then the local goes away.  *)
AttachLocal(w, p, o) == decRef(addObject(w, p, o), o)

(* open(): a registered device, or a file that the file system creates. A  *)
(* full table is answered with ENOSPC, and the file is destroyed again.    *)
Open(p) ==
  \/ \E n \in Names : Become(AttachLocal(addRef(World, get(n)), p, get(n)))
  \/ /\ Fresh # {}
     /\ Become(AttachLocal(create(World, Min(Fresh), "file"), p, Min(Fresh)))

OpenStep(p) ==
  /\ ~halted
  /\ p \in procs
  /\ Open(p)
  /\ UNCHANGED <<procs, paths, halted>>

(* sem_create(): neither a full registry nor a full table is caught (the   *)
(* handler catches the registry's exception around the wrong call).        *)
SemCreate(p) ==
  /\ ~halted
  /\ p \in procs
  /\ IF FreeDevices(World) = {} THEN Abort
     ELSE /\ Fresh # {}
          /\ LET w == create(World, Min(Fresh), "sem")
             IN  IF SlotFor(w, p, Min(Fresh)) = -1 THEN Abort
                 ELSE /\ Become(AttachLocal(w, p, Min(Fresh)))
                      /\ UNCHANGED <<procs, paths, halted>>

Close(p, i) ==
  /\ ~halted
  /\ p \in procs
  /\ Become(removeObject(World, p, i))
  /\ UNCHANGED <<procs, paths, halted>>

(* dup2(): getObject() takes any old descriptor, so it is one of the table.*)
Dup2(p, i, j) ==
  /\ ~halted
  /\ p \in procs
  /\ i # j
  /\ objects[p][i] # NULL
  /\ Become(setObject(World, p, j, objects[p][i]))
  /\ UNCHANGED <<procs, paths, halted>>

(* Process::clone(): a new Process takes the first free entry of           *)
(* process_list; with none left its exception ends in abort().             *)
Clone(p) ==
  /\ ~halted
  /\ p \in procs
  /\ IF procs = Pids THEN Abort
     ELSE LET c == Min(Pids \ procs)
          IN  /\ Become(FoldSet(
                   LAMBDA i, w : setObject(w, c, i, objects[p][i]),
                   World, {i \in Fds : objects[p][i] # NULL}))
              /\ procs' = procs \cup {c}
              /\ UNCHANGED <<paths, halted>>

(* ~Process.                                                               *)
RemoveAll(w, p) == FoldSet(LAMBDA i, v : removeObject(v, p, i), w, Fds)

(* exit(); the idle process 0 (hlt.c) never does.                          *)
Exit(p) ==
  /\ ~halted
  /\ p \in procs \ {0}
  /\ Become(RemoveAll(World, p))
  /\ procs' = procs \ {p}
  /\ UNCHANGED <<paths, halted>>

(* bitmap & (1 << i), with 1 << i an int: the machine shifts by i modulo   *)
(* the width, and the top bit is sign-extended to the bitmap's width.      *)
Kept(keep, i) ==
  LET b == i % IntBits
  IN  IF b = IntBits - 1 THEN \E k \in keep : k >= b ELSE b \in keep

(* One section of exec(): a Segment is made and attached, or the table's   *)
(* exception passes through execv() uncaught.                              *)
AddSegment(o, w, p) == AttachLocal(create(w, o, "segment"), p, o)

Exec(p, keep, n) ==
  /\ ~halted
  /\ p \in procs
  /\ LET w == FoldSet(LAMBDA i, v : removeObject(v, p, i),
                      World, {i \in Fds : ~Kept(keep, i)})
         room == {i \in SegmentBegin..MaxObjects - 1 : w.objects[p][i] = NULL}
     IN  IF Cardinality(room) < n THEN Abort
         ELSE \E segs \in {S \in SUBSET Fresh : Cardinality(S) = n} :
                /\ \A o \in segs, f \in Fresh : f < o => f \in segs
                /\ Become(FoldSet(LAMBDA o, v : AddSegment(o, v, p), w, segs))
                /\ UNCHANGED <<procs, paths, halted>>

Next ==
  \/ \E n \in Names : RegisterObject(n)
  \/ EnterInit
  \/ \E p \in Pids :
       \/ OpenStep(p)
       \/ SemCreate(p)
       \/ \E i \in Fds : Close(p, i)
       \/ \E i, j \in Fds : Dup2(p, i, j)
       \/ Clone(p)
       \/ Exit(p)
       \/ \E keep \in Keeps, n \in 0..MaxSections : Exec(p, keep, n)

Spec == Init /\ [][Next]_vars

-----------------------------------------------------------------------------
(* The pointers to o: descriptors, registered names, and the static        *)
(* instance that every device keeps.                                       *)
Holders(o) ==
  Cardinality({x \in Pids \X Fds : objects[x[1]][x[2]] = o})
    + Cardinality({s \in DOMAIN paths : paths[s].obj = o})
    + (IF kind[o] = "device" THEN 1 ELSE 0)

(* shared_ptr.hpp: the count of an object is the number of pointers to it, *)
(* through opens that fail half way, dup2 onto an open descriptor, clones  *)
(* and execs; so nothing is destroyed while a descriptor still refers to   *)
(* it, and nothing is kept that no one can reach.                          *)
RefCountsExact ==
  \A o \in Objs : /\ ref[o] = Holders(o)
                  /\ (kind[o] = "free") = (ref[o] = 0)

(* Process.cpp, Semaphore.hpp, BlockInputDevice.cpp: the kernel stops in   *)
(* an uncaught exception only when a table was full: the processes, the    *)
(* registry, or the descriptors of the calling process.                    *)
StopsOnlyAtLimits ==
  [][halted' # halted =>
       \/ procs = Pids
       \/ \A d \in DOMAIN devices : devices[d] # NULL
       \/ \E p \in procs :
            LET free == {i \in Fds : objects[p][i] = NULL}
            IN  \/ free \subseteq 0..NormalBegin - 1
                \/ Cardinality(free \cap SegmentBegin..MaxObjects - 1)
                     < MaxSections]_vars

(* The tables implement DescriptorStore: reference counting, the registry  *)
(* and the order of the statements are not visible in who refers to what,  *)
(* which objects exist and which ones checkAll() polls.                    *)
Store == INSTANCE DescriptorStore WITH
  None <- NULL,
  fds <- objects,
  live <- procs,
  pinned <- Range([s \in DOMAIN paths |-> paths[s].obj]) \ {NULL},
  exists <- {o \in Objs : kind[o] # "free"},
  watched <- Range(devices) \ {NULL}

KeepsDescriptorPromise == Store!Spec
=============================================================================
