----------------------------- MODULE MCServices -----------------------------
(* What the processes of Kernel.tla stand on, side by side: the processor  *)
(* with its tasks and interrupts, the descriptor tables, the program loader *)
(* and the command line.  A behaviour exercises the one that `part' names; *)
(* the others stay at an initial state.  The properties of Machine are     *)
(* checked as they are stated there.                                       *)
EXTENDS Machine, Integers
LOCAL INSTANCE SequencesExt

CONSTANTS Pids, MaxObjects, NormalBegin, SegmentBegin, MaxDevices, MaxPaths, Names, Objs,
          IntBits, Keeps, MaxSections,                \* ObjectTable
          Space, MaxArgs, ArgCopy, BufferSize,        \* Loader
          Chars, MaxLen, MaxWords                     \* Cmdline

VARIABLES part,
          objects, alive, ref, kind, registry, paths, halted,
          image, argList, pc, section_num, sections, sargs, info, argv,
          cmdline, now_start, begin_args, init_path, args, done

table_ == <<objects, alive, ref, kind, registry, paths, halted>>
loader_ == <<image, argList, pc, section_num, sections, sargs, info, argv>>
cmdline_ == <<cmdline, now_start, begin_args, init_path, args, done>>

(* Images as the linker script of the user programs lays them out: the     *)
(* loadable headers first, nothing behind the table that looks like one.   *)
Headers == [type: {"load", "note", "other"}, paddr: {0, 2}, memsz: {1, 3}]
AllImages ==
  {[valid |-> v, phoff |-> 3, phnum |-> n, phdr |-> h] :
     v \in BOOLEAN, n \in 1..3, h \in {s \in [1..3 -> Headers] :
       \A i \in 1..3 : s[i].type # "load" => s[i].paddr = 0 /\ s[i].memsz = 1}}
LoadsFirst(im) ==
  /\ \A i \in im.phnum + 1..3 : im.phdr[i].type # "load"
  /\ \A i, j \in 1..3 : i < j /\ im.phdr[j].type = "load" => im.phdr[i].type = "load"
LinkedImages == {im \in AllImages : LoadsFirst(im)}

Strings == {<<>>, <<"a">>, <<"b", "a">>, <<"a", "b", "b">>}
SomeArgs == BoundedSeq(Strings, 4)
OneImage == [valid |-> TRUE, phoff |-> 1, phnum |-> 1,
             phdr |-> <<[type |-> "load", paddr |-> 0, memsz |-> 1]>>]

O == INSTANCE ObjectTable WITH procs <- alive, devices <- registry
L == INSTANCE Loader WITH Images <- LinkedImages \cup {OneImage}, ArgLists <- SomeArgs,
                          args <- argList
C == INSTANCE Cmdline WITH MaxArgs <- MaxWords

ServicesInit ==
  /\ part \in {"machine", "table", "loader", "cmdline"}
  /\ IF part = "loader"
     THEN argList = <<>> \/ image = OneImage
     ELSE argList = <<>> /\ image = OneImage
  /\ part # "cmdline" => cmdline = <<>>
  /\ Init /\ O!Init /\ L!Init /\ C!Init

ServicesNext ==
  \/ part = "machine" /\ Next /\ UNCHANGED <<part, table_, loader_, cmdline_>>
  \/ part = "table" /\ O!Next /\ UNCHANGED <<part, vars, loader_, cmdline_>>
  \/ part = "loader" /\ L!Next /\ UNCHANGED <<part, vars, table_, cmdline_>>
  \/ part = "cmdline" /\ C!Next /\ UNCHANGED <<part, vars, table_, loader_>>

ServicesSpec == ServicesInit /\ [][ServicesNext]_<<part, vars, table_, loader_, cmdline_>>

-----------------------------------------------------------------------------
(* The reference count of an object is the number of pointers to it.       *)
RefCountsExact == part = "table" => O!RefCountsExact
(* The descriptor tables implement DescriptorStore, and an uncaught        *)
(* exception stops the kernel only when a table is full.                   *)
KeepsDescriptorPromise ==
  /\ O!Store!Init /\ [][part = "table" /\ O!Store!Next]_(O!Store!vars)
  /\ O!StopsOnlyAtLimits
(* exec() loads the PT_LOAD sections of a linked program and, with         *)
(* start(), hands the arguments on, in order and apart.                    *)
ProgramIsLoaded == part = "loader" => L!ProgramIsLoaded
(* parse_cmdline() finds the program and its arguments.                    *)
CmdlineParsed == part = "cmdline" => C!CmdlineParsed
=============================================================================
