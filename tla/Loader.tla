------------------------------- MODULE Loader -------------------------------
(* From a file to a running program: execv() with the two passes of        *)
(* parseElfSections(), the checks and the argument block of                *)
(* Process::exec(), and start() in the new program, which rebuilds argv.   *)
EXTENDS Integers, Sequences, FiniteSets, SequencesExt

CONSTANTS Images,     \* ELF files: [valid, phoff, phnum, phdr: sequence]
          ArgLists,   \* sequences of strings
          Space,      \* PROCESS_USER_IMAGE_SPACE
          MaxArgs,    \* PROCESS_MAX_ARGUMENTS
          ArgCopy,    \* the 20 of strlcpy(sargs[i], args[i], 20)
          BufferSize  \* sizeof(info->buffer)

VARIABLES image, args, pc, section_num, sections, sargs, info, argv

vars == <<image, args, pc, section_num, sections, sargs, info, argv>>

Junk == [base |-> -1, limit |-> 0]   \* what new Section[n] leaves
NoArg == -1                          \* 0xFFFF

Init ==
  /\ image \in Images
  /\ args \in ArgLists
  /\ pc = "count"
  /\ section_num = 0
  /\ sections = <<>>
  /\ sargs = <<>>
  /\ info = [args |-> <<>>, buffer |-> <<>>]
  /\ argv = <<>>

IsLoad(h) == h.type = "load"

(* Both passes look at phoff headers, not at phnum: what lies behind the   *)
(* table is read as headers as well.                                       *)
Loads == {i \in 1..image.phoff : IsLoad(image.phdr[i])}

Count ==
  /\ pc = "count"
  /\ IF ~image.valid
     THEN pc' = "ENOEXEC" /\ UNCHANGED <<section_num, sections>>
     ELSE /\ section_num' = Cardinality(Loads)
          /\ sections' = [i \in 1..Cardinality(Loads) |-> Junk]
          /\ pc' = "fill"
  /\ UNCHANGED <<image, args, sargs, info, argv>>

(* The second pass stores header i in entry i; an entry behind the array   *)
(* is somebody else's memory.                                              *)
Fill ==
  /\ pc = "fill"
  /\ sections' = [i \in DOMAIN sections |->
                    IF i \in Loads
                    THEN [base |-> image.phdr[i].paddr, limit |-> image.phdr[i].memsz]
                    ELSE sections[i]]
  /\ pc' = "check"
  /\ UNCHANGED <<image, args, section_num, sargs, info, argv>>

(* InvalidSectionException.                                                *)
Check ==
  /\ pc = "check"
  /\ pc' = IF \E i \in DOMAIN sections : sections[i].base + sections[i].limit >= Space
           THEN "ENOEXEC" ELSE "copy"
  /\ UNCHANGED <<image, args, section_num, sections, sargs, info, argv>>

strlcpy(s, n) == SubSeq(s, 1, IF Len(s) < n - 1 THEN Len(s) ELSE n - 1)

(* The arguments are copied before the memory they are in may be reused.   *)
CopyArgs ==
  /\ pc = "copy"
  /\ sargs' = [i \in 1..(IF Len(args) < MaxArgs THEN Len(args) ELSE MaxArgs) |->
                 strlcpy(args[i], ArgCopy)]
  /\ info' = [args |-> [i \in 1..MaxArgs |-> NoArg],
              buffer |-> [i \in 0..BufferSize - 1 |-> ""]]
  /\ pc' = "pack"
  /\ UNCHANGED <<image, args, section_num, sections, argv>>

FitsWithoutNul(total, length) ==   \* mutant: the terminator is not counted
  total + length <= BufferSize

Fits(total, length) == total + length + 1 <= BufferSize

(* strcpy into the buffer: the characters and a NUL.                       *)
Store(buffer, at, s) ==
  [i \in DOMAIN buffer |->
     IF i >= at /\ i < at + Len(s) THEN s[i - at + 1]
     ELSE IF i = at + Len(s) THEN "" ELSE buffer[i]]

Pack ==
  LET step(acc, s) ==
        IF acc.full \/ ~Fits(acc.total, Len(s)) THEN [acc EXCEPT !.full = TRUE]
        ELSE [full |-> FALSE, total |-> acc.total + Len(s) + 1, n |-> acc.n + 1,
              args |-> [acc.args EXCEPT ![acc.n] = acc.total],
              buffer |-> Store(acc.buffer, acc.total, s)]
      end == FoldLeft(step, [full |-> FALSE, total |-> 0, n |-> 1,
                             args |-> info.args, buffer |-> info.buffer], sargs)
  IN  /\ pc = "pack"
      /\ info' = [args |-> end.args, buffer |-> end.buffer]
      /\ pc' = "start"
      /\ UNCHANGED <<image, args, section_num, sections, sargs, argv>>

(* The string at an offset of the buffer, to its NUL.                      *)
StringAt(at) ==
  LET nul == CHOOSE i \in at..BufferSize :
               /\ i = BufferSize \/ info.buffer[i] = ""
               /\ \A j \in at..i - 1 : info.buffer[j] # ""
  IN  [k \in 1..nul - at |-> info.buffer[at + k - 1]]

(* start(): argv up to the first 0xFFFF.                                   *)
Start ==
  LET argc == CHOOSE n \in 0..MaxArgs :
                /\ n = MaxArgs \/ info.args[n + 1] = NoArg
                /\ \A i \in 1..n : info.args[i] # NoArg
  IN  /\ pc = "start"
      /\ argv' = [i \in 1..argc |-> StringAt(info.args[i])]
      /\ pc' = "main"
      /\ UNCHANGED <<image, args, section_num, sections, sargs, info>>

Next == Count \/ Fill \/ Check \/ CopyArgs \/ Pack \/ Start

Spec == Init /\ [][Next]_vars

-----------------------------------------------------------------------------
(* README.md, src/elf: "解析 elf 格式" (parses the ELF format), and         *)
(* execv(): the sections a program gets are its PT_LOAD headers, those of  *)
(* the table of phnum entries, in order.                                   *)
SectionsAreTheLoads ==
  pc \in {"check", "copy"} =>
    sections = LET loads == SelectSeq(SubSeq(image.phdr, 1, image.phnum),
                                      LAMBDA h : h.type = "load")
               IN  [i \in DOMAIN loads |->
                      [base |-> loads[i].paddr, limit |-> loads[i].memsz]]

(* Process.cpp exec, user_call_main.c start: main() gets the arguments in  *)
(* order, each cut to what the copy keeps, up to the first that no longer  *)
(* fits behind the others; none is joined with its neighbour.              *)
ProgramSeesArgs ==
  pc = "main" =>
    LET cut == [i \in DOMAIN args |-> SubSeq(args[i], 1,
                  IF Len(args[i]) < ArgCopy THEN Len(args[i]) ELSE ArgCopy - 1)]
        need(n) == FoldLeft(LAMBDA a, s : a + Len(s) + 1, 0, SubSeq(cut, 1, n))
        fit == {n \in 0..Len(args) : n <= MaxArgs /\ need(n) <= BufferSize}
    IN  argv = SubSeq(cut, 1, CHOOSE n \in fit : \A m \in fit : m <= n)

(* execv(), Process::exec() and start(): the program that runs has the     *)
(* sections of the file and the arguments of the call.                     *)
ProgramIsLoaded == ProgramSeesArgs /\ SectionsAreTheLoads
=============================================================================
