------------------------------ MODULE Cmdline ------------------------------
(* parse_cmdline(): the kernel's command line is cut in place, one word at *)
(* a time, into the path of the first program and, behind "--", its        *)
(* arguments.                                                              *)
EXTENDS Integers, Sequences, SequencesExt

CONSTANTS Chars,      \* characters of a command line, " " and "-" among them
          MaxLen,     \* longest command line: bound
          MaxArgs     \* PROCESS_MAX_ARGUMENTS

VARIABLES cmdline, now_start, begin_args, init_path, args, done

vars == <<cmdline, now_start, begin_args, init_path, args, done>>

Default == <<"/init.elf">>

NonBlank(i) == i <= Len(cmdline) /\ cmdline[i] # " "

(* The first position from i on that is (not) a blank; Len + 1 is the NUL. *)
SkipWord(i) ==
  CHOOSE j \in i..Len(cmdline) + 1 :
    ~NonBlank(j) /\ \A k \in i..j - 1 : NonBlank(k)
SkipBlanks(i) ==
  CHOOSE j \in i..Len(cmdline) + 1 :
    (j > Len(cmdline) \/ NonBlank(j)) /\ \A k \in i..j - 1 : ~NonBlank(k)

Init ==
  /\ cmdline \in BoundedSeq(Chars, MaxLen)
  /\ now_start = SkipBlanks(1)
  /\ begin_args = FALSE
  /\ init_path = Default
  /\ args = <<>>
  /\ done = FALSE

RoomNone(n) == n <= MaxArgs   \* mutant: one argument too many

Room(n) == n < MaxArgs

(* One iteration: the word from now_start on is the switch, an argument or *)
(* the path so far.  The loop ends at the end of the line.                 *)
Word ==
  LET now_end == SkipWord(now_start)
      word == SubSeq(cmdline, now_start, now_end - 1)
      next == SkipBlanks(now_end)
  IN  /\ ~done
      /\ IF ~begin_args /\ word = <<"-", "-">>
         THEN /\ begin_args' = TRUE
              /\ args' = Append(args, init_path)
              /\ UNCHANGED init_path
         ELSE IF begin_args
         THEN /\ args' = IF Room(Len(args)) THEN Append(args, word) ELSE args
              /\ UNCHANGED <<begin_args, init_path>>
         ELSE /\ init_path' = word
              /\ UNCHANGED <<begin_args, args>>
      /\ IF next <= Len(cmdline)
         THEN now_start' = next /\ UNCHANGED done
         ELSE now_start' = now_start /\ done' = TRUE
      /\ UNCHANGED cmdline

(* Without "--" the path is the only argument.                             *)
Finish ==
  /\ done
  /\ ~begin_args
  /\ args = <<>>
  /\ args' = <<init_path>>
  /\ UNCHANGED <<cmdline, now_start, begin_args, init_path, done>>

Next == Word \/ Finish

Spec == Init /\ [][Next]_vars

-----------------------------------------------------------------------------
(* The words of the line, from where they start and end.                   *)
Words ==
  LET blank(i) == i \notin DOMAIN cmdline \/ cmdline[i] = " "
      from == SetToSortSeq({i \in DOMAIN cmdline : ~blank(i) /\ blank(i - 1)}, <)
      to == SetToSortSeq({i \in DOMAIN cmdline : ~blank(i) /\ blank(i + 1)}, <)
  IN  [k \in DOMAIN from |-> SubSeq(cmdline, from[k], to[k])]

(* main.cpp parse_cmdline ("find the last param"): the program is the last *)
(* word before the first "--", and its arguments are its path and the      *)
(* words behind that "--", as many as fit, whatever blanks are around      *)
(* them.  A blank line gives the empty path.                               *)
CmdlineParsed ==
  done /\ args # <<>> =>
    LET dashes == {i \in DOMAIN Words : Words[i] = <<"-", "-">>}
        k == IF dashes = {} THEN Len(Words) + 1
             ELSE CHOOSE i \in dashes : \A j \in dashes : i <= j
        path == IF k > 1 THEN Words[k - 1]
                ELSE IF dashes = {} THEN <<>> ELSE Default
        all == <<path>> \o SubSeq(Words, k + 1, Len(Words))
    IN  /\ init_path = path
        /\ args = SubSeq(all, 1, IF Len(all) < MaxArgs THEN Len(all) ELSE MaxArgs)
=============================================================================
