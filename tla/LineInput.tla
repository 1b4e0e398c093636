----------------------------- MODULE LineInput ------------------------------
(***************************************************************************)
(* Console input: the keyboard interrupt fills a ring of characters        *)
(* (irq1_handler, VGATextIODevice.cpp), a reading system call drains it    *)
(* through the line editor (LineBufferedIOMixin::read) and takes its bytes *)
(* from the committed ring.  System calls run with interrupts enabled, so  *)
(* the interrupt may fall between any two of the reader's accesses to the  *)
(* shared ring; those accesses are separate steps here.  The line and the  *)
(* committed ring belong to the reader alone and are sequences of at most  *)
(* BUFFER_SIZE - 1 characters, what a ring of that size holds.             *)
(***************************************************************************)
EXTENDS Integers, Sequences

CONSTANTS
    KBD_BUFFER_SIZE, BUFFER_SIZE,
    Typeable,   \* the characters the keyboard may deliver
    Sizes,      \* the sizes of the reads; 0 is the probe of check()
    MaxTyped    \* bound: characters typed

VARIABLES
    kbd_buffer, kbd_buffer_start, kbd_buffer_end,
    buffer,            \* the line being edited
    buffer_committed,  \* what readers may take
    eof,
    pc, ch, size,      \* the reading system call: where it is, its locals
    screen,            \* what the terminal shows of the current line
    typed, taken, got, \* history: characters put in the ring, taken out of it,
                       \* handed to readers
    wanted,            \* history: the text and the line that the user expects
    lost,              \* history: a character was dropped for lack of room
    eofs               \* history: ends of file [typed, reported]

ring == <<kbd_buffer, kbd_buffer_start, kbd_buffer_end>>
edit == <<buffer, buffer_committed, eof>>
hist == <<typed, taken, got, wanted, lost, eofs>>
vars == <<ring, edit, pc, ch, size, screen, hist>>

NL == "nl"
CR == "cr"
CtrlD == "^D"
BS == "bs"
High == "up"    \* an arrow key: 128 or more
None == "none"

Init ==
    /\ kbd_buffer = [i \in 0 .. (KBD_BUFFER_SIZE - 1) |-> None]
    /\ kbd_buffer_start = 0 /\ kbd_buffer_end = 0
    /\ buffer = <<>> /\ buffer_committed = <<>> /\ eof = FALSE
    /\ pc = "user" /\ ch = None /\ size = 0
    /\ screen = <<>>
    /\ typed = <<>> /\ taken = <<>> /\ got = <<>> /\ lost = FALSE
    /\ wanted = [text |-> <<>>, line |-> <<>>]
    /\ eofs = [typed |-> 0, reported |-> 0]

-----------------------------------------------------------------------------
(* The interrupt. *)

Succ(i) == (i + 1) % KBD_BUFFER_SIZE

RoomAlways == TRUE \* mutant: the oldest characters are overwritten
Room == Succ(kbd_buffer_end) # kbd_buffer_start

irq1_handler(c) ==
    /\ Len(typed) < MaxTyped
    /\ IF Room
       THEN /\ kbd_buffer' = [kbd_buffer EXCEPT ![kbd_buffer_end] = c]
            /\ kbd_buffer_end' = Succ(kbd_buffer_end)
            /\ typed' = Append(typed, c)
       ELSE UNCHANGED <<kbd_buffer, kbd_buffer_end, typed>>
    /\ UNCHANGED <<kbd_buffer_start, edit, pc, ch, size, screen, taken, got, wanted, lost, eofs>>

-----------------------------------------------------------------------------
(* The line editor, on a record of its state. *)

Full(s) == Len(s) >= BUFFER_SIZE - 1

\* The first n characters of s, or all of it.
Upto(s, n) == SubSeq(s, 1, IF n < Len(s) THEN n ELSE Len(s))

\* commit(): moves what fits, clears the line.
commitKeep(st) == \* mutant: the line is not cleared
    [st EXCEPT !.committed = Upto(@ \o st.line, BUFFER_SIZE - 1)]
commit(st) ==
    [st EXCEPT !.committed = Upto(@ \o st.line, BUFFER_SIZE - 1),
               !.line = <<>>,
               !.lost = @ \/ Len(st.committed \o st.line) >= BUFFER_SIZE]

\* A character that finds the line full: neither stored nor echoed.
Dropped(st, c) == [st EXCEPT !.lost = TRUE]

\* One character through read's loop body.  leave is set when the loop is left:
\* "eof" returns 0, "break" goes on to the committed ring.
Feed(st, c) ==
    CASE c = High -> st
      [] c = CtrlD -> IF st.line = <<>> /\ st.committed = <<>>
                      THEN [st EXCEPT !.leave = "eof"]
                      ELSE [commit(st) EXCEPT !.leave = "break"]
      [] c = BS -> IF st.line = <<>> THEN st
                   ELSE [st EXCEPT !.line = SubSeq(@, 1, Len(@) - 1),
                                   !.screen = SubSeq(@, 1, Len(@) - 1)]
      [] OTHER -> IF Full(st.line) THEN Dropped(st, c)
                  ELSE LET st1 == [st EXCEPT !.line = Append(@, c)]
                       IN  IF c = NL THEN [commit(st1) EXCEPT !.screen = <<>>]
                                     ELSE [st1 EXCEPT !.screen = Append(@, c)]

\* The line editor a user expects, without limits, on the text that is final
\* and the line that can still be edited.
Edit(e, c) ==
    CASE c = High -> e
      [] c = CtrlD -> [text |-> e.text \o e.line, line |-> <<>>]
      [] c = BS -> [e EXCEPT !.line = SubSeq(@, 1, IF @ = <<>> THEN 0 ELSE Len(@) - 1)]
      [] c = NL -> [text |-> e.text \o Append(e.line, NL), line |-> <<>>]
      [] OTHER -> [e EXCEPT !.line = Append(@, c)]

State == [line |-> buffer, committed |-> buffer_committed, screen |-> screen,
          lost |-> lost, leave |-> "no"]

-----------------------------------------------------------------------------
(* The reading system call. *)

\* read(buf, n): a remembered end of file is reported without looking at the
\* keyboard; a probe leaves it to be reported again.
StillEof(n) == n = 0
Read(n) ==
    /\ pc = "user"
    /\ size' = n
    /\ IF eof
       THEN /\ eof' = StillEof(n)
            /\ eofs' = [eofs EXCEPT !.reported = @ + (IF n = 0 THEN 0 ELSE 1)]
            /\ pc' = "user"
       ELSE /\ pc' = "empty?"
            /\ UNCHANGED <<eof, eofs>>
    /\ UNCHANGED <<ring, buffer, buffer_committed, ch, screen, typed, taken, got, wanted, lost>>

\* Base::read: empty() decides between another character and the answer.
Empty == kbd_buffer_start = kbd_buffer_end
TestEmpty ==
    /\ pc = "empty?"
    /\ pc' = IF Empty THEN "answer" ELSE "fetch"
    /\ UNCHANGED <<ring, edit, ch, size, screen, hist>>

\* getc0: the character is read ...
Fetch ==
    /\ pc = "fetch"
    /\ pc' = "advance"
    /\ ch' = kbd_buffer[kbd_buffer_start]
    /\ UNCHANGED <<ring, edit, size, screen, hist>>

\* ... then the start moves on; '\r' becomes '\n', and the loop body runs.
Translate(c) == IF c = CR THEN NL ELSE c
Advance ==
    LET c  == Translate(ch)
        st == Feed(State, c)
    IN  /\ pc = "advance"
        /\ kbd_buffer_start' = Succ(kbd_buffer_start)
        /\ taken' = Append(taken, ch)
        /\ wanted' = Edit(wanted, c)
        /\ buffer' = st.line /\ buffer_committed' = st.committed
        /\ screen' = st.screen /\ lost' = st.lost
        /\ eof' = (st.leave = "eof" /\ StillEof(size))
        /\ eofs' = [typed    |-> eofs.typed + (IF st.leave = "eof" THEN 1 ELSE 0),
                    reported |-> eofs.reported + (IF st.leave = "eof" /\ size > 0 THEN 1 ELSE 0)]
        /\ pc' = CASE st.leave = "no" -> "empty?"
                   [] st.leave = "break" -> "answer"
                   [] st.leave = "eof" -> "user"
        /\ ch' = None
        /\ UNCHANGED <<kbd_buffer, kbd_buffer_end, size, typed, got>>

\* -EAGAIN from an empty committed ring, else up to size characters of it.
CountShort == Len(Upto(Tail(buffer_committed), size)) \* mutant: stops one early
Count == Len(Upto(buffer_committed, size))
Answer ==
    LET n == IF buffer_committed = <<>> THEN 0 ELSE Count
    IN  /\ pc = "answer"
        /\ pc' = "user"
        /\ got' = got \o SubSeq(buffer_committed, 1, n)
        /\ buffer_committed' = SubSeq(buffer_committed, n + 1, Len(buffer_committed))
        /\ UNCHANGED <<ring, buffer, eof, ch, size, screen, typed, taken, wanted, lost, eofs>>

Next ==
    \/ \E c \in Typeable : irq1_handler(c)
    \/ \E n \in Sizes : Read(n)
    \/ TestEmpty \/ Fetch \/ Advance \/ Answer

\* A system call runs to its end, and programs keep reading with a size.
Fairness == /\ WF_vars(TestEmpty \/ Fetch \/ Advance \/ Answer)
            /\ \A n \in Sizes \ {0} : SF_vars(Read(n))

Spec == Init /\ [][Next]_vars /\ Fairness

-----------------------------------------------------------------------------
(* Properties. *)

\* What the ring holds, oldest first.
Waiting == [i \in 1 .. ((kbd_buffer_end - kbd_buffer_start) % KBD_BUFFER_SIZE) |->
              kbd_buffer[(kbd_buffer_start + i - 1) % KBD_BUFFER_SIZE]]

\* The ring is a queue whatever the interleaving of irq1_handler with getc0:
\* no character is lost, repeated, reordered or seen before it was written.
RingIsQueue ==
    /\ typed = taken \o Waiting
    /\ pc = "advance" => Waiting # <<>> /\ ch = Waiting[1]

\* Unless something did not fit, readers get exactly the edited text, in order
\* and once, however it is cut into reads and probes.
ReadersGetEditedText ==
    ~lost => /\ got \o buffer_committed = wanted.text
             /\ buffer = wanted.line

\* Every end of file typed on an empty line is reported to exactly one read
\* that asked for data; probes neither swallow nor repeat it.
EofReportedOnce == eofs.typed = eofs.reported + (IF eof THEN 1 ELSE 0)

\* The line that Enter would commit is what the terminal shows at its end.
EchoShowsLine ==
    /\ Len(buffer) <= Len(screen)
    /\ SubSeq(screen, Len(screen) - Len(buffer) + 1, Len(screen)) = buffer

\* If programs keep reading, the ring is drained, what was committed is handed
\* out, and every Enter typed reaches a reader as a newline.  The last is claimed
\* only while nothing was dropped: an Enter that finds the line full is not
\* stored (LineBufferedIOMixin.hpp:82), and commit() cuts off what the committed
\* ring has no room for.
IsNL(c) == Translate(c) = NL
Newlines(s) == Len(SelectSeq(s, IsNL))
EnteredLineIsRead ==
    /\ ~Empty ~> Empty
    /\ buffer_committed # <<>> ~> buffer_committed = <<>>
    /\ \A n \in 1 .. MaxTyped : Newlines(typed) >= n ~> (lost \/ Newlines(got) >= n)

\* LineBufferedIOMixin::read() as a whole: text, ends of file and echo.
ConsoleEdits == ReadersGetEditedText /\ EofReportedOnce /\ EchoShowsLine

-----------------------------------------------------------------------------
(* The inductive invariant. *)

Char == Typeable \cup {NL, None}
TypeOK ==
    /\ kbd_buffer \in [0 .. (KBD_BUFFER_SIZE - 1) -> Char]
    /\ kbd_buffer_start \in 0 .. (KBD_BUFFER_SIZE - 1)
    /\ kbd_buffer_end \in 0 .. (KBD_BUFFER_SIZE - 1)
    /\ \A s \in {buffer, buffer_committed, screen, typed, taken, got} : s \in Seq(Char)
    /\ pc \in {"user", "empty?", "fetch", "advance", "answer"}
    /\ ch \in Char /\ size \in Nat
    /\ wanted \in [text : Seq(Char), line : Seq(Char)]
    /\ eof \in BOOLEAN /\ lost \in BOOLEAN
    /\ eofs \in [typed : Nat, reported : Nat]

\* getc0 is called on a ring that is not empty, and a system call that looks at
\* the keyboard runs with no end of file remembered.
LineInv ==
    /\ TypeOK /\ RingIsQueue /\ ConsoleEdits
    /\ pc = "fetch" => ~Empty
    /\ pc # "user" => ~eof

\* The sizes that the proofs allow: rings of at least one cell.
SizesOK ==
    /\ KBD_BUFFER_SIZE \in Nat \ {0} /\ BUFFER_SIZE \in Nat \ {0}
    /\ Sizes \subseteq Nat
=============================================================================
