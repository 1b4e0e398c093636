------------------------------ MODULE Keyboard ------------------------------
(***************************************************************************)
(* kbd_raw_getc (src/src/keyboard.c) under the loop of irq1_handler: a     *)
(* person presses and releases keys, the controller queues their scan      *)
(* codes, and the driver turns them into characters, carrying the          *)
(* modifiers and the E0 escape from byte to byte and from one interrupt to *)
(* the next.  One key stands for each way the tables treat a key; each     *)
(* modifier has both its keys.  A key held down does not repeat.           *)
(***************************************************************************)
EXTENDS Integers, Sequences, FiniteSets

CONSTANTS Keys,      \* the keys in use
          MaxBytes,  \* bound: codes in the controller
          MaxEvents  \* bound: presses and releases

\* The byte a key sends, after an E0 byte if it is an extended key.
Scan(k) ==
    CASE k = "a"      -> 30  [] k = "one"    -> 2   [] k = "enter"  -> 28
      [] k = "kenter" -> 28  [] k = "up"     -> 72  [] k = "eight"  -> 72
      [] k = "lshift" -> 42  [] k = "rshift" -> 54
      [] k = "lctl"   -> 29  [] k = "rctl"   -> 29
      [] k = "lalt"   -> 56  [] k = "ralt"   -> 56  [] k = "caps"   -> 58
Extended(k) == k \in {"kenter", "up", "rctl", "ralt"}

\* The two keys of each modifier.
Modifiers == {"SHIFT", "CTL", "ALT"}
KeysOf(m) == CASE m = "SHIFT" -> {"lshift", "rshift"} [] m = "CTL" -> {"lctl", "rctl"}
               [] m = "ALT" -> {"lalt", "ralt"}
ModifierOf(k) == {m \in Modifiers : k \in KeysOf(m)}

E0 == 224
NO == "no"

\* shiftcode and togglecode; 128 is added for extended codes.
shiftcode(d) == CASE d \in {29, 157} -> {"CTL"} [] d \in {42, 54} -> {"SHIFT"}
                  [] d \in {56, 184} -> {"ALT"} [] OTHER -> {}
togglecode(d) == CASE d = 58 -> {"CAPSLOCK"} [] d = 69 -> {"NUMLOCK"}
                   [] d = 70 -> {"SCROLLLOCK"} [] OTHER -> {}

\* The tables: a letter, a digit, Enter, a key pad digit, and two extended keys.
normalmap(d) == CASE d = 30 -> "a" [] d = 2 -> "1" [] d \in {28, 156} -> "nl"
                  [] d = 72 -> "8" [] d = 200 -> "UP" [] OTHER -> NO
shiftmap(d) == CASE d = 30 -> "A" [] d = 2 -> "!" [] OTHER -> normalmap(d)
ctlmap(d) == CASE d = 30 -> "^A" [] d \in {28, 156} -> "cr" [] d = 200 -> "UP" [] OTHER -> NO

VARIABLES
    shift,       \* the driver's set of modifier bits
    controller,  \* scan codes not yet read
    down,        \* the keys held down
    half,        \* modifiers with one of two held keys released since the last press
    capsOn,      \* Caps Lock, as its light would show it
    due,         \* what the presses so far should give
    chars,       \* what irq1_handler got so far
    events

vars == <<shift, controller, down, half, capsOn, due, chars, events>>

Init ==
    /\ shift = {} /\ controller = <<>> /\ down = {} /\ half = {} /\ capsOn = FALSE
    /\ due = <<>> /\ chars = <<>> /\ events = 0

-----------------------------------------------------------------------------
(* The person at the keyboard. *)

Bytes(k, code) == (IF Extended(k) THEN <<E0>> ELSE <<>>) \o <<code>>
Send(k, code) == /\ Len(controller) + 2 <= MaxBytes
                 /\ events < MaxEvents /\ events' = events + 1
                 /\ controller' = controller \o Bytes(k, code)

\* A modifier is on while a key of it is down, except that letting go of one of
\* two held keys turns it off until one of them is pressed again: the driver has
\* one bit for both keys and clears it at either release (keyboard.c:132).
Active(m) == KeysOf(m) \cap down # {} /\ m \notin half

\* What key k should type now: Control wins over Shift, Caps Lock swaps the
\* case of letters only.
Expected(k, caps) ==
    LET ctl == Active("CTL")
        shf == Active("SHIFT")
    IN  CASE k = "a" -> IF ctl THEN "^A" ELSE IF shf # caps THEN "A" ELSE "a"
          [] k = "one" -> IF ctl THEN NO ELSE IF shf THEN "!" ELSE "1"
          [] k \in {"enter", "kenter"} -> IF ctl THEN "cr" ELSE "nl"
          [] k = "eight" -> IF ctl THEN NO ELSE "8"
          [] k = "up" -> "UP"
          [] OTHER -> NO

Press(k) ==
    /\ k \notin down
    /\ Send(k, Scan(k))
    /\ down' = down \cup {k}
    /\ half' = half \ ModifierOf(k)
    /\ capsOn' = IF k = "caps" THEN ~capsOn ELSE capsOn
    /\ LET c == Expected(k, capsOn)
       IN  due' = IF c = NO THEN due ELSE Append(due, c)
    /\ UNCHANGED <<shift, chars>>

Release(k) ==
    /\ k \in down
    /\ Send(k, Scan(k) + 128)
    /\ down' = down \ {k}
    /\ half' = {m \in half \cup ModifierOf(k) : KeysOf(m) \cap down' # {}}
    /\ UNCHANGED <<shift, capsOn, due, chars>>

-----------------------------------------------------------------------------
(* The driver. *)

charcode(mods) == IF "CTL" \in mods THEN "ctl" ELSE IF "SHIFT" \in mods THEN "shift" ELSE "normal"
Lookup(mods, d) == CASE charcode(mods) = "ctl" -> ctlmap(d)
                     [] charcode(mods) = "shift" -> shiftmap(d)
                     [] OTHER -> normalmap(d)
SwapCase(c) == CASE c = "a" -> "A" [] c = "A" -> "a" [] OTHER -> c

\* A release: only an escaped code keeps its high bit for the table.
ReleasedPlain(data, mods) == mods \ shiftcode(data % 128) \* mutant: E0ESC stays set
Released(data, mods) ==
    mods \ (shiftcode(IF "E0ESC" \in mods THEN data ELSE data % 128) \cup {"E0ESC"})

\* kbd_raw_getc on one byte: the new modifiers and the character.
kbd_raw_getc(data, mods) ==
    IF data = E0 THEN [shift |-> mods \cup {"E0ESC"}, c |-> NO]
    ELSE IF data >= 128 THEN [shift |-> Released(data, mods), c |-> NO]
    ELSE LET d    == IF "E0ESC" \in mods THEN data + 128 ELSE data
             on   == (mods \ {"E0ESC"}) \cup shiftcode(d)
             new  == (on \ togglecode(d)) \cup (togglecode(d) \ on)
             c    == Lookup(new, d)
         IN  [shift |-> new, c |-> IF "CAPSLOCK" \in new THEN SwapCase(c) ELSE c]

\* irq1_handler reads while it gets characters: it stops at the first byte that
\* gives none, and the controller interrupts again for the rest.
RECURSIVE Characters(_, _, _)
Characters(bytes, mods, cs) ==
    IF bytes = <<>> THEN [bytes |-> bytes, shift |-> mods, cs |-> cs]
    ELSE LET r == kbd_raw_getc(Head(bytes), mods)
         IN  IF r.c = NO THEN [bytes |-> Tail(bytes), shift |-> r.shift, cs |-> cs]
             ELSE Characters(Tail(bytes), r.shift, Append(cs, r.c))

irq1_handler ==
    LET r == Characters(controller, shift, chars)
    IN  /\ controller # <<>>
        /\ controller' = r.bytes /\ shift' = r.shift /\ chars' = r.cs
        /\ UNCHANGED <<down, half, capsOn, due, events>>

Done == events = MaxEvents /\ controller = <<>> /\ UNCHANGED vars

Next == (\E k \in Keys : Press(k) \/ Release(k)) \/ irq1_handler \/ Done
Spec == Init /\ [][Next]_vars

-----------------------------------------------------------------------------
(* Properties. *)

\* Once every code is read, the driver has produced exactly the characters the
\* presses should give, with the modifiers active at each press: no E0 escape
\* or release, whichever interrupt it arrives in, leaves a modifier behind.  A
\* person would have a modifier on as long as either key is down; the driver
\* differs from that only as Active says.
TypedAsPressed == controller = <<>> => chars = due

\* Once every code is read, the driver's modifiers are the active ones, and no
\* escape is open.
ModifiersFollowKeys ==
    controller = <<>> =>
        /\ "E0ESC" \notin shift
        /\ \A m \in Modifiers : m \in shift <=> Active(m)
        /\ ("CAPSLOCK" \in shift) = capsOn

\* kbd_raw_getc() as a whole: characters and modifiers are those of the keys.
KeysGiveCharacters == TypedAsPressed /\ ModifiersFollowKeys
=============================================================================
