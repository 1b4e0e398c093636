----------------------------- MODULE StringList -----------------------------
(* What the demangler's string vectors promise: lists of texts.  `main' is *)
(* the output, `side' the vector for a return type or a local name, which  *)
(* exists only at times.                                                   *)
EXTENDS Naturals, Sequences

CONSTANTS Texts, MaxLen
VARIABLES main, side, open   \* open: the side list exists

vars == <<main, side, open>>
Init == main = <<>> /\ side = <<>> /\ open = FALSE

Push == \E t \in Texts :
          \/ main' = Append(main, t) /\ UNCHANGED <<side, open>>
          \/ open /\ side' = Append(side, t) /\ UNCHANGED <<main, open>>
Pop == \/ main # <<>> /\ main' = SubSeq(main, 1, Len(main) - 1) /\ UNCHANGED <<side, open>>
       \/ side # <<>> /\ side' = SubSeq(side, 1, Len(side) - 1) /\ UNCHANGED <<main, open>>
Open == ~open /\ open' = TRUE /\ side' = <<>> /\ UNCHANGED main
(* The side list goes to the front or the end of the main one and ends.    *)
Merge == /\ open /\ open' = FALSE /\ side' = <<>>
         /\ main' \in {side \o main, main \o side}
Drop == open /\ open' = FALSE /\ side' = <<>> /\ UNCHANGED main
Reset == main' = <<>> /\ UNCHANGED <<side, open>>

Next == Push \/ Pop \/ Open \/ Merge \/ Drop \/ Reset
Spec == Init /\ [][Next]_vars
=============================================================================
