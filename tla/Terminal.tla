------------------------------- MODULE Terminal --------------------------------
(***************************************************************************)
(* What the console promises about its input: a line that is being edited, *)
(* and the characters that have been handed to the readers, which get each *)
(* of them once, in order, and which no editing key takes back.            *)
(***************************************************************************)
EXTENDS Naturals, Sequences

CONSTANTS
    Size,       \* characters the console can keep
    Keys, Ends  \* characters; those that end a line

VARIABLES line, ready

Init == line = <<>> /\ ready = <<>>

\* A character joins the line; the line is handed over at its end, or when
\* there is no room for more.
Type(ch) ==
    /\ Len(ready) + Len(line) < Size
    /\ IF ch \in Ends \/ Len(ready) + Len(line) + 1 = Size
       THEN line' = <<>> /\ ready' = ready \o Append(line, ch)
       ELSE line' = Append(line, ch) /\ UNCHANGED ready

Erase == line # <<>> /\ line' = SubSeq(line, 1, Len(line) - 1) /\ UNCHANGED ready
Kill == line' = <<>> /\ UNCHANGED ready
Read == ready # <<>> /\ ready' = Tail(ready) /\ UNCHANGED line

Next == (\E ch \in Keys : Type(ch)) \/ Erase \/ Kill \/ Read
Spec == Init /\ [][Next]_<<line, ready>>
===============================================================================
