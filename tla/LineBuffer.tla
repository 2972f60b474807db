----------------------------- MODULE LineBuffer -----------------------------
(***************************************************************************)
(* What the console's input promises: typed characters form a line that    *)
(* can be edited until it is committed, by the end of the line or because  *)
(* the buffer is full; readers take committed characters in order.         *)
(***************************************************************************)
EXTENDS Integers, Sequences, SequencesExt

CONSTANTS
    Chars, Ends,    \* characters, and the ones that commit a line
    Capacity

VARIABLES ready, line   \* committed characters, and the line being edited

Init == ready = <<>> /\ line = <<>>

Type(c) ==
    /\ Len(ready) + Len(line) < Capacity
    /\ IF c \in Ends \/ Len(ready) + Len(line) = Capacity - 1
       THEN ready' = ready \o Append(line, c) /\ line' = <<>>
       ELSE line' = Append(line, c) /\ UNCHANGED ready

Erase == line # <<>> /\ line' = Front(line) /\ UNCHANGED ready

(* Nothing in the line is a newline, so all of it goes.                    *)
Kill == line' = <<>> /\ UNCHANGED ready

Take == ready # <<>> /\ ready' = Tail(ready) /\ UNCHANGED line

Next == (\E c \in Chars : Type(c)) \/ Erase \/ Kill \/ Take

Spec == Init /\ [][Next]_<<ready, line>>

=============================================================================
