------------------------------ MODULE Keyboard ------------------------------
(***************************************************************************)
(* The keyboard decoder (kbd.c, kbdgetc): scan codes arrive one byte per   *)
(* interrupt, keys of the second group with a 0xE0 before them, and a held *)
(* key repeats its code.  A byte is a record: the prefix, or a key of one  *)
(* of the two tables (the code with or without 0x80) pressed or released.  *)
(***************************************************************************)
EXTENDS Integers, Sequences

CONSTANT MAXWIRE    \* bound on the bytes waiting when another key moves

VARIABLES
    shift,      \* the static shift of kbdgetc, as a set of bits
    typed,      \* what kbdgetc returned last: "NO" or a character
    wire,       \* bytes the keyboard sent and kbdgetc has not read
    held,       \* keys held down
    caps        \* history: caps lock, as the presses of its key leave it

vars == <<shift, typed, wire, held, caps>>

(* Keys: the left and right control and shift keys, caps lock, a letter,   *)
(* and an arrow.  Right control and the arrow are of the second group.     *)
Keys == {"lctl", "rctl", "lshift", "rshift", "caps", "a", "up"}
Second == {"rctl", "up"}
shiftcode(k) ==
    CASE k \in {"lctl", "rctl"} -> {"CTL"}
      [] k \in {"lshift", "rshift"} -> {"SHIFT"}
      [] OTHER -> {}
togglecode(k) == IF k = "caps" THEN {"CAPSLOCK"} ELSE {}

charcode(k, s) ==
    CASE k = "a" -> IF "CTL" \in s THEN "C-a" ELSE IF "SHIFT" \in s THEN "A" ELSE "a"
      [] k = "up" -> "KEY_UP"
      [] OTHER -> "NO"
capslock(c, s) ==
    IF "CAPSLOCK" \notin s THEN c
    ELSE CASE c = "a" -> "A" [] c = "A" -> "a" [] OTHER -> c

(* The key a code stands for: without its prefix a code of the second      *)
(* group is that of another key (rctl's is lctl's, up's is the keypad's).  *)
decoded(k, s) ==
    IF k \in Second /\ "E0ESC" \notin s THEN (IF k = "rctl" THEN "lctl" ELSE "keypad") ELSE k
released_KeepsE0(k, s) == s \ shiftcode(decoded(k, s))   \* mutant: E0ESC stays set
released(k, s) == s \ (shiftcode(decoded(k, s)) \union {"E0ESC"})

kbdgetc ==
    /\ wire # <<>> /\ wire' = Tail(wire)
    /\ LET b == Head(wire)
           s1 == shift \ {"E0ESC"}
           s2 == s1 \union shiftcode(decoded(b.key, shift))
           s3 == (s2 \ togglecode(b.key)) \union (togglecode(b.key) \ s2)
       IN  CASE b.what = "E0"      -> shift' = shift \union {"E0ESC"} /\ typed' = "NO"
             [] b.what = "release" -> shift' = released(b.key, shift) /\ typed' = "NO"
             [] OTHER ->
                  /\ shift' = s3
                  /\ typed' = capslock(charcode(decoded(b.key, shift), s3), s3)
    /\ UNCHANGED <<held, caps>>

(* The keyboard: a press (or the repeat of a held key) and a release.      *)
Code(k, what) ==
    (IF k \in Second THEN <<[what |-> "E0", key |-> k]>> ELSE <<>>)
        \o <<[what |-> what, key |-> k]>>
Press(k) ==
    /\ Len(wire) < MAXWIRE /\ wire' = wire \o Code(k, "press")
    /\ held' = held \union {k}
    /\ caps' = IF k = "caps" THEN ~ caps ELSE caps
    /\ UNCHANGED <<shift, typed>>
Release(k) ==
    /\ Len(wire) < MAXWIRE /\ k \in held /\ wire' = wire \o Code(k, "release")
    /\ held' = held \ {k}
    /\ UNCHANGED <<shift, typed, caps>>

Init == shift = {} /\ typed = "NO" /\ wire = <<>> /\ held = {} /\ caps = FALSE

Next == kbdgetc \/ \E k \in Keys : Press(k) \/ Release(k)

Spec == Init /\ [][Next]_vars

(* Once every byte is read, a modifier bit is set only while one of its    *)
(* keys is held, no prefix is left over to change the meaning of the next  *)
(* code, caps lock is what its key made it, and the last character was     *)
(* changed only by a key that is held or by caps lock.                     *)
NoneStuck ==
    wire = <<>> =>
        /\ "E0ESC" \notin shift
        /\ ("CAPSLOCK" \in shift) = caps
        /\ \A bit \in shift \ {"CAPSLOCK"} : \E k \in held : bit \in shiftcode(k)
        /\ typed = "C-a" => held \intersect {"lctl", "rctl"} # {}
        /\ typed = "A" => caps \/ held \intersect {"lshift", "rshift"} # {}
=============================================================================
