-------------------------------- MODULE Grep --------------------------------
(***************************************************************************)
(* grep.c: the matcher, and the loop that cuts what read returns into      *)
(* lines.  A text is a sequence of "a" and "b"; a line ends in "nl".       *)
(***************************************************************************)
EXTENDS Integers, Sequences, FiniteSets, FiniteSetsExt, SequencesExt

CONSTANTS
    MAXRE, MAXTEXT,     \* lengths of the pattern and of a line
    MAXFILE, FILERE,    \* length of the file, and of the pattern when there is one
    BUFSIZE             \* sizeof(buf): a line and its newline fit, and a null

VARIABLES
    re,                 \* the pattern
    file, m, rest,      \* the file, the bytes of it kept in buf, and what is still to be read
    out                 \* the lines written
gvars == <<re, file, m, rest, out>>

ReChars == {"a", "b", ".", "*", "^", "$"}

-----------------------------------------------------------------------------
starmatch(c, text) == text # <<>> /\ (Head(text) = c \/ c = ".")

RECURSIVE matchhere(_, _), matchstar(_, _, _)
matchhere(r, text) ==
    IF r = <<>> THEN TRUE
    ELSE IF Len(r) > 1 /\ r[2] = "*" THEN matchstar(r[1], SubSeq(r, 3, Len(r)), text)
    ELSE IF r = <<"$">> THEN text = <<>>
    ELSE /\ text # <<>> /\ Head(r) \in {".", Head(text)}
         /\ matchhere(Tail(r), Tail(text))

matchstar(c, r, text) ==
    \/ matchhere(r, text)
    \/ starmatch(c, text) /\ matchstar(c, r, Tail(text))

RECURSIVE matchany(_, _)
matchany(r, text) == matchhere(r, text) \/ (text # <<>> /\ matchany(r, Tail(text)))

match(r, text) ==
    IF r # <<>> /\ Head(r) = "^" THEN matchhere(Tail(r), text) ELSE matchany(r, text)

-----------------------------------------------------------------------------
(* What grep does with the bytes in buf: the matching lines, in order, and *)
(* the bytes after the last newline.  Without a newline all is dropped.    *)
RECURSIVE lines(_)
lines(b) == IF ~ Contains(b, "nl") THEN <<>>
            ELSE LET q == Min({i \in DOMAIN b : b[i] = "nl"}) IN
                 <<SubSeq(b, 1, q - 1)>> \o lines(SubSeq(b, q + 1, Len(b)))

after_None(b) == <<>>       \* mutant: the start of the next line is dropped
after(b) ==
    IF ~ Contains(b, "nl") THEN <<>>
    ELSE SubSeq(b, Max({i \in DOMAIN b : b[i] = "nl"}) + 1, Len(b))

(* A file's read returns all that there is room for.                       *)
grep ==
    LET n == Min({BUFSIZE - Len(m) - 1, Len(rest)})
        b == m \o SubSeq(rest, 1, n)
    IN  /\ n > 0
        /\ out' = out \o SelectSeq(lines(b), LAMBDA t : match(re, t))
        /\ m' = after(b) /\ rest' = SubSeq(rest, n + 1, Len(rest))
        /\ UNCHANGED <<re, file>>

-----------------------------------------------------------------------------
(* Lines of at most MAXTEXT bytes, and patterns.                           *)
Texts == BoundedSeq({"a", "b"}, MAXTEXT)
Init == re = <<>> /\ file = <<>> /\ rest = <<>> /\ m = <<>> /\ out = <<>>

pattern(c) ==
    /\ file = <<>> /\ Len(re) < MAXRE
    /\ re' = Append(re, c) /\ UNCHANGED <<file, rest, m, out>>

add_line(t) ==
    /\ rest = file /\ Len(re) <= FILERE /\ Len(file) + Len(t) < MAXFILE
    /\ file' = file \o t \o <<"nl">> /\ rest' = file'
    /\ UNCHANGED <<re, m, out>>

Next == grep \/ (\E c \in ReChars : pattern(c)) \/ \E t \in Texts : add_line(t)

Spec == Init /\ [][Next]_gvars

-----------------------------------------------------------------------------
(* What a pattern means: a sequence of characters, each possibly starred,  *)
(* matches the concatenation of what its parts match.                      *)
Matches1(c, x) == c = "." \/ c = x

RECURSIVE Denotes(_, _)
Denotes(r, text) ==
    IF r = <<>> THEN text = <<>>
    ELSE IF Len(r) > 1 /\ r[2] = "*"
    THEN \E k \in 0 .. Len(text) : /\ \A i \in 1 .. k : Matches1(r[1], text[i])
                                   /\ Denotes(SubSeq(r, 3, Len(r)), SubSeq(text, k + 1, Len(text)))
    ELSE text # <<>> /\ Matches1(Head(r), Head(text)) /\ Denotes(Tail(r), Tail(text))

Means(r, text) ==
    LET head == r # <<>> /\ Head(r) = "^"
        r1 == IF head THEN Tail(r) ELSE r
        end == r1 # <<>> /\ Last(r1) = "$"
        r2 == IF end THEN Front(r1) ELSE r1
    IN  \E i \in 1 .. Len(text) + 1, j \in 0 .. Len(text) :
          /\ j >= i - 1 /\ (head => i = 1) /\ (end => j = Len(text))
          /\ Denotes(r2, SubSeq(text, i, j))

(* match agrees with that for every pattern and line.                      *)
Matched == \A t \in BoundedSeq({"a", "b"}, MAXTEXT + 1) : file = <<>> => match(re, t) = Means(re, t)

(* At the end of a file whose lines fit in buf, the output is the matching *)
(* lines of the file, each once and in order, wherever the reads cut it.   *)
AllLines == (rest = <<>> /\ file # <<>>) =>
                out = SelectSeq(lines(file), LAMBDA t : Means(re, t))

=============================================================================
