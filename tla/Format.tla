------------------------------- MODULE Format -------------------------------
(***************************************************************************)
(* Formatted output and its inverse: the two scanners of a format string   *)
(* (printf.c's, with a state, and cprintf's, which looks one character     *)
(* ahead), printint with its machine integers, and atoi.  The letter x     *)
(* stands for x and p, s for the strings, q for a letter with no meaning.  *)
(***************************************************************************)
EXTENDS Integers, Sequences

CONSTANTS
    WIDTH,      \* bits of an int (32)
    MAXFMT,     \* bound on the length of a format
    Ints        \* arguments printed

VARIABLES
    fmt,        \* a format string
    xx          \* every argument of the call has this value

fvars == <<fmt, xx>>

Letters == {"%", "d", "x", "s", "c", "q"}
Null == <<"n", "u", "l">>
UWRAP == 2 ^ WIDTH

(* printint: buf is filled from the last digit and printed backwards.      *)
digit == <<"0", "1", "2", "3", "4", "5", "6", "7", "8", "9", "a", "b", "c", "d", "e", "f">>
RECURSIVE digits(_, _)
digits_While(x, base) ==   \* mutant: while, not do-while
    IF x = 0 THEN <<>> ELSE Append(digits(x \div base, base), digit[(x % base) + 1])
digits(x, base) ==
    Append(IF x \div base = 0 THEN <<>> ELSE digits(x \div base, base),
           digit[(x % base) + 1])
printint(n, base, sign) ==
    IF sign /\ n < 0 THEN <<"-">> \o digits((- n) % UWRAP, base)
    ELSE digits(n % UWRAP, base)

valueof(c) == CHOOSE k \in 0 .. 15 : digit[k + 1] = c
RECURSIVE atoi(_, _)
atoi(s, n) == IF s = <<>> THEN n ELSE atoi(Tail(s), n * 10 + valueof(Head(s)))

(* What a letter after % prints and how many arguments it takes.           *)
conversion(c, n) ==
    CASE c = "d" -> printint(n, 10, TRUE)
      [] c = "x" -> printint(n, 16, FALSE)
      [] c = "s" -> IF n = 0 THEN Null ELSE <<"string">>
      [] c = "c" -> <<"char">>
      [] c = "%" -> <<"%">>
      [] OTHER   -> <<"%", c>>
taken(c) == IF c \in {"d", "x", "s", "c"} THEN 1 ELSE 0
Printed(out, args) == [out |-> out, args |-> args]

(* printf: one character at a time, state says whether a % came before.    *)
RECURSIVE printf(_, _, _)
printf(f, state, r) ==
    IF f = <<>> THEN r
    ELSE LET c == Head(f)
         IN  CASE state = "%" -> printf(Tail(f), "0", Printed(r.out \o conversion(c, xx),
                                                             r.args + taken(c)))
               [] state # "%" /\ c = "%" -> printf(Tail(f), "%", r)
               [] OTHER -> printf(Tail(f), "0", Printed(Append(r.out, c), r.args))

(* cprintf: a % consumes the next character; a % at the end stops it.      *)
skip(f) == Tail(Tail(f))
RECURSIVE cprintf(_, _)
cprintf(f, r) ==
    IF f = <<>> \/ f = <<"%">> THEN r
    ELSE LET c == Head(f)
         IN  IF c # "%" THEN cprintf(Tail(f), Printed(Append(r.out, c), r.args))
             ELSE cprintf(skip(f), Printed(r.out \o conversion(f[2], xx), r.args + taken(f[2])))

Init == fmt = <<>> /\ xx \in Ints

Next ==
    /\ Len(fmt) < MAXFMT
    /\ \E c \in Letters : fmt' = Append(fmt, c)
    /\ UNCHANGED xx

Spec == Init /\ [][Next]_fvars

(* The two scanners, written differently, print the same and take the same *)
(* arguments for every format, one that ends in % or repeats % included.   *)
SameOutput ==
    LET none == Printed(<<>>, 0)
    IN  printf(fmt, "0", none) = cprintf(fmt, none)

(* printint and back: the digits of every int, zero and the most negative  *)
(* one included, stand for it, and atoi reads back what it can write.      *)
RECURSIVE Value(_, _)
Value(s, base) ==
    IF s = <<>> THEN 0 ELSE Value(SubSeq(s, 1, Len(s) - 1), base) * base + valueof(s[Len(s)])
ReadBack ==
    LET dec == printint(xx, 10, TRUE)
        hex == printint(xx, 16, FALSE)
    IN  /\ hex # <<>> /\ Value(hex, 16) = xx % UWRAP
        /\ IF xx < 0 THEN Len(dec) > 1 /\ - Value(Tail(dec), 10) = xx
                     ELSE dec # <<>> /\ atoi(dec, 0) = xx
=============================================================================
