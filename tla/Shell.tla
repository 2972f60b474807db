-------------------------------- MODULE Shell --------------------------------
(***************************************************************************)
(* The shell (sh.c): the parser, over tokens, and runcmd, as the file      *)
(* descriptors each program is started with.  A word is "w"; ">" stands    *)
(* for ">>" too, which opens the file the same way.  Files open and pipes  *)
(* are made: a failure there ends the child and starts nothing.            *)
(***************************************************************************)
EXTENDS Integers, Sequences, FiniteSets, TLC, FiniteSetsExt, SequencesExt

CONSTANTS MAXARGS, MAXTOKENS

Tokens == {"w", "<", ">", "|", "&", ";", "(", ")"}

VARIABLES
    line,           \* the command line
    parsed          \* what parsecmd makes of it

execcmd(argc) == [type |-> "EXEC", argc |-> argc]
redircmd(cmd, fd) == [type |-> "REDIR", cmd |-> cmd, fd |-> fd]
pipecmd(left, right) == [type |-> "PIPE", left |-> left, right |-> right]
listcmd(left, right) == [type |-> "LIST", left |-> left, right |-> right]
backcmd(cmd) == [type |-> "BACK", cmd |-> cmd]

-----------------------------------------------------------------------------
(* A parser takes the rest of the line and returns a command and what is   *)
(* left of the line, or an error: "end" if the line ended too early.       *)
NoCmd == [type |-> "none"]
Ok(cmd, rest) == [cmd |-> cmd, rest |-> rest, err |-> ""]
panic(s) == [cmd |-> NoCmd, rest |-> <<>>, err |-> s]

peek(s, toks) == s # <<>> /\ Head(s) \in toks

(* The redirections at the front of s, as the descriptors they change.     *)
RECURSIVE parseredirs(_, _)
parseredirs(s, fds) ==
    IF ~ peek(s, {"<", ">"}) THEN Ok(fds, s)
    ELSE IF Len(s) = 1 THEN panic("end")
    ELSE IF s[2] # "w" THEN panic("missing file for redirection")
    ELSE parseredirs(SubSeq(s, 3, Len(s)), Append(fds, IF Head(s) = "<" THEN 0 ELSE 1))

(* Each redirection wraps the command with those before it.                *)
wrap(cmd, fds) == FoldLeft(redircmd, cmd, fds)

toomany(argc) == argc >= MAXARGS

RECURSIVE parseargs(_, _, _)
parseargs(s, argc, fds) ==
    LET r == parseredirs(s, fds) IN
    IF r.err # "" THEN r
    ELSE IF r.rest = <<>> \/ peek(r.rest, {"|", ")", "&", ";"})
    THEN Ok(wrap(execcmd(argc), r.cmd), r.rest)
    ELSE IF Head(r.rest) # "w" THEN panic("syntax")
    ELSE IF toomany(argc + 1) THEN panic("too many args")
    ELSE parseargs(Tail(r.rest), argc + 1, r.cmd)

RECURSIVE parseline(_), parsepipe(_), parseexec(_), parseblock(_), parseback(_)

parseexec(s) == IF peek(s, {"("}) THEN parseblock(s) ELSE parseargs(s, 0, <<>>)

parseblock(s) ==
    LET r == parseline(Tail(s)) IN
    IF r.err # "" THEN r
    ELSE IF r.rest = <<>> THEN panic("end")
    ELSE IF Head(r.rest) # ")" THEN panic("syntax - missing )")
    ELSE LET f == parseredirs(Tail(r.rest), <<>>) IN
         IF f.err # "" THEN f ELSE Ok(wrap(r.cmd, f.cmd), f.rest)

parsepipe(s) ==
    LET l == parseexec(s) IN
    IF l.err # "" \/ ~ peek(l.rest, {"|"}) THEN l
    ELSE LET r == parsepipe(Tail(l.rest)) IN
         IF r.err # "" THEN r ELSE Ok(pipecmd(l.cmd, r.cmd), r.rest)

(* The "&" after the pipeline p.                                           *)
parseback(p) ==
    IF p.err = "" /\ peek(p.rest, {"&"}) THEN parseback(Ok(backcmd(p.cmd), Tail(p.rest))) ELSE p

parseline(s) ==
    LET l == parseback(parsepipe(s)) IN
    IF l.err # "" \/ ~ peek(l.rest, {";"}) THEN l
    ELSE LET r == parseline(Tail(l.rest)) IN
         IF r.err # "" THEN r ELSE Ok(listcmd(l.cmd, r.cmd), r.rest)

parsecmd(s) ==
    LET r == parseline(s) IN
    IF r.err = "" /\ r.rest # <<>> THEN panic("syntax") ELSE r

-----------------------------------------------------------------------------
(* runcmd.  fds says what each descriptor is open on: <<>> for nothing,    *)
(* <<"r", at>> and <<"w", at>> for the ends of a pipe.                    *)
Fds == 0 .. 5
Console == [d \in 0 .. 2 |-> <<"console">>] @@ [d \in 3 .. 5 |-> <<>>]

(* close gives up a descriptor; open, pipe and dup take the lowest one.    *)
lowest(fds) == Min({d \in Fds : fds[d] = <<>>})
close(d) == [on |-> {d}, to |-> <<>>]
open(what) == [on |-> {}, to |-> what]
syscall(fds, call) ==
    [fds EXCEPT ![IF call.on = {} THEN lowest(fds) ELSE Min(call.on)] = call.to]
after(fds, calls) == FoldLeft(syscall, fds, calls)

(* The child that runs one side of a pipe whose ends are p0 and p1: it     *)
(* duplicates its end onto fd, and closes both.                            *)
side_Open(fd, p0, p1, end) == <<close(fd), open(end)>>    \* mutant: keeps the pipe's descriptors
side(fd, p0, p1, end) == <<close(fd), open(end), close(p0), close(p1)>>

(* The descriptors of every program started.  at is the place of cmd in    *)
(* the tree, and names the pipe it makes.                                  *)
RECURSIVE runcmd(_, _, _)
runcmd(cmd, fds, at) ==
    CASE cmd.type = "EXEC" -> IF cmd.argc = 0 THEN {} ELSE {fds}
      [] cmd.type = "REDIR" ->
         runcmd(cmd.cmd, after(fds, <<close(cmd.fd), open(<<"file", cmd.fd>>)>>), at)
      [] cmd.type = "BACK" -> runcmd(cmd.cmd, fds, at)
      [] cmd.type = "LIST" ->
         runcmd(cmd.left, fds, Append(at, 0)) \cup runcmd(cmd.right, fds, Append(at, 1))
      [] cmd.type = "PIPE" ->
         LET pipe == <<open(<<"r", at>>), open(<<"w", at>>)>>
             p0 == lowest(fds)
             p1 == lowest(after(fds, <<pipe[1]>>))
             child(fd, end) == after(fds, pipe \o side(fd, p0, p1, end))
         IN  runcmd(cmd.left, child(1, <<"w", at>>), Append(at, 0))
             \cup runcmd(cmd.right, child(0, <<"r", at>>), Append(at, 1))

-----------------------------------------------------------------------------
(* The line grows by a token while it can still become a command.          *)
Init == line = <<>> /\ parsed = Ok(execcmd(0), <<>>)

Type(t) == /\ Len(line) < MAXTOKENS /\ parsed.err \in {"", "end"}
           /\ line' = Append(line, t)
           /\ parsed' = parsecmd(line')

Next == \E t \in Tokens : Type(t)

Spec == Init /\ [][Next]_<<line, parsed>>

-----------------------------------------------------------------------------
(* What a line means, by splitting it: at its first ";" outside            *)
(* parentheses, then at the "&" that end a part, then at its first "|".    *)
Depth(s, i) == Cardinality({j \in 1 .. i : s[j] = "("}) - Cardinality({j \in 1 .. i : s[j] = ")"})
Outer(s, t) == {i \in 1 .. Len(s) : s[i] = t /\ Depth(s, i) = 0}
Before(s, i) == SubSeq(s, 1, i - 1)
After(s, i) == SubSeq(s, i + 1, Len(s))
Bad(cmd) == cmd.type = "none"
Join(op(_, _), l, r) == IF Bad(l) \/ Bad(r) THEN NoCmd ELSE op(l, r)

(* Words and redirections only: the descriptors redirected, in order.      *)
IsFile(s, i) == i > 1 /\ s[i - 1] \in {"<", ">"}
Plain(s) == \A i \in 1 .. Len(s) : /\ s[i] \in {"w", "<", ">"}
                                   /\ s[i] # "w" => i < Len(s) /\ s[i + 1] = "w"
Redirected(s) ==
    LET t == SelectSeq(s, LAMBDA x : x # "w") IN [i \in 1 .. Len(t) |-> IF t[i] = "<" THEN 0 ELSE 1]
Words(s) == Cardinality({i \in 1 .. Len(s) : s[i] = "w" /\ ~ IsFile(s, i)})

RECURSIVE Meaning(_), Background(_), Piped(_)
Simple(s) ==
    IF s # <<>> /\ Head(s) = "("
    THEN IF Outer(s, ")") = {} THEN NoCmd
         ELSE LET j == Min(Outer(s, ")"))  t == After(s, j)  c == Meaning(SubSeq(s, 2, j - 1)) IN
              IF Bad(c) \/ ~ Plain(t) \/ Words(t) > 0 THEN NoCmd ELSE wrap(c, Redirected(t))
    ELSE IF Plain(s) /\ Words(s) < MAXARGS THEN wrap(execcmd(Words(s)), Redirected(s)) ELSE NoCmd

Piped(s) ==
    IF Outer(s, "|") = {} THEN Simple(s)
    ELSE LET i == Min(Outer(s, "|")) IN Join(pipecmd, Simple(Before(s, i)), Piped(After(s, i)))

Background(s) ==
    IF s # <<>> /\ Last(s) = "&"
    THEN LET c == Background(Front(s)) IN IF Bad(c) THEN NoCmd ELSE backcmd(c)
    ELSE Piped(s)

Meaning(s) ==
    IF Outer(s, ";") = {} THEN Background(s)
    ELSE LET i == Min(Outer(s, ";")) IN Join(listcmd, Background(Before(s, i)), Meaning(After(s, i)))

(* The parser accepts exactly the lines that have a meaning, and returns   *)
(* it: ";" binds least, then "&", then "|", and redirections most.         *)
Parsed == parsed.cmd = Meaning(line)

(* execcmd's argv has room for the null pointer that ends it (sh.c:443).   *)
RECURSIVE Args(_)
Args(cmd) == CASE cmd.type = "EXEC" -> cmd.argc
               [] cmd.type \in {"REDIR", "BACK"} -> Args(cmd.cmd)
               [] cmd.type \in {"PIPE", "LIST"} -> Max({Args(cmd.left), Args(cmd.right)})
               [] OTHER -> 0

ArgvFits == Args(parsed.cmd) + 1 <= MAXARGS

(* Every program gets the input and output its place in the command says,  *)
(* standard error, and no other descriptor: a pipe's reader sees its end   *)
(* once the writers are gone.                                              *)
RECURSIVE Expected(_, _, _, _)
Expected(cmd, in, out, at) ==
    CASE cmd.type = "EXEC" -> IF cmd.argc = 0 THEN {} ELSE {<<in, out>>}
      [] cmd.type = "REDIR" -> Expected(cmd.cmd, IF cmd.fd = 0 THEN <<"file", 0>> ELSE in,
                                                 IF cmd.fd = 1 THEN <<"file", 1>> ELSE out, at)
      [] cmd.type = "BACK" -> Expected(cmd.cmd, in, out, at)
      [] cmd.type = "LIST" -> Expected(cmd.left, in, out, Append(at, 0))
                              \cup Expected(cmd.right, in, out, Append(at, 1))
      [] cmd.type = "PIPE" -> Expected(cmd.left, in, <<"w", at>>, Append(at, 0))
                              \cup Expected(cmd.right, <<"r", at>>, out, Append(at, 1))

Wired ==
    ~ Bad(parsed.cmd) =>
        runcmd(parsed.cmd, Console, <<>>)
        = {[Console EXCEPT ![0] = x[1], ![1] = x[2]] :
              x \in Expected(parsed.cmd, <<"console">>, <<"console">>, <<>>)}

=============================================================================
