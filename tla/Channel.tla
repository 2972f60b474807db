------------------------------ MODULE Channel ------------------------------
(***************************************************************************)
(* What a pipe promises: a bounded queue of bytes.  Bytes come out once    *)
(* each, in the order they went in, and a reader is told end of file only  *)
(* when the queue is empty and nobody can write to it any more.            *)
(***************************************************************************)
EXTENDS Naturals, Sequences
CONSTANTS Bytes, Size
VARIABLES
    queue,      \* bytes written and not yet read
    open,       \* somebody holds the write end
    event       \* what a process last saw of the pipe

vars == <<queue, open, event>>

Init == queue = <<>> /\ open = TRUE /\ event = <<"none">>

Put(b) ==
    /\ open /\ Len(queue) < Size
    /\ queue' = Append(queue, b) /\ event' = <<"put", b>>
    /\ UNCHANGED open

Get ==
    /\ queue # <<>>
    /\ event' = <<"get", Head(queue)>> /\ queue' = Tail(queue)
    /\ UNCHANGED open

Eof == ~ open /\ queue = <<>> /\ event' = <<"eof">> /\ UNCHANGED <<queue, open>>

Close == open' = FALSE /\ UNCHANGED <<queue, event>>

Next == (\E b \in Bytes : Put(b)) \/ Get \/ Eof \/ Close

Spec == Init /\ [][Next]_vars
=============================================================================
