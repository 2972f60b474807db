------------------------------ MODULE MCFiles ------------------------------
(* Instances of Files for TLC.                                             *)
EXTENDS Files, TLC

CONSTANTS p1, p2

TwoProcs == {p1, p2}
TwoNames == {"a", "b"}

Do(op, path) == [NoCall EXCEPT !.op = op, !.path = path]
Here(op, path) == [Do(op, path) EXCEPT !.abs = FALSE]
DoLink(old, new) == [Do("link", old) EXCEPT !.path2 = new]

(* Names: links to a device file, and a directory that is removed while it *)
(* is somebody's current directory.                                        *)
Naming ==
    p1 :> {Do("mknod", <<"a">>), Do("mkdir", <<"a">>), DoLink(<<"a">>, <<"b">>), Do("unlink", <<"a">>)}
    @@ p2 :> {Here("chdir", <<"a">>), Here("mknod", <<"b">>), Do("unlink", <<"a">>),
              Do("unlink", <<"a", "b">>)}

(* Open files and pipes shared by fork and dup, unlinked while open.       *)
Sharing ==
    p1 :> {Do("create", <<"a">>), Do("unlink", <<"a">>), Here("openw", <<"a">>)}
    @@ p2 :> {PipeCall, DupCall}

(* Links that fail, and two names of one file removed together.            *)
Linking ==
    p1 :> {Do("mknod", <<"a">>), DoLink(<<"a">>, <<"a">>), DoLink(<<"a">>, <<"b">>), Do("unlink", <<"a">>)}
    @@ p2 :> {Do("mkdir", <<"b">>), Do("unlink", <<"b">>), DoLink(<<"b">>, <<"a">>), Do("openw", <<>>)}

ThreeLoads == <<Naming, Sharing, Linking>>
=============================================================================
