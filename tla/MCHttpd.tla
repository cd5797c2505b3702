------------------------------- MODULE MCHttpd -------------------------------
(***************************************************************************)
(* Small instances of Httpd: which requests two or three clients make.      *)
(***************************************************************************)
EXTENDS Httpd, TLC

CONSTANTS c1, c2, c3   \* connections

R(method, query, target, n, reads, out) ==
    [method |-> method, query |-> query, target |-> target,
     len |-> n, reads |-> reads, out |-> out]

GetFile == R("GET", FALSE, "file", 0, FALSE, 0)
GetUnreadable == R("GET", FALSE, "unreadable", 0, FALSE, 0)
GetMissing == R("GET", FALSE, "missing", 0, FALSE, 0)
GetFolder == R("GET", FALSE, "folder", 0, FALSE, 0)
GetQuery == R("GET", TRUE, "program", 0, FALSE, 1)
GetLower == R("get", TRUE, "program", 0, FALSE, 1)
BadMethod == R("other", FALSE, "file", 0, FALSE, 0)
PostReadMore == R("POST", FALSE, "program", 1, TRUE, 2)
PostBig == R("POST", FALSE, "program", 2, FALSE, 2)

Everyone(requests) == [w \in Conns |-> requests]
FaultyAsks == Everyone({GetFile, GetUnreadable, GetMissing, GetLower,
                        BadMethod, PostBig})
LowerAsks == Everyone({GetLower, GetQuery})
FileAsks == Everyone({GetFile, GetQuery})
CgiAsks == [w \in Conns |->
              IF w = c1 THEN {PostReadMore, PostBig} ELSE {GetQuery, GetFolder}]

Symmetry == Permutations({c1, c2, c3})
=============================================================================
