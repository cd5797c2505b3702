-------------------------------- MODULE SqlCgi --------------------------------
(***************************************************************************)
(* myhttp/http/sql_cgi: the CGI programs that insert into and list a table,  *)
(* and the one of wwwroot/cgi with the same get_data() that only prints.     *)
(* get_data() turns the query into the values of an INSERT: what follows '='  *)
(* is quoted, '&' becomes a comma.  The database (external) may refuse.      *)
(***************************************************************************)
EXTENDS Integers, Sequences, FiniteSets

CONSTANT MaxQuery   \* bound: length of a query

VARIABLES
    program,  \* "insert", "select" or "print"
    method,   \* METHOD: "GET", "get" for any other, "none" without
    query,    \* QUERY_STRING: "eq" is '=', "amp" is '&', "mark" a character that is
              \* not itself within SQL's quotes, "a" any other character
    i,        \* how far query points into it, from 1
    inside,   \* in the inner loop, behind a '='
    str,      \* get_data's str: the query's characters, "quote" and "comma"
    line,     \* what the program does next
    rows      \* the values of the rows inserted

sqlVars == <<program, method, query, i, inside, str, line, rows>>

Chars == {"a", "mark", "eq", "amp"}
Queries == UNION {[1..n -> Chars] : n \in 0..MaxQuery}
Marked == \E p \in 1..Len(query) : query[p] = "mark"

SqlInit ==
    /\ program \in {"insert", "select", "print"}
    /\ method \in {"GET", "get", "none"}
    /\ query \in Queries
    /\ program = "select" => method = "none" /\ query = <<>>  \* it reads neither
    /\ i = 1 /\ inside = FALSE /\ str = <<>>
    /\ \/ line = IF program = "select" THEN "connect"
                 ELSE IF method = "GET" THEN "parse" ELSE "parsed"
       \/ method = "GET" /\ query = <<>> /\ line = "noquery"   \* it is not set
    /\ rows = <<>>

-----------------------------------------------------------------------------
(* get_data *)

\* *query, with the '\0' behind the last character
Char == IF i <= Len(query) THEN query[i] ELSE "nul"

\* getenv("QUERY_STRING") is NULL: *query is read all the same
NoQuery ==
    /\ line = "noquery" /\ line' = "crashed"
    /\ UNCHANGED <<program, method, query, i, inside, str, rows>>

\* One turn of the outer loop
Outer ==
    /\ line = "parse" /\ ~inside
    /\ line' = IF Char = "nul" THEN "parsed" ELSE "parse"
    /\ i' = IF Char = "nul" THEN i ELSE i + 1
    /\ inside' = (Char = "eq")
    /\ str' = IF Char = "eq" THEN Append(str, "quote") ELSE str
    /\ UNCHANGED <<program, method, query, rows>>

Copy ==
    /\ line = "parse" /\ inside /\ Char \notin {"amp", "nul"}
    /\ str' = Append(str, Char)
    /\ i' = i + 1
    /\ UNCHANGED <<program, method, query, inside, line, rows>>

\* fault variant: no break at the end of the query, and query++ passes it
Close_NoBreak ==
    /\ line = "parse" /\ inside /\ Char \in {"amp", "nul"}
    /\ str' = str \o (IF Char = "amp" THEN <<"quote", "comma">> ELSE <<"quote">>)
    /\ inside' = FALSE
    /\ i' = i + 1
    /\ UNCHANGED <<program, method, query, line, rows>>

Close ==
    /\ line = "parse" /\ inside /\ Char \in {"amp", "nul"}
    /\ str' = str \o (IF Char = "amp" THEN <<"quote", "comma">> ELSE <<"quote">>)
    /\ inside' = FALSE
    /\ IF Char = "amp" THEN i' = i + 1 /\ UNCHANGED line
       ELSE line' = "parsed" /\ UNCHANGED i
    /\ UNCHANGED <<program, method, query, rows>>

-----------------------------------------------------------------------------
(* main *)

\* The program of wwwroot/cgi ends here
Parsed ==
    /\ line = "parsed"
    /\ line' = IF program = "print" THEN "done" ELSE "connect"
    /\ UNCHANGED <<program, method, query, i, inside, str, rows>>

\* sql_connect(); select does not look at its result
Connect ==
    /\ line = "connect"
    /\ \E ok \in BOOLEAN :
          line' = IF program = "select" THEN IF ok THEN "select" ELSE "noresult"
                  ELSE IF ~ok THEN "failed"
                  ELSE IF str = <<>> THEN "done" ELSE "insert"
    /\ UNCHANGED <<program, method, query, i, inside, str, rows>>

\* sql_insert(): the database takes a list of values or refuses it, a comma at the
\* end always.  Values are pasted in as they came: what it makes of a marked one, of
\* the comma behind it, and of how many rows, is open.
Insert ==
    /\ line = "insert"
    /\ \/ line' = "failed" /\ UNCHANGED rows
       \/ /\ ~Marked /\ str[Len(str)] # "comma"
          /\ line' = "done" /\ rows' = Append(rows, str)
       \/ Marked /\ line' = "done" /\ rows' = Append(rows, <<"unknown">>)
    /\ UNCHANGED <<program, method, query, i, inside, str>>

\* sql_select(): without a result mysql_num_fields() reads through NULL
Select ==
    /\ \/ line = "select" /\ line' \in {"done", "noresult"}
       \/ line = "noresult" /\ line' = "crashed"
    /\ UNCHANGED <<program, method, query, i, inside, str, rows>>

SqlNext == NoQuery \/ Outer \/ Copy \/ Close \/ Parsed \/ Connect \/ Insert \/ Select

-----------------------------------------------------------------------------
(* Properties *)

\* Types.
SqlTypeOK ==
    /\ program \in {"insert", "select", "print"}
    /\ inside \in BOOLEAN
    /\ line \in {"noquery", "parse", "parsed", "connect", "insert", "select", "noresult",
                 "done", "failed", "crashed"}
    /\ Len(rows) <= 1

\* The parts of the query stand between the '&'; a part's value is what follows its
\* first '='.  At p, a '=' of the same part is behind:
InValue(p) == \E f \in 1..p - 1 : query[f] = "eq" /\ \A r \in f..p - 1 : query[r] # "amp"

\* What comes out for a place of the query, its end included: the character inside a
\* value, else a quote, and none outside the values; behind the quote of a '&' a comma
Emitting == {p \in 1..Len(query) + 1 : InValue(p) \/ (p <= Len(query) /\ query[p] = "eq")}
Commas == {p \in Emitting : p <= Len(query) /\ query[p] = "amp"}
Quoted(p) == IF InValue(p) /\ p <= Len(query) /\ query[p] # "amp" THEN query[p] ELSE "quote"

\* How much comes out for the first n places, and that it did, in their order
Written(n) == Cardinality({p \in Emitting : p <= n}) + Cardinality({p \in Commas : p <= n})
Wrote(n) ==
    /\ Len(str) = Written(n)
    /\ \A p \in Emitting : p <= n => str[Written(p - 1) + 1] = Quoted(p)
    /\ \A p \in Commas : p <= n => str[Written(p)] = "comma"

\* get_data() reads nothing behind the query and returns the values of its parts in
\* their order, each quoted once and the '=' in them kept.  If no value is marked, a row
\* is those values, and there is none for a query whose last part has no '='.
EachPartOnce ==
    /\ i <= Len(query) + 1
    /\ line # "parse" => IF method = "GET" THEN Wrote(Len(query) + 1) ELSE str = <<>>
    /\ method # "GET" => rows = <<>>
    /\ ~Marked => \A n \in 1..Len(rows) : rows[n] = str /\ Len(query) + 1 \in Emitting
=============================================================================
