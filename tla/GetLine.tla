------------------------------- MODULE GetLine -------------------------------
(***************************************************************************)
(* myhttp/http/httpd.c: get_line() and the two loops that read a header     *)
(* with it, clear_header() and the one in echo_cgi().  get_line reads the   *)
(* socket byte by byte into a buffer of Size bytes; CR LF, CR and LF all    *)
(* end a line and are stored as LF.  A line that does not fit comes out in  *)
(* pieces.  Httpd.tla takes a whole header as one piece of input; this      *)
(* module is what that rests on.                                            *)
(*                                                                         *)
(* The third loop is the clear_header() of myhttp/http3.0: its get_line()    *)
(* does not initialise c, so that a call may return nothing at once, and     *)
(* only a piece of one byte ends it.                                        *)
(***************************************************************************)
EXTENDS Integers, Sequences, FiniteSets

CONSTANTS
    Streams,  \* what a client may send: sequences of "a" (any byte), CR, LF
    Size      \* sizeof(buf)

CR == "cr"
LF == "lf"
Bytes == {"a", CR, LF}

ASSUME GetLineAssumption == Streams \subseteq Seq(Bytes) /\ Size \in Nat /\ Size >= 3

VARIABLES
    loop,    \* the loop that reads: "clear_header", "echo_cgi" or "http3.0"
    stream,  \* what the client sends
    sent,    \* how many bytes of it have arrived
    closed,  \* it has closed or reset the connection
    taken,   \* how many bytes recv() has taken
    at,      \* "recv", "peek" (behind a CR), "take" (its LF), "end"
    c,       \* get_line's c
    buf,     \* get_line's buf[0..i-1]
    got,     \* the bytes get_line has returned so far
    ends     \* 0, and how long got was after each call that returned some: its pieces

client == <<stream, sent, closed>>
vars == <<loop, client, taken, at, c, buf, got, ends>>

\* c at the start of a call: '\0', or what http3.0 finds on its stack
First == IF loop = "http3.0" THEN {"a", LF} ELSE {"a"}

Init ==
    /\ loop \in {"clear_header", "echo_cgi", "http3.0"}
    /\ stream \in Streams
    /\ sent = 0 /\ closed = FALSE
    /\ taken = 0 /\ at = "recv" /\ c \in First /\ buf = <<>>
    /\ got = <<>> /\ ends = <<0>>

-----------------------------------------------------------------------------
(* The client (external) *)

Send ==
    /\ ~closed /\ sent < Len(stream)
    /\ sent' = sent + 1
    /\ UNCHANGED <<loop, stream, closed, taken, at, c, buf, got, ends>>

Leave ==
    /\ ~closed
    /\ closed' = TRUE
    /\ UNCHANGED <<loop, stream, sent, taken, at, c, buf, got, ends>>

-----------------------------------------------------------------------------
(* get_line *)

\* recv() has a byte, or finds the connection closed
HasByte == taken < sent
Ended == taken = sent /\ closed
NextByte == stream[taken + 1]

\* fault variant: the bound is size instead of size - 1, and the terminating
\* '\0' falls behind the buffer
Reading_OffByOne == Len(buf) < Size /\ c # LF

Reading == Len(buf) < Size - 1 /\ c # LF     \* the condition of the loop

Store(b) == c' = b /\ buf' = Append(buf, b)

\* fault variant: the end of the connection is tried again, not made a line end
NoByte_TriedAgain == Ended /\ UNCHANGED <<taken, at, c, buf>>

NoByte == Ended /\ c' = LF /\ UNCHANGED <<taken, at, buf>>

Recv ==
    /\ at = "recv" /\ Reading
    /\ \/ /\ HasByte
          /\ taken' = taken + 1
          /\ \/ NextByte = CR /\ at' = "peek" /\ c' = CR /\ UNCHANGED buf
             \/ NextByte # CR /\ at' = "recv" /\ Store(NextByte)
       \/ NoByte
    /\ UNCHANGED <<loop, client, got, ends>>

\* fault variant: recv() without MSG_PEEK takes whatever follows a CR
Peek_Takes ==
    /\ at = "peek"
    /\ HasByte \/ Ended
    /\ taken' = IF HasByte THEN taken + 1 ELSE taken
    /\ at' = "recv" /\ Store(LF)
    /\ UNCHANGED <<loop, client, got, ends>>

\* recv(fd,&c,1,MSG_PEEK) waits for the byte behind a CR
Peek ==
    /\ at = "peek"
    /\ \/ HasByte /\ NextByte = LF /\ at' = "take" /\ UNCHANGED <<c, buf>>
       \/ (Ended \/ (HasByte /\ NextByte # LF)) /\ at' = "recv" /\ Store(LF)
    /\ UNCHANGED <<loop, client, taken, got, ends>>

Take ==
    /\ at = "take"
    /\ taken' = taken + 1
    /\ at' = "recv" /\ Store(LF)
    /\ UNCHANGED <<loop, client, got, ends>>

\* fault variant: the empty line does not end the header
GoesOn_ToTheEnd(ret) == ret > 0 \/ loop = "http3.0"

\* fault variant: a line of one byte is taken for an empty one
GoesOn_Short(ret) == ret > 2 /\ buf # <<LF>>

\* The condition in http3.0: strcmp("\n",buf) adds nothing to ret != 1
EarlyGoesOn(ret) == ret # 1

\* The conditions of the loops over get_line
GoesOn(ret) ==
    /\ CASE loop = "clear_header" -> ret > 0
         [] loop = "echo_cgi" -> ret > 1
         [] loop = "http3.0" -> EarlyGoesOn(ret)
    /\ buf # <<LF>>

Return ==
    /\ at = "recv" /\ ~Reading
    /\ got' = got \o buf
    /\ ends' = IF buf = <<>> THEN ends ELSE Append(ends, Len(got) + Len(buf))
    /\ IF GoesOn(Len(buf))
         THEN at' = "recv" /\ c' \in First /\ buf' = <<>>
         ELSE at' = "end" /\ UNCHANGED <<c, buf>>
    /\ UNCHANGED <<loop, client, taken>>

Reader == Recv \/ Peek \/ Take \/ Return
Next == Send \/ Leave \/ Reader

\* The thread runs while it can; the client owes nothing
Spec == Init /\ [][Next]_vars /\ WF_vars(Reader)

-----------------------------------------------------------------------------
(* Properties *)

TypeOK ==
    /\ loop \in {"clear_header", "echo_cgi", "http3.0"}
    /\ stream \in Seq(Bytes)
    /\ closed \in BOOLEAN
    /\ sent \in 0..Len(stream)
    /\ taken \in 0..sent
    /\ at \in {"recv", "peek", "take", "end"}
    /\ c \in Bytes
    /\ buf \in Seq(Bytes)
    /\ got \in Seq(Bytes)
    /\ ends \in Seq(Nat)

\* The reference: of a stream everything is kept but the LF behind a CR, and each
\* line end is a LF.  Kept(n): how much is kept of the first n bytes.
Keep(i) == ~(stream[i] = LF /\ i > 1 /\ stream[i - 1] = CR)
Kept(n) == Cardinality({i \in 1..n : Keep(i)})
One(i) == IF stream[i] = CR THEN LF ELSE stream[i]

Returned == got \o IF at = "end" THEN <<>>
                   ELSE IF at \in {"peek", "take"} THEN Append(buf, LF) ELSE buf

\* Whatever the moments at which bytes arrive, no byte is lost, doubled or
\* swapped between the socket and the pieces: what has been returned, with the
\* line being read, is what has been taken from the socket.
NothingLost ==
    /\ Len(Returned) = Kept(taken)
    /\ \A i \in 1..taken : Keep(i) => Returned[Kept(i)] = One(i)

\* Every byte is in a piece, and every piece fits the buffer with its '\0', has its LF
\* at the end, and lacks one only if the buffer was full or the client stopped.
PiecesFit ==
    /\ ends[1] = 0 /\ ends[Len(ends)] = Len(got)
    /\ \A n \in 1..Len(ends) - 1 :
          /\ ends[n + 1] - ends[n] \in 1..Size - 1
          /\ \A i \in ends[n] + 1..ends[n + 1] - 1 : got[i] = "a"
          /\ ends[n + 1] - ends[n] < Size - 1 /\ got[ends[n + 1]] # LF =>
                closed /\ taken = sent

\* A line whose length is a multiple of the room in the buffer: its LF comes
\* out as a piece of its own, like an empty line
LineStart(b) == b = 0 \/ got[b] = LF
Blank(k) == got[k] = LF /\ LineStart(k - 1)
AtBoundary ==
    \E b \in 0..Len(got), k \in 1..Len(got), m \in 1..Len(got) :
        /\ LineStart(b)
        /\ k - 1 - b = m * (Size - 1)
        /\ got[k] = LF /\ \A i \in b + 1..k - 1 : got[i] # LF

\* The header ends at the first empty line of what was returned and no byte of the
\* body is taken, unless a line of the header ends just at the boundary of the
\* buffer, or the client stopped.
HeaderEndsAtEmptyLine ==
    at = "end" =>
        \/ AtBoundary
        \/ closed /\ taken = sent
        \/ Len(got) > 0 /\ \A k \in 1..Len(got) : Blank(k) <=> k = Len(got)

\* When the client stops, the loops stop too -- but for the one of http3.0, which
\* reads nothing for ever.
EndOfClientEndsLoop == closed /\ loop # "http3.0" ~> at = "end"

\* An empty line of the stream, whose line end has a LF
EmptyLine(n) ==
    stream[n] = LF /\ LET k == IF Keep(n) THEN n - 1 ELSE n - 2
                      IN  k = 0 \/ stream[k] \in {CR, LF}

\* Once the empty line is in, the server does not wait for more (a client that
\* wants its answer sends nothing after the header) -- but for an empty line
\* that ends in CR alone, whose LF is waited for, and for http3.0, whose c may
\* keep each call from reading.
EmptyLineIsEnough ==
    (loop # "http3.0" /\ \E n \in 1..sent : EmptyLine(n)) ~> at = "end"
=============================================================================
