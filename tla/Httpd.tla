-------------------------------- MODULE Httpd --------------------------------
(***************************************************************************)
(* myhttp/http: the HTTP server.  main() accepts connections and starts one *)
(* detached thread per connection; the thread runs Dealwithsock, which      *)
(* answers from a file (echo_www) or forks a CGI program and relays its     *)
(* output (echo_cgi).  All threads share one descriptor table; every forked *)
(* program starts with a copy of it.                                        *)
(*                                                                         *)
(* A connection, the thread that serves it and the program that thread      *)
(* forks bear the same name w: the program has one thread per connection    *)
(* and one child per thread.                                                *)
(***************************************************************************)
EXTENDS Integers, Sequences, FiniteSets, FdTable

CONSTANTS
    Conns,        \* the connections
    Asks,         \* the requests each client may make (see Request below)
    Listen,       \* the listening socket, as an entry of the table
    Backlog,      \* connections the kernel queues before accept
    PipeCap,      \* bytes a pipe holds
    Buffered,     \* bound: bytes of printf output the server has not flushed
    ClientFaults, \* what clients may do: subset of {"half", "gone"}
    SystemFaults  \* calls that may fail: subset of {"thread", "fork", "sendfile"}

(* What the code tells apart in a request: its method ("get" is GET in any  *)
(* other spelling of case), whether the URL has a '?', what stat and open    *)
(* say of the path, the Content-Length, and, of the program run for it,      *)
(* whether it reads its input first and how many bytes it prints.            *)
Request == [method : {"GET", "get", "POST", "other"}, query : BOOLEAN,
            target : {"missing", "file", "unreadable", "folder", "program"},
            len : Nat, reads : BOOLEAN, out : Nat]

\* What a descriptor of a connection can be: the accepted socket, the ends of
\* input[] and output[], and outfd
PipeEnds == {"in0", "in1", "out0", "out1"}
Ends == {"sock", "file"} \union PipeEnds
Objects == (Ends \X Conns) \union {Listen}

ASSUME HttpdAssumption ==
    /\ Asks \in [Conns -> SUBSET Request]
    /\ Free \notin Objects
    /\ Listen \notin Ends \X Conns
    /\ Backlog \in Nat \ {0}
    /\ PipeCap \in Nat \ {0}
    /\ Buffered \in 0..PipeCap
    /\ ClientFaults \subseteq {"half", "gone"}
    /\ SystemFaults \subseteq {"thread", "fork", "sendfile"}

VARIABLES
    status,   \* "up", or how the server process ended
    fdtab,    \* its descriptor table
    backlog,  \* connections waiting for accept, oldest first
    req,      \* what each client asks for
    stale,    \* the connections whose thread's stack, in use or kept for a
              \* later thread, has a '?' in url[]
    client,   \* "away", "connected", "half" (sends no more) or "gone"
    sent,     \* pieces sent: request line, header, then body bytes
    reply,    \* status lines and pages the client got, in order
    pc,       \* where the thread of a connection is
    loc,      \* its local variables sock, input[], output[], outfd
    len,      \* its len: the Content-Length it read
    moved,    \* its i: body bytes handed to the program
    fwd,      \* program output bytes it has sent on
    child,    \* the state of its program
    held,     \* the objects the program's process has open
    eaten,    \* input bytes the program has read
    made,     \* output bytes the program has written
    inPipe,   \* bytes in the pipe input
    outPipe   \* bytes in the pipe output

server == <<status, fdtab, backlog>>
peer == <<client, sent>>
thread == <<loc, len, moved, fwd>>
program == <<child, held, eaten, made>>
pipes == <<inPipe, outPipe>>
vars == <<server, req, stale, peer, reply, pc, thread, program, pipes>>

Init ==
    /\ status = "up"
    /\ fdtab = [EmptyTable EXCEPT ![FirstFd] = Listen]
    /\ backlog = <<>>
    /\ req \in [Conns -> UNION {Asks[w] : w \in Conns}]
    /\ \A w \in Conns : req[w] \in Asks[w]
    /\ stale = {}
    /\ client = [w \in Conns |-> "away"]
    /\ sent = [w \in Conns |-> 0]
    /\ reply = [w \in Conns |-> <<>>]
    /\ pc = [w \in Conns |-> "idle"]
    /\ loc = [w \in Conns |-> [e \in Ends |-> 0]]
    /\ len = [w \in Conns |-> 0]
    /\ moved = [w \in Conns |-> 0]
    /\ fwd = [w \in Conns |-> 0]
    /\ child = [w \in Conns |-> "none"]
    /\ held = [w \in Conns |-> {}]
    /\ eaten = [w \in Conns |-> 0]
    /\ made = [w \in Conns |-> 0]
    /\ inPipe = [w \in Conns |-> 0]
    /\ outPipe = [w \in Conns |-> 0]

-----------------------------------------------------------------------------
(* Helpers *)

At(w, p) == status = "up" /\ pc[w] = p
Goto(w, p) == pc' = [pc EXCEPT ![w] = p]

\* recv() finds the request line, the end of the header, the next body byte
Eof(w) == client[w] \in {"half", "gone"}
LineIn(w) == sent[w] >= 1
HeaderIn(w) == sent[w] >= 2
ByteIn(w) == sent[w] >= 3 + moved[w]

\* Someone still has the object open
ServerHas(o) == \E f \in Fds : fdtab[f] = o
ProgramHas(o) == \E c \in Conns : o \in held[c]
HasHolder(o) == ServerHas(o) \/ ProgramHas(o)

\* send() that succeeds: a client that is gone reads nothing any more
Answer(w, items) ==
    reply' = IF client[w] = "gone"
               THEN reply ELSE [reply EXCEPT ![w] = @ \o items]

\* close() of some of the thread's local variables
CloseEnds(w, es) == fdtab' = Close(fdtab, {loc[w][e] : e \in es})

\* The process ends: every descriptor is closed, every thread stops
Terminate(how) == status' = how /\ fdtab' = EmptyTable

-----------------------------------------------------------------------------
(* Clients (external) *)

Pieces(w) == IF req[w].method = "POST" THEN 2 + req[w].len ELSE 2

Connect(w) ==
    /\ status = "up"
    /\ client[w] = "away"
    /\ Len(backlog) < Backlog
    /\ client' = [client EXCEPT ![w] = "connected"]
    /\ backlog' = Append(backlog, w)
    /\ UNCHANGED <<status, fdtab, req, stale, sent, reply, pc, thread, program,
                   pipes>>

ClientSends(w) ==
    /\ client[w] = "connected"
    /\ sent[w] < Pieces(w)
    /\ sent' = [sent EXCEPT ![w] = @ + 1]
    /\ UNCHANGED <<server, req, stale, client, reply, pc, thread, program, pipes>>

\* shutdown(SHUT_WR), or close, while the server has the connection
ClientLeaves(w) ==
    /\ \E how \in ClientFaults :
          /\ client[w] = "connected" \/ (client[w] = "half" /\ how = "gone")
          /\ client' = [client EXCEPT ![w] = how]
    /\ pc[w] # "done"
    /\ UNCHANGED <<server, req, stale, sent, reply, pc, thread, program, pipes>>

-----------------------------------------------------------------------------
(* main: accept and pthread_create *)

\* The thread is started with the socket as its argument.  pthread_create
\* reports failure by a positive number and the test is "< 0": the socket
\* then stays open and nobody serves it.  A thread gets a new stack or that of one
\* that is over, with what is left in it.
TakeStack(w) ==
    \/ UNCHANGED stale
    \/ \E v \in stale : pc[v] = "done" /\ stale' = (stale \ {v}) \union {w}

Accept ==
    /\ status = "up"
    /\ backlog # <<>>
    /\ CanOpen(fdtab)
    /\ LET w == Head(backlog) IN
         /\ fdtab' = Open(fdtab, <<"sock", w>>)
         /\ loc' = [loc EXCEPT ![w]["sock"] = LowestFree(fdtab)]
         /\ backlog' = Tail(backlog)
         /\ \/ Goto(w, "line") /\ TakeStack(w)
            \/ "thread" \in SystemFaults /\ Goto(w, "orphan") /\ UNCHANGED stale
    /\ UNCHANGED <<status, req, peer, reply, len, moved, fwd, program, pipes>>

-----------------------------------------------------------------------------
(* Dealwithsock: the request line decides *)

WantsCgi(w) ==
    \/ req[w].method = "POST"
    \/ req[w].query
    \/ req[w].target \in {"folder", "program"}   \* an x bit is set

\* The search for '?' does not stop at the end of the URL: an old '?' left in url[]
\* counts as well, unless the new URL is long enough to cover it.
CgiChoices(w) ==
    IF WantsCgi(w) THEN {TRUE} ELSE IF w \in stale THEN BOOLEAN ELSE {FALSE}

\* What is left in url[] for the next thread on this stack.  (A request that is
\* refused ends the server, and all stacks.)
KeepUrl(w, cgi) ==
    stale' \in IF req[w].query THEN {stale \union {w}}
                ELSE IF cgi /\ ~WantsCgi(w) THEN {stale}
                ELSE {stale, stale \ {w}}

\* Dealwithsock compares methods with strcasecmp, echo_cgi with strcmp
Branch(w, cgi) ==
    CASE cgi /\ req[w].method = "GET" -> "clearcgi"
      [] cgi /\ req[w].method # "GET" -> "length"
      [] OTHER -> "clearwww"

\* fault variant: a bad method ends the server without an answer
GetRequest_ExitsSilently(w) ==
    /\ At(w, "line")
    /\ LineIn(w) \/ Eof(w)
    /\ IF ~LineIn(w) \/ req[w].method = "other"
         THEN Goto(w, "exit3") /\ UNCHANGED stale
         ELSE IF req[w].target = "missing"
                THEN Goto(w, "clear404") /\ UNCHANGED stale
                ELSE \E cgi \in CgiChoices(w) : Goto(w, Branch(w, cgi)) /\ KeepUrl(w, cgi)
    /\ UNCHANGED <<server, req, peer, reply, thread, program, pipes>>

GetRequest(w) ==
    /\ At(w, "line")
    /\ LineIn(w) \/ Eof(w)
    /\ \/ /\ ~LineIn(w) \/ req[w].method = "other"
          /\ Goto(w, "bad") /\ UNCHANGED stale
       \/ /\ LineIn(w) /\ req[w].method # "other" /\ req[w].target = "missing"
          /\ Goto(w, "clear404") /\ UNCHANGED stale
       \/ /\ LineIn(w) /\ req[w].method # "other" /\ req[w].target # "missing"
          /\ \E cgi \in CgiChoices(w) : Goto(w, Branch(w, cgi)) /\ KeepUrl(w, cgi)
    /\ UNCHANGED <<server, req, peer, reply, thread, program, pipes>>

\* clear_header: to the empty line, or to the end of what the client sends
ClearHeader(w) ==
    /\ HeaderIn(w) \/ Eof(w)
    /\ \/ At(w, "clear404") /\ Goto(w, "missing")
       \/ At(w, "clearcgi") /\ Goto(w, "pipe1")
       \/ At(w, "clearwww") /\ Goto(w, "open")
    /\ UNCHANGED <<server, req, stale, peer, reply, thread, program, pipes>>

\* echo_error: the status line, then the page send_error opens and closes.
\* Without a free descriptor for the page, or when sendfile() fails, only the
\* status line is sent.
Refusing == {"bad", "missing", "badlen", "nopipe", "wwwfail"}
Refusal == [bad |-> "400", missing |-> "404", badlen |-> "500",
            nopipe |-> "500", wwwfail |-> "500"]
ExitOf == [bad |-> "exit3", missing |-> "exit4", badlen |-> "exit255",
           nopipe |-> "exit255", wwwfail |-> "exit5"]

Refuse(w) ==
    /\ \E p \in Refusing :
          /\ At(w, p)
          /\ \/ CanOpen(fdtab) /\ Answer(w, <<Refusal[p], "page">>)
             \/ /\ ~CanOpen(fdtab) \/ "sendfile" \in SystemFaults
                /\ Answer(w, <<Refusal[p]>>)
          /\ Goto(w, ExitOf[p])
          /\ IF p \in {"bad", "nopipe"}
               THEN CloseEnds(w, {"sock"}) ELSE UNCHANGED fdtab
    /\ UNCHANGED <<status, backlog, req, stale, peer, thread, program, pipes>>

\* exit(): in one thread, it ends the whole server
ExitCodes == {"exit3", "exit4", "exit5", "exit255"}
Exit(w) ==
    /\ status = "up"
    /\ pc[w] \in ExitCodes
    /\ Terminate(pc[w])
    /\ UNCHANGED <<backlog, req, stale, peer, reply, pc, thread, program, pipes>>

\* SIGPIPE is not handled: a send to a client that is gone, or a write to a
\* program that has closed its input, can end the whole server
Sending == Refusing \union {"head", "sendfile", "forward"}
SigPipe(w) ==
    /\ status = "up"
    /\ \/ pc[w] \in Sending /\ client[w] = "gone"
       \/ pc[w] = "put" /\ ~HasHolder(<<"in0", w>>)
    /\ Terminate("sigpipe")
    /\ UNCHANGED <<backlog, req, stale, peer, reply, pc, thread, program, pipes>>

-----------------------------------------------------------------------------
(* echo_www *)

OpenFile(w) ==
    /\ At(w, "open")
    /\ \/ /\ CanOpen(fdtab) /\ req[w].target # "unreadable"
          /\ fdtab' = Open(fdtab, <<"file", w>>)
          /\ loc' = [loc EXCEPT ![w]["file"] = LowestFree(fdtab)]
          /\ Goto(w, "head")
       \/ /\ ~CanOpen(fdtab) \/ req[w].target = "unreadable"
          /\ Goto(w, "exit5")
          /\ UNCHANGED <<fdtab, loc>>
    /\ UNCHANGED <<status, backlog, req, stale, peer, reply, len, moved, fwd,
                   program, pipes>>

\* send() fails only when the client is gone
SendHead(w) ==
    /\ At(w, "head")
    /\ \/ Answer(w, <<"200">>) /\ Goto(w, "sendfile")
       \/ client[w] = "gone" /\ Goto(w, "wwwfail") /\ UNCHANGED reply
    /\ UNCHANGED <<server, req, stale, peer, thread, program, pipes>>

\* sendfile() fails for a client that is there, too: st_size, cut to an int, is
\* negative for a file of 2 to 4 GiB, and a file may not be readable to its end
SendFile(w) ==
    /\ At(w, "sendfile")
    /\ \/ Answer(w, <<"file">>) /\ Goto(w, "closesock")
       \/ /\ client[w] = "gone" \/ "sendfile" \in SystemFaults
          /\ Goto(w, "wwwfail")
          /\ UNCHANGED reply
    /\ UNCHANGED <<server, req, stale, peer, thread, program, pipes>>

\* Dealwithsock closes the socket; outfd stays open
CloseSock(w) ==
    /\ At(w, "closesock")
    /\ CloseEnds(w, {"sock"})
    /\ Goto(w, "done")
    /\ UNCHANGED <<status, backlog, req, stale, peer, reply, thread, program,
                   pipes>>

-----------------------------------------------------------------------------
(* echo_cgi, in the server *)

\* The header is read for Content-Length.  If the client stops early, the
\* line may be missing or cut short.
ReadLength(w) ==
    /\ At(w, "length")
    /\ HeaderIn(w) \/ Eof(w)
    /\ \E n \in (IF HeaderIn(w) THEN {req[w].len} ELSE 0..req[w].len) :
          /\ len' = [len EXCEPT ![w] = n]
          /\ Goto(w, IF n <= 0 THEN "badlen" ELSE "pipe1")
    /\ UNCHANGED <<server, req, stale, peer, reply, loc, moved, fwd, program,
                   pipes>>

\* pipe(input) or pipe(output): both ends or nothing
MakePipe(w, from, r, wr, to) ==
    /\ At(w, from)
    /\ \/ /\ CanOpenTwo(fdtab)
          /\ LET tab == Open(fdtab, <<r, w>>) IN
               /\ fdtab' = Open(tab, <<wr, w>>)
               /\ loc' = [loc EXCEPT ![w][r] = LowestFree(fdtab),
                                     ![w][wr] = LowestFree(tab)]
          /\ Goto(w, to)
       \/ ~CanOpenTwo(fdtab) /\ Goto(w, "nopipe") /\ UNCHANGED <<fdtab, loc>>
    /\ UNCHANGED <<status, backlog, req, stale, peer, reply, len, moved, fwd,
                   program, pipes>>

MakeInput(w) == MakePipe(w, "pipe1", "in0", "in1", "pipe2")
MakeOutput(w) == MakePipe(w, "pipe2", "out0", "out1", "fork")

\* The child starts with everything the server has open at this moment
Fork(w) ==
    /\ At(w, "fork")
    /\ \/ /\ child' = [child EXCEPT ![w] = "forked"]
          /\ held' = [held EXCEPT ![w] = OpenObjects(fdtab)]
          /\ Goto(w, "close")
       \/ "fork" \in SystemFaults /\ Goto(w, "nopipe") /\ UNCHANGED <<child, held>>
    /\ UNCHANGED <<server, req, stale, peer, reply, thread, eaten, made, pipes>>

\* fault variant: close(output[1]) is missing
CloseChildEnds_KeepsOutput(w) ==
    /\ At(w, "close")
    /\ CloseEnds(w, {"in0"})
    /\ Goto(w, IF req[w].method = "POST" THEN "take" ELSE "relay")
    /\ UNCHANGED <<status, backlog, req, stale, peer, reply, thread, program,
                   pipes>>

\* fault variant: the server sends the status line as well
CloseChildEnds_SendsStatus(w) ==
    /\ At(w, "close")
    /\ CloseEnds(w, {"in0", "out1"})
    /\ Answer(w, <<"200">>)
    /\ Goto(w, IF req[w].method = "POST" THEN "take" ELSE "relay")
    /\ UNCHANGED <<status, backlog, req, stale, peer, thread, program, pipes>>

\* close(input[0]); close(output[1])
CloseChildEnds(w) ==
    /\ At(w, "close")
    /\ CloseEnds(w, {"in0", "out1"})
    /\ Goto(w, IF req[w].method = "POST" THEN "take" ELSE "relay")
    /\ UNCHANGED <<status, backlog, req, stale, peer, reply, thread, program,
                   pipes>>

\* One turn of the loop over the body: recv(sock,&ch,1,0), unchecked (at the
\* end of the client's data ch keeps its old value) ...
TakeByte(w) ==
    /\ At(w, "take")
    /\ \/ moved[w] < len[w] /\ (ByteIn(w) \/ Eof(w)) /\ Goto(w, "put")
       \/ moved[w] = len[w] /\ Goto(w, "relay")
    /\ UNCHANGED <<server, req, stale, peer, reply, thread, program, pipes>>

\* ... and write(input[1],&ch,1), which waits while the pipe is full
PutByte(w) ==
    /\ At(w, "put")
    /\ HasHolder(<<"in0", w>>)
    /\ inPipe[w] < PipeCap
    /\ inPipe' = [inPipe EXCEPT ![w] = @ + 1]
    /\ moved' = [moved EXCEPT ![w] = @ + 1]
    /\ Goto(w, "take")
    /\ UNCHANGED <<server, req, stale, peer, reply, loc, len, fwd, program,
                   outPipe>>

\* read(output[0],&ch,1): a byte, or the end once nobody can write any more
ReadOutput(w) ==
    /\ At(w, "relay")
    /\ \/ /\ outPipe[w] > 0
          /\ outPipe' = [outPipe EXCEPT ![w] = @ - 1]
          /\ Goto(w, "forward")
       \/ /\ outPipe[w] = 0 /\ ~HasHolder(<<"out1", w>>)
          /\ Goto(w, "closeall")
          /\ UNCHANGED outPipe
    /\ UNCHANGED <<server, req, stale, peer, reply, thread, program, inPipe>>

\* send(sock,&ch,1,0), unchecked
ForwardByte(w) ==
    /\ At(w, "forward")
    /\ fwd' = [fwd EXCEPT ![w] = @ + 1]
    /\ Goto(w, "relay")
    /\ UNCHANGED <<server, req, stale, peer, reply, loc, len, moved, program,
                   pipes>>

\* fault variant: close(output[0]) is missing
CloseAll_KeepsOutput(w) ==
    /\ At(w, "closeall")
    /\ CloseEnds(w, {"in1", "sock"})
    /\ Goto(w, "wait")
    /\ UNCHANGED <<status, backlog, req, stale, peer, reply, thread, program,
                   pipes>>

CloseAll(w) ==
    /\ At(w, "closeall")
    /\ CloseEnds(w, {"in1", "out0", "sock"})
    /\ Goto(w, "wait")
    /\ UNCHANGED <<status, backlog, req, stale, peer, reply, thread, program,
                   pipes>>

\* fault variant: the socket is closed once more on the way out, as it is for a
\* static answer
Wait_ClosesAgain(w) ==
    /\ At(w, "wait")
    /\ child[w] = "zombie"
    /\ child' = [child EXCEPT ![w] = "reaped"]
    /\ CloseEnds(w, {"sock"})
    /\ Goto(w, "done")
    /\ UNCHANGED <<status, backlog, req, stale, peer, reply, thread, held, eaten, made,
                   pipes>>

\* waitpid(id,NULL,0)
Wait(w) ==
    /\ At(w, "wait")
    /\ child[w] = "zombie"
    /\ child' = [child EXCEPT ![w] = "reaped"]
    /\ Goto(w, "done")
    /\ UNCHANGED <<server, req, stale, peer, reply, thread, held, eaten, made,
                   pipes>>

-----------------------------------------------------------------------------
(* echo_cgi, in the child, and the program it becomes (external) *)

\* The process ends and with it everything it has open
ProgramEnds(w) ==
    /\ child' = [child EXCEPT ![w] = "zombie"]
    /\ held' = [held EXCEPT ![w] = {}]

\* fault variant: the child closes output[1] instead of output[0]
ChildHeader_ClosesOwnEnd(w) ==
    /\ child[w] = "forked"
    /\ child' = [child EXCEPT ![w] = "exec"]
    /\ held' = [held EXCEPT ![w] = @ \ {<<"in1", w>>, <<"out1", w>>}]
    /\ Answer(w, <<"200">>)
    /\ UNCHANGED <<server, req, stale, peer, pc, thread, eaten, made, pipes>>

\* close(input[1]); close(output[0]); then the status line is sent
ChildHeader(w) ==
    /\ child[w] = "forked"
    /\ child' = [child EXCEPT ![w] = "exec"]
    /\ held' = [held EXCEPT ![w] = @ \ {<<"in1", w>>, <<"out0", w>>}]
    /\ Answer(w, <<"200">>)
    /\ UNCHANGED <<server, req, stale, peer, pc, thread, eaten, made, pipes>>

\* execl, or exit(0) when the path cannot be executed; exit flushes the copy
\* of the server's printf buffer, by then into the pipe
ChildExec(w) ==
    /\ child[w] = "exec"
    /\ \/ /\ req[w].target = "program"
          /\ child' = [child EXCEPT ![w] = "run"]
          /\ UNCHANGED <<held, made, outPipe>>
       \/ /\ req[w].target # "program"
          /\ \E n \in 0..Buffered :
                /\ made' = [made EXCEPT ![w] = n]
                /\ outPipe' = [outPipe EXCEPT ![w] = n]
          /\ ProgramEnds(w)
    /\ UNCHANGED <<server, req, stale, peer, reply, pc, thread, eaten, inPipe>>

Input(w) == IF req[w].reads THEN len[w] ELSE 0

ChildReads(w) ==
    /\ child[w] = "run"
    /\ eaten[w] < Input(w)
    /\ \/ /\ inPipe[w] > 0
          /\ inPipe' = [inPipe EXCEPT ![w] = @ - 1]
          /\ eaten' = [eaten EXCEPT ![w] = @ + 1]
       \/ /\ inPipe[w] = 0 /\ ~HasHolder(<<"in1", w>>)
          /\ eaten' = [eaten EXCEPT ![w] = Input(w)]
          /\ UNCHANGED inPipe
    /\ UNCHANGED <<server, req, stale, peer, reply, pc, thread, child, held, made,
                   outPipe>>

ChildWrites(w) ==
    /\ child[w] = "run"
    /\ eaten[w] = Input(w)
    /\ made[w] < req[w].out
    /\ HasHolder(<<"out0", w>>)
    /\ outPipe[w] < PipeCap
    /\ made' = [made EXCEPT ![w] = @ + 1]
    /\ outPipe' = [outPipe EXCEPT ![w] = @ + 1]
    /\ UNCHANGED <<server, req, stale, peer, reply, pc, thread, child, held, eaten,
                   inPipe>>

\* The program ends by itself, or by SIGPIPE: it writes to a pipe nobody
\* reads, or (before exec) the status line to a client that is gone
ChildExits(w) ==
    /\ \/ child[w] = "run" /\ eaten[w] = Input(w) /\ made[w] = req[w].out
       \/ child[w] = "run" /\ eaten[w] = Input(w) /\ ~HasHolder(<<"out0", w>>)
       \/ child[w] = "forked" /\ client[w] = "gone"
    /\ ProgramEnds(w)
    /\ UNCHANGED <<server, req, stale, peer, reply, pc, thread, eaten, made, pipes>>

-----------------------------------------------------------------------------
(* The server *)

Thread(w) ==
    \/ GetRequest(w) \/ ClearHeader(w) \/ Refuse(w) \/ Exit(w)
    \/ OpenFile(w) \/ SendHead(w) \/ SendFile(w) \/ CloseSock(w)
    \/ ReadLength(w) \/ MakeInput(w) \/ MakeOutput(w) \/ Fork(w)
    \/ CloseChildEnds(w) \/ TakeByte(w) \/ PutByte(w) \/ ReadOutput(w)
    \/ ForwardByte(w) \/ CloseAll(w) \/ Wait(w)

Program(w) ==
    \/ ChildHeader(w) \/ ChildExec(w) \/ ChildReads(w) \/ ChildWrites(w)
    \/ ChildExits(w)

Next ==
    \/ Accept
    \/ \E w \in Conns :
          \/ Connect(w) \/ ClientSends(w) \/ ClientLeaves(w)
          \/ Thread(w) \/ SigPipe(w) \/ Program(w)

\* The scheduler runs every thread and process that can run; a client that
\* stays sends its whole request
Fairness ==
    /\ WF_vars(Accept)
    /\ \A w \in Conns : /\ WF_vars(Thread(w) \/ SigPipe(w))
                        /\ WF_vars(Program(w))
                        /\ WF_vars(ClientSends(w))

Spec == Init /\ [][Next]_vars /\ Fairness

-----------------------------------------------------------------------------
(* Properties *)

Locations == Refusing \union ExitCodes \union
    {"idle", "orphan", "line", "clear404", "clearcgi", "clearwww", "open",
     "head", "sendfile", "closesock", "length", "pipe1", "pipe2", "fork",
     "close", "take", "put", "relay", "forward", "closeall", "wait", "done"}
Items == {"200", "400", "404", "500", "page", "file"}

\* Types of the variables; the counters stay within the request and the pipe.
TypeOK ==
    /\ status \in {"up", "sigpipe"} \union ExitCodes
    /\ fdtab \in [Fds -> Objects \union {Free}]
    /\ backlog \in Seq(Conns)
    /\ req \in [Conns -> Request]
    /\ stale \subseteq Conns
    /\ client \in [Conns -> {"away", "connected", "half", "gone"}]
    /\ sent \in [Conns -> Nat]
    /\ reply \in [Conns -> Seq(Items)]
    /\ pc \in [Conns -> Locations]
    /\ loc \in [Conns -> [Ends -> Fds \union {0}]]
    /\ len \in [Conns -> Nat]
    /\ moved \in [Conns -> Nat]
    /\ fwd \in [Conns -> Nat]
    /\ child \in [Conns -> {"none", "forked", "exec", "run", "zombie", "reaped"}]
    /\ held \in [Conns -> SUBSET Objects]
    /\ eaten \in [Conns -> Nat]
    /\ made \in [Conns -> Nat]
    /\ inPipe \in [Conns -> 0..PipeCap]
    /\ outPipe \in [Conns -> 0..PipeCap]

\* Where a thread has each of its descriptors open.  The pipes of a thread
\* that failed half-way (nopipe) depend on where it failed.
AfterFork == {"take", "put", "relay", "forward", "closeall"}
BeforeFork == {"fork", "close"}
HasOpen(p, e) ==
    \/ e = "sock" /\ p \notin ExitCodes \union {"idle", "wait", "done"}
    \/ e = "file" /\ p \in {"head", "sendfile", "closesock", "wwwfail"}
    \/ e = "in0"  /\ p \in BeforeFork \union {"pipe2"}
    \/ e = "in1"  /\ p \in BeforeFork \union AfterFork \union {"pipe2"}
    \/ e = "out0" /\ p \in BeforeFork \union AfterFork
    \/ e = "out1" /\ p \in BeforeFork

\* The numbers a thread keeps in its local variables stand for its own socket,
\* pipes and file, whatever the other threads open and close meanwhile: no
\* thread closes a number twice or one that is not its own.
FdIntegrity ==
    status = "up" =>
        /\ fdtab[FirstFd] = Listen
        /\ \A w \in Conns, e \in Ends :
              HasOpen(pc[w], e) => fdtab[loc[w][e]] = <<e, w>>

\* And nothing else is open: the server loses track of no descriptor, except
\* the files of static answers (echo_www never closes outfd) and what a thread
\* about to end the server leaves.
NoFdLeak ==
    status = "up" =>
        \A f \in Fds, w \in Conns, e \in Ends :
            fdtab[f] = <<e, w>> =>
                \/ HasOpen(pc[w], e) /\ loc[w][e] = f
                \/ pc[w] \in ExitCodes
                \/ pc[w] = "nopipe" /\ e \in PipeEnds
                \/ pc[w] = "done" /\ e = "file"

\* When the thread takes the end of the pipe for the end of the answer, its own
\* program is over and every byte it wrote has been sent on, although programs
\* of other requests may have inherited the ends of this pipe.
EofMeansComplete ==
    \A w \in Conns :
        /\ pc[w] \in {"closeall", "wait"} => child[w] = "zombie" /\ fwd[w] = made[w]
        /\ pc[w] = "done" /\ child[w] # "none" =>
              child[w] = "reaped" /\ fwd[w] = made[w]

\* The thread and the child both write to the socket, yet a client gets at most
\* one status line, and gets it before any byte of the program's output.  The one
\* exception is a file that sendfile() refuses: its 200 is followed by a 500, and
\* the thread ends the server.
IsStatusLine(item) == item \in {"200", "400", "404", "500"}
SpoiltFile == {<<"200", "500">>, <<"200", "500", "page">>}
OneStatusLine ==
    \A w \in Conns :
        /\ \/ \A i, j \in 1..Len(reply[w]) :
                 IsStatusLine(reply[w][i]) /\ IsStatusLine(reply[w][j]) => i = j
           \/ reply[w] \in SpoiltFile /\ pc[w] = "exit5" /\ child[w] = "none"
        /\ fwd[w] > 0 /\ client[w] # "gone" => reply[w] = <<"200">>

\* When a request ends the server with exit(), the client that made it has its 400,
\* 404 or 500 -- behind a 200 if its file could not be sent -- or, if its file could
\* not be opened, nothing at all.
ExitAnswersOffender ==
    status \in ExitCodes =>
        \E w \in Conns, p \in Refusing :
            /\ ExitOf[p] = status /\ pc[w] = status
            /\ client[w] # "gone" =>
                  IF status = "exit5"
                    THEN reply[w] \in IF loc[w]["file"] = 0 THEN {<<>>} ELSE SpoiltFile
                    ELSE reply[w] \in {<<Refusal[p]>>, <<Refusal[p], "page">>}

Closed(w) == pc[w] = "done" /\ ~HasHolder(<<"sock", w>>)

Served(w) == pc[w] \notin {"idle", "orphan"}

\* A thread and its program wait for one another: the program's input is full
\* while the thread has more to write, its output is full while the thread does
\* not read.
BothPipesFull(w) ==
    /\ pc[w] = "put" /\ inPipe[w] = PipeCap
    /\ child[w] = "run" /\ eaten[w] = Input(w) /\ made[w] < req[w].out
    /\ outPipe[w] = PipeCap

\* Every connection comes to its end -- the thread finishes, and the client sees
\* the end of the answer, because the programs of other requests, which
\* inherited the socket, let go of it too -- unless some thread ends the server.
\* Two full pipes are the only thing that can make a thread hang, and one such
\* thread can hang others, whose pipes its program inherited.
OnlyFullPipesHang ==
    \A w \in Conns :
        Served(w) ~> \/ Closed(w) \/ status # "up"
                     \/ \E v \in Conns : BothPipesFull(v)

\* The server as its clients see it
StageOf(p, c) ==
    CASE p = "idle" -> IF c = "away" THEN "away" ELSE "queued"
      [] p = "orphan" -> "forgotten"
      [] p \in {"wait", "done"} -> "closed"
      [] p \in ExitCodes -> "refused"
      [] OTHER -> "open"
ProgramOf(c) ==
    CASE c \in {"none", "forked"} -> "none"
      [] c \in {"exec", "run"} -> "runs"
      [] OTHER -> "over"

Stages == [w \in Conns |-> StageOf(pc[w], client[w])]
Programs == [w \in Conns |-> ProgramOf(child[w])]
Gone == {w \in Conns : client[w] = "gone"}

Service == INSTANCE HttpService WITH
    up <- status = "up", queue <- backlog, stage <- Stages, gone <- Gone,
    program <- Programs, Late <- Buffered

\* Threads, programs, inherited descriptors and failures notwithstanding, the
\* server is the service of HttpService: connections are taken in their order,
\* answered by one status line and then by what belongs to it, closed only when
\* the answer is complete, and the server stops for the stated reasons only.  A
\* file that cannot be sent is the one answer with two status lines.
RefinesService == Service!ServiceSpec

\* httpd.c:201 and :218 call the two branches of echo_cgi POST and GET: the
\* header is searched for a length only for a POST.
LengthIsForPost == \A w \in Conns : pc[w] = "length" => req[w].method = "POST"

\* httpd.c:361 says the query string is the GET arguments: a GET is run as a
\* program because its URL has arguments (or its file is executable).
QueryComesFromUrl == \A w \in Conns : pc[w] = "clearcgi" => WantsCgi(w)
=============================================================================
