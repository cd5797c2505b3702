-------------------------- MODULE HttpServiceProofs --------------------------
(***************************************************************************)
(* The HTTP server implements the service of HttpService, for every set of  *)
(* connections, limit on open files, backlog and pipe size; and what a      *)
(* client is sent at each point of its answer, which that rests on.         *)
(***************************************************************************)
EXTENDS HttpdProofs, SequenceTheorems

-----------------------------------------------------------------------------
(* What a client has been sent *)

ErrorReplies(code) == {<<code>>, <<code, "page">>}

\* The replies of a thread that has said all it will say
Whole == {<<>>, <<"200">>, <<"200", "file">>} \union ErrorReplies("400")
            \union ErrorReplies("404") \union ErrorReplies("500")

\* Where a thread that answers with a file is, and where it has said something
InFile == {"head", "sendfile", "closesock", "wwwfail"}
Answered == {"sendfile", "closesock", "wwwfail", "done"} \union ExitCodes

\* A client that has not hung up was sent exactly what the place of its thread
\* and of its program tell; a living program holds its input; outfd is set while
\* a file is sent.
ReplyInv ==
    \A w \in Conns :
        /\ \/ reply[w] \in Whole
           \/ reply[w] \in SpoiltFile /\ pc[w] = "exit5" /\ child[w] = "none"
        /\ pc[w] \in InFile => loc[w]["file"] # 0
        /\ pc[w] \notin InFile \union {"exit5", "done"} => loc[w]["file"] = 0
        /\ child[w] \in Alive => <<"in0", w>> \in held[w]
        /\ client[w] # "gone" =>
              /\ child[w] \in {"none", "forked"} /\ pc[w] \notin Answered =>
                    reply[w] = <<>>
              /\ child[w] \notin {"none", "forked"} => reply[w] = <<"200">>
              /\ pc[w] = "sendfile" => reply[w] = <<"200">>
              /\ pc[w] = "wwwfail" => reply[w] = <<"200">>
              /\ pc[w] = "closesock" => reply[w] = <<"200", "file">>
              /\ pc[w] = "exit3" => reply[w] \in ErrorReplies("400")
              /\ pc[w] = "exit4" => reply[w] \in ErrorReplies("404")
              /\ pc[w] = "exit255" => reply[w] \in ErrorReplies("500")
              /\ pc[w] = "exit5" =>
                    reply[w] \in IF loc[w]["file"] = 0 THEN {<<>>} ELSE SpoiltFile

LEMMA InitReplyInv == Init => ReplyInv
  BY DEF Init, ReplyInv, Whole, Alive, Answered, ExitCodes, InFile, Ends

\* Only echo_www sets outfd.
FilesStay == \A v \in Conns : loc'[v]["file"] = loc[v]["file"]

LEMMA ThreadFilesStay ==
  ASSUME TypeOK, NEW w \in Conns, Thread(w), ~OpenFile(w)
  PROVE  FilesStay
<1>1. CASE UNCHANGED loc
  BY <1>1 DEF FilesStay
<1>2. CASE MakeInput(w) \/ MakeOutput(w)
  <2>1. PICK r \in PipeEnds, wr \in PipeEnds :
          \/ UNCHANGED loc
          \/ \E m, n : loc' = [loc EXCEPT ![w][r] = m, ![w][wr] = n]
    BY <1>2 DEF MakeInput, MakeOutput, MakePipe, PipeEnds
  <2>2. r # "file" /\ wr # "file" /\ "file" \in Ends
    BY DEF PipeEnds, Ends
  <2>3. ASSUME NEW m, NEW n, loc' = [loc EXCEPT ![w][r] = m, ![w][wr] = n],
               NEW v \in Conns
        PROVE  loc'[v]["file"] = loc[v]["file"]
    <3> DEFINE once == [loc EXCEPT ![w] = [@ EXCEPT ![r] = m]]
    <3>1. once[v]["file"] = loc[v]["file"]
      BY <2>2 DEF TypeOK
    <3>2. loc'[v]["file"] = once[v]["file"]
      BY <2>2, <2>3 DEF TypeOK
    <3> QED BY <3>1, <3>2
  <2> QED BY <2>1, <2>3 DEF FilesStay
<1> QED
  BY <1>1, <1>2 DEF Thread, GetRequest, ClearHeader, Refuse, Exit, SendHead,
     SendFile, CloseSock, ReadLength, Fork, CloseChildEnds, TakeByte, PutByte,
     ReadOutput, ForwardByte, CloseAll, Wait, thread

\* A thread moves without a word, and does not arrive where something must have
\* been said.
LEMMA ReplyInvMove ==
  ASSUME TypeOK, ReplyInv, UNCHANGED <<client, reply, child, held>>, FilesStay,
         NEW w \in Conns, NEW q, Goto(w, q),
         pc[w] \notin Answered \/ child[w] \notin {"none", "forked"} \/ q = "done",
         pc[w] \notin InFile \union {"exit5", "done"} \/ q = "done",
         pc[w] # "exit5", q \notin InFile \union ExitCodes
  PROVE  ReplyInv'
<1>1. pc'[w] = q /\ \A v \in Conns : v # w => pc'[v] = pc[v]
  BY DEF Goto, TypeOK
<1> QED BY ZenonT(60), <1>1 DEF ReplyInv, Answered, InFile, ExitCodes, FilesStay

\* A status line and a page are two pieces.
LEMMA TwoPieces == ASSUME NEW a, NEW b PROVE <<a>> \o <<b>> = <<a, b>>
<1> DEFINE S == {a, b}
           s == <<a>> \o <<b>>
<1>1. <<a>> \in Seq(S) /\ <<b>> \in Seq(S) /\ <<a, b>> \in Seq(S)
  OBVIOUS
<1>2. Len(s) = 2 /\ s \in Seq(S)
  BY <1>1
<1>3. s[1] = a /\ s[2] = b
  BY <1>1
<1>4. Len(<<a, b>>) = 2 /\ <<a, b>>[1] = a /\ <<a, b>>[2] = b
  OBVIOUS
<1>5. \A i \in 1..Len(s) : s[i] = <<a, b>>[i]
  BY <1>2, <1>3, <1>4
<1> HIDE DEF s, S
<1>6. s = <<a, b>>
  BY <1>1, <1>2, <1>4, <1>5, SeqEqual
<1> QED BY <1>6 DEF s

LEMMA ThreePieces ==
  ASSUME NEW a, NEW b, NEW c PROVE <<a>> \o <<b, c>> = <<a, b, c>>
<1> DEFINE S == {a, b, c}
           s == <<a>> \o <<b, c>>
<1>1. <<a>> \in Seq(S) /\ <<b, c>> \in Seq(S) /\ <<a, b, c>> \in Seq(S)
  OBVIOUS
<1>2. Len(s) = 3 /\ s \in Seq(S)
  BY <1>1
<1>3. s[1] = a /\ s[2] = b /\ s[3] = c
  BY <1>1
<1>4. /\ Len(<<a, b, c>>) = 3
      /\ <<a, b, c>>[1] = a /\ <<a, b, c>>[2] = b /\ <<a, b, c>>[3] = c
  OBVIOUS
<1>5. \A i \in 1..Len(s) : s[i] = <<a, b, c>>[i]
  BY <1>2, <1>3, <1>4
<1> HIDE DEF s, S
<1>6. s = <<a, b, c>>
  BY <1>1, <1>2, <1>4, <1>5, SeqEqual
<1> QED BY <1>6 DEF s

\* What Answer does to the replies.
LEMMA AnswerEffect ==
  ASSUME TypeOK, NEW w \in Conns, NEW items, Answer(w, items)
  PROVE  /\ client[w] = "gone" => reply' = reply
         /\ client[w] # "gone" => reply'[w] = reply[w] \o items
         /\ \A v \in Conns : v # w => reply'[v] = reply[v]
  BY DEF Answer, TypeOK

\* echo_error says the code of its place, and with it the page if it can; behind
\* the 200 of a file that was not sent.
LEMMA ReplyInvRefuse ==
  ASSUME TypeOK, EofInv, ReplyInv, NEW w \in Conns, Refuse(w)
  PROVE  ReplyInv'
<1>1. UNCHANGED <<client, child, held, loc>>
  BY DEF Refuse, peer, program, thread
<1>2. PICK p \in Refusing :
        /\ pc[w] = p
        /\ Answer(w, <<Refusal[p], "page">>) \/ Answer(w, <<Refusal[p]>>)
        /\ Goto(w, ExitOf[p])
  BY DEF Refuse, At
<1>3. pc'[w] = ExitOf[p] /\ \A v \in Conns : v # w => pc'[v] = pc[v]
  BY <1>2 DEF Goto, TypeOK
<1>4. child[w] = "none"
  BY <1>2 DEF EofInv, InCgi, AfterFork, Refusing
<1>5. PICK items \in ErrorReplies(Refusal[p]) : Answer(w, items)
  BY <1>2 DEF ErrorReplies
<1>6. \A v \in Conns : v # w => reply'[v] = reply[v]
  BY <1>5, AnswerEffect
<1>7. reply[w] \in Whole
  BY <1>2 DEF ReplyInv, Refusing
<1>8. CASE p # "wwwfail"
  <2>1. client[w] # "gone" => reply'[w] = items
    <3>1. p \notin Answered
      BY <1>2, <1>8 DEF Refusing, Answered, ExitCodes
    <3>2. client[w] # "gone" => reply[w] = <<>>
      BY <1>2, <1>4, <3>1 DEF ReplyInv
    <3>3. <<>> \o items = items
      BY <1>5 DEF ErrorReplies
    <3> QED BY <1>5, <3>2, <3>3, AnswerEffect
  <2>2. /\ Refusal[p] \in {"400", "404", "500"}
        /\ ExitOf[p] = "exit3" => Refusal[p] = "400"
        /\ ExitOf[p] = "exit4" => Refusal[p] = "404"
        /\ ExitOf[p] = "exit255" => Refusal[p] = "500"
        /\ ExitOf[p] \in ExitCodes \ {"exit5"}
    BY <1>8 DEF Refusing, Refusal, ExitOf, ExitCodes
  <2>3. reply'[w] \in Whole
    BY <1>5, <1>7, <2>1, <2>2, AnswerEffect DEF Whole
  <2>4. loc'[w]["file"] = 0
    BY <1>1, <1>2, <1>8 DEF ReplyInv, InFile, Refusing
  <2>5. pc'[w] \in {"exit3", "exit4", "exit255"} /\ pc'[w] \in Answered
    BY <1>3, <2>2 DEF ExitCodes, Answered
  <2>6. client[w] # "gone" =>
           /\ pc'[w] = "exit3" => reply'[w] \in ErrorReplies("400")
           /\ pc'[w] = "exit4" => reply'[w] \in ErrorReplies("404")
           /\ pc'[w] = "exit255" => reply'[w] \in ErrorReplies("500")
    BY <1>3, <1>5, <2>1, <2>2
  <2> HIDE DEF ExitOf, Refusal, ErrorReplies, Whole, SpoiltFile
  <2> QED
    BY ZenonT(60), <1>1, <1>3, <1>4, <1>6, <2>3, <2>4, <2>5, <2>6
       DEF ReplyInv, Alive, InFile
<1>9. CASE p = "wwwfail"
  <2>1. Refusal[p] = "500" /\ ExitOf[p] = "exit5"
    BY <1>9 DEF Refusal, ExitOf
  <2>2. client[w] # "gone" => reply'[w] \in SpoiltFile
    <3>1. client[w] # "gone" => reply[w] = <<"200">>
      BY <1>2, <1>9 DEF ReplyInv
    <3>2. items = <<"500">> \/ items = <<"500", "page">>
      BY <1>5, <2>1 DEF ErrorReplies
    <3>3. /\ <<"200">> \o <<"500">> = <<"200", "500">>
          /\ <<"200">> \o <<"500", "page">> = <<"200", "500", "page">>
      BY TwoPieces, ThreePieces
    <3> QED BY <1>5, <3>1, <3>2, <3>3, AnswerEffect DEF SpoiltFile
  <2>3. reply'[w] \in Whole \/ reply'[w] \in SpoiltFile
    BY <1>5, <1>7, <2>2, AnswerEffect
  <2>4. loc'[w]["file"] # 0
    BY <1>1, <1>2, <1>9 DEF ReplyInv, InFile
  <2> HIDE DEF ExitOf, Refusal, ErrorReplies, Whole, SpoiltFile
  <2> QED
    BY ZenonT(60), <1>1, <1>3, <1>4, <1>6, <2>1, <2>2, <2>3, <2>4
       DEF ReplyInv, Answered, Alive, ExitCodes, InFile
<1> QED BY <1>8, <1>9

\* echo_www: the status line, then the file.
LEMMA ReplyInvSend ==
  ASSUME TypeOK, EofInv, ReplyInv, NEW w \in Conns, SendHead(w) \/ SendFile(w)
  PROVE  ReplyInv'
<1>1. UNCHANGED <<client, child, held, loc>>
  BY DEF SendHead, SendFile, peer, program, thread
<1>2. child[w] = "none" /\ pc[w] \in {"head", "sendfile"}
  BY DEF SendHead, SendFile, At, EofInv, InCgi, AfterFork
<1>0. reply[w] \in Whole /\ loc[w]["file"] # 0
  BY <1>2 DEF ReplyInv, InFile
<1>3. CASE /\ client[w] = "gone" \/ pc[w] = "sendfile"
           /\ Goto(w, "wwwfail") /\ UNCHANGED reply
  <2>1. pc'[w] = "wwwfail" /\ \A v \in Conns : v # w => pc'[v] = pc[v]
    BY <1>3 DEF Goto, TypeOK
  <2> QED BY ZenonT(60), <1>0, <1>1, <1>2, <1>3, <2>1 DEF ReplyInv, Answered, Alive, InFile
<1>4. CASE pc[w] = "head" /\ Answer(w, <<"200">>) /\ Goto(w, "sendfile")
  <2>1. pc'[w] = "sendfile" /\ \A v \in Conns : v # w => pc'[v] = pc[v]
    BY <1>4 DEF Goto, TypeOK
  <2>2. client[w] # "gone" => reply'[w] = <<"200">>
    <3>1. client[w] # "gone" => reply[w] = <<>>
      BY <1>2, <1>4 DEF ReplyInv, Answered, ExitCodes
    <3>2. <<>> \o <<"200">> = <<"200">>
      OBVIOUS
    <3> QED BY <1>4, <3>1, <3>2, AnswerEffect
  <2>3. \A v \in Conns : v # w => reply'[v] = reply[v]
    BY <1>4, AnswerEffect
  <2>4. reply'[w] \in Whole
    BY <1>0, <1>4, <2>2, AnswerEffect DEF Whole
  <2> QED BY ZenonT(60), <1>0, <1>1, <1>2, <2>1, <2>2, <2>3, <2>4
             DEF ReplyInv, Answered, Alive, InFile
<1>5. CASE pc[w] = "sendfile" /\ Answer(w, <<"file">>) /\ Goto(w, "closesock")
  <2>1. pc'[w] = "closesock" /\ \A v \in Conns : v # w => pc'[v] = pc[v]
    BY <1>5 DEF Goto, TypeOK
  <2>2. client[w] # "gone" => reply'[w] = <<"200", "file">>
    <3>1. client[w] # "gone" => reply[w] = <<"200">>
      BY <1>5 DEF ReplyInv
    <3>2. <<"200">> \o <<"file">> = <<"200", "file">>
      BY TwoPieces
    <3> QED BY <1>5, <3>1, <3>2, AnswerEffect
  <2>3. \A v \in Conns : v # w => reply'[v] = reply[v]
    BY <1>5, AnswerEffect
  <2>4. reply'[w] \in Whole
    BY <1>0, <1>5, <2>2, AnswerEffect DEF Whole
  <2> QED BY ZenonT(60), <1>0, <1>1, <1>2, <2>1, <2>2, <2>3, <2>4
             DEF ReplyInv, Answered, Alive, InFile
<1> QED BY <1>3, <1>4, <1>5 DEF SendHead, SendFile, At

\* The child says 200 once, before the program begins; nobody else speaks for a
\* connection that has a program.
LEMMA ReplyInvProgram ==
  ASSUME TypeOK, EofInv, ReplyInv, NEW w \in Conns, Program(w)
  PROVE  ReplyInv'
<1>1. UNCHANGED <<pc, client, loc>> /\ child[w] \in Alive
  BY DEF Program, ChildHeader, ChildExec, ChildReads, ChildWrites, ChildExits,
     peer, thread, Alive
<1>2. pc[w] \in InCgi \ {"wait"}
  BY <1>1 DEF EofInv, Alive, InCgi, AfterFork
<1>3. pc[w] \notin Answered \union InFile /\ reply[w] \in Whole
  BY <1>1, <1>2 DEF ReplyInv, InCgi, AfterFork, Answered, ExitCodes, InFile, Alive
<1>4. CASE ChildHeader(w)
  <2>1. child'[w] = "exec" /\ held'[w] = held[w] \ {<<"in1", w>>, <<"out0", w>>}
    BY <1>4 DEF ChildHeader, TypeOK
  <2>2. \A v \in Conns : v # w => child'[v] = child[v] /\ held'[v] = held[v]
    BY <1>4 DEF ChildHeader, TypeOK
  <2>3. client[w] # "gone" => reply'[w] = <<"200">>
    <3>1. child[w] = "forked" /\ Answer(w, <<"200">>)
      BY <1>4 DEF ChildHeader
    <3>2. client[w] # "gone" => reply[w] = <<>>
      BY <1>3, <3>1 DEF ReplyInv
    <3>3. <<>> \o <<"200">> = <<"200">>
      OBVIOUS
    <3> QED BY <3>1, <3>2, <3>3, AnswerEffect
  <2>4. \A v \in Conns : v # w => reply'[v] = reply[v]
    BY <1>4, AnswerEffect DEF ChildHeader
  <2>5. reply'[w] \in Whole
    BY <1>3, <1>4, <2>3, AnswerEffect DEF ChildHeader, Whole
  <2>6. <<"in0", w>> \in held'[w]
    BY <1>1, <2>1 DEF ReplyInv
  <2> QED BY ZenonT(60), <1>1, <1>3, <2>1, <2>2, <2>3, <2>4, <2>5, <2>6
             DEF ReplyInv, Answered, ExitCodes
<1>5. CASE ~ChildHeader(w)
  <2>1. reply' = reply
    BY <1>5 DEF Program, ChildExec, ChildReads, ChildWrites, ChildExits
  <2>2. \A v \in Conns : v # w => child'[v] = child[v] /\ held'[v] = held[v]
    BY <1>5 DEF TypeOK, Program, ChildExec, ChildReads, ChildWrites, ChildExits,
       ProgramEnds
  <2>3. \/ child'[w] = child[w] /\ held'[w] = held[w]
        \/ child[w] = "exec" /\ child'[w] = "run" /\ held'[w] = held[w]
        \/ child'[w] = "zombie" /\ (client[w] = "gone" \/ child[w] # "forked")
    BY <1>5 DEF TypeOK, Program, ChildExec, ChildReads, ChildWrites, ChildExits,
       ProgramEnds
  <2> QED BY ZenonT(60), <1>1, <1>3, <2>1, <2>2, <2>3
             DEF ReplyInv, Answered, ExitCodes, Alive
<1> QED BY <1>4, <1>5

\* The steps of a thread that sends nothing.
LEMMA ReplyInvSilent ==
  ASSUME TypeOK, FdInv, EofInv, ReplyInv, NEW w \in Conns,
         Thread(w), ~Refuse(w), ~SendHead(w), ~SendFile(w)
  PROVE  ReplyInv'
<1> USE DEF Answered, ExitCodes, InFile
<1>00. ~OpenFile(w) => FilesStay
  BY ThreadFilesStay
<1>0. UNCHANGED <<client, reply>>
  BY DEF Thread, GetRequest, ClearHeader, Exit, OpenFile, CloseSock, ReadLength,
     MakeInput, MakeOutput, MakePipe, Fork, CloseChildEnds, TakeByte, PutByte,
     ReadOutput, ForwardByte, CloseAll, Wait, peer
<1>1. CASE Exit(w)
  BY <1>0, <1>1 DEF Exit, program, thread, ReplyInv
<1>2. CASE /\ GetRequest(w) \/ ClearHeader(w) \/ ReadLength(w) \/ MakeInput(w)
              \/ MakeOutput(w)
           /\ ~OpenFile(w)
  <2>1. pc[w] \notin Answered \union InFile /\ UNCHANGED <<child, held>>
    BY <1>2 DEF GetRequest, ClearHeader, ReadLength, MakeInput, MakeOutput,
       MakePipe, At, program
  <2>2. PICK q \in {"bad", "clear404", "clearcgi", "length", "clearwww",
                    "missing", "pipe1", "open", "badlen", "pipe2", "fork",
                    "nopipe"} : Goto(w, q)
    BY <1>2 DEF GetRequest, Branch, ClearHeader, ReadLength, MakeInput,
       MakeOutput, MakePipe
  <2> QED BY <1>0, <1>00, <1>2, <2>1, <2>2, ReplyInvMove
<1>7. CASE OpenFile(w)
  <2>1. pc[w] = "open" /\ UNCHANGED <<child, held>>
    BY <1>7 DEF OpenFile, At, program
  <2>2. loc[w]["file"] = 0 /\ (client[w] # "gone" => reply[w] = <<>>)
    BY <2>1 DEF ReplyInv, EofInv, InCgi, AfterFork
  <2>3. reply[w] \in Whole
    BY <2>1 DEF ReplyInv
  <2>4. \/ Goto(w, "head") /\ loc'[w]["file"] # 0
        \/ Goto(w, "exit5") /\ loc' = loc
    <3>1. LowestFree(fdtab) # 0 \/ ~CanOpen(fdtab)
      BY LowestFreeIsFree, FdAssumption DEF Fds
    <3>2. "file" \in Ends
      BY DEF Ends
    <3> QED BY <1>7, <3>1, <3>2 DEF OpenFile, TypeOK
  <2>5. \A v \in Conns : v # w => loc'[v] = loc[v] /\ pc'[v] = pc[v]
    BY <1>7 DEF OpenFile, TypeOK, Goto
  <2>6. child[w] = "none"
    BY <2>1 DEF EofInv, InCgi, AfterFork
  <2>7. pc'[w] = "head" \/ pc'[w] = "exit5"
    BY <2>4 DEF Goto, TypeOK
  <2>8. /\ pc'[w] = "head" => loc'[w]["file"] # 0
        /\ pc'[w] = "exit5" => loc'[w]["file"] = 0
    BY <2>2, <2>4 DEF Goto, TypeOK
  <2> QED BY ZenonT(60), <1>0, <2>1, <2>2, <2>3, <2>5, <2>6, <2>7, <2>8 DEF ReplyInv, Alive
<1>3. CASE Fork(w)
  <2>1. pc[w] = "fork" /\ status = "up" /\ child[w] = "none"
    BY <1>3 DEF Fork, At, EofInv, InCgi, AfterFork
  <2>0. FilesStay
    BY <1>3 DEF Fork, thread, FilesStay
  <2>2. CASE Goto(w, "nopipe") /\ UNCHANGED <<child, held>>
    BY <1>0, <2>0, <2>1, <2>2, ReplyInvMove
  <2>3. CASE /\ child' = [child EXCEPT ![w] = "forked"]
             /\ held' = [held EXCEPT ![w] = OpenObjects(fdtab)]
             /\ Goto(w, "close")
    <3>1. "in0" \in Ends /\ HasOpen(pc[w], "in0")
      BY <2>1 DEF Ends, PipeEnds, HasOpen, BeforeFork
    <3>2. loc[w]["in0"] \in Fds /\ fdtab[loc[w]["in0"]] = <<"in0", w>>
      BY <2>1, <3>1 DEF FdInv
    <3>3. <<"in0", w>> \in OpenObjects(fdtab)
      BY <3>1, <3>2, DistinctObjects DEF OpenObjects
    <3>4. pc'[w] = "close" /\ child'[w] = "forked" /\ <<"in0", w>> \in held'[w]
      BY <2>3, <3>3 DEF Goto, TypeOK
    <3>5. \A v \in Conns : v # w =>
             pc'[v] = pc[v] /\ child'[v] = child[v] /\ held'[v] = held[v]
      BY <2>3 DEF Goto, TypeOK
    <3> QED BY ZenonT(60), <1>0, <2>0, <2>1, <3>4, <3>5 DEF ReplyInv, FilesStay
  <2> QED BY <1>3, <2>2, <2>3 DEF Fork
<1>4. CASE CloseSock(w)
  BY <1>0, <1>4, ReplyInvMove DEF CloseSock, program, thread, FilesStay, At
<1>5. CASE CloseChildEnds(w) \/ TakeByte(w) \/ PutByte(w) \/ ReadOutput(w)
           \/ ForwardByte(w) \/ CloseAll(w)
  <2>0. FilesStay
    BY <1>5 DEF CloseChildEnds, TakeByte, PutByte, ReadOutput, ForwardByte,
       CloseAll, thread, FilesStay
  <2>1. pc[w] \notin Answered \union InFile /\ UNCHANGED <<child, held>>
    BY <1>5 DEF CloseChildEnds, TakeByte, PutByte, ReadOutput, ForwardByte,
       CloseAll, At, program
  <2>2. PICK q \in {"take", "relay", "put", "forward", "closeall", "wait"} :
               Goto(w, q)
    BY <1>5 DEF CloseChildEnds, TakeByte, PutByte, ReadOutput, ForwardByte,
       CloseAll
  <2> QED BY <1>0, <2>0, <2>1, <2>2, ReplyInvMove
<1>6. CASE Wait(w)
  <2>1. pc'[w] = "done" /\ child[w] = "zombie" /\ child'[w] = "reaped"
    BY <1>6 DEF Wait, Goto, TypeOK
  <2>2. \A v \in Conns : v # w => pc'[v] = pc[v] /\ child'[v] = child[v]
    BY <1>6 DEF Wait, Goto, TypeOK
  <2>3. UNCHANGED <<held, loc>> /\ pc[w] = "wait"
    BY <1>6 DEF Wait, thread, At
  <2>4. reply[w] \in Whole
    BY <2>1, <2>3 DEF ReplyInv
  <2> QED BY ZenonT(60), <1>0, <2>1, <2>2, <2>3, <2>4 DEF ReplyInv, Alive
<1> QED BY <1>1, <1>2, <1>3, <1>4, <1>5, <1>6, <1>7 DEF Thread

LEMMA NextReplyInv ==
  ASSUME TypeOK, BacklogInv, FdInv, EofInv, ReplyInv, [Next]_vars
  PROVE  ReplyInv'
<1>1. CASE Accept
  <2>1. UNCHANGED <<client, reply, child, held>>
    BY <1>1 DEF Accept, peer, program
  <2>2. PICK w \in Conns, q \in {"line", "orphan"} : pc[w] = "idle" /\ Goto(w, q)
    <3>1. backlog \in Seq(Conns) /\ backlog # <<>>
      BY <1>1 DEF Accept, TypeOK
    <3>2. Head(backlog) \in Conns /\ pc[Head(backlog)] = "idle"
      BY <3>1, BacklogFacts DEF BacklogInv
    <3> QED BY <1>1, <3>2 DEF Accept
  <2>3. FilesStay
    <3>1. PICK u, n : loc' = [loc EXCEPT ![u]["sock"] = n]
      BY <1>1 DEF Accept
    <3>2. "file" \in Ends
      BY DEF Ends
    <3> QED BY <3>1, <3>2 DEF FilesStay, TypeOK
  <2> QED BY <2>1, <2>2, <2>3, ReplyInvMove DEF Answered, ExitCodes, InFile
<1>2. ASSUME NEW w \in Conns, Connect(w) \/ ClientLeaves(w) PROVE ReplyInv'
  <2>1. UNCHANGED <<pc, reply, child, held, loc>>
    BY <1>2 DEF Connect, ClientLeaves, program, thread
  <2>2. \A v \in Conns : client[v] = "gone" => client'[v] = "gone"
    BY <1>2 DEF Connect, ClientLeaves, TypeOK
  <2> QED BY <2>1, <2>2 DEF ReplyInv
<1>3. ASSUME UNCHANGED <<pc, client, reply, child, held, loc>> PROVE ReplyInv'
  BY <1>3 DEF ReplyInv
<1>4. ASSUME NEW w \in Conns, ClientSends(w) \/ SigPipe(w) PROVE ReplyInv'
  BY <1>3, <1>4 DEF ClientSends, SigPipe, peer, program, thread
<1>5. ASSUME NEW w \in Conns, Thread(w) PROVE ReplyInv'
  BY <1>5, ReplyInvRefuse, ReplyInvSend, ReplyInvSilent
<1>6. CASE UNCHANGED vars
  BY <1>3, <1>6 DEF vars, peer, program, thread
<1> QED BY <1>1, <1>2, <1>4, <1>5, <1>6, ReplyInvProgram DEF Next

LEMMA ReplyInvAlways ==
  Spec => [](TypeOK /\ BacklogInv /\ FdInv /\ EofInv /\ ReplyInv)
<1>1. Init => TypeOK /\ BacklogInv /\ FdInv /\ EofInv /\ ReplyInv
  BY InitTypeOK, InitFdInv, InitEofInv, InitReplyInv
<1>2. /\ TypeOK /\ BacklogInv /\ FdInv /\ EofInv /\ ReplyInv
      /\ [Next]_vars
      => TypeOK' /\ BacklogInv' /\ FdInv' /\ EofInv' /\ ReplyInv'
  BY NextTypeOK, NextBacklogInv, NextFdInv, NextEofInv, NextReplyInv
<1> QED BY <1>1, <1>2, PTL DEF Spec

\* The thread and the child both write to the socket, and still a client gets two
\* status lines only if sendfile() refused its file, which ends the server, and
\* output of a program only behind its status line.
THEOREM OneStatusLineEach == Spec => []OneStatusLine
<1>1. TypeOK /\ EofInv /\ ReplyInv => OneStatusLine
  <2> SUFFICES ASSUME TypeOK, EofInv, ReplyInv, NEW w \in Conns
               PROVE  /\ \/ \A i, j \in 1..Len(reply[w]) :
                               /\ IsStatusLine(reply[w][i])
                               /\ IsStatusLine(reply[w][j])
                               => i = j
                         \/ /\ reply[w] \in SpoiltFile
                            /\ pc[w] = "exit5" /\ child[w] = "none"
                      /\ fwd[w] > 0 /\ client[w] # "gone" => reply[w] = <<"200">>
    BY DEF OneStatusLine
  <2>1. ASSUME reply[w] \in Whole
        PROVE  \A i, j \in 1..Len(reply[w]) :
                  IsStatusLine(reply[w][i]) /\ IsStatusLine(reply[w][j]) => i = j
    <3>1. reply[w] \in Whole
      BY <2>1
    <3>2. CASE reply[w] = <<>>
      BY <3>2
    <3>3. CASE reply[w] = <<"200">>
      BY <3>3
    <3>4. CASE reply[w] = <<"200", "file">>
      BY <3>4 DEF IsStatusLine
    <3>5. ASSUME NEW c, reply[w] = <<c>> \/ reply[w] = <<c, "page">>
          PROVE  \A i, j \in 1..Len(reply[w]) :
                    IsStatusLine(reply[w][i]) /\ IsStatusLine(reply[w][j]) => i = j
      BY <3>5 DEF IsStatusLine
    <3> QED BY <3>1, <3>2, <3>3, <3>4, <3>5 DEF Whole, ErrorReplies
  <2>2. fwd[w] > 0 /\ client[w] # "gone" => reply[w] = <<"200">>
    <3>1. fwd[w] \in Nat /\ made[w] \in Nat /\ outPipe[w] \in Nat
      BY HttpdAssumption DEF TypeOK
    <3>2. fwd[w] + outPipe[w] + 1 = made[w] \/ fwd[w] + outPipe[w] = made[w]
      BY DEF EofInv
    <3>3. child[w] \in {"none", "forked"} => made[w] = 0
      BY DEF EofInv
    <3>4. made[w] = 0 => ~(fwd[w] > 0)
      BY <3>1, <3>2
    <3>5. child[w] \notin {"none", "forked"} /\ client[w] # "gone" =>
             reply[w] = <<"200">>
      BY DEF ReplyInv
    <3> QED BY <3>3, <3>4, <3>5
  <2> QED BY <2>1, <2>2 DEF ReplyInv
<1> QED BY ReplyInvAlways, <1>1, PTL

\* The thread whose exit() ended the server stays where it called it.
Stopped == status \in ExitCodes => \E w \in Conns : pc[w] = status

LEMMA NextStopped == TypeOK /\ Stopped /\ [Next]_vars => Stopped'
<1> SUFFICES ASSUME TypeOK, Stopped, [Next]_vars PROVE Stopped'
  OBVIOUS
<1>1. ASSUME UNCHANGED <<status, pc>> PROVE Stopped'
  BY <1>1 DEF Stopped
<1>2. ASSUME NEW w \in Conns, Exit(w) PROVE Stopped'
  BY <1>2 DEF Exit, Terminate, Stopped
<1>3. ASSUME NEW w \in Conns, SigPipe(w) PROVE Stopped'
  BY <1>3 DEF SigPipe, Terminate, Stopped, ExitCodes
<1>4. ASSUME status = "up", status' = "up" PROVE Stopped'
  BY <1>4 DEF Stopped, ExitCodes
<1>5. ASSUME NEW w \in Conns, Thread(w), ~Exit(w) PROVE Stopped'
  <2>1. status = "up" /\ status' = status
    BY <1>5 DEF Thread, GetRequest, ClearHeader, Refuse, OpenFile, SendHead,
       SendFile, CloseSock, ReadLength, MakeInput, MakeOutput, MakePipe, Fork,
       CloseChildEnds, TakeByte, PutByte, ReadOutput, ForwardByte, CloseAll,
       Wait, At, server
  <2> QED BY <1>4, <2>1
<1>6. ASSUME NEW w \in Conns,
             Connect(w) \/ ClientSends(w) \/ ClientLeaves(w) \/ Program(w)
      PROVE  Stopped'
  BY <1>1, <1>6 DEF Connect, ClientSends, ClientLeaves, Program, ChildHeader,
     ChildExec, ChildReads, ChildWrites, ChildExits, server
<1>7. CASE Accept
  BY <1>4, <1>7 DEF Accept
<1>8. CASE UNCHANGED vars
  BY <1>1, <1>8 DEF vars, server
<1> QED BY <1>2, <1>3, <1>5, <1>6, <1>7, <1>8 DEF Next

\* The client of a thread that ends the server with exit() has its status line; it
\* has two if its file could not be sent, and none if its file could not be opened.
THEOREM OffenderIsTold == Spec => []ExitAnswersOffender
<1>1. Init => Stopped
  BY DEF Init, Stopped, ExitCodes
<1>2. Spec => []Stopped
  BY <1>1, NextStopped, TypeCorrect, PTL DEF Spec
<1>3. ReplyInv /\ Stopped => ExitAnswersOffender
  <2> SUFFICES ASSUME ReplyInv, Stopped, status \in ExitCodes
               PROVE  \E w \in Conns, p \in Refusing :
                         /\ ExitOf[p] = status /\ pc[w] = status
                         /\ client[w] # "gone" =>
                              IF status = "exit5"
                                THEN reply[w] \in IF loc[w]["file"] = 0
                                                    THEN {<<>>} ELSE SpoiltFile
                                ELSE reply[w] \in {<<Refusal[p]>>,
                                                   <<Refusal[p], "page">>}
    BY DEF ExitAnswersOffender
  <2>1. PICK w \in Conns : pc[w] = status
    BY DEF Stopped
  <2>2. PICK p \in {"bad", "missing", "badlen", "wwwfail"} : ExitOf[p] = status
    BY DEF ExitOf, ExitCodes
  <2>3. p \in Refusing
    BY DEF Refusing
  <2>4. CASE status = "exit5"
    <3>1. client[w] # "gone" =>
             reply[w] \in IF loc[w]["file"] = 0 THEN {<<>>} ELSE SpoiltFile
      BY <2>1, <2>4 DEF ReplyInv
    <3> QED BY <2>1, <2>2, <2>3, <2>4, <3>1
  <2>5. CASE status # "exit5"
    <3>1. client[w] # "gone" =>
            /\ status = "exit3" => reply[w] \in ErrorReplies("400")
            /\ status = "exit4" => reply[w] \in ErrorReplies("404")
            /\ status = "exit255" => reply[w] \in ErrorReplies("500")
      BY <2>1 DEF ReplyInv
    <3>2. \/ status = "exit3" /\ Refusal[p] = "400"
          \/ status = "exit4" /\ Refusal[p] = "404"
          \/ status = "exit255" /\ Refusal[p] = "500"
      BY <2>2, <2>5 DEF ExitOf, Refusal
    <3>3. client[w] # "gone" => reply[w] \in {<<Refusal[p]>>, <<Refusal[p], "page">>}
      BY <3>1, <3>2 DEF ErrorReplies
    <3> QED BY <2>1, <2>2, <2>3, <2>5, <3>3
  <2> QED BY <2>4, <2>5
<1> QED BY ReplyInvAlways, <1>2, <1>3, PTL

-----------------------------------------------------------------------------
(* Refinement *)

\* A thread that moves changes the stage of its own connection, if any.
LEMMA StagesMove ==
  ASSUME TypeOK, client' = client, NEW w \in Conns, NEW q, Goto(w, q)
  PROVE  /\ Stages' = [Stages EXCEPT ![w] = StageOf(q, client[w])]
         /\ StageOf(q, client[w]) = Stages[w] => Stages' = Stages
         /\ Stages[w] = StageOf(pc[w], client[w])
<1>1. \A v \in Conns : pc'[v] = IF v = w THEN q ELSE pc[v]
  BY DEF Goto, TypeOK
<1> QED BY <1>1 DEF Stages

LEMMA ProgramsMove ==
  ASSUME TypeOK, NEW w \in Conns, NEW c, child' = [child EXCEPT ![w] = c]
  PROVE  /\ Programs' = [Programs EXCEPT ![w] = ProgramOf(c)]
         /\ ProgramOf(c) = Programs[w] => Programs' = Programs
         /\ Programs[w] = ProgramOf(child[w])
<1>1. \A v \in Conns : child'[v] = IF v = w THEN c ELSE child[v]
  BY DEF TypeOK
<1>2. \A v \in Conns :
         ProgramOf(child'[v]) = IF v = w THEN ProgramOf(c) ELSE ProgramOf(child[v])
  BY <1>1
<1> HIDE DEF ProgramOf
<1>3. Programs' = [Programs EXCEPT ![w] = ProgramOf(c)]
  BY <1>2 DEF Programs
<1> QED BY <1>2, <1>3 DEF Programs

\* A thread that moves within the answer, and says and reads nothing the client
\* could notice, takes no step of the service.
LEMMA SilentStep ==
  ASSUME TypeOK, NEW w \in Conns, NEW q, Goto(w, q),
         UNCHANGED <<status, backlog, client, reply, made, fwd>>,
         Programs' = Programs,
         StageOf(q, client[w]) = StageOf(pc[w], client[w])
  PROVE  UNCHANGED Service!serviceVars
<1>1. Stages' = Stages /\ Gone' = Gone
  BY StagesMove DEF Gone
<1> QED BY <1>1 DEF Service!serviceVars

LEMMA RefineSilent ==
  ASSUME TypeOK, EofInv, NEW w \in Conns,
         \/ GetRequest(w) \/ ClearHeader(w) \/ ReadLength(w) \/ MakeInput(w)
         \/ MakeOutput(w) \/ Fork(w) \/ CloseChildEnds(w) \/ TakeByte(w)
         \/ PutByte(w) \/ ReadOutput(w) \/ Wait(w)
  PROVE  UNCHANGED Service!serviceVars
<1>0. UNCHANGED <<status, backlog, client, reply, made, fwd>>
  BY DEF GetRequest, ClearHeader, ReadLength, MakeInput, MakeOutput, MakePipe,
     Fork, CloseChildEnds, TakeByte, PutByte, ReadOutput, Wait, server, peer,
     thread, program
<1>1. CASE \/ GetRequest(w) \/ ClearHeader(w) \/ ReadLength(w) \/ MakeInput(w)
           \/ MakeOutput(w) \/ CloseChildEnds(w) \/ TakeByte(w) \/ PutByte(w)
           \/ ReadOutput(w)
  <2>1. child' = child
    BY <1>1 DEF GetRequest, ClearHeader, ReadLength, MakeInput, MakeOutput,
       MakePipe, CloseChildEnds, TakeByte, PutByte, ReadOutput, program
  <2>2. PICK q \in {"bad", "clear404", "clearcgi", "length", "clearwww",
                    "missing", "pipe1", "open", "badlen", "pipe2", "fork",
                    "nopipe", "take", "relay", "put", "forward", "closeall"} :
               Goto(w, q)
    BY <1>1 DEF GetRequest, Branch, ClearHeader, ReadLength, MakeInput,
       MakeOutput, MakePipe, CloseChildEnds, TakeByte, PutByte, ReadOutput
  <2>3. pc[w] \in {"line", "clear404", "clearcgi", "clearwww", "length", "pipe1",
                   "pipe2", "close", "take", "put", "relay"}
    BY <1>1 DEF GetRequest, ClearHeader, ReadLength, MakeInput, MakeOutput,
       MakePipe, CloseChildEnds, TakeByte, PutByte, ReadOutput, At
  <2>4. StageOf(q, client[w]) = "open" /\ StageOf(pc[w], client[w]) = "open"
    BY <2>2, <2>3 DEF StageOf, ExitCodes
  <2> QED BY <1>0, <2>1, <2>2, <2>4, SilentStep DEF Programs
<1>2. CASE Fork(w)
  <2>1. PICK q \in {"close", "nopipe"} : Goto(w, q)
    BY <1>2 DEF Fork
  <2>2. pc[w] = "fork" /\ child[w] = "none"
    BY <1>2 DEF Fork, At, EofInv, InCgi, AfterFork
  <2>3. Programs' = Programs
    <3>1. CASE child' = [child EXCEPT ![w] = "forked"]
      BY <2>2, <3>1, ProgramsMove DEF ProgramOf
    <3>2. CASE child' = child
      BY <3>2 DEF Programs
    <3> QED BY <1>2, <3>1, <3>2 DEF Fork
  <2>4. StageOf(q, client[w]) = "open" /\ StageOf(pc[w], client[w]) = "open"
    BY <2>1, <2>2 DEF StageOf, ExitCodes
  <2> QED BY <1>0, <2>1, <2>3, <2>4, SilentStep
<1>3. CASE Wait(w)
  <2>1. /\ Goto(w, "done") /\ pc[w] = "wait" /\ child[w] = "zombie"
        /\ child' = [child EXCEPT ![w] = "reaped"]
    BY <1>3 DEF Wait, At
  <2>2. Programs' = Programs
    <3>1. ProgramOf("reaped") = "over" /\ ProgramOf(child[w]) = "over"
      BY <2>1 DEF ProgramOf
    <3>2. Programs[w] = ProgramOf(child[w])
      BY <2>1, ProgramsMove
    <3>3. ProgramOf("reaped") = Programs[w] => Programs' = Programs
      BY <2>1, ProgramsMove
    <3> QED BY <3>1, <3>2, <3>3
  <2>3. StageOf("done", client[w]) = "closed" /\ StageOf(pc[w], client[w]) = "closed"
    BY <2>1 DEF StageOf, ExitCodes
  <2> QED BY <1>0, <2>1, <2>2, <2>3, SilentStep
<1> QED BY <1>1, <1>2, <1>3

\* Clients come and go; the oldest connection is taken.
LEMMA RefineClients ==
  ASSUME TypeOK, BacklogInv, NEW w \in Conns,
         Connect(w) \/ ClientSends(w) \/ ClientLeaves(w)
  PROVE  [Service!ServiceNext]_(Service!serviceVars)
<1>0. UNCHANGED <<status, pc, reply, child, made, fwd>>
  BY DEF Connect, ClientSends, ClientLeaves, server, program, thread
<1>00. Programs' = Programs
  BY <1>0 DEF Programs
<1>1. CASE Connect(w)
  <2>1. client[w] = "away" /\ pc[w] = "idle"
    BY <1>1 DEF Connect, BacklogInv
  <2>2. \A v \in Conns : client'[v] = IF v = w THEN "connected" ELSE client[v]
    BY <1>1 DEF Connect, TypeOK
  <2>3. Gone' = Gone
    BY <2>1, <2>2 DEF Gone
  <2>4. Stages[w] = "away" /\ Stages' = [Stages EXCEPT ![w] = "queued"]
    <3>1. StageOf("idle", "away") = "away" /\ StageOf("idle", "connected") = "queued"
      BY DEF StageOf, ExitCodes
    <3>2. \A v \in Conns : StageOf(pc'[v], client'[v]) =
             IF v = w THEN "queued" ELSE StageOf(pc[v], client[v])
      BY <1>0, <2>1, <2>2, <3>1
    <3> QED BY <2>1, <3>1, <3>2 DEF Stages
  <2>5. Service!Arrive(w)
    BY <1>0, <1>00, <1>1, <2>3, <2>4 DEF Connect, Service!Arrive, Service!Become
  <2> QED BY <2>5 DEF Service!ServiceNext
<1>2. CASE ClientSends(w)
  <2>1. UNCHANGED <<client, backlog>>
    BY <1>2 DEF ClientSends, server
  <2>2. Gone' = Gone /\ Stages' = Stages
    BY <1>0, <2>1 DEF Gone, Stages
  <2> QED BY <1>0, <1>00, <2>1, <2>2 DEF Service!serviceVars
<1>3. CASE ClientLeaves(w)
  <2>1. PICK how \in {"half", "gone"} :
          /\ client[w] \in {"connected", "half"} /\ (client[w] = "half" => how = "gone")
          /\ client' = [client EXCEPT ![w] = how]
    BY <1>3, HttpdAssumption DEF ClientLeaves
  <2>2. \A v \in Conns : client'[v] = IF v = w THEN how ELSE client[v]
    BY <2>1 DEF TypeOK
  <2>3. backlog' = backlog
    BY <1>3 DEF ClientLeaves, server
  <2>4. Stages' = Stages
    BY <1>0, <2>1, <2>2 DEF Stages, StageOf
  <2>5. CASE how = "half"
    <3>1. Gone' = Gone
      BY <2>1, <2>2, <2>5 DEF Gone
    <3> QED BY <1>0, <1>00, <2>3, <2>4, <3>1 DEF Service!serviceVars
  <2>6. CASE how = "gone"
    <3>1. Gone' = Gone \union {w}
      BY <2>1, <2>2, <2>6 DEF Gone
    <3>2. Stages[w] # "away"
      BY <2>1 DEF Stages, StageOf
    <3>3. Service!HangUp(w)
      BY <1>0, <1>00, <2>3, <2>4, <3>1, <3>2 DEF Service!HangUp
    <3> QED BY <3>3 DEF Service!ServiceNext
  <2> QED BY <2>1, <2>5, <2>6
<1> QED BY <1>1, <1>2, <1>3

LEMMA RefineAccept ==
  ASSUME TypeOK, BacklogInv, Accept PROVE Service!Take
<1>1. UNCHANGED <<status, client, reply, child, made, fwd>>
  BY DEF Accept, peer, program
<1>2. Programs' = Programs /\ Gone' = Gone
  BY <1>1 DEF Programs, Gone
<1>3. PICK w \in Conns : /\ w = Head(backlog) /\ pc[w] = "idle"
  <2>1. backlog \in Seq(Conns) /\ backlog # <<>>
    BY DEF Accept, TypeOK
  <2> QED BY <2>1, BacklogFacts DEF BacklogInv
<1>4. PICK q \in {"line", "orphan"} : Goto(w, q)
  BY <1>3 DEF Accept
<1>5. Stages' = [Stages EXCEPT ![w] = StageOf(q, client[w])]
  BY <1>1, <1>4, StagesMove
<1>6. StageOf(q, client[w]) \in {"open", "forgotten"}
  BY <1>4 DEF StageOf, ExitCodes
<1> QED BY <1>1, <1>2, <1>3, <1>5, <1>6 DEF Accept, Service!Take, Service!Become

\* What is sent is said to the client unless it is gone.
LEMMA AnswerSays ==
  ASSUME NEW w \in Conns, NEW items
  PROVE  Answer(w, items) <=> Service!Say(w, items)
  BY DEF Answer, Service!Say, Gone

LEMMA HasGotReply ==
  ASSUME NEW w \in Conns, NEW items
  PROVE  Service!HasGot(w, items) <=> client[w] = "gone" \/ reply[w] = items
  BY DEF Service!HasGot, Gone

\* The answer from a file, and its refusals.
LEMMA RefineFile ==
  ASSUME TypeOK, EofInv, ReplyInv, NEW w \in Conns,
         OpenFile(w) \/ SendHead(w) \/ SendFile(w) \/ CloseSock(w) \/ Refuse(w)
  PROVE  [Service!ServiceNext]_(Service!serviceVars)
<1>0. UNCHANGED <<status, backlog, client, child, made, fwd>> /\ status = "up"
  BY DEF OpenFile, SendHead, SendFile, CloseSock, Refuse, peer, program, thread,
     server, At
<1>1. Programs' = Programs /\ Gone' = Gone
  BY <1>0 DEF Programs, Gone
<1>2. /\ child[w] = "none"
      /\ pc[w] \in {"open", "head", "sendfile", "closesock"} \union Refusing
  BY DEF OpenFile, SendHead, SendFile, CloseSock, Refuse, Refusing, At, EofInv,
     InCgi, AfterFork
<1>3. Programs[w] = "none" /\ Stages[w] = "open"
  BY <1>2 DEF Programs, ProgramOf, Stages, StageOf, Refusing, ExitCodes
<1>4. ASSUME NEW q \in {"head", "sendfile", "wwwfail", "closesock"}, Goto(w, q)
      PROVE  Stages' = Stages
  <2>1. StageOf(q, client[w]) = "open"
    BY <1>4 DEF StageOf, ExitCodes
  <2> QED BY <1>0, <1>3, <1>4, <2>1, StagesMove
<1>5. ASSUME NEW q \in ExitCodes, Goto(w, q), Service!HasGot(w, <<>>),
             \E code \in {"400", "404", "500"} : \/ Service!Say(w, <<>>)
                                                 \/ Service!Say(w, <<code>>)
                                                 \/ Service!Say(w, <<code, "page">>)
      PROVE  Service!ServiceNext
  <2>1. StageOf(q, client[w]) = "refused"
    BY <1>5 DEF StageOf, ExitCodes
  <2>2. Stages' = [Stages EXCEPT ![w] = "refused"]
    BY <1>0, <1>5, <2>1, StagesMove
  <2>3. Service!Refuse(w)
    BY <1>0, <1>1, <1>3, <1>5, <2>2 DEF Service!Refuse, Service!Become
  <2> QED BY <2>3 DEF Service!ServiceNext
<1>11. ASSUME NEW q \in ExitCodes, Goto(w, q), Service!HasGot(w, <<"200">>),
              Service!Say(w, <<"500">>) \/ Service!Say(w, <<"500", "page">>)
       PROVE  Service!ServiceNext
  <2>1. StageOf(q, client[w]) = "refused"
    BY <1>11 DEF StageOf, ExitCodes
  <2>2. Stages' = [Stages EXCEPT ![w] = "refused"]
    BY <1>0, <1>11, <2>1, StagesMove
  <2>3. Service!Spoil(w)
    BY <1>0, <1>1, <1>3, <1>11, <2>2 DEF Service!Spoil, Service!Become
  <2> QED BY <2>3 DEF Service!ServiceNext
<1>6. pc[w] \notin Answered => Service!HasGot(w, <<>>)
  BY <1>2, HasGotReply DEF ReplyInv
<1>7. CASE OpenFile(w)
  <2>1. pc[w] = "open" /\ reply' = reply
    BY <1>7 DEF OpenFile, At
  <2>2. CASE Goto(w, "head")
    BY <1>0, <1>1, <1>4, <2>1, <2>2 DEF Service!serviceVars
  <2>3. CASE Goto(w, "exit5")
    <3>1. Service!Say(w, <<>>)
      <4>1. reply[w] \o <<>> = reply[w]
        BY DEF TypeOK
      <4>2. [reply EXCEPT ![w] = @ \o <<>>] = reply
        BY <4>1 DEF TypeOK
      <4> QED BY <2>1, <4>2 DEF Service!Say
    <3>2. Service!HasGot(w, <<>>)
      BY <1>6, <2>1 DEF Answered, ExitCodes
    <3>3. "exit5" \in ExitCodes
      BY DEF ExitCodes
    <3> QED BY <1>5, <2>3, <3>1, <3>2, <3>3
  <2> QED BY <1>7, <2>2, <2>3 DEF OpenFile
<1>8. CASE SendHead(w) \/ SendFile(w)
  <2>1. CASE Goto(w, "wwwfail") /\ UNCHANGED reply
    BY <1>0, <1>1, <1>4, <2>1 DEF Service!serviceVars
  <2>2. CASE pc[w] = "head" /\ Answer(w, <<"200">>) /\ Goto(w, "sendfile")
    <3>1. Service!HasGot(w, <<>>)
      BY <1>6, <2>2 DEF Answered, ExitCodes
    <3>2. Stages' = Stages
      BY <1>4, <2>2
    <3>3. Service!SendPart(w)
      BY <1>0, <1>1, <1>3, <2>2, <3>1, <3>2, AnswerSays DEF Service!SendPart
    <3> QED BY <3>3 DEF Service!ServiceNext
  <2>3. CASE pc[w] = "sendfile" /\ Answer(w, <<"file">>) /\ Goto(w, "closesock")
    <3>1. Service!HasGot(w, <<"200">>)
      BY <2>3, HasGotReply DEF ReplyInv
    <3>2. Stages' = Stages
      BY <1>4, <2>3
    <3>3. Service!SendPart(w)
      BY <1>0, <1>1, <1>3, <2>3, <3>1, <3>2, AnswerSays DEF Service!SendPart
    <3> QED BY <3>3 DEF Service!ServiceNext
  <2> QED BY <1>8, <2>1, <2>2, <2>3 DEF SendHead, SendFile, At
<1>9. CASE CloseSock(w)
  <2>1. pc[w] = "closesock" /\ Goto(w, "done") /\ reply' = reply
    BY <1>9 DEF CloseSock, At
  <2>2. StageOf("done", client[w]) = "closed"
    BY DEF StageOf, ExitCodes
  <2>3. Stages' = [Stages EXCEPT ![w] = "closed"]
    BY <1>0, <2>1, <2>2, StagesMove
  <2>4. Service!HasGot(w, <<"200", "file">>)
    BY <2>1, HasGotReply DEF ReplyInv
  <2>5. Service!Finish(w)
    BY <1>0, <1>1, <1>3, <2>1, <2>3, <2>4 DEF Service!Finish, Service!Become
  <2> QED BY <2>5 DEF Service!ServiceNext
<1>10. CASE Refuse(w)
  <2>1. PICK p \in Refusing :
          /\ pc[w] = p
          /\ Answer(w, <<Refusal[p], "page">>) \/ Answer(w, <<Refusal[p]>>)
          /\ Goto(w, ExitOf[p])
    BY <1>10 DEF Refuse, At
  <2>2. Refusal[p] \in {"400", "404", "500"} /\ ExitOf[p] \in ExitCodes
    BY DEF Refusing, Refusal, ExitOf, ExitCodes
  <2>3. Service!Say(w, <<Refusal[p]>>) \/ Service!Say(w, <<Refusal[p], "page">>)
    BY <2>1, AnswerSays
  <2>4. CASE p # "wwwfail"
    <3>1. Service!HasGot(w, <<>>)
      BY <1>6, <2>1, <2>4 DEF Answered, Refusing, ExitCodes
    <3> QED BY <1>5, <2>1, <2>2, <2>3, <3>1
  <2>5. CASE p = "wwwfail"
    <3>1. Service!HasGot(w, <<"200">>)
      BY <2>1, <2>5, HasGotReply DEF ReplyInv
    <3>2. Refusal[p] = "500"
      BY <2>5 DEF Refusal
    <3> QED BY <1>11, <2>1, <2>2, <2>3, <3>1, <3>2
  <2> QED BY <2>4, <2>5
<1> QED BY <1>7, <1>8, <1>9, <1>10

\* The program and its output.
LEMMA RefineProgram ==
  ASSUME TypeOK, EofInv, ReplyInv, NEW w \in Conns, Program(w)
  PROVE  [Service!ServiceNext]_(Service!serviceVars)
<1>0. UNCHANGED <<status, backlog, pc, client, fwd>> /\ child[w] \in Alive
  BY DEF Program, ChildHeader, ChildExec, ChildReads, ChildWrites, ChildExits,
     server, peer, thread, Alive
<1>1. Stages' = Stages /\ Gone' = Gone
  BY <1>0 DEF Stages, Gone
<1>2. pc[w] \in {"close", "take", "put", "relay", "forward", "closeall", "done"}
  BY <1>0 DEF EofInv, Alive, InCgi, AfterFork
<1>3. Stages[w] = "open" /\ pc[w] \notin Answered
  <2>1. pc[w] \notin {"closeall", "done"}
    BY <1>0 DEF EofInv, Alive
  <2> QED BY <1>2, <2>1 DEF Stages, StageOf, ExitCodes, Answered
<1>4. /\ ProgramOf("forked") = "none"
      /\ ProgramOf("exec") = "runs" /\ ProgramOf("run") = "runs"
  BY DEF ProgramOf
<1>5. ProgramOf("zombie") = "over" /\ Programs[w] = ProgramOf(child[w])
  BY DEF ProgramOf, Programs
<1>6. CASE ChildHeader(w)
  <2>1. child[w] = "forked" /\ child' = [child EXCEPT ![w] = "exec"] /\ made' = made
    BY <1>6 DEF ChildHeader
  <2>2. Programs[w] = "none" /\ Programs' = [Programs EXCEPT ![w] = "runs"]
    BY <1>4, <1>5, <2>1, ProgramsMove
  <2>3. Service!HasGot(w, <<>>) /\ Service!Say(w, <<"200">>)
    BY <1>3, <1>6, <2>1, HasGotReply, AnswerSays DEF ReplyInv, ChildHeader
  <2>4. Service!Start(w)
    BY <1>0, <1>1, <1>3, <2>1, <2>2, <2>3 DEF Service!Start
  <2> QED BY <2>4 DEF Service!ServiceNext
<1>7. CASE ChildReads(w) \/ ChildWrites(w)
  <2>1. UNCHANGED <<reply, child>> /\ child[w] = "run"
    BY <1>7 DEF ChildReads, ChildWrites
  <2>2. Programs' = Programs /\ Programs[w] = "runs"
    BY <1>4, <1>5, <2>1 DEF Programs
  <2>3. CASE ChildReads(w)
    BY <1>0, <1>1, <2>1, <2>2, <2>3 DEF ChildReads, Service!serviceVars
  <2>4. CASE ChildWrites(w)
    <3>1. Service!Produce(w)
      BY <1>0, <1>1, <2>1, <2>2, <2>4 DEF ChildWrites, Service!Produce
    <3> QED BY <3>1 DEF Service!ServiceNext
  <2> QED BY <1>7, <2>3, <2>4
<1>8. ASSUME NEW n \in 0..Buffered, made' = [made EXCEPT ![w] = @ + n],
             reply' = reply, child' = [child EXCEPT ![w] = "zombie"],
             child[w] = "forked" => client[w] = "gone"
      PROVE  Service!ServiceNext
  <2>1. Programs' = [Programs EXCEPT ![w] = "over"]
    <3>1. Programs' = [Programs EXCEPT ![w] = ProgramOf("zombie")]
      BY <1>8, ProgramsMove
    <3> QED BY <1>5, <3>1
  <2>2. Programs[w] = "runs" \/ (Programs[w] = "none" /\ w \in Gone)
    BY <1>0, <1>4, <1>5, <1>8 DEF Gone, Alive
  <2>3. Service!End(w)
    BY <1>0, <1>1, <1>3, <1>8, <2>1, <2>2 DEF Service!End
  <2> QED BY <2>3 DEF Service!ServiceNext
<1>9. CASE ChildExec(w)
  <2>1. child[w] = "exec" /\ made[w] = 0 /\ reply' = reply
    BY <1>9 DEF ChildExec, EofInv
  <2>2. CASE child' = [child EXCEPT ![w] = "run"] /\ made' = made
    <3>1. Programs' = Programs
      <4>1. ProgramOf("run") = Programs[w]
        BY <1>4, <1>5, <2>1
      <4>2. ProgramOf("run") = Programs[w] => Programs' = Programs
        BY <2>2, ProgramsMove
      <4> QED BY <4>1, <4>2
    <3> QED BY <1>0, <1>1, <2>1, <2>2, <3>1 DEF Service!serviceVars
  <2>3. ASSUME NEW n \in 0..Buffered, made' = [made EXCEPT ![w] = n],
               ProgramEnds(w)
        PROVE  Service!ServiceNext
    <3>1. made[w] + n = n
      BY <2>1, HttpdAssumption
    <3> QED BY <1>8, <2>1, <2>3, <3>1 DEF ProgramEnds
  <2> QED BY <1>9, <2>2, <2>3 DEF ChildExec
<1>10. CASE ChildExits(w)
  <2>1. /\ UNCHANGED <<reply, made>> /\ child' = [child EXCEPT ![w] = "zombie"]
        /\ child[w] = "forked" => client[w] = "gone"
    BY <1>10 DEF ChildExits, ProgramEnds
  <2>2. 0 \in 0..Buffered /\ made' = [made EXCEPT ![w] = @ + 0]
    BY <2>1, HttpdAssumption DEF TypeOK
  <2> QED BY <1>8, <2>1, <2>2
<1> QED BY <1>6, <1>7, <1>9, <1>10 DEF Program

\* The thread that relays the output of its program, to the end.
LEMMA RefineRelay ==
  ASSUME TypeOK, EofInv, ReplyInv, NEW w \in Conns, ForwardByte(w) \/ CloseAll(w)
  PROVE  Service!ServiceNext
<1>0. /\ UNCHANGED <<status, backlog, client, reply, child, made>>
      /\ status = "up" /\ pc[w] \in {"forward", "closeall"}
  BY DEF ForwardByte, CloseAll, server, peer, thread, program, At
<1>1. Programs' = Programs /\ Gone' = Gone
  BY <1>0 DEF Programs, Gone
<1>2. Stages[w] = "open"
  BY <1>0 DEF Stages, StageOf, ExitCodes
<1>3. fwd[w] \in Nat /\ made[w] \in Nat /\ outPipe[w] \in Nat
  BY HttpdAssumption DEF TypeOK
<1>4. child[w] \notin {"none", "forked"} => Service!HasGot(w, <<"200">>)
  BY HasGotReply DEF ReplyInv
<1>5. CASE ForwardByte(w)
  <2>1. pc[w] = "forward" /\ Goto(w, "relay") /\ fwd' = [fwd EXCEPT ![w] = @ + 1]
    BY <1>5 DEF ForwardByte, At
  <2>2. fwd[w] + outPipe[w] + 1 = made[w]
    BY <2>1 DEF EofInv
  <2>3. fwd[w] < made[w] /\ made[w] # 0
    BY <1>3, <2>2
  <2>4. child[w] \notin {"none", "forked"}
    BY <2>3 DEF EofInv
  <2>5. StageOf("relay", client[w]) = "open"
    BY DEF StageOf, ExitCodes
  <2>6. Stages' = Stages
    BY <1>0, <1>2, <2>1, <2>5, StagesMove
  <2>7. Service!Forward(w)
    BY <1>0, <1>1, <1>2, <1>4, <2>1, <2>3, <2>4, <2>6 DEF Service!Forward
  <2> QED BY <2>7 DEF Service!ServiceNext
<1>6. CASE CloseAll(w)
  <2>1. pc[w] = "closeall" /\ Goto(w, "wait") /\ fwd' = fwd
    BY <1>6 DEF CloseAll, At, thread
  <2>2. child[w] = "zombie" /\ outPipe[w] = 0 /\ fwd[w] + outPipe[w] = made[w]
    BY <2>1 DEF EofInv
  <2>3. fwd[w] = made[w]
    BY <1>3, <2>2
  <2>4. Programs[w] = "over"
    BY <2>2 DEF Programs, ProgramOf
  <2>5. StageOf("wait", client[w]) = "closed"
    BY DEF StageOf, ExitCodes
  <2>6. Stages' = [Stages EXCEPT ![w] = "closed"]
    BY <1>0, <2>1, <2>5, StagesMove
  <2>7. Service!Finish(w)
    BY <1>0, <1>1, <1>2, <1>4, <2>1, <2>2, <2>3, <2>4, <2>6
       DEF Service!Finish, Service!Become
  <2> QED BY <2>7 DEF Service!ServiceNext
<1> QED BY <1>5, <1>6

\* The ends of the server.
LEMMA RefineStop ==
  ASSUME TypeOK, EofInv, ReplyInv, NEW w \in Conns, Exit(w) \/ SigPipe(w)
  PROVE  Service!Stop
<1>0. /\ UNCHANGED <<backlog, pc, client, reply, child, made, fwd>>
      /\ status = "up" /\ status' # "up"
  BY DEF Exit, SigPipe, Terminate, peer, thread, program, ExitCodes
<1>1. Stages' = Stages /\ Programs' = Programs /\ Gone' = Gone
  BY <1>0 DEF Stages, Programs, Gone
<1>2. \/ Stages[w] = "refused"
      \/ Stages[w] = "open" /\ (w \in Gone \/ Programs[w] = "over")
  <2>1. CASE Exit(w)
    BY <2>1 DEF Exit, Stages, StageOf, ExitCodes
  <2>2. CASE pc[w] \in Sending /\ client[w] = "gone"
    BY <2>2 DEF Sending, Refusing, Stages, StageOf, ExitCodes, Gone
  <2>3. CASE pc[w] = "put" /\ ~HasHolder(<<"in0", w>>)
    <3>1. <<"in0", w>> \notin held[w]
      BY <2>3 DEF HasHolder, ProgramHas
    <3>2. child[w] = "zombie"
      BY <2>3, <3>1 DEF ReplyInv, EofInv, InCgi, AfterFork
    <3>3. Programs[w] = "over"
      BY <3>2 DEF Programs, ProgramOf
    <3> QED BY <2>3, <3>3 DEF Stages, StageOf, ExitCodes
  <2> QED BY <2>1, <2>2, <2>3 DEF SigPipe
<1> QED BY <1>0, <1>1, <1>2 DEF Service!Stop

\* The server as its clients see it is the service: its threads, programs and
\* descriptors, their failures and the order they run in never show.
THEOREM ServerImplementsService == Spec => RefinesService
<1>1. Init => Service!ServiceInit
  <2> SUFFICES ASSUME Init PROVE Service!ServiceInit
    OBVIOUS
  <2>1. \A w \in Conns : pc[w] = "idle" /\ client[w] = "away" /\ child[w] = "none"
    BY DEF Init
  <2>2. StageOf("idle", "away") = "away" /\ ProgramOf("none") = "none"
    BY DEF StageOf, ProgramOf, ExitCodes
  <2>3. Stages = [w \in Conns |-> "away"] /\ Programs = [w \in Conns |-> "none"]
    BY <2>1, <2>2 DEF Stages, Programs
  <2>4. Gone = {}
    BY <2>1 DEF Gone
  <2> QED BY <2>3, <2>4 DEF Init, Service!ServiceInit
<1>2. /\ TypeOK /\ BacklogInv /\ FdInv /\ EofInv /\ ReplyInv
      /\ [Next]_vars
      => [Service!ServiceNext]_(Service!serviceVars)
  <2> SUFFICES ASSUME TypeOK, BacklogInv, FdInv, EofInv, ReplyInv, [Next]_vars
               PROVE  [Service!ServiceNext]_(Service!serviceVars)
    OBVIOUS
  <2>1. CASE Accept
    BY <2>1, RefineAccept DEF Service!ServiceNext
  <2>2. ASSUME NEW w \in Conns, Connect(w) \/ ClientSends(w) \/ ClientLeaves(w)
        PROVE  [Service!ServiceNext]_(Service!serviceVars)
    BY <2>2, RefineClients
  <2>3. ASSUME NEW w \in Conns, Thread(w) \/ SigPipe(w)
        PROVE  [Service!ServiceNext]_(Service!serviceVars)
    <3>1. CASE Exit(w) \/ SigPipe(w)
      BY <3>1, RefineStop DEF Service!ServiceNext
    <3>2. CASE OpenFile(w) \/ SendHead(w) \/ SendFile(w) \/ CloseSock(w) \/ Refuse(w)
      BY <3>2, RefineFile
    <3>3. CASE ForwardByte(w) \/ CloseAll(w)
      BY <3>3, RefineRelay
    <3> QED BY <2>3, <3>1, <3>2, <3>3, RefineSilent DEF Thread
  <2>4. ASSUME NEW w \in Conns, Program(w)
        PROVE  [Service!ServiceNext]_(Service!serviceVars)
    BY <2>4, RefineProgram
  <2>5. CASE UNCHANGED vars
    BY <2>5 DEF vars, server, peer, thread, program, Service!serviceVars, Stages,
       Programs, Gone
  <2> QED BY <2>1, <2>2, <2>3, <2>4, <2>5 DEF Next
<1> QED BY <1>1, <1>2, ReplyInvAlways, PTL DEF Spec, RefinesService, Service!ServiceSpec
=============================================================================
