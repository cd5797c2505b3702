----------------------------- MODULE HttpdProofs -----------------------------
(***************************************************************************)
(* What Httpd promises for every set of connections, every limit on open    *)
(* files and every pipe size.                                               *)
(***************************************************************************)
EXTENDS Httpd, FdTableProofs

-----------------------------------------------------------------------------
(* The descriptor table *)

\* The second descriptor of pipe() exists when two numbers were free.
LEMMA SecondFree ==
  ASSUME NEW tab \in [Fds -> Objects \union {Free}], CanOpenTwo(tab), NEW obj
  PROVE  CanOpen(tab) /\ CanOpen(Open(tab, obj))
<1>1. PICK f \in Fds, g \in Fds : f # g /\ tab[f] = Free /\ tab[g] = Free
  BY DEF CanOpenTwo
<1>2. CanOpen(tab)
  BY <1>1 DEF CanOpen
<1>3. LowestFree(tab) \in Fds
  BY <1>2, LowestFreeIsFree
<1>4. \A h \in Fds : h # LowestFree(tab) => Open(tab, obj)[h] = tab[h]
  BY <1>3 DEF Open
<1> QED
  BY <1>1, <1>2, <1>4 DEF CanOpen

\* Opening and closing keep the table a table.
LEMMA TableTypes ==
  ASSUME NEW tab \in [Fds -> Objects \union {Free}]
  PROVE  /\ \A obj \in Objects : Open(tab, obj) \in [Fds -> Objects \union {Free}]
         /\ \A fs : Close(tab, fs) \in [Fds -> Objects \union {Free}]
         /\ EmptyTable \in [Fds -> Objects \union {Free}]
  BY DEF Open, Close, EmptyTable

-----------------------------------------------------------------------------
(* Types *)

LEMMA InitTypeOK == Init => TypeOK
<1> SUFFICES ASSUME Init PROVE TypeOK
  OBVIOUS
<1> USE HttpdAssumption, FdAssumption
<1>1. fdtab \in [Fds -> Objects \union {Free}]
  BY DEF Init, EmptyTable, Objects, Fds
<1>2. req \in [Conns -> Request]
  BY DEF Init
<1>3. reply \in [Conns -> Seq(Items)] /\ backlog \in Seq(Conns)
  BY DEF Init
<1>4. pc \in [Conns -> Locations]
  BY DEF Init, Locations
<1>5. inPipe \in [Conns -> 0..PipeCap] /\ outPipe \in [Conns -> 0..PipeCap]
  BY DEF Init
<1> QED
  BY <1>1, <1>2, <1>3, <1>4, <1>5 DEF Init, TypeOK

\* The steps that only move a thread, the client or one counter.
LEMMA TypeClients ==
  ASSUME TypeOK, NEW w \in Conns,
         Connect(w) \/ ClientSends(w) \/ ClientLeaves(w)
  PROVE  TypeOK'
<1> USE HttpdAssumption DEF TypeOK, server, peer, thread, program, pipes
<1>1. CASE Connect(w)
  <2>1. backlog' \in Seq(Conns)
    BY <1>1 DEF Connect
  <2>2. client' \in [Conns -> {"away", "connected", "half", "gone"}]
    BY <1>1 DEF Connect
  <2> QED BY <1>1, <2>1, <2>2 DEF Connect
<1>2. CASE ClientSends(w)
  <2>1. sent' \in [Conns -> Nat]
    BY <1>2 DEF ClientSends
  <2> QED BY <1>2, <2>1 DEF ClientSends
<1>3. CASE ClientLeaves(w)
  <2>1. client' \in [Conns -> {"away", "connected", "half", "gone"}]
    BY <1>3 DEF ClientLeaves
  <2> QED BY <1>3, <2>1 DEF ClientLeaves
<1> QED BY <1>1, <1>2, <1>3

LEMMA TypeAccept == TypeOK /\ Accept => TypeOK'
<1> SUFFICES ASSUME TypeOK, Accept PROVE TypeOK'
  OBVIOUS
<1> USE DEF TypeOK, server, peer, thread, program, pipes
<1> DEFINE w == Head(backlog)
<1>1. w \in Conns /\ Tail(backlog) \in Seq(Conns)
  BY DEF Accept
<1>2. <<"sock", w>> \in Objects
  BY <1>1 DEF Objects, Ends
<1>3. fdtab' \in [Fds -> Objects \union {Free}]
  BY <1>2, TableTypes DEF Accept
<1>4. LowestFree(fdtab) \in Fds
  BY LowestFreeIsFree DEF Accept
<1>5. loc' \in [Conns -> [Ends -> Fds \union {0}]]
  BY <1>1, <1>4 DEF Accept
<1>6. pc' \in [Conns -> Locations]
  BY <1>1 DEF Accept, Goto, Locations
<1>7. stale' \subseteq Conns
  BY <1>1 DEF Accept, TakeStack
<1> QED
  BY <1>1, <1>3, <1>5, <1>6, <1>7 DEF Accept

\* Where a thread goes next and what a client is sent have the right types.
LEMMA GotoType ==
  ASSUME TypeOK, NEW w \in Conns, NEW p \in Locations, Goto(w, p)
  PROVE  pc' \in [Conns -> Locations]
  BY DEF TypeOK, Goto

LEMMA AnswerType ==
  ASSUME TypeOK, NEW w \in Conns, NEW items \in Seq(Items), Answer(w, items)
  PROVE  reply' \in [Conns -> Seq(Items)]
<1>1. CASE client[w] = "gone"
  BY <1>1 DEF TypeOK, Answer
<1>2. CASE client[w] # "gone"
  <2>1. reply[w] \o items \in Seq(Items)
    BY DEF TypeOK
  <2> QED BY <1>2, <2>1 DEF TypeOK, Answer
<1> QED BY <1>1, <1>2

LEMMA TypeDealwithsock ==
  ASSUME TypeOK, NEW w \in Conns,
         GetRequest(w) \/ ClearHeader(w) \/ Refuse(w) \/ Exit(w) \/ SigPipe(w)
  PROVE  TypeOK'
<1> USE DEF server, peer, thread, program, pipes
<1>1. CASE GetRequest(w)
  <2>1. PICK p \in Locations : Goto(w, p)
    BY <1>1 DEF GetRequest, Branch, Locations, Refusing
  <2>2. pc' \in [Conns -> Locations]
    BY <2>1, GotoType
  <2>3. stale' \subseteq Conns
    BY <1>1 DEF TypeOK, GetRequest, KeepUrl
  <2> QED BY <1>1, <2>2, <2>3 DEF TypeOK, GetRequest
<1>2. CASE ClearHeader(w)
  <2>1. PICK p \in Locations : Goto(w, p)
    BY <1>2 DEF ClearHeader, Locations, Refusing
  <2>2. pc' \in [Conns -> Locations]
    BY <2>1, GotoType
  <2> QED BY <1>2, <2>2 DEF TypeOK, ClearHeader
<1>3. CASE Refuse(w)
  <2>1. PICK p \in Refusing :
          /\ Answer(w, <<Refusal[p], "page">>) \/ Answer(w, <<Refusal[p]>>)
          /\ Goto(w, ExitOf[p])
          /\ IF p \in {"bad", "nopipe"}
               THEN CloseEnds(w, {"sock"}) ELSE UNCHANGED fdtab
    BY <1>3 DEF Refuse
  <2>2. Refusal[p] \in Items /\ "page" \in Items /\ ExitOf[p] \in Locations
    BY DEF Refusing, Refusal, Items, ExitOf, Locations, ExitCodes
  <2>3. <<Refusal[p], "page">> \in Seq(Items) /\ <<Refusal[p]>> \in Seq(Items)
    BY <2>2
  <2>4. reply' \in [Conns -> Seq(Items)]
    BY <2>1, <2>3, AnswerType
  <2>5. pc' \in [Conns -> Locations]
    BY <2>1, <2>2, GotoType
  <2>6. fdtab' \in [Fds -> Objects \union {Free}]
    <3>1. fdtab' = Close(fdtab, {loc[w][e] : e \in {"sock"}}) \/ fdtab' = fdtab
      BY <2>1 DEF CloseEnds
    <3>2. fdtab \in [Fds -> Objects \union {Free}]
      BY DEF TypeOK
    <3>3. CASE fdtab' = Close(fdtab, {loc[w][e] : e \in {"sock"}})
      BY <3>2, <3>3, TableTypes
    <3> QED BY <3>1, <3>2, <3>3
  <2> QED BY <1>3, <2>4, <2>5, <2>6 DEF TypeOK, Refuse
<1>4. CASE Exit(w)
  <2>1. fdtab' \in [Fds -> Objects \union {Free}] /\ status' \in ExitCodes
    BY <1>4 DEF Exit, Terminate, EmptyTable
  <2> QED BY <1>4, <2>1 DEF TypeOK, Exit
<1>5. CASE SigPipe(w)
  <2>1. fdtab' \in [Fds -> Objects \union {Free}] /\ status' = "sigpipe"
    BY <1>5 DEF SigPipe, Terminate, EmptyTable
  <2> QED BY <1>5, <2>1 DEF TypeOK, SigPipe
<1> QED BY <1>1, <1>2, <1>3, <1>4, <1>5

LEMMA TypeEchoWww ==
  ASSUME TypeOK, NEW w \in Conns,
         OpenFile(w) \/ SendHead(w) \/ SendFile(w) \/ CloseSock(w)
  PROVE  TypeOK'
<1> USE DEF server, peer, thread, program, pipes
<1>1. CASE OpenFile(w)
  <2>1. PICK p \in Locations : Goto(w, p)
    BY <1>1 DEF OpenFile, Locations, ExitCodes
  <2>2. pc' \in [Conns -> Locations]
    BY <2>1, GotoType
  <2>3. <<"file", w>> \in Objects
    BY DEF Objects, Ends
  <2>4. fdtab' \in [Fds -> Objects \union {Free}]
    <3>1. fdtab' = Open(fdtab, <<"file", w>>) \/ fdtab' = fdtab
      BY <1>1 DEF OpenFile
    <3>2. fdtab \in [Fds -> Objects \union {Free}]
      BY DEF TypeOK
    <3>3. CASE fdtab' = Open(fdtab, <<"file", w>>)
      BY <2>3, <3>2, <3>3, TableTypes
    <3> QED BY <3>1, <3>2, <3>3
  <2>5. loc' \in [Conns -> [Ends -> Fds \union {0}]]
    <3>1. CASE CanOpen(fdtab) /\ loc' = [loc EXCEPT ![w]["file"] = LowestFree(fdtab)]
      BY <3>1, LowestFreeIsFree DEF TypeOK
    <3>2. CASE UNCHANGED loc
      BY <3>2 DEF TypeOK
    <3> QED BY <1>1, <3>1, <3>2 DEF OpenFile
  <2> QED BY <1>1, <2>2, <2>4, <2>5 DEF TypeOK, OpenFile
<1>2. CASE SendHead(w)
  <2>1. PICK p \in Locations : Goto(w, p)
    BY <1>2 DEF SendHead, Locations, Refusing
  <2>2. pc' \in [Conns -> Locations]
    BY <2>1, GotoType
  <2>3. <<"200">> \in Seq(Items)
    BY DEF Items
  <2>4. reply' \in [Conns -> Seq(Items)]
    BY <1>2, <2>3, AnswerType DEF SendHead, TypeOK
  <2> QED BY <1>2, <2>2, <2>4 DEF TypeOK, SendHead
<1>3. CASE SendFile(w)
  <2>1. PICK p \in Locations : Goto(w, p)
    BY <1>3 DEF SendFile, Locations, Refusing
  <2>2. pc' \in [Conns -> Locations]
    BY <2>1, GotoType
  <2>3. <<"file">> \in Seq(Items)
    BY DEF Items
  <2>4. reply' \in [Conns -> Seq(Items)]
    BY <1>3, <2>3, AnswerType DEF SendFile, TypeOK
  <2> QED BY <1>3, <2>2, <2>4 DEF TypeOK, SendFile
<1>4. CASE CloseSock(w)
  <2>1. PICK p \in Locations : Goto(w, p)
    BY <1>4 DEF CloseSock, Locations
  <2>2. pc' \in [Conns -> Locations]
    BY <2>1, GotoType
  <2>3. fdtab' \in [Fds -> Objects \union {Free}]
    BY <1>4, TableTypes DEF CloseSock, CloseEnds, TypeOK
  <2> QED BY <1>4, <2>2, <2>3 DEF TypeOK, CloseSock
<1> QED BY <1>1, <1>2, <1>3, <1>4

LEMMA TypeMakePipe ==
  ASSUME TypeOK, NEW w \in Conns, NEW from, NEW r \in Ends, NEW wr \in Ends,
         NEW to \in Locations, MakePipe(w, from, r, wr, to)
  PROVE  TypeOK'
<1> USE DEF server, peer, thread, program, pipes
<1>1. fdtab \in [Fds -> Objects \union {Free}] /\ "nopipe" \in Locations
  BY DEF TypeOK, Locations, Refusing
<1>2. <<r, w>> \in Objects /\ <<wr, w>> \in Objects
  BY DEF Objects
<1>3. CASE /\ CanOpenTwo(fdtab)
           /\ fdtab' = Open(Open(fdtab, <<r, w>>), <<wr, w>>)
           /\ loc' = [loc EXCEPT ![w][r] = LowestFree(fdtab),
                                 ![w][wr] = LowestFree(Open(fdtab, <<r, w>>))]
           /\ Goto(w, to)
  <2>1. Open(fdtab, <<r, w>>) \in [Fds -> Objects \union {Free}]
    BY <1>1, <1>2, TableTypes
  <2>2. fdtab' \in [Fds -> Objects \union {Free}]
    BY <1>2, <1>3, <2>1, TableTypes
  <2>3. CanOpen(fdtab) /\ CanOpen(Open(fdtab, <<r, w>>))
    BY <1>1, <1>3, SecondFree
  <2>4. LowestFree(fdtab) \in Fds /\ LowestFree(Open(fdtab, <<r, w>>)) \in Fds
    BY <2>3, LowestFreeIsFree
  <2>5. loc' \in [Conns -> [Ends -> Fds \union {0}]]
    BY <1>3, <2>4 DEF TypeOK
  <2>6. pc' \in [Conns -> Locations]
    BY <1>3, GotoType
  <2> QED BY <2>2, <2>5, <2>6 DEF MakePipe, TypeOK
<1>4. CASE Goto(w, "nopipe") /\ UNCHANGED <<fdtab, loc>>
  <2>1. pc' \in [Conns -> Locations]
    BY <1>1, <1>4, GotoType
  <2> QED BY <1>4, <2>1 DEF MakePipe, TypeOK
<1> QED BY <1>3, <1>4 DEF MakePipe

LEMMA TypeEchoCgi ==
  ASSUME TypeOK, NEW w \in Conns,
         \/ ReadLength(w) \/ MakeInput(w) \/ MakeOutput(w) \/ Fork(w)
         \/ CloseChildEnds(w) \/ TakeByte(w) \/ PutByte(w) \/ ReadOutput(w)
         \/ ForwardByte(w) \/ CloseAll(w) \/ Wait(w)
  PROVE  TypeOK'
<1> USE DEF server, peer, thread, program, pipes
<1>1. CASE ReadLength(w)
  <2>1. req[w].len \in Nat
    BY DEF TypeOK, Request
  <2>2. PICK n \in (IF HeaderIn(w) THEN {req[w].len} ELSE 0..req[w].len) :
           /\ len' = [len EXCEPT ![w] = n]
           /\ Goto(w, IF n <= 0 THEN "badlen" ELSE "pipe1")
    BY <1>1 DEF ReadLength
  <2>3. n \in Nat
    BY <2>1
  <2>4. (IF n <= 0 THEN "badlen" ELSE "pipe1") \in Locations
    BY DEF Locations, Refusing
  <2>5. pc' \in [Conns -> Locations]
    BY <2>2, <2>4, GotoType
  <2>6. len' \in [Conns -> Nat]
    BY <2>2, <2>3 DEF TypeOK
  <2> QED BY <1>1, <2>5, <2>6 DEF TypeOK, ReadLength
<1>2. CASE MakeInput(w)
  <2>1. "in0" \in Ends /\ "in1" \in Ends /\ "pipe2" \in Locations
    BY DEF Ends, PipeEnds, Locations
  <2> QED BY <1>2, <2>1, TypeMakePipe DEF MakeInput
<1>3. CASE MakeOutput(w)
  <2>1. "out0" \in Ends /\ "out1" \in Ends /\ "fork" \in Locations
    BY DEF Ends, PipeEnds, Locations
  <2> QED BY <1>3, <2>1, TypeMakePipe DEF MakeOutput
<1>4. CASE Fork(w)
  <2>1. PICK p \in Locations : Goto(w, p)
    BY <1>4 DEF Fork, Locations, Refusing
  <2>2. pc' \in [Conns -> Locations]
    BY <2>1, GotoType
  <2>3. OpenObjects(fdtab) \in SUBSET Objects
    BY DEF OpenObjects, TypeOK
  <2>4. /\ child' \in [Conns -> {"none", "forked", "exec", "run", "zombie", "reaped"}]
        /\ held' \in [Conns -> SUBSET Objects]
    <3>1. CASE UNCHANGED <<child, held>>
      BY <3>1 DEF TypeOK
    <3>2. CASE /\ child' = [child EXCEPT ![w] = "forked"]
               /\ held' = [held EXCEPT ![w] = OpenObjects(fdtab)]
      BY <2>3, <3>2 DEF TypeOK
    <3> QED BY <1>4, <3>1, <3>2 DEF Fork
  <2> QED BY <1>4, <2>2, <2>4 DEF TypeOK, Fork
<1>5. CASE CloseChildEnds(w)
  <2>1. PICK p \in Locations : Goto(w, p)
    BY <1>5 DEF CloseChildEnds, Locations
  <2>2. pc' \in [Conns -> Locations]
    BY <2>1, GotoType
  <2>3. fdtab' \in [Fds -> Objects \union {Free}]
    BY <1>5, TableTypes DEF CloseChildEnds, CloseEnds, TypeOK
  <2> QED BY <1>5, <2>2, <2>3 DEF TypeOK, CloseChildEnds
<1>6. CASE TakeByte(w)
  <2>1. PICK p \in Locations : Goto(w, p)
    BY <1>6 DEF TakeByte, Locations
  <2>2. pc' \in [Conns -> Locations]
    BY <2>1, GotoType
  <2> QED BY <1>6, <2>2 DEF TypeOK, TakeByte
<1>7. CASE PutByte(w)
  <2>1. pc' \in [Conns -> Locations]
    BY <1>7, GotoType DEF PutByte, Locations
  <2>2. moved' \in [Conns -> Nat] /\ inPipe' \in [Conns -> 0..PipeCap]
    <3>1. inPipe[w] + 1 \in 0..PipeCap /\ moved[w] + 1 \in Nat
      BY <1>7, HttpdAssumption DEF PutByte, TypeOK
    <3> QED BY <1>7, <3>1 DEF PutByte, TypeOK
  <2> QED BY <1>7, <2>1, <2>2 DEF TypeOK, PutByte
<1>8. CASE ReadOutput(w)
  <2>1. PICK p \in Locations : Goto(w, p)
    BY <1>8 DEF ReadOutput, Locations
  <2>2. pc' \in [Conns -> Locations]
    BY <2>1, GotoType
  <2>3. outPipe' \in [Conns -> 0..PipeCap]
    <3>1. CASE outPipe[w] > 0 /\ outPipe' = [outPipe EXCEPT ![w] = @ - 1]
      <4>1. outPipe[w] - 1 \in 0..PipeCap
        BY <3>1, HttpdAssumption DEF TypeOK
      <4> QED BY <3>1, <4>1 DEF TypeOK
    <3>2. CASE UNCHANGED outPipe
      BY <3>2 DEF TypeOK
    <3> QED BY <1>8, <3>1, <3>2 DEF ReadOutput
  <2> QED BY <1>8, <2>2, <2>3 DEF TypeOK, ReadOutput
<1>9. CASE ForwardByte(w)
  <2>1. pc' \in [Conns -> Locations]
    BY <1>9, GotoType DEF ForwardByte, Locations
  <2>2. fwd' \in [Conns -> Nat]
    BY <1>9 DEF ForwardByte, TypeOK
  <2> QED BY <1>9, <2>1, <2>2 DEF TypeOK, ForwardByte
<1>10. CASE CloseAll(w)
  <2>1. pc' \in [Conns -> Locations]
    BY <1>10, GotoType DEF CloseAll, Locations
  <2>2. fdtab' \in [Fds -> Objects \union {Free}]
    BY <1>10, TableTypes DEF CloseAll, CloseEnds, TypeOK
  <2> QED BY <1>10, <2>1, <2>2 DEF TypeOK, CloseAll
<1>11. CASE Wait(w)
  <2>1. pc' \in [Conns -> Locations]
    BY <1>11, GotoType DEF Wait, Locations
  <2>2. child' \in [Conns -> {"none", "forked", "exec", "run", "zombie", "reaped"}]
    BY <1>11 DEF Wait, TypeOK
  <2> QED BY <1>11, <2>1, <2>2 DEF TypeOK, Wait
<1> QED
  BY <1>1, <1>2, <1>3, <1>4, <1>5, <1>6, <1>7, <1>8, <1>9, <1>10, <1>11

LEMMA TypeProgram ==
  ASSUME TypeOK, NEW w \in Conns, Program(w)
  PROVE  TypeOK'
<1> USE DEF server, peer, thread, program, pipes
<1> DEFINE ChildStates == {"none", "forked", "exec", "run", "zombie", "reaped"}
<1>1. CASE ChildHeader(w)
  <2>1. reply' \in [Conns -> Seq(Items)]
    <3>1. <<"200">> \in Seq(Items)
      BY DEF Items
    <3> QED BY <1>1, <3>1, AnswerType DEF ChildHeader
  <2>2. child' \in [Conns -> ChildStates] /\ held' \in [Conns -> SUBSET Objects]
    BY <1>1 DEF ChildHeader, TypeOK
  <2> QED BY <1>1, <2>1, <2>2 DEF TypeOK, ChildHeader
<1>2. CASE ChildExec(w)
  <2>1. CASE /\ child' = [child EXCEPT ![w] = "run"]
             /\ UNCHANGED <<held, made, outPipe>>
    <3>1. child' \in [Conns -> ChildStates]
      BY <2>1 DEF TypeOK
    <3> QED BY <1>2, <2>1, <3>1 DEF TypeOK, ChildExec
  <2>2. CASE ProgramEnds(w) /\ \E n \in 0..Buffered :
                /\ made' = [made EXCEPT ![w] = n]
                /\ outPipe' = [outPipe EXCEPT ![w] = n]
    <3>1. PICK n \in 0..Buffered : /\ made' = [made EXCEPT ![w] = n]
                                   /\ outPipe' = [outPipe EXCEPT ![w] = n]
      BY <2>2
    <3>2. n \in Nat /\ n \in 0..PipeCap
      BY HttpdAssumption
    <3>3. made' \in [Conns -> Nat] /\ outPipe' \in [Conns -> 0..PipeCap]
      BY <3>1, <3>2 DEF TypeOK
    <3>4. child' \in [Conns -> ChildStates] /\ held' \in [Conns -> SUBSET Objects]
      BY <2>2 DEF ProgramEnds, TypeOK
    <3> QED BY <1>2, <3>3, <3>4 DEF TypeOK, ChildExec
  <2> QED BY <1>2, <2>1, <2>2 DEF ChildExec
<1>3. CASE ChildReads(w)
  <2>1. Input(w) \in Nat
    BY DEF Input, TypeOK
  <2>2. eaten' \in [Conns -> Nat]
    <3>1. PICK n \in Nat : eaten' = [eaten EXCEPT ![w] = n]
      <4>1. eaten[w] + 1 \in Nat
        BY DEF TypeOK
      <4> QED BY <1>3, <2>1, <4>1 DEF ChildReads
    <3> QED BY <3>1 DEF TypeOK
  <2>3. inPipe' \in [Conns -> 0..PipeCap]
    <3>1. CASE inPipe[w] > 0 /\ inPipe' = [inPipe EXCEPT ![w] = @ - 1]
      <4>1. inPipe[w] - 1 \in 0..PipeCap
        BY <3>1, HttpdAssumption DEF TypeOK
      <4> QED BY <3>1, <4>1 DEF TypeOK
    <3>2. CASE UNCHANGED inPipe
      BY <3>2 DEF TypeOK
    <3> QED BY <1>3, <3>1, <3>2 DEF ChildReads
  <2> QED BY <1>3, <2>2, <2>3 DEF TypeOK, ChildReads
<1>4. CASE ChildWrites(w)
  <2>1. outPipe[w] + 1 \in 0..PipeCap /\ made[w] + 1 \in Nat
    BY SMTT(30), <1>4, HttpdAssumption DEF ChildWrites, TypeOK
  <2>2. outPipe' \in [Conns -> 0..PipeCap] /\ made' \in [Conns -> Nat]
    BY <1>4, <2>1 DEF ChildWrites, TypeOK
  <2> QED BY <1>4, <2>2 DEF TypeOK, ChildWrites
<1>5. CASE ChildExits(w)
  <2>1. child' \in [Conns -> ChildStates] /\ held' \in [Conns -> SUBSET Objects]
    BY <1>5 DEF ChildExits, ProgramEnds, TypeOK
  <2> QED BY <1>5, <2>1 DEF TypeOK, ChildExits
<1> QED BY <1>1, <1>2, <1>3, <1>4, <1>5 DEF Program

LEMMA NextTypeOK == TypeOK /\ [Next]_vars => TypeOK'
<1> SUFFICES ASSUME TypeOK, [Next]_vars PROVE TypeOK'
  OBVIOUS
<1>1. CASE UNCHANGED vars
  BY <1>1 DEF vars, TypeOK, server, peer, thread, program, pipes
<1>2. CASE Accept
  BY <1>2, TypeAccept
<1>3. ASSUME NEW w \in Conns,
             \/ Connect(w) \/ ClientSends(w) \/ ClientLeaves(w)
             \/ Thread(w) \/ SigPipe(w) \/ Program(w)
      PROVE  TypeOK'
  BY <1>3, TypeClients, TypeDealwithsock, TypeEchoWww, TypeEchoCgi, TypeProgram
     DEF Thread
<1> QED BY <1>1, <1>2, <1>3 DEF Next

\* The variables keep their types: no counter runs below zero or past the
\* capacity of its pipe, every local variable is a descriptor number or unset.
THEOREM TypeCorrect == Spec => []TypeOK
  BY InitTypeOK, NextTypeOK, PTL DEF Spec

-----------------------------------------------------------------------------
(* The descriptor table *)

\* A connection waits in the backlog once, before any thread serves it.
BacklogInv ==
    /\ \A i \in 1..Len(backlog) :
          pc[backlog[i]] = "idle" /\ client[backlog[i]] # "away"
    /\ \A i, j \in 1..Len(backlog) : i # j => backlog[i] # backlog[j]
    /\ \A w \in Conns : client[w] = "away" => pc[w] = "idle"

\* The two properties as one invariant: the table and the local variables of
\* the threads say the same.
FdInv ==
    status = "up" =>
        /\ fdtab[FirstFd] = Listen
        /\ \A w \in Conns, e \in Ends :
              HasOpen(pc[w], e) => /\ loc[w][e] \in Fds
                                   /\ fdtab[loc[w][e]] = <<e, w>>
        /\ NoFdLeak

LEMMA InitFdInv == Init => BacklogInv /\ FdInv
<1> SUFFICES ASSUME Init PROVE BacklogInv /\ FdInv
  OBVIOUS
<1>1. BacklogInv
  BY DEF Init, BacklogInv
<1>2. FirstFd \in Fds
  BY FdAssumption DEF Fds
<1>3. fdtab[FirstFd] = Listen /\ \A f \in Fds : fdtab[f] \in {Free, Listen}
  BY <1>2 DEF Init, EmptyTable
<1>4. \A w \in Conns, e \in Ends : ~HasOpen(pc[w], e)
  BY DEF Init, HasOpen, BeforeFork, AfterFork
<1>5. \A w \in Conns, e \in Ends : <<e, w>> \notin {Free, Listen}
  BY HttpdAssumption DEF Objects
<1> QED BY <1>1, <1>3, <1>4, <1>5 DEF FdInv, NoFdLeak

\* Head, Tail and the entries of a backlog.
LEMMA BacklogFacts ==
  ASSUME NEW s \in Seq(Conns)
  PROVE  /\ \A i \in 1..Len(s) : s[i] \in Conns
         /\ s # <<>> => /\ Len(s) \in Nat /\ Len(s) > 0
                        /\ Head(s) = s[1] /\ Head(s) \in Conns
                        /\ Len(Tail(s)) = Len(s) - 1
                        /\ \A i \in 1..Len(Tail(s)) : Tail(s)[i] = s[i + 1]
  OBVIOUS

\* The backlog changes in Connect and Accept only, and a thread leaves "idle"
\* in Accept only.
LEMMA NextBacklogInv == TypeOK /\ BacklogInv /\ [Next]_vars => BacklogInv'
<1> SUFFICES ASSUME TypeOK, BacklogInv, [Next]_vars PROVE BacklogInv'
  OBVIOUS
<1>0. backlog \in Seq(Conns)
  BY DEF TypeOK
<1> USE <1>0
<1>1. CASE Accept
  <2>1. backlog # <<>> /\ backlog' = Tail(backlog)
    BY <1>1 DEF Accept
  <2>2. /\ Head(backlog) = backlog[1] /\ Head(backlog) \in Conns
        /\ Len(backlog) \in Nat /\ Len(backlog) > 0
        /\ Len(backlog') = Len(backlog) - 1
        /\ \A i \in 1..Len(backlog') : backlog'[i] = backlog[i + 1]
    BY <2>1, BacklogFacts
  <2>3. \A w \in Conns : w # backlog[1] => pc'[w] = pc[w]
    BY <1>1, <2>2 DEF Accept, Goto, TypeOK
  <2>4. client' = client /\ client[backlog[1]] # "away"
    BY <1>1, <2>2 DEF Accept, peer, BacklogInv
  <2>5. \A i \in 1..Len(backlog) : backlog[i] \in Conns
    BY BacklogFacts
  <2>6. \A i \in 1..Len(backlog') :
           /\ i + 1 \in 1..Len(backlog) /\ 1 \in 1..Len(backlog) /\ i + 1 # 1
           /\ \A j \in 1..Len(backlog') : i # j => i + 1 # j + 1
    BY <2>2
  <2>7. \A i \in 1..Len(backlog') : backlog'[i] # backlog[1]
    BY <2>2, <2>6 DEF BacklogInv
  <2>8. \A i \in 1..Len(backlog') : backlog'[i] = backlog[i + 1] /\ backlog'[i] \in Conns
    BY <2>2, <2>5, <2>6
  <2>9. \A i \in 1..Len(backlog') :
           pc'[backlog'[i]] = "idle" /\ client'[backlog'[i]] # "away"
    BY <2>3, <2>4, <2>6, <2>7, <2>8 DEF BacklogInv
  <2>10. \A i, j \in 1..Len(backlog') : i # j => backlog'[i] # backlog'[j]
    BY <2>6, <2>8 DEF BacklogInv
  <2>11. \A w \in Conns : client'[w] = "away" => pc'[w] = "idle"
    BY <2>3, <2>4 DEF BacklogInv
  <2> QED BY <2>9, <2>10, <2>11 DEF BacklogInv
<1>2. ASSUME NEW w \in Conns, Connect(w) PROVE BacklogInv'
  <2>1. backlog' = Append(backlog, w) /\ pc' = pc /\ client[w] = "away"
    BY <1>2 DEF Connect
  <2>2. /\ Len(backlog) \in Nat /\ Len(backlog') = Len(backlog) + 1
        /\ \A i \in 1..Len(backlog) : backlog'[i] = backlog[i]
        /\ backlog'[Len(backlog) + 1] = w
    BY <2>1
  <2>3. pc[w] = "idle" /\ client'[w] # "away"
    BY <1>2, <2>1 DEF Connect, TypeOK, BacklogInv
  <2>4. \A v \in Conns : v # w => client'[v] = client[v]
    BY <1>2 DEF Connect, TypeOK
  <2>5. \A i \in 1..Len(backlog) : backlog[i] # w /\ backlog[i] \in Conns
    BY <2>1, BacklogFacts DEF BacklogInv
  <2>6. \A i \in 1..Len(backlog') : i \in 1..Len(backlog) \/ i = Len(backlog) + 1
    BY <2>2
  <2> QED BY <2>1, <2>2, <2>3, <2>4, <2>5, <2>6 DEF BacklogInv
<1>3. ASSUME NEW w \in Conns, ClientLeaves(w) PROVE BacklogInv'
  <2>1. /\ backlog' = backlog /\ pc' = pc
        /\ \A v \in Conns : client'[v] = "away" <=> client[v] = "away"
    <3>1. client = [v \in Conns |-> client[v]]
      BY DEF TypeOK
    <3>2. PICK how \in {"half", "gone"} :
             client[w] # "away" /\ client' = [client EXCEPT ![w] = how]
      BY <1>3, HttpdAssumption DEF ClientLeaves
    <3>3. backlog' = backlog /\ pc' = pc
      BY <1>3 DEF ClientLeaves, server
    <3> QED BY <3>1, <3>2, <3>3
  <2> QED BY <2>1, BacklogFacts DEF BacklogInv
<1>4. ASSUME NEW w \in Conns,
             ClientSends(w) \/ Thread(w) \/ SigPipe(w) \/ Program(w)
      PROVE  BacklogInv'
  <2>1. backlog' = backlog /\ client' = client
    BY <1>4 DEF ClientSends, Thread, SigPipe, Program, server, peer,
       GetRequest, ClearHeader, Refuse, Exit, OpenFile, SendHead, SendFile,
       CloseSock, ReadLength, MakeInput, MakeOutput, MakePipe, Fork,
       CloseChildEnds, TakeByte, PutByte, ReadOutput, ForwardByte, CloseAll,
       Wait, ChildHeader, ChildExec, ChildReads, ChildWrites, ChildExits
  <2>2. \A v \in Conns : pc[v] = "idle" => pc'[v] = "idle"
    BY <1>4 DEF TypeOK, ClientSends, Thread, SigPipe, Program, At, Goto,
       GetRequest, ClearHeader, Refuse, Refusing, Exit, ExitCodes, OpenFile,
       SendHead, SendFile, CloseSock, ReadLength, MakeInput, MakeOutput,
       MakePipe, Fork, CloseChildEnds, TakeByte, PutByte, ReadOutput,
       ForwardByte, CloseAll, Wait, ChildHeader, ChildExec, ChildReads,
       ChildWrites, ChildExits
  <2>3. \A v \in Conns : client[v] = "away" => pc'[v] = "idle"
    BY <2>2 DEF BacklogInv
  <2> QED BY <2>1, <2>2, <2>3, BacklogFacts DEF BacklogInv
<1>5. CASE UNCHANGED vars
  BY <1>5 DEF vars, server, peer, BacklogInv
<1> QED BY <1>1, <1>2, <1>3, <1>4, <1>5 DEF Next

\* The listening socket, the free entry and the ends of connections differ.
LEMMA DistinctObjects ==
  /\ Listen # Free
  /\ \A w \in Conns, e \in Ends : <<e, w>> # Free /\ <<e, w>> # Listen
  /\ \A v, w \in Conns, d, e \in Ends : <<d, v>> = <<e, w>> <=> d = e /\ v = w
  BY HttpdAssumption DEF Objects

\* A thread w moves to q and closes the ends es it has open there (none, in
\* many steps): nobody else is touched.
LEMMA FdInvClose ==
  ASSUME TypeOK, FdInv, status' = status, loc' = loc,
         NEW w \in Conns, NEW q, Goto(w, q),
         NEW es \in SUBSET Ends, \A e \in es : HasOpen(pc[w], e),
         \A f \in Fds :
            fdtab'[f] = IF \E e \in es : loc[w][e] = f THEN Free ELSE fdtab[f],
         \A e \in Ends : HasOpen(q, e) => HasOpen(pc[w], e) /\ e \notin es,
         \/ q \in ExitCodes
         \/ /\ pc[w] \notin ExitCodes \union {"nopipe", "done"}
            /\ \A e \in Ends \ es : HasOpen(pc[w], e) =>
                  \/ HasOpen(q, e)
                  \/ q = "nopipe" /\ e \in PipeEnds
                  \/ q = "done" /\ e = "file"
  PROVE  FdInv'
<1> SUFFICES ASSUME status = "up" PROVE
       /\ fdtab'[FirstFd] = Listen
       /\ \A v \in Conns, e \in Ends :
             HasOpen(pc'[v], e) => loc'[v][e] \in Fds /\ fdtab'[loc'[v][e]] = <<e, v>>
       /\ NoFdLeak'
  BY DEF FdInv
<1>1. /\ fdtab[FirstFd] = Listen
      /\ \A v \in Conns, e \in Ends :
            HasOpen(pc[v], e) => loc[v][e] \in Fds /\ fdtab[loc[v][e]] = <<e, v>>
      /\ NoFdLeak
  BY DEF FdInv
<1>2. pc'[w] = q /\ \A v \in Conns : v # w => pc'[v] = pc[v]
  BY DEF Goto, TypeOK
<1>3. FirstFd \in Fds
  BY FdAssumption DEF Fds
<1>4. fdtab'[FirstFd] = Listen
  <2>1. \A e \in es : fdtab[loc[w][e]] = <<e, w>> /\ <<e, w>> # Listen
    BY <1>1, DistinctObjects
  <2> QED BY <1>1, <1>3, <2>1
<1>5. ASSUME NEW v \in Conns, NEW e \in Ends, HasOpen(pc'[v], e)
      PROVE  loc'[v][e] \in Fds /\ fdtab'[loc'[v][e]] = <<e, v>>
  <2>1. HasOpen(pc[v], e) /\ (v = w => e \notin es)
    BY <1>2, <1>5
  <2>2. \A d \in es : loc[w][d] # loc[v][e]
    BY <1>1, <2>1, DistinctObjects
  <2> QED BY <1>1, <2>1, <2>2
<1>6. ASSUME NEW f \in Fds, NEW v \in Conns, NEW e \in Ends, fdtab'[f] = <<e, v>>
      PROVE  \/ HasOpen(pc'[v], e) /\ loc'[v][e] = f
             \/ pc'[v] \in ExitCodes
             \/ pc'[v] = "nopipe" /\ e \in PipeEnds
             \/ pc'[v] = "done" /\ e = "file"
  <2>1. fdtab[f] = <<e, v>> /\ \A d \in es : loc[w][d] # f
    BY <1>6, DistinctObjects
  <2>2. \/ HasOpen(pc[v], e) /\ loc[v][e] = f
        \/ pc[v] \in ExitCodes
        \/ pc[v] = "nopipe" /\ e \in PipeEnds
        \/ pc[v] = "done" /\ e = "file"
    BY <1>1, <2>1 DEF NoFdLeak
  <2> QED BY <1>2, <2>1, <2>2
<1>7. NoFdLeak'
  BY <1>6 DEF NoFdLeak
<1> QED BY <1>4, <1>5, <1>7

\* A thread w moves to q with the ends es newly open, at numbers that were free.
LEMMA FdInvOpen ==
  ASSUME TypeOK, FdInv, status' = status,
         NEW w \in Conns, NEW q, Goto(w, q), NEW es \in SUBSET Ends,
         \A v \in Conns, e \in Ends : v # w \/ e \notin es => loc'[v][e] = loc[v][e],
         \A e \in es : /\ loc'[w][e] \in Fds
                       /\ fdtab[loc'[w][e]] = Free
                       /\ fdtab'[loc'[w][e]] = <<e, w>>,
         \A f \in Fds : (\A e \in es : loc'[w][e] # f) => fdtab'[f] = fdtab[f],
         \A e \in Ends : HasOpen(q, e) <=> HasOpen(pc[w], e) \/ e \in es,
         \A e \in es : ~HasOpen(pc[w], e),
         pc[w] \notin ExitCodes \union {"nopipe", "done"}
  PROVE  FdInv'
<1> SUFFICES ASSUME status = "up" PROVE
       /\ fdtab'[FirstFd] = Listen
       /\ \A v \in Conns, e \in Ends :
             HasOpen(pc'[v], e) => loc'[v][e] \in Fds /\ fdtab'[loc'[v][e]] = <<e, v>>
       /\ NoFdLeak'
  BY DEF FdInv
<1>1. /\ fdtab[FirstFd] = Listen
      /\ \A v \in Conns, e \in Ends :
            HasOpen(pc[v], e) => loc[v][e] \in Fds /\ fdtab[loc[v][e]] = <<e, v>>
      /\ NoFdLeak
  BY DEF FdInv
<1>2. pc'[w] = q /\ \A v \in Conns : v # w => pc'[v] = pc[v]
  BY DEF Goto, TypeOK
<1>3. FirstFd \in Fds
  BY FdAssumption DEF Fds
<1>4. fdtab'[FirstFd] = Listen
  BY <1>1, <1>3, DistinctObjects
<1>5. ASSUME NEW v \in Conns, NEW e \in Ends, HasOpen(pc'[v], e)
      PROVE  loc'[v][e] \in Fds /\ fdtab'[loc'[v][e]] = <<e, v>>
  <2>1. CASE v = w /\ e \in es
    BY <2>1
  <2>2. CASE v # w \/ e \notin es
    <3>1. HasOpen(pc[v], e) /\ loc'[v][e] = loc[v][e]
      BY <1>2, <1>5, <2>2
    <3>2. \A d \in es : loc'[w][d] # loc[v][e]
      <4>1. fdtab[loc[v][e]] = <<e, v>> /\ <<e, v>> # Free
        BY <1>1, <3>1, DistinctObjects
      <4> QED BY <4>1
    <3> QED BY <1>1, <3>1, <3>2
  <2> QED BY <2>1, <2>2
<1>6. ASSUME NEW f \in Fds, NEW v \in Conns, NEW e \in Ends, fdtab'[f] = <<e, v>>
      PROVE  \/ HasOpen(pc'[v], e) /\ loc'[v][e] = f
             \/ pc'[v] \in ExitCodes
             \/ pc'[v] = "nopipe" /\ e \in PipeEnds
             \/ pc'[v] = "done" /\ e = "file"
  <2>1. CASE \E d \in es : loc'[w][d] = f
    <3>1. PICK d \in es : loc'[w][d] = f
      BY <2>1
    <3>2. d = e /\ v = w
      BY <1>6, <3>1, DistinctObjects
    <3> QED BY <1>2, <3>1, <3>2
  <2>2. CASE \A d \in es : loc'[w][d] # f
    <3>1. fdtab[f] = <<e, v>>
      BY <1>6, <2>2
    <3>2. \/ HasOpen(pc[v], e) /\ loc[v][e] = f
          \/ pc[v] \in ExitCodes
          \/ pc[v] = "nopipe" /\ e \in PipeEnds
          \/ pc[v] = "done" /\ e = "file"
      BY <1>1, <3>1 DEF NoFdLeak
    <3> QED BY <1>2, <3>1, <3>2
  <2> QED BY <2>1, <2>2
<1>7. NoFdLeak'
  BY <1>6 DEF NoFdLeak
<1> QED BY <1>4, <1>5, <1>7

\* Steps that leave the table and the local variables alone.
LEMMA FdInvMove ==
  ASSUME TypeOK, FdInv, status' = status, loc' = loc, fdtab' = fdtab,
         NEW w \in Conns, NEW q, Goto(w, q),
         \A e \in Ends : HasOpen(q, e) => HasOpen(pc[w], e),
         \/ q \in ExitCodes
         \/ /\ pc[w] \notin ExitCodes \union {"nopipe", "done"}
            /\ \A e \in Ends : HasOpen(pc[w], e) =>
                  \/ HasOpen(q, e)
                  \/ q = "nopipe" /\ e \in PipeEnds
                  \/ q = "done" /\ e = "file"
  PROVE  FdInv'
<1> DEFINE es == {}
<1>1. es \in SUBSET Ends /\ \A e \in es : HasOpen(pc[w], e)
  OBVIOUS
<1>2. \A f \in Fds :
        fdtab'[f] = IF \E e \in es : loc[w][e] = f THEN Free ELSE fdtab[f]
  OBVIOUS
<1>3. \A e \in Ends : HasOpen(q, e) => HasOpen(pc[w], e) /\ e \notin es
  OBVIOUS
<1> HIDE DEF es
<1> QED BY <1>1, <1>2, <1>3, FdInvClose

\* close() of a set of local variables, entry by entry.
LEMMA CloseEndsEntries ==
  ASSUME NEW w, NEW es, CloseEnds(w, es)
  PROVE  \A f \in Fds :
            fdtab'[f] = IF \E e \in es : loc[w][e] = f THEN Free ELSE fdtab[f]
  BY DEF CloseEnds, Close

\* The server's threads outside echo_cgi.
LEMMA FdInvDealwithsock ==
  ASSUME TypeOK, FdInv, NEW w \in Conns,
         \/ GetRequest(w) \/ ClearHeader(w) \/ Refuse(w) \/ Exit(w) \/ SigPipe(w)
         \/ SendHead(w) \/ SendFile(w) \/ CloseSock(w)
  PROVE  FdInv'
<1> USE DEF server, thread, HasOpen, ExitCodes, BeforeFork, AfterFork
<1>1. CASE GetRequest(w)
  <2>1. PICK q \in {"bad", "clear404", "clearcgi", "length", "clearwww"} : Goto(w, q)
    BY <1>1 DEF GetRequest, Branch
  <2>2. pc[w] = "line" /\ status' = status /\ loc' = loc /\ fdtab' = fdtab
    BY <1>1 DEF GetRequest, At
  <2> QED BY <2>1, <2>2, FdInvMove
<1>2. CASE ClearHeader(w)
  <2>1. /\ status' = status /\ loc' = loc /\ fdtab' = fdtab
        /\ \/ pc[w] = "clear404" /\ Goto(w, "missing")
           \/ pc[w] = "clearcgi" /\ Goto(w, "pipe1")
           \/ pc[w] = "clearwww" /\ Goto(w, "open")
    BY <1>2 DEF ClearHeader, At
  <2> QED BY <2>1, FdInvMove
<1>3. CASE Refuse(w)
  <2>1. PICK p \in Refusing :
          /\ pc[w] = p /\ Goto(w, ExitOf[p])
          /\ IF p \in {"bad", "nopipe"}
               THEN CloseEnds(w, {"sock"}) ELSE UNCHANGED fdtab
    BY <1>3 DEF Refuse, At
  <2>2. status' = status /\ loc' = loc /\ ExitOf[p] \in ExitCodes
    BY <1>3 DEF Refuse, Refusing, ExitOf
  <2>3. \A e \in Ends : ~HasOpen(ExitOf[p], e)
    BY <2>2
  <2>4. CASE UNCHANGED fdtab
    BY <2>1, <2>2, <2>3, <2>4, FdInvMove
  <2>5. CASE p \in {"bad", "nopipe"} /\ CloseEnds(w, {"sock"})
    <3>1. {"sock"} \in SUBSET Ends /\ \A e \in {"sock"} : HasOpen(pc[w], e)
      BY <2>1, <2>5 DEF Ends
    <3>2. \A f \in Fds : fdtab'[f] =
            IF \E e \in {"sock"} : loc[w][e] = f THEN Free ELSE fdtab[f]
      BY <2>5, CloseEndsEntries
    <3> HIDE DEF HasOpen
    <3> QED BY <2>1, <2>2, <2>3, <3>1, <3>2, FdInvClose
  <2> QED BY <2>1, <2>4, <2>5
<1>4. CASE Exit(w) \/ SigPipe(w)
  <2>1. status' # "up"
    BY <1>4 DEF Exit, SigPipe, Terminate
  <2> QED BY <2>1 DEF FdInv
<1>5. CASE SendHead(w) \/ SendFile(w)
  <2>1. /\ pc[w] \in {"head", "sendfile"}
        /\ status' = status /\ loc' = loc /\ fdtab' = fdtab
    BY <1>5 DEF SendHead, SendFile, At
  <2>2. PICK q \in {"sendfile", "closesock", "wwwfail"} : Goto(w, q)
    BY <1>5 DEF SendHead, SendFile
  <2> QED BY <2>1, <2>2, FdInvMove
<1>6. CASE CloseSock(w)
  <2>1. /\ pc[w] = "closesock" /\ status' = status /\ loc' = loc
        /\ Goto(w, "done") /\ CloseEnds(w, {"sock"})
    BY <1>6 DEF CloseSock, At
  <2>2. {"sock"} \in SUBSET Ends /\ \A e \in {"sock"} : HasOpen(pc[w], e)
    BY <2>1 DEF Ends
  <2>3. \A f \in Fds : fdtab'[f] =
          IF \E e \in {"sock"} : loc[w][e] = f THEN Free ELSE fdtab[f]
    BY <2>1, CloseEndsEntries
  <2>4. \A e \in Ends : ~HasOpen("done", e)
    OBVIOUS
  <2>5. \A e \in Ends \ {"sock"} : HasOpen("closesock", e) => e = "file"
    OBVIOUS
  <2> HIDE DEF HasOpen
  <2> QED BY <2>1, <2>2, <2>3, <2>4, <2>5, FdInvClose
<1> QED BY <1>1, <1>2, <1>3, <1>4, <1>5, <1>6

LEMMA FdInvAccept == TypeOK /\ BacklogInv /\ FdInv /\ Accept => FdInv'
<1> SUFFICES ASSUME TypeOK, BacklogInv, FdInv, Accept PROVE FdInv'
  OBVIOUS
<1> DEFINE f == LowestFree(fdtab)
           es == {"sock"}
<1>1. PICK w \in Conns : w = Head(backlog) /\ pc[w] = "idle"
  <2>1. backlog \in Seq(Conns) /\ backlog # <<>>
    BY DEF Accept, TypeOK
  <2>2. /\ Head(backlog) = backlog[1] /\ Head(backlog) \in Conns
        /\ 1 \in 1..Len(backlog)
    BY <2>1, BacklogFacts
  <2> QED BY <2>2 DEF BacklogInv
<1>2. f \in Fds /\ fdtab[f] = Free
  BY LowestFreeIsFree DEF Accept
<1>3. PICK q \in {"line", "orphan"} : Goto(w, q)
  BY <1>1 DEF Accept
<1>4. /\ status' = status
      /\ fdtab' = [fdtab EXCEPT ![f] = <<"sock", w>>]
      /\ loc' = [loc EXCEPT ![w]["sock"] = f]
  BY <1>1 DEF Accept, Open
<1>5. es \in SUBSET Ends
  BY DEF Ends
<1>6. \A v \in Conns, e \in Ends :
         v # w \/ e \notin es => loc'[v][e] = loc[v][e]
  BY <1>1, <1>4 DEF TypeOK
<1>7. \A e \in es : /\ loc'[w][e] \in Fds
                          /\ fdtab[loc'[w][e]] = Free
                          /\ fdtab'[loc'[w][e]] = <<e, w>>
  BY <1>1, <1>2, <1>4, <1>5 DEF TypeOK
<1>8. \A g \in Fds : (\A e \in es : loc'[w][e] # g) => fdtab'[g] = fdtab[g]
  BY <1>1, <1>4, <1>5 DEF TypeOK
<1>9. \A e \in Ends : HasOpen(q, e) <=> HasOpen(pc[w], e) \/ e \in es
  BY <1>1, <1>3 DEF HasOpen, ExitCodes, BeforeFork, AfterFork
<1>10. /\ \A e \in es : ~HasOpen(pc[w], e)
       /\ pc[w] \notin ExitCodes \union {"nopipe", "done"}
  BY <1>1 DEF HasOpen, ExitCodes
<1> HIDE DEF f, es
<1> QED
  BY <1>1, <1>3, <1>4, <1>5, <1>6, <1>7, <1>8, <1>9, <1>10, FdInvOpen

LEMMA FdInvOpenFile ==
  ASSUME TypeOK, FdInv, NEW w \in Conns, OpenFile(w)
  PROVE  FdInv'
<1>1. pc[w] = "open" /\ status' = status
  BY DEF OpenFile, At
<1>2. CASE Goto(w, "exit5") /\ UNCHANGED <<fdtab, loc>>
  <2>1. "exit5" \in ExitCodes /\ \A e \in Ends : ~HasOpen("exit5", e)
    BY DEF HasOpen, ExitCodes, BeforeFork, AfterFork
  <2> QED BY <1>1, <1>2, <2>1, FdInvMove
<1>3. CASE /\ CanOpen(fdtab) /\ Goto(w, "head")
           /\ fdtab' = Open(fdtab, <<"file", w>>)
           /\ loc' = [loc EXCEPT ![w]["file"] = LowestFree(fdtab)]
  <2> DEFINE f == LowestFree(fdtab)
             es == {"file"}
  <2>1. f \in Fds /\ fdtab[f] = Free
    BY <1>3, LowestFreeIsFree
  <2>2. fdtab' = [fdtab EXCEPT ![f] = <<"file", w>>]
    BY <1>3 DEF Open
  <2>3. es \in SUBSET Ends
    BY DEF Ends
  <2>4. \A v \in Conns, e \in Ends :
           v # w \/ e \notin es => loc'[v][e] = loc[v][e]
    BY <1>3 DEF TypeOK
  <2>5. \A e \in es : /\ loc'[w][e] \in Fds
                            /\ fdtab[loc'[w][e]] = Free
                            /\ fdtab'[loc'[w][e]] = <<e, w>>
    BY <1>3, <2>1, <2>2, <2>3 DEF TypeOK
  <2>6. \A g \in Fds : (\A e \in es : loc'[w][e] # g) => fdtab'[g] = fdtab[g]
    BY <1>3, <2>2, <2>3 DEF TypeOK
  <2>7. PICK q \in {"head"} : Goto(w, q)
    BY <1>3
  <2>8. \A e \in Ends : HasOpen(q, e) <=> HasOpen(pc[w], e) \/ e \in es
    BY <1>1, <2>7 DEF HasOpen, ExitCodes, BeforeFork, AfterFork
  <2>9. /\ \A e \in es : ~HasOpen(pc[w], e)
        /\ pc[w] \notin ExitCodes \union {"nopipe", "done"}
    BY <1>1 DEF HasOpen, ExitCodes
  <2> HIDE DEF f, es
  <2>10. status' = status
    BY <1>1
  <2> QED BY <2>3, <2>4, <2>5, <2>6, <2>7, <2>8, <2>9, <2>10, FdInvOpen
<1> QED BY <1>2, <1>3 DEF OpenFile

LEMMA FdInvMakePipe ==
  ASSUME TypeOK, FdInv, NEW w \in Conns, NEW from, NEW to,
         NEW r \in PipeEnds, NEW wr \in PipeEnds, r # wr,
         MakePipe(w, from, r, wr, to),
         \A e \in Ends : HasOpen(to, e) <=> HasOpen(from, e) \/ e \in {r, wr},
         \A e \in Ends : HasOpen("nopipe", e) => HasOpen(from, e),
         \A e \in Ends : HasOpen(from, e) => HasOpen("nopipe", e) \/ e \in PipeEnds,
         ~HasOpen(from, r), ~HasOpen(from, wr),
         from \notin ExitCodes \union {"nopipe", "done"}
  PROVE  FdInv'
<1>1. pc[w] = from /\ status' = status
  BY DEF MakePipe, At
<1>2. CASE Goto(w, "nopipe") /\ UNCHANGED <<fdtab, loc>>
  BY <1>1, <1>2, FdInvMove
<1>3. CASE /\ CanOpenTwo(fdtab) /\ Goto(w, to)
           /\ fdtab' = Open(Open(fdtab, <<r, w>>), <<wr, w>>)
           /\ loc' = [loc EXCEPT ![w][r] = LowestFree(fdtab),
                                 ![w][wr] = LowestFree(Open(fdtab, <<r, w>>))]
  <2> DEFINE tab == Open(fdtab, <<r, w>>)
             f == LowestFree(fdtab)
             g == LowestFree(tab)
             es == {r, wr}
  <2>1. fdtab \in [Fds -> Objects \union {Free}] /\ es \in SUBSET Ends
    BY DEF TypeOK, Ends
  <2>2. CanOpen(fdtab) /\ CanOpen(tab)
    BY <1>3, <2>1, SecondFree
  <2>3. f \in Fds /\ fdtab[f] = Free
    BY <2>2, LowestFreeIsFree
  <2>4. g \in Fds /\ tab[g] = Free
    BY <2>2, LowestFreeIsFree
  <2>5. tab = [fdtab EXCEPT ![f] = <<r, w>>] /\ fdtab' = [tab EXCEPT ![g] = <<wr, w>>]
    BY <1>3 DEF Open
  <2>6. <<r, w>> # Free
    BY <2>1, DistinctObjects
  <2>7. g # f /\ fdtab[g] = Free
    BY <2>1, <2>3, <2>4, <2>5, <2>6
  <2>8. fdtab'[f] = <<r, w>> /\ fdtab'[g] = <<wr, w>>
    BY <2>1, <2>3, <2>4, <2>5, <2>7
  <2>9. \A h \in Fds : h # f /\ h # g => fdtab'[h] = fdtab[h]
    BY <2>1, <2>5
  <2>10. loc' = [loc EXCEPT ![w][r] = f, ![w][wr] = g]
    BY <1>3
  <2> HIDE DEF tab, f, g
  <2>11. loc'[w][r] = f /\ loc'[w][wr] = g
    BY <2>1, <2>10 DEF TypeOK
  <2>12. \A v \in Conns, e \in Ends :
           v # w \/ e \notin es => loc'[v][e] = loc[v][e]
    BY <2>1, <2>10 DEF TypeOK
  <2>13. \A e \in es : /\ loc'[w][e] \in Fds
                            /\ fdtab[loc'[w][e]] = Free
                            /\ fdtab'[loc'[w][e]] = <<e, w>>
    BY <2>3, <2>4, <2>7, <2>8, <2>11
  <2>14. \A h \in Fds : (\A e \in es : loc'[w][e] # h) => fdtab'[h] = fdtab[h]
    BY <2>9, <2>11
  <2>15. /\ \A e \in Ends : HasOpen(to, e) <=> HasOpen(pc[w], e) \/ e \in es
         /\ \A e \in es : ~HasOpen(pc[w], e)
         /\ pc[w] \notin ExitCodes \union {"nopipe", "done"}
    BY <1>1
  <2> HIDE DEF es
  <2> QED BY ZenonT(60), <1>1, <1>3, <2>1, <2>12, <2>13, <2>14, <2>15, FdInvOpen
<1> QED BY <1>2, <1>3 DEF MakePipe

LEMMA FdInvEchoCgi ==
  ASSUME TypeOK, FdInv, NEW w \in Conns,
         \/ ReadLength(w) \/ MakeInput(w) \/ MakeOutput(w) \/ Fork(w)
         \/ CloseChildEnds(w) \/ TakeByte(w) \/ PutByte(w) \/ ReadOutput(w)
         \/ ForwardByte(w) \/ CloseAll(w) \/ Wait(w)
  PROVE  FdInv'
<1> USE DEF HasOpen, ExitCodes, BeforeFork, AfterFork
<1>1. CASE ReadLength(w)
  <2>1. PICK q \in {"badlen", "pipe1"} : Goto(w, q)
    BY <1>1 DEF ReadLength
  <2>2. pc[w] = "length" /\ status' = status /\ loc' = loc /\ fdtab' = fdtab
    BY <1>1 DEF ReadLength, At, server
  <2> QED BY <2>1, <2>2, FdInvMove
<1>2. CASE MakeInput(w)
  <2>1. "in0" \in PipeEnds /\ "in1" \in PipeEnds
    BY DEF PipeEnds
  <2> QED BY <1>2, <2>1, FdInvMakePipe DEF MakeInput
<1>3. CASE MakeOutput(w)
  <2>1. "out0" \in PipeEnds /\ "out1" \in PipeEnds
    BY DEF PipeEnds
  <2>2. \A e \in Ends : HasOpen("pipe2", e) => HasOpen("nopipe", e) \/ e \in PipeEnds
    BY DEF PipeEnds
  <2>3. \A e \in Ends : HasOpen("nopipe", e) => HasOpen("pipe2", e)
    OBVIOUS
  <2>4. \A e \in Ends : HasOpen("fork", e) <=> HasOpen("pipe2", e) \/ e \in {"out0", "out1"}
    OBVIOUS
  <2> QED BY <1>3, <2>1, <2>2, <2>3, <2>4, FdInvMakePipe DEF MakeOutput
<1>4. CASE Fork(w)
  <2>1. PICK q \in {"close", "nopipe"} : Goto(w, q)
    BY <1>4 DEF Fork
  <2>2. pc[w] = "fork" /\ status' = status /\ loc' = loc /\ fdtab' = fdtab
    BY <1>4 DEF Fork, At, server, thread
  <2> QED BY <2>1, <2>2, FdInvMove DEF PipeEnds
<1>5. CASE CloseChildEnds(w)
  <2> DEFINE es == {"in0", "out1"}
  <2>1. /\ pc[w] = "close" /\ status' = status /\ loc' = loc
        /\ CloseEnds(w, es)
    BY <1>5 DEF CloseChildEnds, At, thread
  <2>2. PICK q \in {"take", "relay"} : Goto(w, q)
    BY <1>5 DEF CloseChildEnds
  <2>3. es \in SUBSET Ends /\ \A e \in es : HasOpen(pc[w], e)
    BY <2>1 DEF Ends, PipeEnds
  <2>4. \A f \in Fds :
           fdtab'[f] = IF \E e \in es : loc[w][e] = f THEN Free ELSE fdtab[f]
    BY <2>1, CloseEndsEntries
  <2>5. \A e \in Ends : HasOpen(q, e) <=> HasOpen(pc[w], e) /\ e \notin es
    BY <2>1, <2>2
  <2> HIDE DEF HasOpen, es
  <2> QED BY <2>1, <2>2, <2>3, <2>4, <2>5, FdInvClose
<1>6. CASE TakeByte(w) \/ ReadOutput(w)
  <2>1. PICK q \in {"put", "relay", "forward", "closeall"} : Goto(w, q)
    BY <1>6 DEF TakeByte, ReadOutput
  <2>2. /\ pc[w] \in {"take", "relay"}
        /\ status' = status /\ loc' = loc /\ fdtab' = fdtab
    BY <1>6 DEF TakeByte, ReadOutput, At, server, thread
  <2> QED BY <2>1, <2>2, FdInvMove
<1>7. CASE PutByte(w) \/ ForwardByte(w)
  <2>1. PICK q \in {"take", "relay"} : Goto(w, q)
    BY <1>7 DEF PutByte, ForwardByte
  <2>2. /\ pc[w] \in {"put", "forward"}
        /\ status' = status /\ loc' = loc /\ fdtab' = fdtab
    BY <1>7 DEF PutByte, ForwardByte, At, server
  <2> QED BY <2>1, <2>2, FdInvMove
<1>8. CASE CloseAll(w)
  <2> DEFINE es == {"in1", "out0", "sock"}
  <2>1. /\ pc[w] = "closeall" /\ status' = status /\ loc' = loc
        /\ CloseEnds(w, es) /\ Goto(w, "wait")
    BY <1>8 DEF CloseAll, At, thread
  <2>2. es \in SUBSET Ends /\ \A e \in es : HasOpen(pc[w], e)
    BY <2>1 DEF Ends, PipeEnds
  <2>3. \A f \in Fds :
           fdtab'[f] = IF \E e \in es : loc[w][e] = f THEN Free ELSE fdtab[f]
    BY <2>1, CloseEndsEntries
  <2>4. \A e \in Ends : HasOpen("wait", e) <=> HasOpen(pc[w], e) /\ e \notin es
    BY <2>1
  <2> HIDE DEF HasOpen, es
  <2> QED BY <2>1, <2>2, <2>3, <2>4, FdInvClose
<1>9. CASE Wait(w)
  <2>1. /\ pc[w] = "wait" /\ Goto(w, "done")
        /\ status' = status /\ loc' = loc /\ fdtab' = fdtab
    BY <1>9 DEF Wait, At, server, thread
  <2> QED BY <2>1, FdInvMove
<1> QED BY <1>1, <1>2, <1>3, <1>4, <1>5, <1>6, <1>7, <1>8, <1>9

LEMMA NextFdInv == TypeOK /\ BacklogInv /\ FdInv /\ [Next]_vars => FdInv'
<1> SUFFICES ASSUME TypeOK, BacklogInv, FdInv, [Next]_vars PROVE FdInv'
  OBVIOUS
<1>1. CASE Accept
  BY <1>1, FdInvAccept
<1>2. ASSUME NEW w \in Conns, Thread(w) \/ SigPipe(w) PROVE FdInv'
  BY <1>2, FdInvDealwithsock, FdInvOpenFile, FdInvEchoCgi DEF Thread
<1>3. ASSUME NEW w \in Conns,
             Connect(w) \/ ClientSends(w) \/ ClientLeaves(w) \/ Program(w)
      PROVE  UNCHANGED <<status, fdtab, pc, loc>>
  BY <1>3 DEF Connect, ClientSends, ClientLeaves, Program, server, thread,
     ChildHeader, ChildExec, ChildReads, ChildWrites, ChildExits
<1>4. CASE UNCHANGED vars
  BY <1>4 DEF vars, server, thread, FdInv, NoFdLeak
<1>5. ASSUME UNCHANGED <<status, fdtab, pc, loc>> PROVE FdInv'
  BY <1>5 DEF FdInv, NoFdLeak
<1> QED BY <1>1, <1>2, <1>3, <1>4, <1>5 DEF Next

LEMMA FdInvAlways == Spec => [](TypeOK /\ BacklogInv /\ FdInv)
<1>1. Init => TypeOK /\ BacklogInv /\ FdInv
  BY InitTypeOK, InitFdInv
<1>2. /\ TypeOK /\ BacklogInv /\ FdInv
      /\ [Next]_vars
      => TypeOK' /\ BacklogInv' /\ FdInv'
  BY NextTypeOK, NextBacklogInv, NextFdInv
<1> QED BY <1>1, <1>2, PTL DEF Spec

\* Whatever the other threads open and close, the numbers in a thread's local
\* variables stand for its own socket, pipes and file.
THEOREM DescriptorsAreOwn == Spec => []FdIntegrity
<1>1. FdInv => FdIntegrity
  BY DEF FdInv, FdIntegrity
<1> QED BY FdInvAlways, <1>1, PTL

\* The server loses track of no descriptor but the outfd of static answers.
THEOREM NoOtherLeak == Spec => []NoFdLeak
<1>1. FdInv => NoFdLeak
  BY DEF FdInv, NoFdLeak
<1> QED BY FdInvAlways, <1>1, PTL

-----------------------------------------------------------------------------
(* The end of a program's output *)

InCgi == {"close", "wait"} \union AfterFork
Alive == {"forked", "exec", "run"}

\* A living program holds the writing end of its own output pipe, so the end of
\* the pipe is not seen before the program's end; and no byte gets lost between
\* the program, the pipe, the thread's hand and the socket.
EofInv ==
    \A w \in Conns :
        /\ child[w] \in Alive => <<"out1", w>> \in held[w]
        /\ pc[w] \in InCgi => child[w] \in Alive \union {"zombie"}
        /\ child[w] # "none" => pc[w] \in InCgi \union {"done"}
        /\ child[w] \in {"none", "forked", "exec"} => made[w] = 0
        /\ pc[w] = "forward" => fwd[w] + outPipe[w] + 1 = made[w]
        /\ pc[w] # "forward" => fwd[w] + outPipe[w] = made[w]
        /\ pc[w] \in {"closeall", "wait"} => child[w] = "zombie" /\ outPipe[w] = 0
        /\ pc[w] = "done" /\ child[w] # "none" => child[w] = "reaped" /\ outPipe[w] = 0

LEMMA InitEofInv == Init => EofInv
  BY DEF Init, EofInv, InCgi, AfterFork, Alive

\* Steps outside echo_cgi: the thread has no program.
LEMMA EofInvMove ==
  ASSUME TypeOK, EofInv, UNCHANGED <<fwd, child, held, made, outPipe>>,
         NEW w \in Conns, NEW q, Goto(w, q),
         pc[w] \notin InCgi \union {"done"}, q \notin InCgi
  PROVE  EofInv'
<1>1. pc'[w] = q /\ \A v \in Conns : v # w => pc'[v] = pc[v]
  BY DEF Goto, TypeOK
<1>2. child[w] = "none"
  BY DEF EofInv
<1>3. pc[w] # "forward" /\ q # "forward" /\ q \notin {"closeall", "wait"}
  BY DEF InCgi, AfterFork
<1> QED BY <1>1, <1>2, <1>3 DEF EofInv, Alive

\* Steps inside echo_cgi that move no output byte.
LEMMA EofInvInside ==
  ASSUME TypeOK, EofInv, UNCHANGED <<fwd, child, held, made, outPipe>>,
         NEW w \in Conns, NEW q, Goto(w, q),
         pc[w] \in InCgi \ {"forward"}, q \in InCgi \ {"forward"},
         q \in {"closeall", "wait"} => child[w] = "zombie" /\ outPipe[w] = 0
  PROVE  EofInv'
<1>1. pc'[w] = q /\ \A v \in Conns : v # w => pc'[v] = pc[v]
  BY DEF Goto, TypeOK
<1>2. pc[w] # "done" /\ q # "done"
  BY DEF InCgi, AfterFork
<1> QED BY <1>1, <1>2 DEF EofInv

LEMMA EofInvOutside ==
  ASSUME TypeOK, EofInv, NEW w \in Conns,
         \/ GetRequest(w) \/ ClearHeader(w) \/ Refuse(w) \/ OpenFile(w)
         \/ SendHead(w) \/ SendFile(w) \/ CloseSock(w) \/ ReadLength(w)
         \/ MakeInput(w) \/ MakeOutput(w)
  PROVE  EofInv'
<1>1. UNCHANGED <<fwd, child, held, made, outPipe>>
  BY DEF thread, program, pipes, GetRequest, ClearHeader, Refuse, OpenFile,
     SendHead, SendFile, CloseSock, ReadLength, MakeInput, MakeOutput, MakePipe
<1>2. pc[w] \notin InCgi \union {"done"}
  BY DEF At, InCgi, AfterFork, GetRequest, ClearHeader, Refuse, Refusing,
     OpenFile, SendHead, SendFile, CloseSock, ReadLength, MakeInput,
     MakeOutput, MakePipe
<1>3. \E q : q \notin InCgi /\ Goto(w, q)
  <2> USE DEF InCgi, AfterFork
  <2>1. CASE GetRequest(w)
    BY <2>1 DEF GetRequest, Branch
  <2>2. CASE ClearHeader(w)
    BY <2>2 DEF ClearHeader
  <2>3. CASE Refuse(w)
    BY <2>3 DEF Refuse, Refusing, ExitOf
  <2>4. CASE OpenFile(w) \/ CloseSock(w)
    BY <2>4 DEF OpenFile, CloseSock
  <2>5. CASE SendHead(w) \/ SendFile(w)
    BY <2>5 DEF SendHead, SendFile
  <2>6. CASE ReadLength(w)
    <3>1. PICK n : Goto(w, IF n <= 0 THEN "badlen" ELSE "pipe1")
      BY <2>6 DEF ReadLength
    <3> QED BY <3>1
  <2>7. CASE MakeInput(w) \/ MakeOutput(w)
    BY <2>7 DEF MakeInput, MakeOutput, MakePipe
  <2> QED BY <2>1, <2>2, <2>3, <2>4, <2>5, <2>6, <2>7
<1> QED BY <1>1, <1>2, <1>3, EofInvMove

\* A new program has the writing end open, because its thread had (FdInv).
LEMMA EofInvFork ==
  ASSUME TypeOK, FdInv, EofInv, NEW w \in Conns, Fork(w)
  PROVE  EofInv'
<1>1. pc[w] = "fork" /\ status = "up" /\ UNCHANGED <<fwd, made, outPipe>>
  BY DEF Fork, At, thread, pipes
<1>2. CASE Goto(w, "nopipe") /\ UNCHANGED <<child, held>>
  BY <1>1, <1>2, EofInvMove DEF InCgi, AfterFork
<1>3. CASE /\ child' = [child EXCEPT ![w] = "forked"]
           /\ held' = [held EXCEPT ![w] = OpenObjects(fdtab)]
           /\ Goto(w, "close")
  <2>1. "out1" \in Ends /\ HasOpen(pc[w], "out1")
    BY <1>1 DEF Ends, PipeEnds, HasOpen, BeforeFork
  <2>2. loc[w]["out1"] \in Fds /\ fdtab[loc[w]["out1"]] = <<"out1", w>>
    BY <1>1, <2>1 DEF FdInv
  <2>3. <<"out1", w>> \in OpenObjects(fdtab)
    BY <2>1, <2>2, DistinctObjects DEF OpenObjects
  <2>4. pc'[w] = "close" /\ child'[w] = "forked" /\ <<"out1", w>> \in held'[w]
    BY <1>3, <2>3 DEF Goto, TypeOK
  <2>5. \A v \in Conns : v # w =>
           pc'[v] = pc[v] /\ child'[v] = child[v] /\ held'[v] = held[v]
    BY <1>3 DEF Goto, TypeOK
  <2>6. child[w] = "none" /\ pc[w] # "forward"
    BY <1>1 DEF EofInv, InCgi, AfterFork
  <2> QED BY ZenonT(60), <1>1, <2>4, <2>5, <2>6 DEF EofInv, InCgi, Alive, AfterFork
<1> QED BY <1>2, <1>3 DEF Fork

\* The thread of a CGI answer, between fork and the end of waitpid.
LEMMA EofInvRelay ==
  ASSUME TypeOK, EofInv, NEW w \in Conns,
         \/ CloseChildEnds(w) \/ TakeByte(w) \/ PutByte(w) \/ ReadOutput(w)
         \/ ForwardByte(w) \/ CloseAll(w) \/ Wait(w)
  PROVE  EofInv'
<1> USE DEF InCgi, AfterFork
<1>1. CASE CloseChildEnds(w)
  <2>1. PICK q \in {"take", "relay"} : Goto(w, q)
    BY <1>1 DEF CloseChildEnds
  <2>2. pc[w] = "close" /\ UNCHANGED <<fwd, child, held, made, outPipe>>
    BY <1>1 DEF CloseChildEnds, At, thread, program, pipes
  <2> QED BY <2>1, <2>2, EofInvInside
<1>2. CASE TakeByte(w)
  <2>1. PICK q \in {"put", "relay"} : Goto(w, q)
    BY <1>2 DEF TakeByte
  <2>2. pc[w] = "take" /\ UNCHANGED <<fwd, child, held, made, outPipe>>
    BY <1>2 DEF TakeByte, At, thread, program, pipes
  <2> QED BY <2>1, <2>2, EofInvInside
<1>3. CASE PutByte(w)
  <2>1. /\ pc[w] = "put" /\ Goto(w, "take")
        /\ UNCHANGED <<fwd, child, held, made, outPipe>>
    BY <1>3 DEF PutByte, At, program
  <2> QED BY <2>1, EofInvInside
<1>4. CASE CloseAll(w)
  <2>1. /\ pc[w] = "closeall" /\ Goto(w, "wait")
        /\ UNCHANGED <<fwd, child, held, made, outPipe>>
    BY <1>4 DEF CloseAll, At, thread, program, pipes
  <2>2. child[w] = "zombie" /\ outPipe[w] = 0
    BY <2>1 DEF EofInv
  <2> QED BY <2>1, <2>2, EofInvInside
<1>5. CASE ReadOutput(w)
  <2>1. pc[w] = "relay" /\ UNCHANGED <<fwd, child, held, made>>
    BY <1>5 DEF ReadOutput, At, thread, program
  <2>2. CASE outPipe[w] = 0 /\ ~HasHolder(<<"out1", w>>)
             /\ Goto(w, "closeall") /\ UNCHANGED outPipe
    <3>1. <<"out1", w>> \notin held[w]
      BY <2>2 DEF HasHolder, ProgramHas
    <3>2. child[w] = "zombie"
      BY <2>1, <3>1 DEF EofInv
    <3> QED BY <2>1, <2>2, <3>2, EofInvInside
  <2>3. CASE outPipe[w] > 0 /\ outPipe' = [outPipe EXCEPT ![w] = @ - 1]
             /\ Goto(w, "forward")
    <3>1. pc'[w] = "forward" /\ outPipe'[w] = outPipe[w] - 1
      BY <2>3 DEF Goto, TypeOK
    <3>2. \A v \in Conns : v # w => pc'[v] = pc[v] /\ outPipe'[v] = outPipe[v]
      BY <2>3 DEF Goto, TypeOK
    <3>3. outPipe[w] \in Nat /\ fwd[w] \in Nat /\ made[w] \in Nat
      BY HttpdAssumption DEF TypeOK
    <3>4. fwd[w] + outPipe[w] = made[w]
      BY <2>1, <3>3 DEF EofInv
    <3>5. fwd[w] + (outPipe[w] - 1) + 1 = made[w]
      BY <3>3, <3>4
    <3>6. pc'[w] = "forward" /\ fwd'[w] + outPipe'[w] + 1 = made'[w]
      BY <2>1, <3>1, <3>5
    <3> QED BY ZenonT(60), <2>1, <3>1, <3>2, <3>6 DEF EofInv
  <2> QED BY <1>5, <2>2, <2>3 DEF ReadOutput
<1>6. CASE ForwardByte(w)
  <2>1. pc[w] = "forward" /\ UNCHANGED <<child, held, made, outPipe>>
    BY <1>6 DEF ForwardByte, At, program, pipes
  <2>2. pc'[w] = "relay" /\ fwd'[w] = fwd[w] + 1
    BY <1>6 DEF ForwardByte, Goto, TypeOK
  <2>3. \A v \in Conns : v # w => pc'[v] = pc[v] /\ fwd'[v] = fwd[v]
    BY <1>6 DEF ForwardByte, Goto, TypeOK
  <2>4. outPipe[w] \in Nat /\ fwd[w] \in Nat /\ made[w] \in Nat
    BY HttpdAssumption DEF TypeOK
  <2>5. fwd[w] + outPipe[w] + 1 = made[w]
    BY <2>1, <2>4 DEF EofInv
  <2>6. fwd[w] + 1 + outPipe[w] = made[w]
    BY <2>4, <2>5
  <2>7. pc'[w] # "forward" /\ fwd'[w] + outPipe'[w] = made'[w]
    BY <2>1, <2>2, <2>4, <2>6
  <2> QED BY ZenonT(60), <2>1, <2>2, <2>3, <2>7 DEF EofInv
<1>7. CASE Wait(w)
  <2>1. pc[w] = "wait" /\ UNCHANGED <<fwd, held, made, outPipe>>
    BY <1>7 DEF Wait, At, thread, pipes
  <2>2. pc'[w] = "done" /\ child'[w] = "reaped"
    BY <1>7 DEF Wait, Goto, TypeOK
  <2>3. \A v \in Conns : v # w => pc'[v] = pc[v] /\ child'[v] = child[v]
    BY <1>7 DEF Wait, Goto, TypeOK
  <2> QED BY ZenonT(60), <2>1, <2>2, <2>3 DEF EofInv, Alive
<1> QED BY <1>1, <1>2, <1>3, <1>4, <1>5, <1>6, <1>7

\* The program: it moves bytes into the pipe one for one, and lets go of the
\* pipe only when it ends.
LEMMA EofInvProgram ==
  ASSUME TypeOK, EofInv, NEW w \in Conns, Program(w)
  PROVE  EofInv'
<1>1. UNCHANGED <<pc, fwd>>
  BY DEF Program, ChildHeader, ChildExec, ChildReads, ChildWrites, ChildExits,
     thread
<1>2. \A v \in Conns : v # w =>
         /\ child'[v] = child[v] /\ held'[v] = held[v]
         /\ made'[v] = made[v] /\ outPipe'[v] = outPipe[v]
  <2>1. /\ child = [v \in Conns |-> child[v]] /\ held = [v \in Conns |-> held[v]]
        /\ made = [v \in Conns |-> made[v]] /\ outPipe = [v \in Conns |-> outPipe[v]]
    BY DEF TypeOK
  <2>2. CASE ChildHeader(w) \/ ChildExec(w)
    BY <2>1, <2>2 DEF ChildHeader, ChildExec, ProgramEnds, program, pipes
  <2>3. CASE ChildReads(w) \/ ChildWrites(w)
    BY <2>1, <2>3 DEF ChildReads, ChildWrites, program, pipes
  <2>4. CASE ChildExits(w)
    BY <2>1, <2>4 DEF ChildExits, ProgramEnds, program, pipes
  <2> QED BY <2>2, <2>3, <2>4 DEF Program
<1>3. child[w] \in Alive
  BY DEF Program, ChildHeader, ChildExec, ChildReads, ChildWrites, ChildExits,
     Alive
<1>4. pc[w] \in InCgi \ {"closeall", "wait"} /\ pc[w] # "done"
  BY <1>3 DEF EofInv, InCgi, AfterFork, Alive
<1>5. fwd[w] \in Nat /\ outPipe[w] \in Nat /\ made[w] \in Nat
  BY HttpdAssumption DEF TypeOK
<1>6. /\ pc[w] = "forward" => fwd[w] + outPipe[w] + 1 = made[w]
      /\ pc[w] # "forward" => fwd[w] + outPipe[w] = made[w]
  BY DEF EofInv
<1>7. /\ child'[w] \in Alive => <<"out1", w>> \in held'[w]
      /\ child'[w] \in Alive \union {"zombie"}
      /\ child'[w] \in {"none", "forked", "exec"} => made'[w] = 0
      /\ pc[w] = "forward" => fwd[w] + outPipe'[w] + 1 = made'[w]
      /\ pc[w] # "forward" => fwd[w] + outPipe'[w] = made'[w]
  <2>1. CASE ChildHeader(w)
    <3>1. child'[w] = "exec" /\ child[w] = "forked" /\ UNCHANGED <<made, outPipe>>
      BY <2>1 DEF ChildHeader, TypeOK, pipes
    <3>2. held'[w] = held[w] \ {<<"in1", w>>, <<"out0", w>>}
      BY <2>1 DEF ChildHeader, TypeOK
    <3>3. <<"out1", w>> \in held'[w]
      BY <1>3, <3>2 DEF EofInv
    <3> QED BY <3>1, <3>3 DEF EofInv, Alive
  <2>2. CASE ChildExec(w)
    <3>1. child[w] = "exec" /\ made[w] = 0
      BY <2>2 DEF ChildExec, EofInv
    <3>2. fwd[w] = 0 /\ outPipe[w] = 0 /\ pc[w] # "forward"
      BY <1>5, <1>6, <3>1
    <3>3. CASE child' = [child EXCEPT ![w] = "run"] /\ UNCHANGED <<held, made, outPipe>>
      <4>1. child'[w] = "run"
        BY <3>3 DEF TypeOK
      <4> QED BY <1>3, <3>3, <4>1 DEF EofInv, Alive
    <3>4. ASSUME NEW n \in 0..Buffered, made' = [made EXCEPT ![w] = n],
                 outPipe' = [outPipe EXCEPT ![w] = n], ProgramEnds(w)
          PROVE  <1>7!1 /\ <1>7!2 /\ <1>7!3 /\ <1>7!4 /\ <1>7!5
      <4>1. child'[w] = "zombie" /\ made'[w] = n /\ outPipe'[w] = n
        BY <3>4 DEF ProgramEnds, TypeOK
      <4>2. n \in Nat
        BY HttpdAssumption
      <4> QED BY <3>2, <4>1, <4>2 DEF Alive
    <3> QED BY <2>2, <3>3, <3>4 DEF ChildExec
  <2>3. CASE ChildReads(w)
    BY <1>3, <2>3 DEF ChildReads, EofInv, Alive
  <2>4. CASE ChildWrites(w)
    <3>1. child' = child /\ held' = held /\ child[w] = "run"
      BY <2>4 DEF ChildWrites
    <3>2. made'[w] = made[w] + 1 /\ outPipe'[w] = outPipe[w] + 1
      BY <2>4 DEF ChildWrites, TypeOK
    <3>3. /\ pc[w] = "forward" => fwd[w] + outPipe'[w] + 1 = made'[w]
          /\ pc[w] # "forward" => fwd[w] + outPipe'[w] = made'[w]
      BY <1>5, <1>6, <3>2
    <3> QED BY <1>3, <3>1, <3>3 DEF EofInv, Alive
  <2>5. CASE ChildExits(w)
    <3>1. child'[w] = "zombie" /\ UNCHANGED <<made, outPipe>>
      BY <2>5 DEF ChildExits, ProgramEnds, TypeOK, pipes
    <3> QED BY <3>1 DEF EofInv, Alive
  <2> QED BY <2>1, <2>2, <2>3, <2>4, <2>5 DEF Program
<1>8. child'[w] # "none"
  BY <1>7 DEF Alive
<1> QED BY ZenonT(60), <1>1, <1>2, <1>4, <1>7, <1>8 DEF EofInv

LEMMA NextEofInv ==
  TypeOK /\ BacklogInv /\ FdInv /\ EofInv /\ [Next]_vars => EofInv'
<1> SUFFICES ASSUME TypeOK, BacklogInv, FdInv, EofInv, [Next]_vars PROVE EofInv'
  OBVIOUS
<1>1. CASE Accept
  <2>1. UNCHANGED <<fwd, child, held, made, outPipe>>
    BY <1>1 DEF Accept, program, pipes
  <2>2. PICK w \in Conns, q \in {"line", "orphan"} : pc[w] = "idle" /\ Goto(w, q)
    <3>1. backlog \in Seq(Conns) /\ backlog # <<>>
      BY <1>1 DEF Accept, TypeOK
    <3>2. Head(backlog) \in Conns /\ pc[Head(backlog)] = "idle"
      BY <3>1, BacklogFacts DEF BacklogInv
    <3> QED BY <1>1, <3>2 DEF Accept
  <2> QED BY <2>1, <2>2, EofInvMove DEF InCgi, AfterFork
<1>2. ASSUME UNCHANGED <<pc, fwd, child, held, made, outPipe>> PROVE EofInv'
  BY <1>2 DEF EofInv
<1>3. ASSUME NEW w \in Conns,
             \/ Connect(w) \/ ClientSends(w) \/ ClientLeaves(w) \/ Exit(w)
             \/ SigPipe(w)
      PROVE  EofInv'
  BY <1>2, <1>3 DEF Connect, ClientSends, ClientLeaves, Exit, SigPipe, thread,
     program, pipes
<1>4. ASSUME NEW w \in Conns, Thread(w), ~Exit(w) PROVE EofInv'
  BY <1>4, EofInvOutside, EofInvFork, EofInvRelay DEF Thread
<1>5. CASE UNCHANGED vars
  BY <1>2, <1>5 DEF vars, thread, program, pipes
<1> QED BY <1>1, <1>3, <1>4, <1>5, EofInvProgram DEF Next

\* A thread that takes the end of the pipe for the end of the answer has sent on
\* every byte its program wrote, and that program is over.
THEOREM EofIsComplete == Spec => []EofMeansComplete
<1>1. Init => TypeOK /\ BacklogInv /\ FdInv /\ EofInv
  BY InitTypeOK, InitFdInv, InitEofInv
<1>2. /\ TypeOK /\ BacklogInv /\ FdInv /\ EofInv
      /\ [Next]_vars
      => TypeOK' /\ BacklogInv' /\ FdInv' /\ EofInv'
  BY NextTypeOK, NextBacklogInv, NextFdInv, NextEofInv
<1>3. TypeOK /\ EofInv => EofMeansComplete
  <2> SUFFICES ASSUME TypeOK, EofInv, NEW w \in Conns
               PROVE  /\ pc[w] \in {"closeall", "wait"} =>
                            child[w] = "zombie" /\ fwd[w] = made[w]
                      /\ pc[w] = "done" /\ child[w] # "none" =>
                            child[w] = "reaped" /\ fwd[w] = made[w]
    BY DEF EofMeansComplete
  <2>1. fwd[w] \in Nat /\ made[w] \in Nat
    BY DEF TypeOK
  <2>2. pc[w] # "forward" /\ outPipe[w] = 0 => fwd[w] = made[w]
    <3>1. pc[w] # "forward" => fwd[w] + outPipe[w] = made[w]
      BY DEF EofInv
    <3> QED BY <2>1, <3>1
  <2> QED BY <2>2 DEF EofInv
<1> QED BY <1>1, <1>2, <1>3, PTL DEF Spec

=============================================================================
