------------------------------ MODULE TcpServers ------------------------------
(***************************************************************************)
(* Three servers that read from one client at a time in each process:       *)
(* easy_socket serves its clients in turn, thread_tcp gives each a thread    *)
(* that it joins at once, and proc_socket forks twice for each client, so    *)
(* that the process that reads is a grandchild nobody waits for.             *)
(*                                                                         *)
(* A grandchild leaves only the inner loop when its client quits: it goes on *)
(* as one more process that accepts.  Nobody but the reader closes a         *)
(* client's socket, so its forefathers keep it open for ever.                *)
(***************************************************************************)
EXTENDS Integers, Sequences, FiniteSets

CONSTANTS
    Users,      \* clients; each connects once
    MaxProcs,   \* processes the limit allows, those not waited for included
    MaxOpen,    \* clients' sockets that fit into a process's table
    NoSock      \* the -1 that a failed accept leaves in ret

VARIABLES
    design,     \* "turn" (easy_socket), "thread" or "process"
    listening,  \* whether makesock succeeded
    at,         \* where each process is; "none" if there is none of this number
    parent,     \* who waits for it; 0 for the first process and for orphans
    ret,        \* its local variable ret: the socket it read or will read from
    open,       \* the clients' sockets in its table
    queue,      \* clients waiting for accept, oldest first
    user,       \* "away", "here" or "quit"
    unread      \* messages that wait in each client's socket

tcpVars == <<design, listening, at, parent, ret, open, queue, user, unread>>

Procs == 1..MaxProcs
Free == {p \in Procs : at[p] = "none"}
NewProc == CHOOSE p \in Free : \A q \in Free : p <= q

TcpInit ==
    /\ design \in {"turn", "thread", "process"}
    /\ listening = FALSE
    /\ at = [p \in Procs |-> IF p = 1 THEN "start" ELSE "none"]
    /\ parent = [p \in Procs |-> 0]
    /\ ret = [p \in Procs |-> NoSock]
    /\ open = [p \in Procs |-> {}]
    /\ queue = <<>>
    /\ user = [c \in Users |-> "away"]
    /\ unread = [c \in Users |-> 0]

-----------------------------------------------------------------------------
(* Clients (external) *)

Arrive(c) ==
    /\ listening /\ user[c] = "away"
    /\ user' = [user EXCEPT ![c] = "here"]
    /\ queue' = Append(queue, c)
    /\ UNCHANGED <<design, listening, at, parent, ret, open, unread>>

Send(c) ==
    /\ user[c] = "here" /\ unread[c] = 0
    /\ unread' = [unread EXCEPT ![c] = 1]
    /\ UNCHANGED <<design, listening, at, parent, ret, open, queue, user>>

Depart(c) ==
    /\ user[c] = "here"
    /\ user' = [user EXCEPT ![c] = "quit"]
    /\ UNCHANGED <<design, listening, at, parent, ret, open, queue, unread>>

-----------------------------------------------------------------------------
(* The server *)

Goto(p, q) == at' = [at EXCEPT ![p] = q]

\* Process p is over: its table is closed, its children have no parent any more
\* (those that are over disappear), and it stays until its parent has waited.
Exits(p) ==
    /\ at' = [q \in Procs |->
                CASE q = p -> IF parent[p] = 0 THEN "none" ELSE "zombie"
                  [] q # p /\ parent[q] = p /\ at[q] = "zombie" -> "none"
                  [] OTHER -> at[q]]
    /\ parent' = [q \in Procs |-> IF parent[q] = p THEN 0 ELSE parent[q]]
    /\ open' = [open EXCEPT ![p] = {}]

\* makesock of easy_socket: a failure is a negative number for main
StartTurn ==
    /\ at[1] = "start" /\ design = "turn"
    /\ listening' \in BOOLEAN
    /\ Goto(1, "accept")
    /\ UNCHANGED <<design, parent, ret, open, queue, user, unread>>

\* makesock of thread_tcp: a failure is the end
StartThread ==
    /\ at[1] = "start" /\ design = "thread"
    /\ \/ listening' = TRUE /\ Goto(1, "accept") /\ UNCHANGED <<parent, open>>
       \/ listening' = FALSE /\ Exits(1)
    /\ UNCHANGED <<design, ret, queue, user, unread>>

\* makesock of proc_socket: as in easy_socket, but main does not look at accept
StartProcess ==
    /\ at[1] = "start" /\ design = "process"
    /\ listening' \in BOOLEAN
    /\ Goto(1, "accept")
    /\ UNCHANGED <<design, parent, ret, open, queue, user, unread>>

Startup == StartTurn \/ StartThread \/ StartProcess

\* accept returns the oldest client that waits
Takes(p) ==
    /\ listening /\ queue # <<>> /\ Cardinality(open[p]) < MaxOpen
    /\ ret' = [ret EXCEPT ![p] = Head(queue)]
    /\ open' = [open EXCEPT ![p] = @ \union {Head(queue)}]
    /\ queue' = Tail(queue)

\* The accept of easy_socket: a failure ends the program.  The first accept reads
\* len before it has a value: if it is negative, the client is lost and accept fails.
AcceptTurn(p) ==
    /\ at[p] = "accept" /\ design = "turn"
    /\ \/ Takes(p) /\ Goto(p, "read") /\ UNCHANGED parent
       \/ ~listening /\ Exits(p) /\ UNCHANGED <<ret, queue>>
       \/ /\ listening /\ queue # <<>> /\ ret[p] = NoSock
          /\ queue' = Tail(queue)
          /\ Exits(p)
          /\ UNCHANGED ret
    /\ UNCHANGED <<design, listening, user, unread>>

\* The accept of thread_tcp: pthread_create, assumed to succeed with one thread at a
\* time, and pthread_join at once, so that the thread runs in place of main
AcceptThread(p) ==
    /\ at[p] = "accept" /\ design = "thread"
    /\ Takes(p) /\ Goto(p, "read")
    /\ UNCHANGED <<design, listening, parent, user, unread>>

\* The accept of proc_socket, which forks whatever it returned.  That the table is
\* full is noticed before the queue is looked at.
AcceptProcess(p) ==
    /\ at[p] = "accept" /\ design = "process"
    /\ \/ Takes(p)
       \/ /\ ~listening \/ Cardinality(open[p]) >= MaxOpen
          /\ ret' = [ret EXCEPT ![p] = NoSock]
          /\ UNCHANGED <<open, queue>>
    /\ Goto(p, "fork")
    /\ UNCHANGED <<design, listening, parent, user, unread>>

Accept(p) == AcceptTurn(p) \/ AcceptThread(p) \/ AcceptProcess(p)

\* fork(): the child c starts with p's variables and table
Child(p, c, there, here) ==
    /\ at' = [at EXCEPT ![c] = there, ![p] = here]
    /\ parent' = [parent EXCEPT ![c] = p]
    /\ ret' = [ret EXCEPT ![c] = ret[p]]
    /\ open' = [open EXCEPT ![c] = open[p]]

\* fault variant: the parent does not wait
Fork_NoWait(p) ==
    /\ at[p] = "fork"
    /\ \/ Free # {} /\ Child(p, NewProc, "fork2", "accept")
       \/ Free = {} /\ Exits(p) /\ UNCHANGED ret
    /\ UNCHANGED <<design, listening, queue, user, unread>>

\* The first fork; if it fails, main returns
Fork(p) ==
    /\ at[p] = "fork"
    /\ \/ Free # {} /\ Child(p, NewProc, "fork2", "wait")
       \/ Free = {} /\ Exits(p) /\ UNCHANGED ret
    /\ UNCHANGED <<design, listening, queue, user, unread>>

\* fault variant: if(fork() < 0) exit(1), so child and grandchild both read
ForkAgain_BothRead(p) ==
    /\ at[p] = "fork2"
    /\ \/ Free # {} /\ Child(p, NewProc, "read", "read")
       \/ Free = {} /\ Exits(p) /\ UNCHANGED ret
    /\ UNCHANGED <<design, listening, queue, user, unread>>

\* if(fork() > 0) exit(1): the grandchild reads, and so does the child itself if
\* the fork fails, for its parent to wait for
ForkAgain(p) ==
    /\ at[p] = "fork2"
    /\ \/ /\ Free # {}
          /\ at' = [at EXCEPT ![NewProc] = "read",
                              ![p] = IF parent[p] = 0 THEN "none" ELSE "zombie"]
          /\ parent' = [parent EXCEPT ![NewProc] = 0]
          /\ ret' = [ret EXCEPT ![NewProc] = ret[p]]
          /\ open' = [open EXCEPT ![NewProc] = open[p], ![p] = {}]
       \/ Free = {} /\ Goto(p, "read") /\ UNCHANGED <<parent, ret, open>>
    /\ UNCHANGED <<design, listening, queue, user, unread>>

\* waitpid(-1, &status, 0)
Wait(p) ==
    /\ at[p] = "wait"
    /\ \E q \in Procs :
          /\ parent[q] = p /\ at[q] = "zombie"
          /\ at' = [at EXCEPT ![q] = "none", ![p] = "accept"]
          /\ parent' = [parent EXCEPT ![q] = 0]
    /\ UNCHANGED <<design, listening, ret, open, queue, user, unread>>

\* read: a text that waits, or the end
Text(p) ==
    /\ unread[ret[p]] > 0
    /\ unread' = [unread EXCEPT ![ret[p]] = 0]
    /\ UNCHANGED <<at, open>>

End(p) == unread[ret[p]] = 0 /\ user[ret[p]] = "quit"

CloseAndAccept(p) ==
    /\ open' = [open EXCEPT ![p] = @ \ {ret[p]}]
    /\ Goto(p, "accept")
    /\ UNCHANGED unread

\* The inner loop of easy_socket, and the close behind it
ReadTurn(p) ==
    /\ at[p] = "read" /\ design = "turn"
    /\ Text(p) \/ (End(p) /\ CloseAndAccept(p))
    /\ UNCHANGED <<design, listening, parent, ret, queue, user>>

\* fault variant: the end does not leave the loop of thread_sev
ReadThread_NoBreak(p) ==
    /\ at[p] = "read" /\ design = "thread"
    /\ Text(p)
    /\ UNCHANGED <<design, listening, parent, ret, queue, user>>

\* thread_sev: the thread closes and ends, and main has joined it
ReadThread(p) ==
    /\ at[p] = "read" /\ design = "thread"
    /\ Text(p) \/ (End(p) /\ CloseAndAccept(p))
    /\ UNCHANGED <<design, listening, parent, ret, queue, user>>

\* The inner loop of proc_socket: the end closes the socket, twice, and leads back to
\* accept; read(-1) fails for ever, since only 0 ends the loop
ReadProcess(p) ==
    /\ at[p] = "read" /\ design = "process"
    /\ \/ ret[p] = NoSock /\ Goto(p, "spin") /\ UNCHANGED <<open, unread>>
       \/ ret[p] # NoSock /\ (Text(p) \/ (End(p) /\ CloseAndAccept(p)))
    /\ UNCHANGED <<design, listening, parent, ret, queue, user>>

Read(p) == ReadTurn(p) \/ ReadThread(p) \/ ReadProcess(p)

Serves ==
    \/ Startup
    \/ \E p \in Procs : Accept(p) \/ Fork(p) \/ ForkAgain(p) \/ Wait(p) \/ Read(p)

TcpNext ==
    \/ Serves
    \/ \E c \in Users : Arrive(c) \/ Send(c) \/ Depart(c)

-----------------------------------------------------------------------------
(* Properties *)

\* Types; a table holds no more than fits.
TcpTypeOK ==
    /\ at \in [Procs -> {"none", "start", "accept", "fork", "fork2", "wait",
                         "read", "spin", "zombie"}]
    /\ parent \in [Procs -> 0..MaxProcs]
    /\ ret \in [Procs -> Users \union {NoSock}]
    /\ open \in [Procs -> SUBSET Users]
    /\ \A p \in Procs : Cardinality(open[p]) <= MaxOpen
    /\ queue \in Seq(Users)
    /\ user \in [Users -> {"away", "here", "quit"}]
    /\ unread \in [Users -> 0..1]

\* However many processes accept, fork and come back to accept: the one that is on
\* the way to a client, or reads from it, has its socket open, and it is the only
\* one: no text is torn between two readers.
Serving(p) == at[p] \in {"fork", "fork2", "read"} /\ ret[p] # NoSock
OneReaderEach ==
    /\ \A p \in Procs : Serving(p) => ret[p] \in open[p]
    /\ \A p, q \in Procs : Serving(p) /\ Serving(q) /\ ret[p] = ret[q] => p = q

\* thread_tcp joins each thread before the next accept, so a client may wait for all
\* in front of it; but once these have quit its text is read.
WaitersAreRead ==
    \A c \in Users :
        /\ design = "thread" /\ unread[c] = 1
        /\ \A d \in Users \ {c} : user[d] # "here"
        ~> unread[c] = 0

\* The point of forking twice: no process that is over is left unwaited for
\* (each process has at most one child, and only while it waits for it), and the
\* child is gone at once, unless the second fork failed.
ChildrenAreAwaited ==
    \A p \in Procs :
        LET children == {q \in Procs : parent[q] = p} IN
        /\ Cardinality(children) = IF at[p] = "wait" THEN 1 ELSE 0
        /\ at[p] = "none" => open[p] = {} /\ parent[p] = 0
=============================================================================
