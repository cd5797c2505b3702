------------------------------ MODULE PollServer ------------------------------
(***************************************************************************)
(* poll_server/server.c: a chat server in one thread.  poll() reports what  *)
(* is ready; one round then visits the entries of pfd[] in order.  What a   *)
(* client says is read into user[its fd].buf, and the entries of all others *)
(* get a pointer to that buffer, to be written when they can be.            *)
(*                                                                         *)
(* user[] is indexed by descriptor, so a record outlives its client and is  *)
(* taken over by the next client with the same number.                      *)
(***************************************************************************)
EXTENDS Integers, Sequences, FiniteSets, FdTable

CONSTANTS
    NClients,  \* bound: clients; each connects once
    Listen,    \* the listening socket
    UserSize,  \* USER_SIZE: clients served at a time
    MaxSaid,   \* bound: messages one client sends
    Leaving,   \* how clients leave: subset of {"fin", "rst"}
    Resetters  \* bound: the clients that may send a reset behind their FIN

\* Clients are numbered in the order in which they connect
Clients == 1..NClients

ASSUME PollAssumption ==
    /\ NClients \in Nat
    /\ Free \notin Clients \union {Listen}
    /\ Listen \notin Clients
    /\ UserSize \in Nat \ {0}
    /\ MaxSaid \in Nat
    /\ Leaving \subseteq {"fin", "rst"}
    /\ Resetters \subseteq Clients

VARIABLES
    fdtab,    \* the descriptor table
    pfd,      \* pfd[0..usercounters-1]; its length is usercounters
    j,        \* the entry the round is at; past the end: in poll()
    user,     \* user[]: addr, datatowrite and buf of every descriptor
    backlog,  \* clients waiting for accept, oldest first
    client,   \* "away", "connected", "fin" (sends no more), "pipe" (reset behind its
              \* FIN), "rst" (reset), or "dead" (reset, and its error taken)
    said,     \* messages each client has sent
    inq,      \* messages that wait in each client's socket
    told,     \* the texts written to each client
    busy,     \* the clients that were told that the network is busy
    status    \* "up", or "sigpipe": killed by a write

peers == <<client, said, inq>>
vars == <<fdtab, pfd, j, user, backlog, peers, told, busy, status>>

\* A text is what one read() finds: messages <<client, number>> in sequence;
\* the empty text is the zeroed buffer.
Message == Clients \X (1..MaxSaid)
Empty == <<>>
NoOne == 0
Events == {"in", "out", "err", "hup"}

Init ==
    /\ fdtab = [EmptyTable EXCEPT ![FirstFd] = Listen]
    /\ pfd = <<[fd |-> FirstFd, out |-> FALSE, revents |-> {}]>>
    /\ j = 2
    /\ user = [f \in Fds |-> [addr |-> Free, data |-> NoOne, buf |-> Empty]]
    /\ backlog = <<>>
    /\ client = [c \in Clients |-> "away"]
    /\ said = [c \in Clients |-> 0]
    /\ inq = [c \in Clients |-> <<>>]
    /\ told = [c \in Clients |-> <<>>]
    /\ busy = {}
    /\ status = "up"

-----------------------------------------------------------------------------
(* Clients (external) *)

Connect(c) ==
    /\ status = "up"
    /\ client[c] = "away" /\ \A b \in 1..c - 1 : client[b] # "away"
    /\ client' = [client EXCEPT ![c] = "connected"]
    /\ backlog' = Append(backlog, c)
    /\ UNCHANGED <<fdtab, pfd, j, user, said, inq, told, busy, status>>

Say(c) ==
    /\ status = "up"
    /\ client[c] = "connected"
    /\ said[c] < MaxSaid
    /\ said' = [said EXCEPT ![c] = @ + 1]
    /\ inq' = [inq EXCEPT ![c] = Append(@, <<c, said'[c]>>)]
    /\ UNCHANGED <<fdtab, pfd, j, user, backlog, client, told, busy, status>>

Quit(c) ==
    /\ status = "up"
    /\ client[c] = "connected"
    /\ \E how \in Leaving : client' = [client EXCEPT ![c] = how]
    /\ UNCHANGED <<fdtab, pfd, j, user, backlog, said, inq, told, busy, status>>

\* The host of a client that has closed answers a text with a reset; one that only
\* shut down its sending half resets when it will.
RstBehind(c) ==
    /\ status = "up"
    /\ client[c] = "fin" /\ c \in Resetters
    /\ client' = [client EXCEPT ![c] = "pipe"]
    /\ UNCHANGED <<fdtab, pfd, j, user, backlog, said, inq, told, busy, status>>

-----------------------------------------------------------------------------
(* poll() *)

\* The conditions the kernel finds on a socket.  The texts are small: a socket
\* can always be written.
Condition(o) ==
    IF o = Listen
      THEN IF backlog # <<>> THEN {"in"} ELSE {}
      ELSE {"out"}
           \union (IF inq[o] # <<>> \/ client[o] # "connected" THEN {"in"} ELSE {})
           \union (IF client[o] \in {"rst", "pipe"} THEN {"err"} ELSE {})
           \union (IF client[o] \in {"rst", "pipe", "dead"} THEN {"hup"} ELSE {})

\* events |= ~POLLIN and events |= ~POLLOUT clear nothing: input stays asked
\* for, and so does output from the first text on.
Asked(p) == {"in", "err", "hup"} \union (IF p.out THEN {"out"} ELSE {})
Ready(p) == Condition(fdtab[p.fd]) \intersect Asked(p)

\* fault variant: poll(pfd, usercounters - 1, TIME_OUT)
Poll_OffByOne ==
    /\ status = "up" /\ j > Len(pfd)
    /\ \E k \in 1..Len(pfd) : (k < Len(pfd) \/ k = 1) /\ Ready(pfd[k]) # {}
    /\ pfd' = [k \in 1..Len(pfd) |->
                 IF k < Len(pfd) \/ k = 1
                   THEN [pfd[k] EXCEPT !.revents = Ready(pfd[k])] ELSE pfd[k]]
    /\ j' = 1
    /\ UNCHANGED <<fdtab, user, backlog, peers, told, busy, status>>

Poll ==
    /\ status = "up" /\ j > Len(pfd)
    /\ \E k \in 1..Len(pfd) : Ready(pfd[k]) # {}
    /\ pfd' = [k \in 1..Len(pfd) |-> [pfd[k] EXCEPT !.revents = Ready(pfd[k])]]
    /\ j' = 1
    /\ UNCHANGED <<fdtab, user, backlog, peers, told, busy, status>>

-----------------------------------------------------------------------------
(* One round *)

InRound == status = "up" /\ j <= Len(pfd)
AtListener == pfd[j].fd = FirstFd /\ "in" \in pfd[j].revents
Reports(ev) == InRound /\ ~AtListener /\ ev \in pfd[j].revents
Here == fdtab[pfd[j].fd]      \* the client at the entry
Visited == j' = j + 1

\* accept; beyond USER_SIZE clients the new one is told so and left at that, with
\* a write that kills the server if a reset came behind its FIN
AcceptWith(limit) ==
    /\ InRound /\ AtListener
    /\ LET c == Head(backlog)
           sock == LowestFree(fdtab)
       IN \/ /\ CanOpen(fdtab)
             /\ fdtab' = Open(fdtab, c)
             /\ backlog' = Tail(backlog)
             /\ \/ /\ Len(pfd) = limit
                   /\ busy' = busy \union {c}
                   /\ status' = IF client[c] = "pipe" THEN "sigpipe" ELSE status
                   /\ UNCHANGED <<pfd, user>>
                \/ /\ Len(pfd) # limit
                   /\ user' = [user EXCEPT ![sock].addr = c, ![sock].data = NoOne]
                   /\ pfd' = Append(pfd, [fd |-> sock, out |-> FALSE, revents |-> {}])
                   /\ UNCHANGED <<busy, status>>
          \/ /\ ~CanOpen(fdtab)
             /\ UNCHANGED <<fdtab, backlog, pfd, user, busy, status>>
    /\ Visited
    /\ UNCHANGED <<peers, told>>

\* fault variant: the capacity test is one too high
Accept_OffByOne == AcceptWith(UserSize + 2)

Accept == AcceptWith(UserSize + 1)

\* getsockopt(SO_ERROR) takes the error away; the entry stays
Error ==
    /\ Reports("err")
    /\ client' = [client EXCEPT ![Here] = "dead"]
    /\ Visited
    /\ UNCHANGED <<fdtab, pfd, user, backlog, said, inq, told, busy, status>>

\* fault variant: usercounters-- comes first, so the last entry is lost
Leave_WrongLast(records, next) ==
    LET last == pfd[Len(pfd) - 1] IN
    /\ user' = [records EXCEPT ![pfd[j].fd] = records[last.fd]]
    /\ fdtab' = Close(fdtab, {pfd[j].fd})
    /\ pfd' = SubSeq([pfd EXCEPT ![j] = last], 1, Len(pfd) - 1)
    /\ j' = next

\* The last entry takes the place of the one that leaves, and its user record
\* is copied over the leaver's (records: user[] as it was before)
Leave(records, next) ==
    LET last == pfd[Len(pfd)] IN
    /\ user' = [records EXCEPT ![pfd[j].fd] = records[last.fd]]
    /\ fdtab' = Close(fdtab, {pfd[j].fd})
    /\ pfd' = SubSeq([pfd EXCEPT ![j] = last], 1, Len(pfd) - 1)
    /\ j' = next

\* fault variant: without j--, the entry moved here is passed over
HangUp_SkipsMoved ==
    /\ Reports("hup") /\ ~Reports("err")
    /\ Leave(user, j + 1)
    /\ UNCHANGED <<backlog, peers, told, busy, status>>

\* fault variant: a hang-up is logged as an error is, and the entry kept
HangUp_Kept ==
    /\ Reports("hup") /\ ~Reports("err")
    /\ Visited
    /\ UNCHANGED <<fdtab, pfd, user, backlog, peers, told, busy, status>>

HangUp ==
    /\ Reports("hup") /\ ~Reports("err")
    /\ Leave(user, j)
    /\ UNCHANGED <<backlog, peers, told, busy, status>>

Erased(f) == [user EXCEPT ![f].buf = Empty]

\* Every other entry is told to write the buffer of this one
TellOthers ==
    /\ user' = [f \in Fds |->
         CASE f = pfd[j].fd -> [user[f] EXCEPT !.buf = inq[Here]]
           [] f # pfd[j].fd /\ (\E k \in 2..Len(pfd) : pfd[k].fd = f) ->
                [user[f] EXCEPT !.data = pfd[j].fd]
           [] OTHER -> user[f]]
    /\ pfd' = [k \in 1..Len(pfd) |-> [pfd[k] EXCEPT !.out = @ \/ (k # 1 /\ k # j)]]

\* memset and read: a text, an error (a reset since poll), or the end, which a
\* FIN tells even with a reset behind it
Read ==
    /\ Reports("in") /\ ~Reports("err") /\ ~Reports("hup")
    /\ \/ /\ inq[Here] # <<>>
          /\ inq' = [inq EXCEPT ![Here] = <<>>]
          /\ TellOthers
          /\ Visited
          /\ UNCHANGED <<fdtab, client>>
       \/ /\ inq[Here] = <<>> /\ client[Here] = "rst"
          /\ user' = Erased(pfd[j].fd)
          /\ client' = [client EXCEPT ![Here] = "dead"]
          /\ Visited
          /\ UNCHANGED <<fdtab, pfd, inq>>
       \/ /\ inq[Here] = <<>> /\ client[Here] # "rst"
          /\ Leave(Erased(pfd[j].fd), j)
          /\ UNCHANGED <<client, inq>>
    /\ UNCHANGED <<backlog, said, told, busy, status>>

\* write() of the text pointed to, which is then erased where it is; the write to a
\* client that was reset is an error, or SIGPIPE if its FIN came first
Write ==
    /\ Reports("out") /\ pfd[j].revents \intersect {"in", "err", "hup"} = {}
    /\ LET f == pfd[j].fd
           from == user[f].data
       IN \/ /\ from = NoOne
             /\ UNCHANGED <<user, told, client, status>>
          \/ /\ from # NoOne /\ client[Here] \in {"pipe", "dead"}
             /\ status' = "sigpipe"
             /\ UNCHANGED <<user, told, client>>
          \/ /\ from # NoOne /\ client[Here] = "rst"
             /\ client' = [client EXCEPT ![Here] = "dead"]
             /\ UNCHANGED <<user, told, status>>
          \/ /\ from # NoOne /\ client[Here] \notin {"pipe", "dead", "rst"}
             /\ user' = [Erased(from) EXCEPT ![f].data = NoOne]
             /\ told' = IF user[from].buf # Empty
                          THEN [told EXCEPT ![Here] = Append(@, user[from].buf)]
                          ELSE told
             /\ UNCHANGED <<client, status>>
    /\ Visited
    /\ UNCHANGED <<fdtab, pfd, backlog, said, inq, busy>>

Nothing ==
    /\ InRound
    /\ pfd[j].revents = {}
    /\ Visited
    /\ UNCHANGED <<fdtab, pfd, user, backlog, peers, told, busy, status>>

Server == Poll \/ Accept \/ Error \/ HangUp \/ Read \/ Write \/ Nothing

Next ==
    \/ Server
    \/ \E c \in Clients : Connect(c) \/ Say(c) \/ Quit(c) \/ RstBehind(c)

Spec == Init /\ [][Next]_vars /\ WF_vars(Server)

-----------------------------------------------------------------------------
(* Properties *)

Texts == Seq(Message)

\* Types; usercounters stays within pfd[USER_SIZE + 1].
TypeOK ==
    /\ fdtab \in [Fds -> Clients \union {Listen, Free}]
    /\ pfd \in Seq([fd : Fds, out : BOOLEAN, revents : SUBSET Events])
    /\ Len(pfd) \in 1..UserSize + 1
    /\ j \in Nat \ {0}
    /\ user \in [Fds -> [addr : Clients \union {Free},
                         data : Fds \union {NoOne}, buf : Texts]]
    /\ backlog \in Seq(Clients)
    /\ client \in [Clients -> {"away", "connected", "fin", "pipe", "rst", "dead"}]
    /\ said \in [Clients -> 0..MaxSaid]
    /\ inq \in [Clients -> Texts]
    /\ told \in [Clients -> Seq(Texts)]
    /\ busy \subseteq Clients
    /\ status \in {"up", "sigpipe"}

\* However clients come and go, pfd[] is compact and complete: the listener
\* first, then one entry for every client that has a descriptor and was not
\* turned away, none twice, and the record of its descriptor is its own.
Entries == {pfd[k].fd : k \in 2..Len(pfd)}
EntriesAreClients ==
    /\ pfd[1].fd = FirstFd /\ fdtab[FirstFd] = Listen
    /\ \A k, l \in 1..Len(pfd) : k # l => pfd[k].fd # pfd[l].fd
    /\ \A f \in Entries : fdtab[f] \in Clients /\ user[f].addr = fdtab[f]
    /\ \A f \in Fds : fdtab[f] \in Clients =>
          (f \in Entries <=> fdtab[f] \notin busy)

\* A round passes over no entry, even those that change place while it runs:
\* at its end none is left that poll reported as hung up (but for those whose
\* error was taken this round).
RoundIsComplete ==
    j > Len(pfd) =>
        \A k \in 1..Len(pfd) : "hup" \in pfd[k].revents => "err" \in pfd[k].revents

\* What a client said is read, unless it resets the connection or a write kills the
\* server.
Served(c) == \E f \in Entries : fdtab[f] = c
EverySenderIsRead ==
    \A c \in Clients :
        Served(c) /\ inq[c] # <<>> ~>
            inq[c] = <<>> \/ client[c] \in {"rst", "pipe", "dead"} \/ status # "up"

\* A client that left gives back its entry and its descriptor, however it left and
\* whatever is still to be written to it, unless a write kills the server.
LeaversAreClosed ==
    \A c \in Clients :
        Served(c) /\ client[c] # "connected" ~> ~Served(c) \/ status # "up"

\* server.c:197 "tell other sockets to write": what a client said goes to the
\* others ...
OnlyToOthers ==
    \A c \in Clients : \A i \in 1..Len(told[c]) :
        \A n \in 1..Len(told[c][i]) : told[c][i][n][1] # c

\* ... and each of them that stays gets it, at least if nobody says anything else.
Told(c, f, t) ==
    \E e \in Entries :
        /\ fdtab[e] = c /\ client[c] = "connected"
        /\ user[e].data = f /\ user[f].buf = t
Has(c, t) == \E i \in 1..Len(told[c]) : told[c][i] = t
OthersAreTold ==
    \A c \in Clients, f \in Fds, m \in Message :
        Told(c, f, <<m>>) ~>
            \/ Has(c, <<m>>) \/ client[c] # "connected" \/ status # "up"
            \/ \E n \in Message \ {m} : said[n[1]] >= n[2]
=============================================================================
