------------------------------ MODULE EpollServer ------------------------------
(***************************************************************************)
(* epoll/server.c: an edge-triggered server in one thread.  The kernel puts *)
(* a descriptor on its ready list when something happens to it (an edge),   *)
(* and epoll_wait hands the list over, once.  The server accepts one        *)
(* connection per edge of the listener, reads once per edge of a client,    *)
(* and from then on watches that client for output only.                    *)
(***************************************************************************)
EXTENDS Integers, Sequences, FdTable

CONSTANTS
    NClients,  \* bound: clients; each connects once
    Listen,    \* the listening socket
    Instance,  \* the epoll instance, which takes a descriptor as well
    MaxSaid,   \* bound: messages one client sends
    HalfClosers   \* bound: the clients that may shut down their sending half

\* Clients are numbered in the order in which they connect
Clients == 1..NClients

ASSUME EpollAssumption ==
    /\ NClients \in Nat
    /\ {Free, Listen, Instance} \intersect Clients = {}
    /\ Free # Listen /\ Free # Instance /\ Listen # Instance
    /\ FirstFd < LastFd
    /\ MaxSaid \in Nat
    /\ HalfClosers \subseteq Clients

VARIABLES
    status,    \* "up", or "sigpipe": killed by a write
    fdtab,     \* the descriptor table
    interest,  \* what each descriptor is registered for: "none", "in", "out"
    ready,     \* the kernel's ready list
    evs,       \* events of this round still to be handled
    backlog,   \* clients waiting for accept, oldest first
    client,    \* "away", "connected", "half" (sends no more), "closed",
               \* "provoked" (closed, and written to), "reset"
    error,     \* the pending error of each socket: "none", "reset", "pipe"
    said,      \* messages each client has sent
    heard,     \* messages of each client the server has read
    answered   \* the clients that got an answer

peers == <<backlog, client, error, said>>
vars == <<status, fdtab, interest, ready, evs, peers, heard, answered>>

Init ==
    /\ status = "up"
    /\ fdtab = [EmptyTable EXCEPT ![FirstFd] = Listen, ![FirstFd + 1] = Instance]
    /\ interest = [f \in Fds |-> IF f = FirstFd THEN "in" ELSE "none"]
    /\ ready = <<>>
    /\ evs = <<>>
    /\ backlog = <<>>
    /\ client = [c \in Clients |-> "away"]
    /\ error = [c \in Clients |-> "none"]
    /\ said = [c \in Clients |-> 0]
    /\ heard = [c \in Clients |-> 0]
    /\ answered = {}

-----------------------------------------------------------------------------
(* The ready list (external: the kernel) *)

InList(s, f) == \E i \in 1..Len(s) : s[i] = f
Edge(f) == IF InList(ready, f) THEN ready ELSE Append(ready, f)
\* The list without f, which is in it once at most
Without(f) ==
    LET k == CHOOSE k \in 1..Len(ready) : ready[k] = f IN
      IF InList(ready, f)
        THEN [i \in 1..Len(ready) - 1 |-> IF i < k THEN ready[i] ELSE ready[i + 1]]
        ELSE ready

\* An edge at the descriptor of client c, if the server registered it for one
\* of the kinds in ks
EdgeAt(c, ks) ==
    ready' = IF \E f \in Fds : fdtab[f] = c /\ interest[f] \in ks
               THEN Edge(CHOOSE f \in Fds : fdtab[f] = c) ELSE ready

Unread(c) == heard[c] < said[c]
Ended(c) == client[c] \in {"half", "closed", "provoked", "reset"}

\* What the kernel finds when epoll_wait asks; the socket can always be written
Condition(o) ==
    IF o = Listen
      THEN IF backlog # <<>> THEN {"in"} ELSE {}
      ELSE {"out"} \union (IF Unread(o) \/ Ended(o) THEN {"in"} ELSE {})
                   \union (IF client[o] = "reset" THEN {"hup"} ELSE {})
                   \union (IF error[o] # "none" THEN {"err"} ELSE {})

Reported(f) == Condition(fdtab[f]) \intersect {interest[f], "err", "hup"}

-----------------------------------------------------------------------------
(* Clients (external) *)

Connect(c) ==
    /\ status = "up"
    /\ client[c] = "away" /\ \A b \in 1..c - 1 : client[b] # "away"
    /\ client' = [client EXCEPT ![c] = "connected"]
    /\ backlog' = Append(backlog, c)
    /\ ready' = Edge(FirstFd)
    /\ UNCHANGED <<status, fdtab, interest, evs, error, said, heard, answered>>

\* Data is an edge only for a descriptor registered for input
Say(c) ==
    /\ status = "up"
    /\ client[c] = "connected"
    /\ said[c] < MaxSaid
    /\ said' = [said EXCEPT ![c] = @ + 1]
    /\ EdgeAt(c, {"in"})
    /\ UNCHANGED <<status, fdtab, interest, evs, backlog, client, error, heard,
                   answered>>

\* FIN and RST change the state of the socket, which is an edge whatever it is
\* registered for.  A RST behind a FIN is reported as EPIPE.
Leave(c) ==
    /\ status = "up"
    /\ \E how \in {"half", "closed", "reset"} :
          /\ how = "half" => c \in HalfClosers
          /\ client[c] = "connected" \/ (client[c] = "half" /\ how # "half")
          /\ client' = [client EXCEPT ![c] = how]
          /\ error' = [error EXCEPT ![c] =
                CASE how # "reset" -> @
                  [] how = "reset" /\ client[c] = "connected" -> "reset"
                  [] how = "reset" /\ client[c] = "half" -> "pipe"]
          /\ IF client[c] = "half" /\ how = "closed"
               THEN UNCHANGED ready ELSE EdgeAt(c, {"in", "out"})
    /\ UNCHANGED <<status, fdtab, interest, evs, backlog, said, heard, answered>>

\* The host of a client that has closed answers what the server writes
RstBack(c) ==
    /\ status = "up"
    /\ client[c] = "provoked"
    /\ client' = [client EXCEPT ![c] = "reset"]
    /\ error' = [error EXCEPT ![c] = "pipe"]
    /\ EdgeAt(c, {"in", "out"})
    /\ UNCHANGED <<status, fdtab, interest, evs, backlog, said, heard, answered>>

-----------------------------------------------------------------------------
(* The server *)

\* at: the places in the ready list, in order, of what is still so
Live(at) ==
    /\ \A j, k \in DOMAIN at : j < k => at[j] < at[k]
    /\ \A i \in 1..Len(ready) :
          Reported(ready[i]) # {} <=> \E k \in DOMAIN at : at[k] = i

\* epoll_wait: the ready list, without what is no longer so.  Never more than
\* the 32 events it has room for.
Wait ==
    /\ status = "up"
    /\ evs = <<>> /\ ready # <<>>
    /\ \E n \in 0..Len(ready) : \E at \in [1..n -> 1..Len(ready)] :
          /\ Live(at)
          /\ evs' = [k \in 1..n |->
                       [fd |-> ready[at[k]], events |-> Reported(ready[at[k]])]]
    /\ ready' = <<>>
    /\ UNCHANGED <<status, fdtab, interest, peers, heard, answered>>

Reports(ev) == status = "up" /\ evs # <<>> /\ ev \in Head(evs).events
jfd == Head(evs).fd
Handled == evs' = Tail(evs)

Register(f, kind) == interest' = [interest EXCEPT ![f] = kind]

\* One accept per edge.  A client that has already sent, or left, is ready at
\* once.  Without a free descriptor accept fails and the client is left waiting.
AcceptFor(kind) ==
    /\ Reports("in") /\ jfd = FirstFd
    /\ backlog # <<>>
    /\ \/ /\ CanOpen(fdtab)
          /\ LET c == Head(backlog)
                 sock == LowestFree(fdtab)
             IN /\ fdtab' = Open(fdtab, c)
                /\ Register(sock, kind)
                /\ ready' = IF Condition(c) \intersect {kind, "err", "hup"} # {}
                              THEN Edge(sock) ELSE ready
          /\ backlog' = Tail(backlog)
       \/ ~CanOpen(fdtab) /\ UNCHANGED <<fdtab, interest, ready, backlog>>
    /\ Handled
    /\ UNCHANGED <<status, client, error, said, heard, answered>>

\* fault variant: new clients are watched for output
Accept_ForOutput == AcceptFor("out")

Accept == AcceptFor("in")

\* fault variants: the quit is logged, no more; the descriptor is not closed
Gone_Logged == UNCHANGED <<fdtab, interest, ready>>

Gone_NotClosed ==
    /\ Register(jfd, "none")
    /\ ready' = Without(jfd)
    /\ UNCHANGED fdtab

\* epoll_ctl DEL, close, free
Gone ==
    /\ Register(jfd, "none")
    /\ fdtab' = Close(fdtab, {jfd})
    /\ ready' = Without(jfd)

\* read: all that has come, an error, or the end.  After a read the socket is
\* registered for output, and is ready for that at once.
Read_With(then, next) ==
    /\ Reports("in") /\ jfd # FirstFd
    /\ LET c == fdtab[jfd] IN
         \/ /\ Unread(c)
            /\ heard' = [heard EXCEPT ![c] = said[c]]
            /\ then
            /\ next
            /\ UNCHANGED <<fdtab, error>>
         \/ /\ ~Unread(c) /\ error[c] = "reset"
            /\ error' = [error EXCEPT ![c] = "none"]
            /\ Handled
            /\ UNCHANGED <<fdtab, interest, ready, heard>>
         \/ /\ ~Unread(c) /\ error[c] # "reset" /\ Ended(c)
            /\ Gone
            /\ Handled
            /\ UNCHANGED <<error, heard>>
    /\ UNCHANGED <<status, backlog, client, said, answered>>

SwitchToOut == Register(jfd, "out") /\ ready' = Edge(jfd)

\* fault variants: read until nothing is left, on a blocking socket; no
\* epoll_ctl MOD
Read_Drains == Read_With(SwitchToOut, UNCHANGED evs)

Read_NoMod == Read_With(UNCHANGED <<interest, ready>>, Handled)

Read == Read_With(SwitchToOut, Handled)

\* write: an answer, an error, or SIGPIPE, which is not handled.  The client
\* that has closed resets the connection (RstBack).
Write ==
    /\ Reports("out") /\ "in" \notin Head(evs).events
    /\ LET c == fdtab[jfd] IN
         \/ /\ client[c] \in {"connected", "half"}
            /\ answered' = answered \union {c}
            /\ UNCHANGED <<status, client, error>>
         \/ /\ client[c] \in {"closed", "provoked"}
            /\ client' = [client EXCEPT ![c] = "provoked"]
            /\ UNCHANGED <<status, error, answered>>
         \/ /\ error[c] = "reset"
            /\ error' = [error EXCEPT ![c] = "none"]
            /\ UNCHANGED <<status, client, answered>>
         \/ /\ client[c] = "reset" /\ error[c] # "reset"
            /\ status' = "sigpipe"
            /\ UNCHANGED <<client, error, answered>>
    /\ Handled
    /\ UNCHANGED <<fdtab, interest, ready, backlog, said, heard>>

Server == Wait \/ Accept \/ Read \/ Write

Next ==
    \/ Server
    \/ \E c \in Clients : Connect(c) \/ Say(c) \/ Leave(c) \/ RstBack(c)

Spec == Init /\ [][Next]_vars /\ WF_vars(Server)

-----------------------------------------------------------------------------
(* Properties *)

TypeOK ==
    /\ status \in {"up", "sigpipe"}
    /\ fdtab \in [Fds -> Clients \union {Listen, Instance, Free}]
    /\ interest \in [Fds -> {"none", "in", "out"}]
    /\ ready \in Seq(Fds)
    /\ evs \in Seq([fd : Fds, events : SUBSET {"in", "out", "err", "hup"}])
    /\ backlog \in Seq(Clients)
    /\ client \in [Clients -> {"away", "connected", "half", "closed",
                               "provoked", "reset"}]
    /\ error \in [Clients -> {"none", "reset", "pipe"}]
    /\ said \in [Clients -> 0..MaxSaid]
    /\ heard \in [Clients -> 0..MaxSaid]
    /\ answered \subseteq Clients

\* The kernel's items and the descriptor table agree, and no event is left for a
\* descriptor that was closed: the server uses no record it has freed.
ItemsAreClients ==
    /\ \A f \in Fds : interest[f] # "none" <=> fdtab[f] \in Clients \union {Listen}
    /\ \A f, g \in Fds : fdtab[f] \in Clients /\ fdtab[f] = fdtab[g] => f = g
    /\ \A i \in 1..Len(evs) : interest[evs[i].fd] # "none"
    /\ \A i \in 1..Len(ready) : interest[ready[i]] # "none"

\* The sockets block.  The server never waits in accept or read: when it gets to
\* an event, what the event told of is still there.
NeverBlocks ==
    status = "up" /\ evs # <<>> /\ "in" \in Head(evs).events =>
        IF jfd = FirstFd THEN backlog # <<>>
                         ELSE Unread(fdtab[jfd]) \/ Ended(fdtab[jfd])

\* The server dies of a SIGPIPE only if it wrote to a client that had asked and
\* then left: one that never says anything cannot end it.
SilentClientsAreHarmless ==
    status = "sigpipe" => \E c \in Clients : heard[c] > 0 /\ client[c] = "reset"

\* Whoever was accepted and has asked gets an answer, if it waits for it.
Registered(c) == \E f \in Fds : fdtab[f] = c /\ interest[f] # "none"
QuestionsAreAnswered ==
    \A c \in Clients :
        Registered(c) /\ said[c] > 0 ~>
            \/ c \in answered \/ client[c] \notin {"connected", "half"}
            \/ status # "up"

\* Whoever leaves without having asked gives back its descriptor -- unless it
\* resets the connection: the error is printed and the socket kept.
SilentQuitsAreClosed ==
    \A c \in Clients :
        Registered(c) /\ said[c] = 0 /\ client[c] \in {"half", "closed"} ~>
            ~Registered(c) \/ status # "up"
=============================================================================
