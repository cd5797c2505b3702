----------------------------- MODULE SelectServer -----------------------------
(***************************************************************************)
(* select_server/select.c: one thread serves all clients.  gfds[] holds the *)
(* descriptors, select() says which can be read, and one round visits the   *)
(* slots in order: the listener's slot accepts, the others read.  Accepted  *)
(* sockets are blocking: a read() of one that has nothing to read would     *)
(* stop the whole server.                                                   *)
(***************************************************************************)
EXTENDS Integers, Sequences, FiniteSets, FdTable

CONSTANTS
    NClients, \* bound: clients; each connects once
    Listen,   \* the listening socket
    Size,     \* _SIZE_: slots of gfds[]
    MaxSaid   \* bound: messages one client sends

\* Clients are numbered in the order in which they connect
Clients == 1..NClients

ASSUME SelectAssumption ==
    /\ NClients \in Nat
    /\ Free \notin Clients \union {Listen}
    /\ Listen \notin Clients
    /\ Size \in Nat \ {0}
    /\ MaxSaid \in Nat

VARIABLES
    fdtab,    \* the descriptor table
    gfds,     \* gfds[]: a descriptor, or None
    max_fd,   \* the highest number select() is asked about, so far
    rfds,     \* the set select() returned
    k,        \* the slot the round is at; Size: before select()
    backlog,  \* clients waiting for accept, oldest first
    client,   \* "away", "connected", "quit", or "reset" (its error not read yet)
    said,     \* messages each client has sent
    heard     \* messages of each client the server has read

peers == <<backlog, client, said>>
vars == <<fdtab, gfds, max_fd, rfds, k, peers, heard>>

None == -1
Slots == 0..Size - 1

Init ==
    /\ fdtab = [EmptyTable EXCEPT ![FirstFd] = Listen]
    /\ gfds = [m \in Slots |-> IF m = 0 THEN FirstFd ELSE None]
    /\ max_fd = FirstFd
    /\ rfds = {}
    /\ k = Size
    /\ backlog = <<>>
    /\ client = [c \in Clients |-> "away"]
    /\ said = [c \in Clients |-> 0]
    /\ heard = [c \in Clients |-> 0]

-----------------------------------------------------------------------------
(* Clients (external) *)

Connect(c) ==
    /\ client[c] = "away" /\ \A b \in 1..c - 1 : client[b] # "away"
    /\ client' = [client EXCEPT ![c] = "connected"]
    /\ backlog' = Append(backlog, c)
    /\ UNCHANGED <<fdtab, gfds, max_fd, rfds, k, said, heard>>

Say(c) ==
    /\ client[c] = "connected"
    /\ said[c] < MaxSaid
    /\ said' = [said EXCEPT ![c] = @ + 1]
    /\ UNCHANGED <<fdtab, gfds, max_fd, rfds, k, backlog, client, heard>>

Quit(c) ==
    /\ client[c] = "connected"
    /\ \E how \in {"quit", "reset"} : client' = [client EXCEPT ![c] = how]
    /\ UNCHANGED <<fdtab, gfds, max_fd, rfds, k, backlog, said, heard>>

-----------------------------------------------------------------------------
(* The server *)

\* A read of the object returns at once
Readable(o) ==
    IF o = Listen THEN backlog # <<>>
                  ELSE heard[o] < said[o] \/ client[o] \in {"quit", "reset"}

Watched == {gfds[m] : m \in Slots} \ {None}

\* The loop over gfds[] raises max_fd but never lowers it (fault
\* variant: it is not kept up to date)
Highest_Stale == max_fd

Highest == CHOOSE f \in Watched \union {max_fd} :
              \A g \in Watched \union {max_fd} : g <= f

\* FD_ZERO, FD_SET for every slot, select(max_fd+1, ...); with nothing to read
\* it times out and the loop starts again
Select ==
    /\ k = Size
    /\ max_fd' = Highest
    /\ rfds' = {f \in Watched : f <= max_fd' /\ Readable(fdtab[f])}
    /\ k' = IF rfds' = {} THEN Size ELSE 0
    /\ UNCHANGED <<fdtab, gfds, peers, heard>>

\* fault variant: the slot is visited without FD_ISSET
IsSet_Unchecked == k < Size /\ gfds[k] # None

IsSet == k < Size /\ gfds[k] # None /\ gfds[k] \in rfds

Visited == k' = k + 1

FreeSlots == {m \in Slots : gfds[m] = None}
FirstFree == CHOOSE m \in FreeSlots : \A n \in FreeSlots : m <= n

\* accept, into the first free slot.  Without one the client stays connected,
\* its descriptor open, and nobody ever reads it.
Accept ==
    /\ IsSet /\ gfds[k] = FirstFd
    /\ \/ /\ CanOpen(fdtab) /\ backlog # <<>>
          /\ fdtab' = Open(fdtab, Head(backlog))
          /\ backlog' = Tail(backlog)
          /\ gfds' = IF FreeSlots = {} THEN gfds
                       ELSE [gfds EXCEPT ![FirstFree] = LowestFree(fdtab)]
       \/ ~CanOpen(fdtab) /\ UNCHANGED <<fdtab, backlog, gfds>>
    /\ Visited
    /\ UNCHANGED <<max_fd, rfds, client, said, heard>>

\* fault variants: the slot is not emptied; the quit is only logged
Gone_KeepsSlot ==
    /\ fdtab' = Close(fdtab, {gfds[k]})
    /\ UNCHANGED gfds

Gone_Logged == UNCHANGED <<fdtab, gfds>>

\* close, and the slot is free again
Gone ==
    /\ fdtab' = Close(fdtab, {gfds[k]})
    /\ gfds' = [gfds EXCEPT ![k] = None]

\* read: all that has come, or the end, or the error of a reset, which is printed;
\* the read after that finds the end
Read ==
    /\ IsSet /\ gfds[k] # FirstFd
    /\ LET c == fdtab[gfds[k]] IN
         \/ /\ heard[c] < said[c]
            /\ heard' = [heard EXCEPT ![c] = said[c]]
            /\ UNCHANGED <<fdtab, gfds, client>>
         \/ /\ heard[c] = said[c] /\ client[c] = "quit"
            /\ Gone
            /\ UNCHANGED <<heard, client>>
         \/ /\ heard[c] = said[c] /\ client[c] = "reset"
            /\ client' = [client EXCEPT ![c] = "quit"]
            /\ UNCHANGED <<fdtab, gfds, heard>>
    /\ Visited
    /\ UNCHANGED <<max_fd, rfds, backlog, said>>

Skip ==
    /\ k < Size /\ ~IsSet
    /\ Visited
    /\ UNCHANGED <<fdtab, gfds, max_fd, rfds, peers, heard>>

Server == Select \/ Accept \/ Read \/ Skip
Next == Server \/ \E c \in Clients : Connect(c) \/ Say(c) \/ Quit(c)

Spec == Init /\ [][Next]_vars /\ WF_vars(Server)

-----------------------------------------------------------------------------
(* Properties *)

TypeOK ==
    /\ fdtab \in [Fds -> Clients \union {Listen, Free}]
    /\ gfds \in [Slots -> Fds \union {None}]
    /\ max_fd \in Fds
    /\ rfds \subseteq Fds
    /\ k \in 0..Size
    /\ backlog \in Seq(Clients)
    /\ client \in [Clients -> {"away", "connected", "quit", "reset"}]
    /\ said \in [Clients -> 0..MaxSaid]
    /\ heard \in [Clients -> 0..MaxSaid]

\* Slots and descriptor table agree: the listener keeps slot 0, every other
\* used slot stands for an open client and no two for the same.
SlotsAreClients ==
    /\ gfds[0] = FirstFd /\ fdtab[FirstFd] = Listen
    /\ \A m \in Slots \ {0} : gfds[m] # None => fdtab[gfds[m]] \in Clients
    /\ \A m, n \in Slots : m # n /\ gfds[m] # None => gfds[m] # gfds[n]

\* The server never blocks in accept or read.  rfds tells of descriptors as they
\* were before the round, and a round closes some and opens new ones: a new
\* client that got a number just closed, in a slot the round has still to
\* visit, would be read although it has said nothing.
NeverBlocks == IsSet => Readable(fdtab[gfds[k]])

\* Whoever has a slot is watched: what it says is read.
HasSlot(c) == \E m \in Slots : gfds[m] # None /\ fdtab[gfds[m]] = c
EverySenderIsRead ==
    \A c \in Clients : HasSlot(c) /\ heard[c] < said[c] ~> heard[c] = said[c]

\* Whoever quits or resets gives back its slot and its descriptor.
QuitsAreClosed ==
    \A c \in Clients : HasSlot(c) /\ client[c] \in {"quit", "reset"} ~> ~HasSlot(c)
=============================================================================
