-------------------------- MODULE SelectServerProofs --------------------------
(***************************************************************************)
(* The select server never blocks outside select(), for every number of     *)
(* clients, slots and descriptors.                                          *)
(***************************************************************************)
EXTENDS SelectServer, FdTableProofs

-----------------------------------------------------------------------------
(* Types *)

LEMMA InitTypeOK == Init => TypeOK
<1> SUFFICES ASSUME Init PROVE TypeOK
  OBVIOUS
<1> USE SelectAssumption, FdAssumption DEF Init
<1>1. FirstFd \in Fds
  BY DEF Fds
<1>2. fdtab \in [Fds -> Clients \union {Listen, Free}]
  BY DEF EmptyTable
<1>3. gfds \in [Slots -> Fds \union {None}]
  BY <1>1
<1>4. backlog \in Seq(Clients)
  OBVIOUS
<1> QED BY <1>1, <1>2, <1>3, <1>4 DEF TypeOK

\* The descriptors select() is asked about have a highest number.
LEMMA HighestIsFd ==
  ASSUME TypeOK
  PROVE  Highest \in Fds
<1> DEFINE W == Watched \union {max_fd}
<1>1. W \subseteq Fds /\ W # {}
  BY DEF TypeOK, Watched
<1>2. \E f \in W : \A g \in W : g <= f
  BY <1>1, GreatestFd
<1> QED BY <1>1, <1>2 DEF Highest

\* The loop over gfds[] finds a slot that is free, and slot 0 never is.
LEMMA FirstFreeIsFree ==
  ASSUME TypeOK, FreeSlots # {}
  PROVE  FirstFree \in Slots /\ gfds[FirstFree] = None
<1>1. FreeSlots \subseteq Nat
  BY SelectAssumption DEF FreeSlots, Slots
<1>2. \E m \in FreeSlots : \A n \in FreeSlots : m <= n
  BY <1>1, LeastNumber
<1>3. FirstFree \in FreeSlots
  BY <1>2 DEF FirstFree
<1> QED BY <1>3 DEF FreeSlots

LEMMA NextTypeOK ==
  ASSUME TypeOK, [Next]_vars
  PROVE  TypeOK'
<1> USE SelectAssumption DEF TypeOK
<1>1. CASE \E c \in Clients : Connect(c) \/ Say(c) \/ Quit(c)
  <2> PICK c \in Clients : Connect(c) \/ Say(c) \/ Quit(c)
    BY <1>1
  <2>1. CASE Connect(c)
    BY <2>1 DEF Connect
  <2>2. CASE Say(c)
    BY <2>2 DEF Say
  <2>3. CASE Quit(c)
    BY <2>3 DEF Quit
  <2> QED BY <2>1, <2>2, <2>3
<1>2. CASE Select
  <2>1. max_fd' \in Fds
    BY <1>2, HighestIsFd DEF Select
  <2>2. rfds' \subseteq Fds
    BY <1>2 DEF Select, Watched
  <2>3. k' \in 0..Size
    BY <1>2 DEF Select
  <2> QED BY <1>2, <2>1, <2>2, <2>3 DEF Select, peers
<1>3. CASE Accept
  <2>1. fdtab' \in [Fds -> Clients \union {Listen, Free}] /\ backlog' \in Seq(Clients)
    <3>1. CASE /\ backlog # <<>>
               /\ fdtab' = Open(fdtab, Head(backlog))
               /\ backlog' = Tail(backlog)
      <4>1. Head(backlog) \in Clients /\ Tail(backlog) \in Seq(Clients)
        BY <3>1
      <4> QED BY <3>1, <4>1 DEF Open
    <3> QED BY <1>3, <3>1 DEF Accept
  <2>2. gfds' \in [Slots -> Fds \union {None}]
    <3>1. CASE CanOpen(fdtab) /\ gfds' = [gfds EXCEPT ![FirstFree] = LowestFree(fdtab)]
      BY <3>1, LowestFreeIsFree
    <3> QED BY <1>3, <3>1 DEF Accept
  <2>3. k' \in 0..Size
    BY <1>3 DEF Accept, Visited, IsSet
  <2> QED BY <1>3, <2>1, <2>2, <2>3 DEF Accept
<1>4. CASE Read
  <2>1. k \in 0..Size - 1 /\ gfds[k] \in Fds /\ fdtab[gfds[k]] \in Clients \union {Listen, Free}
    BY <1>4 DEF Read, IsSet, Slots
  <2>2. heard' \in [Clients -> 0..MaxSaid]
    BY <1>4 DEF Read
  <2>3. fdtab' \in [Fds -> Clients \union {Listen, Free}]
    BY <1>4 DEF Read, Gone, Close
  <2>4. gfds' \in [Slots -> Fds \union {None}]
    BY <1>4 DEF Read, Gone
  <2>5. k' \in 0..Size
    BY <1>4, <2>1 DEF Read, Visited
  <2>6. client' \in [Clients -> {"away", "connected", "quit", "reset"}]
    BY <1>4 DEF Read
  <2> QED BY <1>4, <2>2, <2>3, <2>4, <2>5, <2>6 DEF Read
<1>5. CASE Skip
  BY <1>5 DEF Skip, Visited, peers
<1>6. CASE UNCHANGED vars
  BY <1>6 DEF vars, peers
<1> QED BY <1>1, <1>2, <1>3, <1>4, <1>5, <1>6 DEF Next, Server

\* Types of the select server, the highest descriptor included.
THEOREM TypeCorrect == Spec => []TypeOK
  BY InitTypeOK, NextTypeOK, PTL DEF Spec

-----------------------------------------------------------------------------
(* The inductive invariant *)

\* A client waits in the queue once, or has one descriptor, or neither.
ClientInv ==
    /\ \A f, g \in Fds : fdtab[f] \in Clients /\ fdtab[f] = fdtab[g] => f = g
    /\ \A f \in Fds : fdtab[f] \in Clients => client[fdtab[f]] # "away"
    /\ \A i \in 1..Len(backlog) :
          client[backlog[i]] # "away" /\ \A f \in Fds : fdtab[f] # backlog[i]
    /\ \A i, j \in 1..Len(backlog) : backlog[i] = backlog[j] => i = j

\* What the round has still to visit can be read.  Numbers are given out at slot
\* 0 only, before the round has closed any, so none of them is in rfds.
RoundInv ==
    /\ \A m \in Slots :
          k <= m /\ gfds[m] # None /\ gfds[m] \in rfds => Readable(fdtab[gfds[m]])
    /\ k = 0 => \A f \in rfds : fdtab[f] # Free

IInv == TypeOK /\ SlotsAreClients /\ ClientInv /\ RoundInv

LEMMA InitIInv == Init => IInv
<1> SUFFICES ASSUME Init PROVE IInv
  OBVIOUS
<1> USE SelectAssumption, FdAssumption DEF Init
<1>1. FirstFd \in Fds /\ 0 \in Slots
  BY DEF Fds, Slots
<1>2. SlotsAreClients
  BY <1>1 DEF SlotsAreClients, EmptyTable, None, Slots, Fds
<1>3. ClientInv
  BY DEF ClientInv, EmptyTable
<1>4. RoundInv
  BY DEF RoundInv, Slots
<1> QED BY InitTypeOK, <1>2, <1>3, <1>4 DEF IInv

\* A client that connects is new to queue and table.
LEMMA ConnectKeepsInv ==
  ASSUME IInv, NEW c \in Clients, Connect(c)
  PROVE  SlotsAreClients' /\ ClientInv' /\ RoundInv'
<1> USE DEF IInv
<1>1. SlotsAreClients'
  BY DEF Connect, SlotsAreClients
<1>2. backlog \in Seq(Clients) /\ fdtab \in [Fds -> Clients \union {Listen, Free}]
  BY DEF TypeOK
<1>3. client' = [client EXCEPT ![c] = "connected"] /\ client[c] = "away"
      /\ backlog' = Append(backlog, c) /\ fdtab' = fdtab
  BY DEF Connect
<1>4. \A f \in Fds : fdtab[f] # c
  BY <1>3 DEF ClientInv
<1>5. \A i \in 1..Len(backlog) : backlog[i] # c
  BY <1>3 DEF ClientInv
<1>6. /\ Len(backlog') = Len(backlog) + 1 /\ Len(backlog) \in Nat
      /\ backlog'[Len(backlog) + 1] = c
      /\ \A i \in 1..Len(backlog) : backlog'[i] = backlog[i]
  BY <1>2, <1>3
<1>7. \A x \in Clients : client'[x] # "away" <=> x = c \/ client[x] # "away"
  BY <1>3 DEF TypeOK
<1>8. ClientInv'
  <2>1. \A f, g \in Fds : fdtab'[f] \in Clients /\ fdtab'[f] = fdtab'[g] => f = g
    BY <1>3 DEF ClientInv
  <2>2. \A f \in Fds : fdtab'[f] \in Clients => client'[fdtab'[f]] # "away"
    BY <1>3, <1>7 DEF ClientInv
  <2>3. \A i \in 1..Len(backlog') :
          client'[backlog'[i]] # "away" /\ \A f \in Fds : fdtab'[f] # backlog'[i]
    <3> SUFFICES ASSUME NEW i \in 1..Len(backlog')
                 PROVE  client'[backlog'[i]] # "away"
                        /\ \A f \in Fds : fdtab'[f] # backlog'[i]
      OBVIOUS
    <3>1. CASE i = Len(backlog) + 1
      BY <3>1, <1>3, <1>4, <1>6, <1>7
    <3>2. CASE i \in 1..Len(backlog)
      <4>1. backlog[i] \in Clients
        BY <3>2, <1>2
      <4> QED BY <3>2, <4>1, <1>3, <1>6, <1>7 DEF ClientInv
    <3> QED BY <3>1, <3>2, <1>6
  <2>4. \A i, j \in 1..Len(backlog') : backlog'[i] = backlog'[j] => i = j
    BY <1>5, <1>6 DEF ClientInv
  <2> QED BY <2>1, <2>2, <2>3, <2>4 DEF ClientInv
<1>9. RoundInv'
  BY <1>2, <1>3, <1>6, <1>7 DEF Connect, RoundInv, Readable, TypeOK, SlotsAreClients
<1> QED BY <1>1, <1>8, <1>9

\* What a client says or does when it quits only adds to what can be read.
LEMMA ClientKeepsInv ==
  ASSUME IInv, NEW c \in Clients, Say(c) \/ Quit(c)
  PROVE  SlotsAreClients' /\ ClientInv' /\ RoundInv'
<1> USE DEF IInv
<1>1. UNCHANGED <<fdtab, gfds, rfds, k, backlog, heard>>
  BY DEF Say, Quit
<1>2. \A x \in Clients : client'[x] = "away" <=> client[x] = "away"
  BY DEF Say, Quit, TypeOK
<1>3. \A x \in Clients : said[x] <= said'[x]
  <2>1. said \in [Clients -> Int]
    BY SelectAssumption DEF TypeOK
  <2>2. said' = said \/ said' = [said EXCEPT ![c] = @ + 1]
    BY DEF Say, Quit
  <2> QED BY <2>1, <2>2
<1>4. \A x \in Clients :
        client[x] \in {"quit", "reset"} => client'[x] \in {"quit", "reset"}
  BY DEF Say, Quit, TypeOK
<1>5. \A i \in 1..Len(backlog) : backlog[i] \in Clients
  BY DEF TypeOK
<1>6. SlotsAreClients'
  BY <1>1 DEF SlotsAreClients
<1>7. ClientInv'
  BY <1>1, <1>2, <1>5 DEF ClientInv
<1>8. RoundInv'
  <2>1. \A o \in Clients \union {Listen} : Readable(o) => Readable(o)'
    <3> SUFFICES ASSUME NEW o \in Clients \union {Listen}, Readable(o)
                 PROVE  Readable(o)'
      OBVIOUS
    <3>1. CASE o = Listen
      BY <3>1, <1>1 DEF Readable
    <3>2. CASE o # Listen
      <4>1. o \in Clients /\ heard[o] \in Nat /\ said[o] \in Nat /\ said'[o] \in Nat
        BY <3>2, NextTypeOK, SelectAssumption DEF TypeOK, Next
      <4> QED BY <3>2, <4>1, <1>1, <1>3, <1>4 DEF Readable
    <3> QED BY <3>1, <3>2
  <2>2. \A m \in Slots : gfds[m] # None => fdtab[gfds[m]] \in Clients \union {Listen}
    BY SelectAssumption DEF SlotsAreClients, Slots
  <2> QED BY <1>1, <2>1, <2>2 DEF RoundInv
<1> QED BY <1>6, <1>7, <1>8

\* select() itself: what it returns can be read, and is open.
LEMMA SelectKeepsInv ==
  ASSUME IInv, Select
  PROVE  SlotsAreClients' /\ ClientInv' /\ RoundInv'
<1> USE DEF IInv
<1>1. UNCHANGED <<fdtab, gfds, backlog, client, said, heard>>
  BY DEF Select, peers
<1>2. \A f \in rfds' : Readable(fdtab[f]) /\ f \in Watched
  BY DEF Select
<1>3. \A f \in Watched : fdtab[f] # Free
  BY SelectAssumption DEF Watched, SlotsAreClients, Slots
<1>4. RoundInv'
  BY <1>1, <1>2, <1>3 DEF RoundInv, Readable
<1> QED BY <1>1, <1>4 DEF SlotsAreClients, ClientInv

\* accept: the round is at slot 0, so every number in rfds is still open, and
\* the new one is not among them.
LEMMA AcceptKeepsInv ==
  ASSUME IInv, Accept
  PROVE  SlotsAreClients' /\ ClientInv' /\ RoundInv'
<1> USE SelectAssumption DEF IInv
<1>1. k = 0
  BY DEF Accept, IsSet, SlotsAreClients, Slots, TypeOK
<1>2. CASE UNCHANGED <<fdtab, backlog, gfds>>
  <2>1. SlotsAreClients'
    BY <1>2 DEF SlotsAreClients
  <2>2. ClientInv'
    BY <1>2 DEF ClientInv, Accept
  <2>3. RoundInv'
    BY <1>1, <1>2 DEF RoundInv, Accept, Visited, Readable, Slots
  <2> QED BY <2>1, <2>2, <2>3
<1>3. CASE /\ CanOpen(fdtab) /\ backlog # <<>>
           /\ fdtab' = Open(fdtab, Head(backlog))
           /\ backlog' = Tail(backlog)
           /\ gfds' = IF FreeSlots = {} THEN gfds
                        ELSE [gfds EXCEPT ![FirstFree] = LowestFree(fdtab)]
  <2> DEFINE new == LowestFree(fdtab)
             c == Head(backlog)
  <2>1. new \in Fds /\ fdtab[new] = Free
    BY <1>3, LowestFreeIsFree
  <2>2. /\ c \in Clients /\ c = backlog[1] /\ Len(backlog) \in Nat \ {0}
        /\ Len(backlog') = Len(backlog) - 1
        /\ \A i \in 1..Len(backlog') : backlog'[i] = backlog[i + 1]
    BY <1>3 DEF TypeOK
  <2>3. /\ fdtab'[new] = c
        /\ \A f \in Fds : f # new => fdtab'[f] = fdtab[f]
    BY <1>3, <2>1 DEF Open, TypeOK
  <2>4. \A m \in Slots : gfds[m] # None =>
            gfds[m] # new /\ fdtab'[gfds[m]] = fdtab[gfds[m]]
    BY <2>1, <2>3 DEF SlotsAreClients, Slots, TypeOK
  <2>5. \A m \in Slots : gfds'[m] = gfds[m] \/ (gfds[m] = None /\ gfds'[m] = new)
    BY <1>3, FirstFreeIsFree DEF TypeOK
  <2>6. \A m, n \in Slots : gfds'[m] = new /\ gfds'[n] = new => m = n
    <3>1. \A m \in Slots : gfds'[m] = new => m = FirstFree
      BY <1>3, <2>1, <2>4, FdAssumption, FirstFreeIsFree DEF TypeOK, Fds, None
    <3> QED BY <3>1
  <2>7. SlotsAreClients'
    <3>1. gfds'[0] = FirstFd /\ fdtab'[FirstFd] = Listen
      BY <2>4, <2>5, FdAssumption DEF SlotsAreClients, Slots, None
    <3>2. \A m \in Slots \ {0} : gfds'[m] # None => fdtab'[gfds'[m]] \in Clients
      BY <2>2, <2>3, <2>4, <2>5 DEF SlotsAreClients
    <3>3. \A m, n \in Slots : m # n /\ gfds'[m] # None => gfds'[m] # gfds'[n]
      BY <2>4, <2>5, <2>6 DEF SlotsAreClients
    <3> QED BY <3>1, <3>2, <3>3 DEF SlotsAreClients
  <2>8. ClientInv'
    <3>1. client' = client
      BY DEF Accept
    <3>2. \A f \in Fds : fdtab[f] # c
      BY <2>2 DEF ClientInv
    <3>3. \A f, g \in Fds : fdtab'[f] \in Clients /\ fdtab'[f] = fdtab'[g] => f = g
      BY <2>1, <2>3, <3>2 DEF ClientInv
    <3>4. \A f \in Fds : fdtab'[f] \in Clients => client'[fdtab'[f]] # "away"
      BY <2>1, <2>2, <2>3, <3>1 DEF ClientInv
    <3>5. \A i \in 1..Len(backlog') :
            client'[backlog'[i]] # "away" /\ \A f \in Fds : fdtab'[f] # backlog'[i]
      <4> SUFFICES ASSUME NEW i \in 1..Len(backlog')
                   PROVE  client'[backlog'[i]] # "away"
                          /\ \A f \in Fds : fdtab'[f] # backlog'[i]
        OBVIOUS
      <4>1. i + 1 \in 1..Len(backlog) /\ i + 1 # 1 /\ 1 \in 1..Len(backlog)
        BY <2>2
      <4>2. backlog'[i] = backlog[i + 1] /\ backlog[i + 1] # c
        BY <2>2, <4>1 DEF ClientInv
      <4> QED BY <2>3, <3>1, <4>1, <4>2 DEF ClientInv
    <3>6. \A i, j \in 1..Len(backlog') : backlog'[i] = backlog'[j] => i = j
      <4> SUFFICES ASSUME NEW i \in 1..Len(backlog'), NEW j \in 1..Len(backlog'),
                          backlog'[i] = backlog'[j]
                   PROVE  i = j
        OBVIOUS
      <4>1. i + 1 \in 1..Len(backlog) /\ j + 1 \in 1..Len(backlog)
        BY <2>2
      <4>2. backlog[i + 1] = backlog[j + 1]
        BY <2>2
      <4>3. i + 1 = j + 1
        BY <4>1, <4>2 DEF ClientInv
      <4> QED BY <4>3
    <3> QED BY <3>3, <3>4, <3>5, <3>6 DEF ClientInv
  <2>9. RoundInv'
    <3>1. k' = 1 /\ rfds' = rfds /\ UNCHANGED <<client, said, heard>>
      BY <1>1 DEF Accept, Visited
    <3>2. new \notin rfds
      BY <1>1, <2>1 DEF RoundInv
    <3> SUFFICES ASSUME NEW m \in Slots, 1 <= m, gfds'[m] # None, gfds'[m] \in rfds
                 PROVE  Readable(fdtab[gfds[m]])'
      BY <3>1 DEF RoundInv
    <3>3. gfds'[m] = gfds[m] /\ fdtab'[gfds[m]] = fdtab[gfds[m]]
      BY <2>4, <2>5, <3>2
    <3>4. fdtab[gfds[m]] \in Clients /\ Readable(fdtab[gfds[m]])
      BY <1>1, <3>3 DEF RoundInv, SlotsAreClients, Slots
    <3> QED BY <3>1, <3>3, <3>4 DEF Readable
  <2> QED BY <2>7, <2>8, <2>9
<1> QED BY <1>2, <1>3 DEF Accept

\* read and close touch the client at the slot, and no other.
LEMMA ReadKeepsInv ==
  ASSUME IInv, Read
  PROVE  SlotsAreClients' /\ ClientInv' /\ RoundInv'
<1> USE SelectAssumption DEF IInv
<1> DEFINE f0 == gfds[k]
           c == fdtab[f0]
<1>1. k \in Slots /\ k # 0 /\ f0 \in Fds /\ c \in Clients
  BY DEF Read, IsSet, SlotsAreClients, Slots, TypeOK
<1>2. UNCHANGED <<rfds, backlog, said>> /\ k' = k + 1
  BY DEF Read, Visited
<1>3. \A m \in Slots : m # k /\ gfds[m] # None => gfds[m] # f0 /\ fdtab[gfds[m]] # c
  BY <1>1 DEF SlotsAreClients, ClientInv, Slots, TypeOK
<1>4. CASE heard' = [heard EXCEPT ![c] = said[c]] /\ UNCHANGED <<fdtab, gfds, client>>
  <2>1. SlotsAreClients' /\ ClientInv'
    BY <1>2, <1>4 DEF SlotsAreClients, ClientInv
  <2>2. RoundInv'
    <3> SUFFICES ASSUME NEW m \in Slots, k + 1 <= m, gfds[m] # None, gfds[m] \in rfds
                 PROVE  Readable(fdtab[gfds[m]])'
      BY <1>1, <1>2, <1>4 DEF RoundInv, Slots
    <3>1. fdtab[gfds[m]] \in Clients /\ fdtab[gfds[m]] # c
      BY <1>1, <1>3 DEF SlotsAreClients, Slots
    <3>2. Readable(fdtab[gfds[m]])
      BY <1>1 DEF RoundInv, Slots
    <3> QED BY <1>2, <1>4, <3>1, <3>2 DEF Readable, TypeOK
  <2> QED BY <2>1, <2>2
<1>5. CASE Gone /\ UNCHANGED <<heard, client>>
  <2>1. \A m \in Slots : gfds'[m] = IF m = k THEN None ELSE gfds[m]
    BY <1>1, <1>5 DEF Gone, TypeOK
  <2>2. \A f \in Fds : fdtab'[f] = IF f = f0 THEN Free ELSE fdtab[f]
    BY <1>5 DEF Gone, Close
  <2>3. \A m \in Slots : gfds'[m] # None =>
            /\ gfds'[m] = gfds[m] /\ gfds[m] \in Fds
            /\ fdtab'[gfds[m]] = fdtab[gfds[m]]
    BY <1>3, <2>1, <2>2 DEF TypeOK
  <2>4. SlotsAreClients'
    BY <1>1, <2>1, <2>3, FdAssumption DEF SlotsAreClients, Slots, None
  <2>5. ClientInv'
    <3>1. \A f, g \in Fds : fdtab'[f] \in Clients /\ fdtab'[f] = fdtab'[g] => f = g
      BY <2>2 DEF ClientInv
    <3>2. \A f \in Fds : fdtab'[f] \in Clients => client'[fdtab'[f]] # "away"
      BY <1>2, <1>5, <2>2 DEF ClientInv
    <3>3. \A i \in 1..Len(backlog) : backlog[i] \in Clients
      BY DEF TypeOK
    <3>4. \A i \in 1..Len(backlog') :
            client'[backlog'[i]] # "away" /\ \A f \in Fds : fdtab'[f] # backlog'[i]
      BY <1>2, <1>5, <2>2, <3>3 DEF ClientInv
    <3> QED BY <1>2, <1>5, <3>1, <3>2, <3>4 DEF ClientInv
  <2>6. RoundInv'
    <3> SUFFICES ASSUME NEW m \in Slots, k + 1 <= m, gfds'[m] # None, gfds'[m] \in rfds
                 PROVE  Readable(fdtab[gfds[m]])'
      BY <1>1, <1>2 DEF RoundInv, Slots
    <3>1. Readable(fdtab[gfds[m]]) /\ fdtab[gfds[m]] \in Clients
      BY <1>1, <2>3 DEF RoundInv, SlotsAreClients, Slots
    <3> QED BY <1>2, <1>5, <2>3, <3>1 DEF Readable
  <2> QED BY <2>4, <2>5, <2>6
<1>6. CASE /\ client[c] = "reset" /\ client' = [client EXCEPT ![c] = "quit"]
           /\ UNCHANGED <<fdtab, gfds, heard>>
  <2>1. \A x \in Clients :
          /\ client'[x] = "away" <=> client[x] = "away"
          /\ client[x] \in {"quit", "reset"} => client'[x] \in {"quit", "reset"}
    BY <1>6 DEF TypeOK
  <2>2. \A i \in 1..Len(backlog) : backlog[i] \in Clients
    BY DEF TypeOK
  <2>3. SlotsAreClients' /\ ClientInv'
    BY <1>2, <1>6, <2>1, <2>2 DEF SlotsAreClients, ClientInv
  <2>4. RoundInv'
    <3> SUFFICES ASSUME NEW m \in Slots, k + 1 <= m, gfds[m] # None, gfds[m] \in rfds
                 PROVE  Readable(fdtab[gfds[m]])'
      BY <1>1, <1>2, <1>6 DEF RoundInv, Slots
    <3>1. fdtab[gfds[m]] \in Clients
      BY <1>1 DEF SlotsAreClients, Slots
    <3>2. Readable(fdtab[gfds[m]])
      BY <1>1 DEF RoundInv, Slots
    <3> QED BY <1>2, <1>6, <2>1, <3>1, <3>2 DEF Readable
  <2> QED BY <2>3, <2>4
<1> QED BY <1>4, <1>5, <1>6 DEF Read

LEMMA NextIInv ==
  ASSUME IInv, [Next]_vars
  PROVE  IInv'
<1>1. TypeOK'
  BY NextTypeOK DEF IInv
<1>2. SlotsAreClients' /\ ClientInv' /\ RoundInv'
  <2>1. CASE \E c \in Clients : Connect(c) \/ Say(c) \/ Quit(c)
    BY <2>1, ConnectKeepsInv, ClientKeepsInv
  <2>2. CASE Select \/ Accept \/ Read
    BY <2>2, SelectKeepsInv, AcceptKeepsInv, ReadKeepsInv
  <2>3. CASE Skip
    <3>1. UNCHANGED <<fdtab, gfds, rfds, backlog, client, said, heard>> /\ k' = k + 1
      BY <2>3 DEF Skip, Visited, peers
    <3>2. k \in Nat
      BY SelectAssumption DEF IInv, TypeOK
    <3>3. RoundInv'
      BY <3>1, <3>2 DEF IInv, RoundInv, Readable, Slots
    <3> QED BY <3>1, <3>3 DEF IInv, SlotsAreClients, ClientInv
  <2>4. CASE UNCHANGED vars
    BY <2>4 DEF vars, peers, IInv, SlotsAreClients, ClientInv, RoundInv, Readable
  <2> QED BY <2>1, <2>2, <2>3, <2>4 DEF Next, Server
<1> QED BY <1>1, <1>2 DEF IInv

LEMMA Inductive == Spec => []IInv
  BY InitIInv, NextIInv, PTL DEF Spec

\* Slots and descriptor table always agree.
THEOREM SlotsAgree == Spec => []SlotsAreClients
<1>1. IInv => SlotsAreClients
  BY DEF IInv
<1> QED BY Inductive, <1>1, PTL

\* No read or accept of the server ever waits, although rfds is older than the
\* descriptors of the round.
THEOREM ServerNeverBlocks == Spec => []NeverBlocks
<1>1. IInv => NeverBlocks
  BY SelectAssumption DEF IInv, RoundInv, NeverBlocks, IsSet, TypeOK, Slots
<1> QED BY Inductive, <1>1, PTL
=============================================================================
