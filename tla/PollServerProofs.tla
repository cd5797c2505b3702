--------------------------- MODULE PollServerProofs ---------------------------
(***************************************************************************)
(* pfd[] of the chat server is compact and complete and a round passes over *)
(* no entry, for every number of clients, messages and descriptors.         *)
(***************************************************************************)
EXTENDS PollServer, FdTableProofs, SequenceTheorems

Entry == [fd : Fds, out : BOOLEAN, revents : SUBSET Events]
Record == [addr : Clients \union {Free}, data : Fds \union {NoOne}, buf : Texts]

-----------------------------------------------------------------------------
(* The inductive invariant *)

\* A client waits in the queue once, or has one descriptor, or neither; only a
\* client that is neither away nor in the queue was turned away.
QueueInv ==
    /\ \A f, g \in Fds : fdtab[f] \in Clients /\ fdtab[f] = fdtab[g] => f = g
    /\ \A f \in Fds : fdtab[f] \in Clients => client[fdtab[f]] # "away"
    /\ \A i \in 1..Len(backlog) :
          /\ client[backlog[i]] # "away" /\ backlog[i] \notin busy
          /\ \A f \in Fds : fdtab[f] # backlog[i]
    /\ \A i, k \in 1..Len(backlog) : backlog[i] = backlog[k] => i = k
    /\ \A c \in busy : client[c] # "away"

\* The listener reports input only, and only while a client waits; behind the
\* place of the round no entry is left that hung up.
RoundInv ==
    /\ pfd[1].revents \subseteq {"in"}
    /\ j = 1 /\ "in" \in pfd[1].revents => backlog # <<>>
    /\ \A k \in 1..Len(pfd) :
          k < j /\ "hup" \in pfd[k].revents => "err" \in pfd[k].revents

IInv == TypeOK /\ EntriesAreClients /\ QueueInv /\ RoundInv

LEMMA InitIInv == Init => IInv
<1> SUFFICES ASSUME Init PROVE IInv
  OBVIOUS
<1> USE PollAssumption, FdAssumption DEF Init
<1>1. FirstFd \in Fds
  BY DEF Fds
<1>2. TypeOK
  <2>1. fdtab \in [Fds -> Clients \union {Listen, Free}]
    BY DEF EmptyTable
  <2>2. pfd \in Seq(Entry) /\ Len(pfd) = 1
    BY <1>1 DEF Entry, Events
  <2>3. user \in [Fds -> Record]
    BY DEF Record, NoOne, Empty, Texts
  <2>4. /\ backlog \in Seq(Clients) /\ j \in Nat \ {0} /\ busy \subseteq Clients
        /\ client \in [Clients -> {"away", "connected", "fin", "pipe", "rst", "dead"}]
        /\ said \in [Clients -> 0..MaxSaid]
    OBVIOUS
  <2>5. inq \in [Clients -> Texts] /\ told \in [Clients -> Seq(Texts)]
    BY DEF Texts
  <2> QED BY <2>1, <2>2, <2>3, <2>4, <2>5 DEF TypeOK, Entry, Record
<1>3. Len(pfd) = 1 /\ pfd[1].fd = FirstFd /\ pfd[1].revents = {}
  OBVIOUS
<1>4. \A f \in Fds : fdtab[f] \notin Clients
  BY DEF EmptyTable
<1>5. EntriesAreClients
  BY <1>1, <1>3, <1>4 DEF EntriesAreClients, Entries, EmptyTable
<1>6. QueueInv
  BY <1>4 DEF QueueInv
<1>7. RoundInv
  BY <1>3 DEF RoundInv
<1> QED BY <1>2, <1>5, <1>6, <1>7 DEF IInv

\* What TypeOK says of the entries one by one.
LEMMA EntryTypes ==
  ASSUME TypeOK
  PROVE  /\ pfd \in Seq(Entry) /\ Len(pfd) \in Nat /\ Len(pfd) >= 1
         /\ user \in [Fds -> Record]
         /\ \A k \in 1..Len(pfd) : pfd[k] \in Entry /\ pfd[k].fd \in Fds
<1>1. pfd \in Seq(Entry) /\ user \in [Fds -> Record] /\ Len(pfd) \in 1..UserSize + 1
  BY DEF TypeOK, Entry, Record
<1>2. \A k \in 1..Len(pfd) : pfd[k] \in Entry
  BY <1>1
<1> QED BY <1>1, <1>2, PollAssumption DEF Entry

\* An entry that reports something, and is not the listener's, is a client's.
LEMMA ReportsAtClient ==
  ASSUME IInv, NEW ev, Reports(ev)
  PROVE  /\ j \in 2..Len(pfd) /\ pfd[j].fd \in Fds /\ pfd[j].fd # FirstFd
         /\ pfd[j].fd \in Entries /\ Here \in Clients
<1> USE DEF IInv
<1>1. j \in 1..Len(pfd)
  BY EntryTypes DEF TypeOK, Reports, InRound
<1>2. j # 1
  BY DEF Reports, AtListener, RoundInv, EntriesAreClients
<1>3. pfd[j].fd \in Entries
  BY <1>1, <1>2, EntryTypes DEF Entries
<1>4. pfd[j].fd # pfd[1].fd
  BY <1>1, <1>2, EntryTypes DEF EntriesAreClients
<1> QED BY <1>1, <1>2, <1>3, <1>4, EntryTypes DEF EntriesAreClients, Here

\* A step that changes neither descriptors nor owners keeps pfd[] complete.
LEMMA EntriesKept ==
  ASSUME IInv, UNCHANGED <<fdtab, busy>>, Len(pfd') = Len(pfd),
         \A k \in 1..Len(pfd) : pfd'[k].fd = pfd[k].fd,
         \A f \in Fds : user'[f].addr = user[f].addr
  PROVE  EntriesAreClients'
<1>1. Entries' = Entries
  BY EntryTypes DEF Entries, IInv
<1>2. Entries \subseteq Fds
  BY EntryTypes DEF Entries, IInv
<1>3. 1 \in 1..Len(pfd)
  BY EntryTypes DEF IInv
<1> QED BY <1>1, <1>2, <1>3 DEF EntriesAreClients, IInv

-----------------------------------------------------------------------------
(* Clients *)

\* A client that connects is new to queue and table.
LEMMA ConnectKeepsInv ==
  ASSUME IInv, NEW c \in Clients, Connect(c)
  PROVE  IInv'
<1> USE DEF IInv
<1>1. /\ client' = [client EXCEPT ![c] = "connected"] /\ client[c] = "away"
      /\ backlog' = Append(backlog, c)
      /\ UNCHANGED <<fdtab, pfd, j, user, said, inq, told, busy, status>>
  BY DEF Connect
<1>2. TypeOK'
  BY <1>1 DEF TypeOK
<1>3. EntriesAreClients'
  BY <1>1, EntriesKept
<1>4. \A f \in Fds : fdtab[f] # c
  BY <1>1 DEF QueueInv
<1>5. c \notin busy /\ \A i \in 1..Len(backlog) : backlog[i] # c
  BY <1>1 DEF QueueInv
<1>6. /\ Len(backlog') = Len(backlog) + 1 /\ Len(backlog) \in Nat
      /\ backlog'[Len(backlog) + 1] = c
      /\ \A i \in 1..Len(backlog) : backlog'[i] = backlog[i] /\ backlog[i] \in Clients
  BY <1>1 DEF TypeOK
<1>7. \A x \in Clients : client'[x] # "away" <=> x = c \/ client[x] # "away"
  BY <1>1 DEF TypeOK
<1>8. QueueInv'
  <2>1. \A f, g \in Fds : fdtab'[f] \in Clients /\ fdtab'[f] = fdtab'[g] => f = g
    BY <1>1 DEF QueueInv
  <2>2. \A f \in Fds : fdtab'[f] \in Clients => client'[fdtab'[f]] # "away"
    BY <1>1, <1>7 DEF QueueInv
  <2>3. \A i \in 1..Len(backlog') :
          /\ client'[backlog'[i]] # "away" /\ backlog'[i] \notin busy'
          /\ \A f \in Fds : fdtab'[f] # backlog'[i]
    <3> SUFFICES ASSUME NEW i \in 1..Len(backlog')
                 PROVE  /\ client'[backlog'[i]] # "away" /\ backlog'[i] \notin busy'
                        /\ \A f \in Fds : fdtab'[f] # backlog'[i]
      OBVIOUS
    <3>1. CASE i = Len(backlog) + 1
      BY <3>1, <1>1, <1>4, <1>5, <1>6, <1>7
    <3>2. CASE i \in 1..Len(backlog)
      BY <3>2, <1>1, <1>6, <1>7 DEF QueueInv
    <3> QED BY <3>1, <3>2, <1>6
  <2>4. \A i, k \in 1..Len(backlog') : backlog'[i] = backlog'[k] => i = k
    BY <1>5, <1>6 DEF QueueInv
  <2>5. \A b \in busy' : client'[b] # "away"
    BY <1>1, <1>7 DEF QueueInv, TypeOK
  <2> QED BY <2>1, <2>2, <2>3, <2>4, <2>5 DEF QueueInv
<1>9. RoundInv'
  BY <1>1, <1>6 DEF RoundInv
<1> QED BY <1>2, <1>3, <1>8, <1>9

\* Steps that leave queue, table and owners alone keep who is where.
LEMMA QueueKept ==
  ASSUME IInv, UNCHANGED <<fdtab, backlog, busy>>,
         \A x \in Clients : client'[x] = "away" <=> client[x] = "away"
  PROVE  QueueInv'
<1>1. /\ \A i \in 1..Len(backlog) : backlog[i] \in Clients
      /\ busy \subseteq Clients
  BY DEF IInv, TypeOK
<1> QED BY <1>1 DEF IInv, QueueInv

\* What a client says or does when it quits.
LEMMA ClientKeepsInv ==
  ASSUME IInv, NEW c \in Clients, Say(c) \/ Quit(c) \/ RstBehind(c)
  PROVE  IInv'
<1> USE DEF IInv
<1>1. UNCHANGED <<fdtab, pfd, j, user, backlog, told, busy, status>>
  BY DEF Say, Quit, RstBehind
<1>2. \A x \in Clients : client'[x] = "away" <=> client[x] = "away"
  BY PollAssumption DEF Say, Quit, RstBehind, TypeOK
<1>3. TypeOK'
  <2>1. CASE Say(c)
    <3>1. said'[c] \in 1..MaxSaid /\ said' \in [Clients -> 0..MaxSaid]
      BY <2>1, PollAssumption DEF Say, TypeOK
    <3>2. inq[c] \in Seq(Message) /\ <<c, said'[c]>> \in Message
      BY <3>1 DEF TypeOK, Texts, Message
    <3>3. inq' \in [Clients -> Texts]
      BY <2>1, <3>2 DEF Say, TypeOK, Texts
    <3> QED BY <1>1, <2>1, <3>1, <3>3 DEF Say, TypeOK
  <2>2. CASE Quit(c)
    BY <1>1, <2>2, PollAssumption DEF Quit, TypeOK
  <2>3. CASE RstBehind(c)
    BY <1>1, <2>3 DEF RstBehind, TypeOK
  <2> QED BY <2>1, <2>2, <2>3
<1>4. EntriesAreClients'
  BY <1>1, EntriesKept
<1>5. QueueInv'
  BY <1>1, <1>2, QueueKept
<1>6. RoundInv'
  BY <1>1 DEF RoundInv
<1> QED BY <1>3, <1>4, <1>5, <1>6

-----------------------------------------------------------------------------
(* The server *)

\* poll(): the listener reports input if a client waits, and nothing else.
LEMMA PollKeepsInv ==
  ASSUME IInv, Poll
  PROVE  IInv'
<1> USE DEF IInv
<1>1. /\ pfd' = [k \in 1..Len(pfd) |-> [pfd[k] EXCEPT !.revents = Ready(pfd[k])]]
      /\ j' = 1
      /\ UNCHANGED <<fdtab, user, backlog, client, said, inq, told, busy, status>>
  BY DEF Poll, peers
<1>2. \A k \in 1..Len(pfd) : Ready(pfd[k]) \subseteq Events
  BY DEF Ready, Asked, Condition, Events
<1>3. \A k \in 1..Len(pfd) :
        /\ [pfd[k] EXCEPT !.revents = Ready(pfd[k])] \in Entry
        /\ [pfd[k] EXCEPT !.revents = Ready(pfd[k])].fd = pfd[k].fd
        /\ [pfd[k] EXCEPT !.revents = Ready(pfd[k])].revents = Ready(pfd[k])
  BY <1>2, EntryTypes DEF Entry
<1>4. /\ pfd' \in Seq(Entry) /\ Len(pfd') = Len(pfd)
      /\ \A k \in 1..Len(pfd) :
            pfd'[k].fd = pfd[k].fd /\ pfd'[k].revents = Ready(pfd[k])
  <2> DEFINE e(k) == [pfd[k] EXCEPT !.revents = Ready(pfd[k])]
  <2>1. \A k \in 1..Len(pfd) : /\ e(k) \in Entry /\ e(k).fd = pfd[k].fd
                               /\ e(k).revents = Ready(pfd[k])
    BY <1>3
  <2>2. pfd' = [k \in 1..Len(pfd) |-> e(k)]
    BY <1>1
  <2> HIDE DEF e
  <2>3. pfd' \in Seq(Entry) /\ Len(pfd') = Len(pfd)
    BY <2>1, <2>2, EntryTypes
  <2> QED BY <2>1, <2>2, <2>3
<1>5. TypeOK'
  <2>1. Len(pfd) \in 1..UserSize + 1
    BY DEF TypeOK
  <2>2. j' \in Nat \ {0} /\ Len(pfd') \in 1..UserSize + 1
    BY <1>1, <1>4, <2>1
  <2>3. pfd' \in Seq([fd : Fds, out : BOOLEAN, revents : SUBSET Events])
    BY <1>4 DEF Entry
  <2>4. UNCHANGED <<fdtab, user, backlog, client, said, inq, told, busy, status>>
    BY <1>1
  <2> QED BY <2>2, <2>3, <2>4 DEF TypeOK
<1>6. EntriesAreClients'
  BY <1>1, <1>4, EntriesKept
<1>7. QueueInv'
  BY <1>1, QueueKept
<1>8. RoundInv'
  <2>1. 1 \in 1..Len(pfd) /\ fdtab[pfd[1].fd] = Listen
    BY EntryTypes DEF EntriesAreClients
  <2>2. Ready(pfd[1]) = IF backlog # <<>> THEN {"in"} ELSE {}
    BY <2>1 DEF Ready, Condition, Asked
  <2> QED BY <1>1, <1>4, <2>1, <2>2, EntryTypes DEF RoundInv
<1> QED BY <1>5, <1>6, <1>7, <1>8

\* accept, with room for the client or none, and with no descriptor left.
LEMMA AcceptKeepsInv ==
  ASSUME IInv, Accept
  PROVE  IInv'
<1> USE DEF IInv
<1>1. /\ j = 1 /\ "in" \in pfd[1].revents /\ j' = j + 1
      /\ UNCHANGED <<client, said, inq, told>> /\ status' \in {"up", "sigpipe"}
  <2>1. j \in 1..Len(pfd) /\ pfd[j].fd = FirstFd /\ "in" \in pfd[j].revents
    BY EntryTypes DEF Accept, AcceptWith, InRound, AtListener, TypeOK
  <2>2. j = 1
    BY <2>1, EntryTypes DEF EntriesAreClients
  <2>3. status' \in {"up", "sigpipe"}
    BY DEF Accept, AcceptWith, TypeOK
  <2> QED BY <2>1, <2>2, <2>3 DEF Accept, AcceptWith, Visited, peers
<1>2. CASE UNCHANGED <<fdtab, backlog, pfd, user, busy>>
  <2>1. TypeOK'
    BY <1>1, <1>2 DEF TypeOK
  <2>2. EntriesAreClients'
    BY <1>2, EntriesKept
  <2>3. QueueInv'
    BY <1>1, <1>2, QueueKept
  <2>4. RoundInv'
    BY <1>1, <1>2 DEF RoundInv
  <2> QED BY <2>1, <2>2, <2>3, <2>4
<1>3. CASE /\ CanOpen(fdtab)
           /\ fdtab' = Open(fdtab, Head(backlog))
           /\ backlog' = Tail(backlog)
  <2> DEFINE c == Head(backlog)
             sock == LowestFree(fdtab)
  <2>1. sock \in Fds /\ fdtab[sock] = Free
    BY <1>3, LowestFreeIsFree
  <2>2. /\ backlog # <<>> /\ c \in Clients /\ c = backlog[1]
        /\ Len(backlog) \in Nat \ {0} /\ Len(backlog') = Len(backlog) - 1
        /\ backlog' \in Seq(Clients)
        /\ \A i \in 1..Len(backlog') : backlog'[i] = backlog[i + 1]
    BY <1>1, <1>3 DEF TypeOK, RoundInv
  <2>3. /\ fdtab' \in [Fds -> Clients \union {Listen, Free}]
        /\ fdtab'[sock] = c
        /\ \A f \in Fds : f # sock => fdtab'[f] = fdtab[f]
    BY <1>3, <2>1, <2>2 DEF Open, TypeOK
  <2>4. /\ client[c] # "away" /\ c \notin busy /\ \A f \in Fds : fdtab[f] # c
        /\ \A i \in 1..Len(backlog') : backlog'[i] # c
    <3>1. \A i \in 1..Len(backlog') : i + 1 \in 1..Len(backlog) /\ i + 1 # 1
      BY <2>2
    <3> QED BY <2>2, <3>1 DEF QueueInv
  <2>5. sock \notin Entries /\ sock # FirstFd
    BY <2>1, PollAssumption DEF EntriesAreClients
  <2>6. busy' \subseteq busy \union {c} => QueueInv'
    <3> SUFFICES ASSUME busy' \subseteq busy \union {c} PROVE QueueInv'
      OBVIOUS
    <3>1. \A f, g \in Fds : fdtab'[f] \in Clients /\ fdtab'[f] = fdtab'[g] => f = g
      BY <2>1, <2>3, <2>4 DEF QueueInv
    <3>2. \A f \in Fds : fdtab'[f] \in Clients => client'[fdtab'[f]] # "away"
      BY <1>1, <2>1, <2>3, <2>4 DEF QueueInv
    <3>3. \A i \in 1..Len(backlog') :
            /\ client'[backlog'[i]] # "away" /\ backlog'[i] \notin busy'
            /\ \A f \in Fds : fdtab'[f] # backlog'[i]
      <4> SUFFICES ASSUME NEW i \in 1..Len(backlog')
                   PROVE  /\ client'[backlog'[i]] # "away" /\ backlog'[i] \notin busy'
                          /\ \A f \in Fds : fdtab'[f] # backlog'[i]
        OBVIOUS
      <4>1. i + 1 \in 1..Len(backlog) /\ backlog'[i] = backlog[i + 1] /\ backlog'[i] # c
        BY <2>2, <2>4
      <4> QED BY <1>1, <2>3, <4>1 DEF QueueInv
    <3>4. \A i, k \in 1..Len(backlog') : backlog'[i] = backlog'[k] => i = k
      <4> SUFFICES ASSUME NEW i \in 1..Len(backlog'), NEW k \in 1..Len(backlog'),
                          backlog'[i] = backlog'[k]
                   PROVE  i = k
        OBVIOUS
      <4>1. i + 1 \in 1..Len(backlog) /\ k + 1 \in 1..Len(backlog)
            /\ backlog[i + 1] = backlog[k + 1]
        BY <2>2
      <4>2. i + 1 = k + 1
        BY <4>1 DEF QueueInv
      <4> QED BY <4>2
    <3>5. \A b \in busy' : client'[b] # "away"
      BY <1>1, <2>4 DEF QueueInv
    <3> QED BY <3>1, <3>2, <3>3, <3>4, <3>5 DEF QueueInv
  <2>7. CASE busy' = busy \union {c} /\ UNCHANGED <<pfd, user>>
    <3>1. TypeOK'
      BY <1>1, <2>2, <2>3, <2>7 DEF TypeOK
    <3>2. Entries' = Entries /\ \A f \in Entries : fdtab'[f] = fdtab[f] /\ f \in Fds
      BY <2>3, <2>5, <2>7, EntryTypes DEF Entries
    <3>3. fdtab'[FirstFd] = Listen
      BY <2>3, <2>5, FdAssumption DEF EntriesAreClients, Fds
    <3>4. \A f \in Fds : fdtab'[f] \in Clients =>
            (f \in Entries' <=> fdtab'[f] \notin busy')
      BY <2>3, <2>4, <2>5, <2>7, <3>2 DEF EntriesAreClients
    <3>5. EntriesAreClients'
      BY <2>7, <3>2, <3>3, <3>4 DEF EntriesAreClients
    <3>6. RoundInv'
      BY <1>1, <2>7 DEF RoundInv
    <3> QED BY <2>6, <2>7, <3>1, <3>5, <3>6
  <2>8. CASE /\ Len(pfd) # UserSize + 1
             /\ user' = [user EXCEPT ![sock].addr = c, ![sock].data = NoOne]
             /\ pfd' = Append(pfd, [fd |-> sock, out |-> FALSE, revents |-> {}])
             /\ UNCHANGED busy
    <3> DEFINE n == Len(pfd)
               new == [fd |-> sock, out |-> FALSE, revents |-> {}]
    <3>1. new \in Entry /\ n \in Nat /\ n >= 1 /\ n <= UserSize
      BY <2>1, <2>8, EntryTypes, PollAssumption DEF Entry, TypeOK
    <3>2. /\ pfd' \in Seq(Entry) /\ Len(pfd') = n + 1 /\ pfd'[n + 1] = new
          /\ \A k \in 1..n : pfd'[k] = pfd[k]
      BY <2>8, <3>1, EntryTypes
    <3>3. /\ user' \in [Fds -> Record] /\ user'[sock].addr = c
          /\ \A f \in Fds : f # sock => user'[f] = user[f]
      BY ZenonT(60), <2>1, <2>2, <2>8, EntryTypes DEF Record
    <3>4. TypeOK'
      <4>1. UNCHANGED <<client, said, inq, told, busy>> /\ j' \in Nat \ {0}
        BY <1>1, <2>8
      <4>2. Len(pfd') \in 1..UserSize + 1
        BY <3>1, <3>2, PollAssumption
      <4> QED BY <1>1, <2>2, <2>3, <3>2, <3>3, <4>1, <4>2 DEF TypeOK, Entry, Record
    <3>5. Entries' = Entries \union {sock} /\ Entries \subseteq Fds
      BY <3>1, <3>2, EntryTypes DEF Entries
    <3>6. pfd'[1].fd = FirstFd /\ fdtab'[FirstFd] = Listen
      BY <2>3, <2>5, <3>1, <3>2, FdAssumption DEF EntriesAreClients, Fds
    <3>7. \A k, l \in 1..Len(pfd') : k # l => pfd'[k].fd # pfd'[l].fd
      <4>1. \A k \in 1..n : pfd[k].fd # sock
        BY <2>5, <3>1 DEF Entries, EntriesAreClients
      <4> QED BY <3>1, <3>2, <4>1 DEF EntriesAreClients
    <3>8. \A f \in Entries' : fdtab'[f] \in Clients /\ user'[f].addr = fdtab'[f]
      BY <2>2, <2>3, <3>3, <3>5 DEF EntriesAreClients
    <3>9. \A f \in Fds : fdtab'[f] \in Clients =>
            (f \in Entries' <=> fdtab'[f] \notin busy')
      BY <2>3, <2>4, <2>8, <3>5 DEF EntriesAreClients
    <3>10. EntriesAreClients'
      BY <3>6, <3>7, <3>8, <3>9 DEF EntriesAreClients
    <3>11. RoundInv'
      BY <1>1, <3>1, <3>2 DEF RoundInv
    <3> QED BY <2>6, <2>8, <3>4, <3>10, <3>11
  <2> QED BY <1>3, <2>7, <2>8 DEF Accept, AcceptWith
<1> QED BY <1>2, <1>3 DEF Accept, AcceptWith

\* A client leaves: the last entry takes its place, and the round stays there.
LEMMA LeaveKeepsInv ==
  ASSUME IInv, NEW ev, Reports(ev), NEW records, Leave(records, j),
         records \in [Fds -> Record],
         \A f \in Fds : records[f].addr = user[f].addr,
         UNCHANGED <<backlog, client, said, inq, told, busy, status>>
  PROVE  IInv'
<1> USE DEF IInv
<1> DEFINE n == Len(pfd)
           f0 == pfd[j].fd
           moved == [pfd EXCEPT ![j] = pfd[n]]
<1>1. j \in 2..n /\ f0 \in Fds /\ f0 # FirstFd /\ f0 \in Entries
  BY ReportsAtClient
<1>2. /\ user' = [records EXCEPT ![f0] = records[pfd[n].fd]]
      /\ fdtab' = Close(fdtab, {f0})
      /\ pfd' = SubSeq(moved, 1, n - 1)
      /\ j' = j
  BY DEF Leave
<1>3. n \in Nat /\ n >= 2 /\ n <= UserSize + 1 /\ pfd[n] \in Entry /\ pfd[n].fd \in Fds
  BY <1>1, EntryTypes, PollAssumption DEF TypeOK
<1>4. /\ pfd' \in Seq(Entry) /\ Len(pfd') = n - 1
      /\ \A k \in 1..n - 1 : pfd'[k] = IF k = j THEN pfd[n] ELSE pfd[k]
  <2>1. \A k \in 1..n : moved[k] = IF k = j THEN pfd[n] ELSE pfd[k]
    BY <1>1, <1>3, EntryTypes
  <2>2. \A k \in 1..n - 1 : moved[k] \in Entry
    BY <1>3, <2>1, EntryTypes
  <2> HIDE DEF moved
  <2>3. /\ SubSeq(moved, 1, n - 1) \in Seq(Entry)
        /\ Len(SubSeq(moved, 1, n - 1)) = n - 1
        /\ \A k \in 1..n - 1 : SubSeq(moved, 1, n - 1)[k] = moved[k]
    <3>1. /\ 1 \in Int /\ n - 1 \in Int
          /\ (n - 1) - 1 + 1 = n - 1 /\ 1 <= n - 1
          /\ \A k \in 1..n - 1 : 1 + k - 1 = k
      BY <1>3
    <3> QED BY <2>2, <3>1, SubSeqProperties
  <2> QED BY <1>2, <1>3, <2>1, <2>3
<1>5. fdtab' \in [Fds -> Clients \union {Listen, Free}]
      /\ \A f \in Fds : fdtab'[f] = IF f = f0 THEN Free ELSE fdtab[f]
  BY <1>2 DEF Close, TypeOK
<1>6. user' \in [Fds -> Record] /\ \A f \in Fds : f # f0 => user'[f].addr = user[f].addr
  BY <1>1, <1>2, <1>3, EntryTypes
<1>7. TypeOK'
  <2>1. Len(pfd') \in 1..UserSize + 1
    BY <1>3, <1>4, PollAssumption
  <2>2. UNCHANGED <<backlog, client, said, inq, told, busy, status, j>>
    BY <1>2
  <2> QED BY <1>4, <1>5, <1>6, <2>1, <2>2 DEF TypeOK, Entry, Record
<1>8. \A k, l \in 1..n : k # l => pfd[k].fd # pfd[l].fd
  BY DEF EntriesAreClients
<1>9. Entries' = Entries \ {f0} /\ Entries \subseteq Fds
  <2>1. ASSUME NEW k \in 2..n - 1
        PROVE  pfd'[k].fd \in Entries \ {f0}
    BY <1>1, <1>3, <1>4, <1>8 DEF Entries
  <2>2. ASSUME NEW k \in 2..n, k # j
        PROVE  \E l \in 2..n - 1 : pfd'[l].fd = pfd[k].fd
    <3>1. CASE k = n
      <4>1. j \in 2..n - 1 /\ j \in 1..n - 1
        BY <1>1, <1>3, <2>2, <3>1
      <4>2. pfd'[j].fd = pfd[k].fd
        BY <1>4, <3>1, <4>1
      <4> QED BY <4>1, <4>2
    <3>2. CASE k # n
      BY <1>3, <1>4, <2>2, <3>2
    <3> QED BY <3>1, <3>2
  <2>3. Entries' = {pfd'[k].fd : k \in 2..n - 1}
    BY <1>4 DEF Entries
  <2>4. Entries' \subseteq Entries \ {f0}
    BY <2>1, <2>3
  <2>5. Entries \ {f0} \subseteq Entries'
    BY <2>2, <2>3 DEF Entries
  <2>6. Entries \subseteq Fds
    BY EntryTypes DEF Entries
  <2> QED BY <2>4, <2>5, <2>6
<1>10. EntriesAreClients'
  <2>1. pfd'[1].fd = FirstFd /\ fdtab'[FirstFd] = Listen
    BY <1>1, <1>3, <1>4, <1>5, FdAssumption DEF EntriesAreClients, Fds
  <2>2. \A k, l \in 1..n - 1 : k # l => pfd'[k].fd # pfd'[l].fd
    BY SMTT(30), <1>1, <1>3, <1>4, <1>8
  <2>3. \A f \in Entries' : fdtab'[f] \in Clients /\ user'[f].addr = fdtab'[f]
    BY <1>5, <1>6, <1>9 DEF EntriesAreClients
  <2>4. \A f \in Fds : fdtab'[f] \in Clients =>
          (f \in Entries' <=> fdtab'[f] \notin busy')
    BY <1>5, <1>9, PollAssumption DEF EntriesAreClients
  <2> QED BY <1>4, <2>1, <2>2, <2>3, <2>4 DEF EntriesAreClients
<1>11. QueueInv'
  <2>1. \A i \in 1..Len(backlog) : backlog[i] \in Clients
    BY DEF TypeOK
  <2>2. \A f \in Fds : fdtab'[f] \in Clients => fdtab'[f] = fdtab[f]
    BY <1>5, PollAssumption
  <2>3. \A f \in Fds : fdtab'[f] \notin Clients \/ f # f0
    BY <1>5, PollAssumption
  <2>4. \A i \in 1..Len(backlog) : \A f \in Fds : fdtab'[f] # backlog[i]
    BY <2>1, <2>2 DEF QueueInv
  <2> QED BY <2>2, <2>4 DEF QueueInv
<1>12. RoundInv'
  <2>1. j # 1 /\ 1 \in 1..n - 1 /\ pfd'[1] = pfd[1]
    BY <1>1, <1>3, <1>4
  <2>2. \A k \in 1..n - 1 : k < j => pfd'[k] = pfd[k]
    BY <1>1, <1>3, <1>4
  <2> QED BY <1>1, <1>2, <1>3, <1>4, <2>1, <2>2 DEF RoundInv
<1> QED BY <1>7, <1>10, <1>11, <1>12

\* A visit that leaves the entries as they are, at one that hung up only if its
\* error was taken, keeps the invariant.
LEMMA VisitKeepsInv ==
  ASSUME IInv, InRound, Visited, TypeOK',
         UNCHANGED <<fdtab, backlog, busy>>, Len(pfd') = Len(pfd),
         \A k \in 1..Len(pfd) :
            pfd'[k].fd = pfd[k].fd /\ pfd'[k].revents = pfd[k].revents,
         \A f \in Fds : user'[f].addr = user[f].addr,
         \A x \in Clients : client'[x] = "away" <=> client[x] = "away",
         "hup" \in pfd[j].revents => "err" \in pfd[j].revents
  PROVE  IInv'
<1>1. j \in Nat \ {0} /\ j' = j + 1 /\ 1 \in 1..Len(pfd) /\ Len(pfd) \in Nat
  BY EntryTypes DEF Visited, IInv, TypeOK
<1>2. EntriesAreClients'
  BY EntriesKept
<1>3. QueueInv'
  BY QueueKept
<1>4. RoundInv'
  BY <1>1 DEF RoundInv, IInv
<1> QED BY <1>2, <1>3, <1>4 DEF IInv

\* The error of a socket is taken; the entry stays for one more poll().
LEMMA ErrorKeepsInv ==
  ASSUME IInv, Error
  PROVE  IInv'
<1> USE DEF IInv
<1>1. /\ InRound /\ Visited /\ "err" \in pfd[j].revents
      /\ client' = [client EXCEPT ![Here] = "dead"]
      /\ UNCHANGED <<fdtab, pfd, user, backlog, said, inq, told, busy, status>>
  BY DEF Error, Reports
<1>2. Here \in Clients /\ client[Here] # "away"
  BY ReportsAtClient DEF Error, QueueInv, Here
<1>3. TypeOK'
  BY <1>1, <1>2 DEF TypeOK, Visited
<1>4. \A x \in Clients : client'[x] = "away" <=> client[x] = "away"
  BY <1>1, <1>2 DEF TypeOK
<1> QED BY <1>1, <1>3, <1>4, VisitKeepsInv

\* memset of a buffer takes away no record.
LEMMA ErasedKeepsOwners ==
  ASSUME IInv, NEW g \in Fds
  PROVE  /\ Erased(g) \in [Fds -> Record]
         /\ \A f \in Fds : Erased(g)[f].addr = user[f].addr
<1>1. Empty \in Texts /\ user \in [Fds -> Record]
  BY EntryTypes DEF Empty, Texts, IInv
<1> QED BY <1>1 DEF Erased, Record

\* read(): a text for the others, an error, or the end of the connection.
LEMMA ReadKeepsInv ==
  ASSUME IInv, Read
  PROVE  IInv'
<1> USE DEF IInv
<1>1. /\ Reports("in") /\ InRound /\ "hup" \notin pfd[j].revents
      /\ UNCHANGED <<backlog, said, told, busy, status>>
  BY DEF Read, Reports
<1>2. /\ j \in 1..Len(pfd) /\ pfd[j].fd \in Fds
      /\ Here \in Clients /\ client[Here] # "away"
  BY <1>1, ReportsAtClient DEF QueueInv, Here
<1>3. CASE /\ inq' = [inq EXCEPT ![Here] = <<>>]
           /\ TellOthers
           /\ Visited
           /\ UNCHANGED <<fdtab, client>>
  <2> DEFINE e(k) == [pfd[k] EXCEPT !.out = @ \/ (k # 1 /\ k # j)]
             u(f) == CASE f = pfd[j].fd -> [user[f] EXCEPT !.buf = inq[Here]]
                       [] f # pfd[j].fd /\ (\E k \in 2..Len(pfd) : pfd[k].fd = f) ->
                            [user[f] EXCEPT !.data = pfd[j].fd]
                       [] OTHER -> user[f]
  <2>1. pfd' = [k \in 1..Len(pfd) |-> e(k)] /\ user' = [f \in Fds |-> u(f)]
    BY <1>3 DEF TellOthers
  <2>2. \A k \in 1..Len(pfd) :
          e(k) \in Entry /\ e(k).fd = pfd[k].fd /\ e(k).revents = pfd[k].revents
    BY EntryTypes DEF Entry
  <2>3. inq[Here] \in Texts
    BY <1>2 DEF TypeOK
  <2>4. \A f \in Fds : u(f) \in Record /\ u(f).addr = user[f].addr
    <3> SUFFICES ASSUME NEW f \in Fds
                 PROVE  u(f) \in Record /\ u(f).addr = user[f].addr
      OBVIOUS
    <3>1. user[f] \in Record
      BY EntryTypes
    <3>2. [user[f] EXCEPT !.buf = inq[Here]] \in Record
          /\ [user[f] EXCEPT !.buf = inq[Here]].addr = user[f].addr
      BY <2>3, <3>1 DEF Record
    <3>3. [user[f] EXCEPT !.data = pfd[j].fd] \in Record
          /\ [user[f] EXCEPT !.data = pfd[j].fd].addr = user[f].addr
      BY <1>2, <3>1 DEF Record
    <3> QED BY <3>1, <3>2, <3>3
  <2> HIDE DEF e, u
  <2>5. pfd' \in Seq(Entry) /\ Len(pfd') = Len(pfd)
    BY <2>1, <2>2, EntryTypes
  <2>6. \A k \in 1..Len(pfd) :
          pfd'[k].fd = pfd[k].fd /\ pfd'[k].revents = pfd[k].revents
    BY <2>1, <2>2
  <2>7. user' \in [Fds -> Record] /\ \A f \in Fds : user'[f].addr = user[f].addr
    BY <2>1, <2>4
  <2>8. inq' \in [Clients -> Texts]
    <3>1. inq \in [Clients -> Texts] /\ <<>> \in Texts
      BY DEF TypeOK, Texts
    <3> QED BY <1>3, <3>1
  <2>9. TypeOK'
    BY <1>1, <1>3, <2>5, <2>7, <2>8 DEF TypeOK, Entry, Record, Visited
  <2> QED BY <1>1, <1>3, <2>5, <2>6, <2>7, <2>9, VisitKeepsInv
<1>6. Erased(pfd[j].fd) \in [Fds -> Record]
      /\ \A f \in Fds : Erased(pfd[j].fd)[f].addr = user[f].addr
  BY <1>2, ErasedKeepsOwners
<1>4. CASE /\ user' = Erased(pfd[j].fd)
           /\ client' = [client EXCEPT ![Here] = "dead"]
           /\ Visited
           /\ UNCHANGED <<fdtab, pfd, inq>>
  <2>1. user' \in [Fds -> Record] /\ \A f \in Fds : user'[f].addr = user[f].addr
    BY <1>4, <1>6
  <2>2. client' \in [Clients -> {"away", "connected", "fin", "pipe", "rst", "dead"}]
        /\ \A x \in Clients : client'[x] = "away" <=> client[x] = "away"
    BY <1>2, <1>4 DEF TypeOK
  <2>3. TypeOK'
    BY <1>1, <1>4, <2>1, <2>2 DEF TypeOK, Record, Visited
  <2> QED BY <1>1, <1>4, <2>1, <2>2, <2>3, VisitKeepsInv
<1>5. CASE Leave(Erased(pfd[j].fd), j) /\ UNCHANGED <<client, inq>>
  BY <1>1, <1>5, <1>6, LeaveKeepsInv
<1> QED BY <1>3, <1>4, <1>5 DEF Read

\* write(): nothing to write, an error, or a text that goes out and is erased.
LEMMA WriteKeepsInv ==
  ASSUME IInv, Write
  PROVE  IInv'
<1> USE DEF IInv
<1> DEFINE f == pfd[j].fd
           from == user[f].data
<1>1. /\ Reports("out") /\ InRound /\ Visited /\ "hup" \notin pfd[j].revents
      /\ UNCHANGED <<fdtab, pfd, backlog, said, inq, busy>>
  BY DEF Write, Reports
<1>2. f \in Fds /\ Here \in Clients /\ client[Here] # "away"
  BY <1>1, ReportsAtClient DEF QueueInv, Here
<1>3. user[f] \in Record /\ from \in Fds \union {NoOne}
  BY <1>2, EntryTypes DEF Record
<1>7. status' \in {"up", "sigpipe"}
  <2>1. status \in {"up", "sigpipe"}
    BY DEF TypeOK
  <2> QED BY <2>1 DEF Write
<1>4. CASE UNCHANGED <<user, told, client>>
  <2>1. TypeOK'
    BY <1>1, <1>4, <1>7 DEF TypeOK, Visited
  <2> QED BY <1>1, <1>4, <2>1, VisitKeepsInv
<1>5. CASE client' = [client EXCEPT ![Here] = "dead"] /\ UNCHANGED <<user, told, status>>
  <2>1. client' \in [Clients -> {"away", "connected", "fin", "pipe", "rst", "dead"}]
        /\ \A x \in Clients : client'[x] = "away" <=> client[x] = "away"
    BY <1>2, <1>5 DEF TypeOK
  <2>2. TypeOK'
    BY <1>1, <1>5, <2>1 DEF TypeOK, Visited
  <2> QED BY <1>1, <1>5, <2>1, <2>2, VisitKeepsInv
<1>6. CASE /\ from # NoOne
           /\ user' = [Erased(from) EXCEPT ![f].data = NoOne]
           /\ told' = IF user[from].buf # Empty
                        THEN [told EXCEPT ![Here] = Append(@, user[from].buf)]
                        ELSE told
           /\ UNCHANGED <<client, status>>
  <2>1. from \in Fds /\ user[from] \in Record
    BY <1>3, <1>6, EntryTypes
  <2>2. user' \in [Fds -> Record] /\ \A g \in Fds : user'[g].addr = user[g].addr
    <3>1. /\ Erased(from) \in [Fds -> Record] /\ NoOne \in Fds \union {NoOne}
          /\ \A g \in Fds : Erased(from)[g].addr = user[g].addr
      BY <2>1, ErasedKeepsOwners
    <3> QED BY <1>2, <1>6, <3>1 DEF Record
  <2>3. told' \in [Clients -> Seq(Texts)]
    <3>1. user[from].buf \in Texts /\ told \in [Clients -> Seq(Texts)]
      BY <2>1 DEF Record, TypeOK
    <3>2. Append(told[Here], user[from].buf) \in Seq(Texts)
      BY <1>2, <3>1
    <3> QED BY <1>6, <3>1, <3>2
  <2>4. TypeOK'
    <3>1. j' \in Nat \ {0}
      BY <1>1 DEF Visited, TypeOK
    <3>2. UNCHANGED <<fdtab, pfd, backlog, client, said, inq, busy, status>>
      BY <1>1, <1>6
    <3> HIDE DEF from, f
    <3> QED BY <2>2, <2>3, <3>1, <3>2 DEF TypeOK, Record
  <2> QED BY <1>1, <1>6, <2>2, <2>4, VisitKeepsInv
<1> QED BY <1>4, <1>5, <1>6 DEF Write

-----------------------------------------------------------------------------
(* Theorems *)

LEMMA NextIInv ==
  ASSUME IInv, [Next]_vars
  PROVE  IInv'
<1>1. CASE \E c \in Clients : Connect(c) \/ Say(c) \/ Quit(c) \/ RstBehind(c)
  BY <1>1, ConnectKeepsInv, ClientKeepsInv
<1>2. CASE Poll \/ Accept \/ Error \/ Read \/ Write
  BY <1>2, PollKeepsInv, AcceptKeepsInv, ErrorKeepsInv, ReadKeepsInv, WriteKeepsInv
<1>3. CASE HangUp
  <2>1. user \in [Fds -> Record]
    BY EntryTypes DEF IInv
  <2> QED BY <1>3, <2>1, LeaveKeepsInv DEF HangUp, peers
<1>4. CASE Nothing
  <2>1. /\ InRound /\ Visited /\ "hup" \notin pfd[j].revents
        /\ UNCHANGED <<fdtab, pfd, user, backlog, client, said, inq, told, busy, status>>
    BY <1>4 DEF Nothing, peers
  <2>2. TypeOK'
    BY <2>1 DEF IInv, TypeOK, Visited
  <2> QED BY <2>1, <2>2, VisitKeepsInv
<1>5. CASE UNCHANGED vars
  <2>1. UNCHANGED <<fdtab, pfd, j, user, backlog, client, said, inq, told, busy, status>>
    BY <1>5 DEF vars, peers
  <2>2. TypeOK' /\ RoundInv'
    BY <2>1 DEF IInv, TypeOK, RoundInv
  <2> QED BY <2>1, <2>2, EntriesKept, QueueKept DEF IInv
<1> QED BY <1>1, <1>2, <1>3, <1>4, <1>5 DEF Next, Server

LEMMA Inductive == Spec => []IInv
  BY InitIInv, NextIInv, PTL DEF Spec

\* Types of the chat server; pfd[] never grows beyond USER_SIZE + 1 entries.
THEOREM TypeCorrect == Spec => []TypeOK
<1>1. IInv => TypeOK
  BY DEF IInv
<1> QED BY Inductive, <1>1, PTL

\* pfd[] is the listener and every client that is served, each once, whatever
\* moves when clients leave.
THEOREM EntriesComplete == Spec => []EntriesAreClients
<1>1. IInv => EntriesAreClients
  BY DEF IInv
<1> QED BY Inductive, <1>1, PTL

\* A round passes over no entry that hung up, though entries change place in it.
THEOREM RoundComplete == Spec => []RoundIsComplete
<1>1. IInv => RoundIsComplete
  <2> SUFFICES ASSUME IInv, j > Len(pfd), NEW k \in 1..Len(pfd),
                      "hup" \in pfd[k].revents
               PROVE  "err" \in pfd[k].revents
    BY DEF RoundIsComplete
  <2>1. k < j
    BY EntryTypes DEF IInv, TypeOK
  <2> QED BY <2>1 DEF IInv, RoundInv
<1> QED BY Inductive, <1>1, PTL
=============================================================================
