-------------------------- MODULE EpollServerProofs --------------------------
(***************************************************************************)
(* What EpollServer promises for any number of clients, descriptors and      *)
(* messages.  The promises are about the event at hand; they hold because     *)
(* each of them holds of every event of the round, while the clients go on    *)
(* and the events before it are handled.                                     *)
(***************************************************************************)
EXTENDS EpollServer, FdTableProofs

\* The epoll items are those of the open sockets: the listener for input, and each
\* client once.
Items ==
    /\ fdtab[FirstFd] = Listen /\ interest[FirstFd] = "in"
    /\ \A f \in Fds : fdtab[f] = Listen => f = FirstFd
    /\ \A f \in Fds : interest[f] # "none" <=> fdtab[f] \in Clients \union {Listen}
    /\ \A f, g \in Fds : fdtab[f] \in Clients /\ fdtab[f] = fdtab[g] => f = g

\* Both lists name registered descriptors, each once.
Lists ==
    /\ \A i \in 1..Len(ready) : interest[ready[i]] # "none"
    /\ \A i, j \in 1..Len(ready) : ready[i] = ready[j] => i = j
    /\ \A i \in 1..Len(evs) : interest[evs[i].fd] # "none"
    /\ \A i, j \in 1..Len(evs) : evs[i].fd = evs[j].fd => i = j

\* A client is away, waits for accept once, or was accepted.
Waiting ==
    /\ \A i \in 1..Len(backlog) : client[backlog[i]] # "away"
    /\ \A i, j \in 1..Len(backlog) : backlog[i] = backlog[j] => i = j
    /\ \A f \in Fds : fdtab[f] \in Clients => client[fdtab[f]] # "away"
    /\ \A f \in Fds, i \in 1..Len(backlog) : fdtab[f] # backlog[i]

\* What the events of a round tell of is there until they are handled.
Events ==
    \A i \in 1..Len(evs) :
        IF evs[i].fd = FirstFd
          THEN evs[i].events \subseteq {"in"} /\ backlog # <<>>
          ELSE /\ "in" \in evs[i].events => Unread(fdtab[evs[i].fd]) \/ Ended(fdtab[evs[i].fd])
               /\ "out" \in evs[i].events => interest[evs[i].fd] = "out"

\* The server writes to those it has read from.
Asked ==
    /\ \A f \in Fds : interest[f] = "out" => heard[fdtab[f]] > 0
    /\ SilentClientsAreHarmless

Inv == TypeOK /\ Items /\ Lists /\ Waiting /\ Events /\ Asked

LEMMA InitInv == Init => Inv
<1> SUFFICES ASSUME Init PROVE Inv
  OBVIOUS
<1> USE EpollAssumption, FdAssumption DEF Init, EmptyTable
<1>1. FirstFd \in Fds /\ FirstFd + 1 \in Fds /\ FirstFd # FirstFd + 1
  BY DEF Fds
<1>2. /\ fdtab[FirstFd] = Listen /\ fdtab[FirstFd + 1] = Instance
      /\ \A f \in Fds \ {FirstFd, FirstFd + 1} : fdtab[f] = Free
  BY <1>1
<1>3. Len(ready) = 0 /\ Len(evs) = 0 /\ Len(backlog) = 0
  OBVIOUS
<1>4. TypeOK
  BY <1>1, <1>2 DEF TypeOK
<1>5. Items
  BY <1>1, <1>2 DEF Items
<1>6. Lists /\ Events
  BY <1>3 DEF Lists, Events
<1>7. Waiting
  BY <1>2, <1>3 DEF Waiting
<1>8. Asked
  BY DEF Asked, SilentClientsAreHarmless
<1> QED BY <1>4, <1>5, <1>6, <1>7, <1>8 DEF Inv

-----------------------------------------------------------------------------
(* The lists *)

\* An edge puts a descriptor on the ready list, unless it is there.
LEMMA EdgeAdds ==
  ASSUME TypeOK, Lists, NEW f \in Fds
  PROVE  /\ Edge(f) \in Seq(Fds)
         /\ \A i, j \in 1..Len(Edge(f)) : Edge(f)[i] = Edge(f)[j] => i = j
         /\ \A i \in 1..Len(Edge(f)) : Edge(f)[i] # f => InList(ready, Edge(f)[i])
<1>1. CASE InList(ready, f)
  BY <1>1 DEF TypeOK, Lists, Edge, InList
<1>2. CASE ~InList(ready, f)
  <2>1. Edge(f) = Append(ready, f) /\ ready \in Seq(Fds) /\ Len(ready) \in Nat
    BY <1>2 DEF Edge, TypeOK
  <2>2. /\ Edge(f) \in Seq(Fds) /\ Len(Edge(f)) = Len(ready) + 1
        /\ Edge(f)[Len(ready) + 1] = f
        /\ \A i \in 1..Len(ready) : Edge(f)[i] = ready[i] /\ ready[i] # f
    BY <1>2, <2>1 DEF InList
  <2> QED BY <2>1, <2>2 DEF Lists, InList
<1> QED BY <1>1, <1>2

\* epoll_ctl DEL takes a descriptor off the ready list.
LEMMA WithoutRemoves ==
  ASSUME TypeOK, Lists, NEW f \in Fds
  PROVE  /\ Without(f) \in Seq(Fds)
         /\ \A i, j \in 1..Len(Without(f)) : Without(f)[i] = Without(f)[j] => i = j
         /\ \A i \in 1..Len(Without(f)) :
               Without(f)[i] # f /\ InList(ready, Without(f)[i])
<1>1. CASE ~InList(ready, f)
  BY <1>1 DEF TypeOK, Lists, Without, InList
<1>2. CASE InList(ready, f)
  <2> DEFINE k == CHOOSE n \in 1..Len(ready) : ready[n] = f
             w == [i \in 1..Len(ready) - 1 |-> IF i < k THEN ready[i] ELSE ready[i + 1]]
  <2>1. k \in 1..Len(ready) /\ ready[k] = f
    BY <1>2 DEF InList
  <2>2. Without(f) = w
    BY <1>2 DEF Without
  <2>3. ready \in Seq(Fds) /\ Len(ready) \in Nat /\ Len(ready) - 1 \in Nat
    BY <2>1 DEF TypeOK
  <2> HIDE DEF k
  <2>4. \A i \in 1..Len(ready) - 1 :
            w[i] \in Fds /\ \E j \in 1..Len(ready) : j # k /\ w[i] = ready[j]
    BY <2>1, <2>3
  <2>5. w \in Seq(Fds) /\ Len(w) = Len(ready) - 1
    BY <2>3, <2>4
  <2>6. \A i \in 1..Len(w) : w[i] # f /\ InList(ready, w[i])
    BY <2>1, <2>4, <2>5 DEF Lists, InList
  <2>7. \A i, j \in 1..Len(w) : w[i] = w[j] => i = j
    <3> SUFFICES ASSUME NEW i \in 1..Len(w), NEW j \in 1..Len(w), w[i] = w[j]
                 PROVE  i = j
      OBVIOUS
    <3> DEFINE at(n) == IF n < k THEN n ELSE n + 1
    <3>1. /\ at(i) \in 1..Len(ready) /\ w[i] = ready[at(i)]
          /\ at(j) \in 1..Len(ready) /\ w[j] = ready[at(j)]
      BY <2>1, <2>3, <2>5
    <3>2. at(i) = at(j)
      BY <3>1 DEF Lists
    <3> QED BY <2>1, <2>3, <2>5, <3>2
  <2> QED BY <2>2, <2>5, <2>6, <2>7
<1> QED BY <1>1, <1>2

\* The ready list takes an edge of a registered descriptor, or none.
EdgeOrNone ==
    ready' = ready \/ \E f \in Fds : interest'[f] # "none" /\ ready' = Edge(f)

LEMMA ReadyKept ==
  ASSUME TypeOK, Lists, EdgeOrNone,
         \A f \in Fds : interest[f] # "none" => interest'[f] # "none"
  PROVE  /\ ready' \in Seq(Fds)
         /\ \A i \in 1..Len(ready') : interest'[ready'[i]] # "none"
         /\ \A i, j \in 1..Len(ready') : ready'[i] = ready'[j] => i = j
<1>1. \A i \in 1..Len(ready) : ready[i] \in Fds
  BY DEF TypeOK
<1>2. CASE ready' = ready
  BY <1>1, <1>2 DEF TypeOK, Lists
<1>3. ASSUME NEW f \in Fds, interest'[f] # "none", ready' = Edge(f)
      PROVE  /\ ready' \in Seq(Fds)
             /\ \A i \in 1..Len(ready') : interest'[ready'[i]] # "none"
             /\ \A i, j \in 1..Len(ready') : ready'[i] = ready'[j] => i = j
  <2>1. /\ ready' \in Seq(Fds)
        /\ \A i, j \in 1..Len(ready') : ready'[i] = ready'[j] => i = j
        /\ \A i \in 1..Len(ready') : ready'[i] # f => InList(ready, ready'[i])
    BY <1>3, EdgeAdds
  <2>2. ASSUME NEW i \in 1..Len(ready'), ready'[i] # f
        PROVE  interest'[ready'[i]] # "none"
    <3>1. PICK j \in 1..Len(ready) : ready[j] = ready'[i]
      BY <2>1, <2>2 DEF InList
    <3> QED BY <1>1, <3>1 DEF Lists
  <2> QED BY <1>3, <2>1, <2>2
<1> QED BY <1>2, <1>3 DEF EdgeOrNone

\* What happens to a client is an edge of a descriptor that is registered.
LEMMA EdgeAtRegistered ==
  ASSUME Items, NEW c \in Clients, NEW ks, EdgeAt(c, ks), UNCHANGED interest
  PROVE  EdgeOrNone
<1>1. CASE \E f \in Fds : fdtab[f] = c /\ interest[f] \in ks
  <2> DEFINE f == CHOOSE g \in Fds : fdtab[g] = c
  <2>1. f \in Fds /\ fdtab[f] = c
    BY <1>1
  <2>2. interest[f] # "none"
    BY <2>1 DEF Items
  <2> QED BY <1>1, <2>1, <2>2 DEF EdgeAt, EdgeOrNone
<1>2. CASE ~\E f \in Fds : fdtab[f] = c /\ interest[f] \in ks
  BY <1>2 DEF EdgeAt, EdgeOrNone
<1> QED BY <1>1, <1>2

LEMMA HeadAndTail ==
  ASSUME NEW S, NEW s \in Seq(S), s # <<>>
  PROVE  /\ Head(s) = s[1] /\ s[1] \in S /\ 1 \in 1..Len(s)
         /\ Tail(s) \in Seq(S) /\ Len(Tail(s)) = Len(s) - 1 /\ Len(s) \in Nat
         /\ \A i \in 1..Len(Tail(s)) : i + 1 \in 1..Len(s) /\ Tail(s)[i] = s[i + 1]
OBVIOUS

\* The event at hand is the only one of its descriptor.
LEMMA EventHandled ==
  ASSUME TypeOK, Lists, evs # <<>>, Handled
  PROVE  /\ jfd \in Fds /\ Head(evs) = evs[1] /\ 1 \in 1..Len(evs)
         /\ evs' \in Seq([fd : Fds, events : SUBSET {"in", "out", "err", "hup"}])
         /\ \A i \in 1..Len(evs') : i + 1 \in 1..Len(evs) /\ evs'[i] = evs[i + 1]
                                    /\ evs'[i].fd # jfd
         /\ \A i, j \in 1..Len(evs') : evs'[i].fd = evs'[j].fd => i = j
<1> DEFINE Event == [fd : Fds, events : SUBSET {"in", "out", "err", "hup"}]
<1>1. evs \in Seq(Event)
  BY DEF TypeOK
<1> HIDE DEF Event
<1>2. Head(evs) = evs[1] /\ evs[1] \in Event /\ 1 \in 1..Len(evs) /\ Len(evs) \in Nat
  BY <1>1, HeadAndTail
<1>3. evs' \in Seq(Event) /\ Len(evs') = Len(evs) - 1
      /\ \A i \in 1..Len(evs') : i + 1 \in 1..Len(evs) /\ evs'[i] = evs[i + 1]
  BY <1>1, HeadAndTail DEF Handled
<1>4. \A i \in 1..Len(evs') : evs'[i].fd # jfd
  <2> SUFFICES ASSUME NEW i \in 1..Len(evs'), evs'[i].fd = jfd PROVE FALSE
    OBVIOUS
  <2>1. i + 1 = 1
    BY <1>2, <1>3 DEF Lists, jfd
  <2> QED BY <1>2, <1>3, <2>1
<1>5. \A i, j \in 1..Len(evs') : evs'[i].fd = evs'[j].fd => i = j
  <2> SUFFICES ASSUME NEW i \in 1..Len(evs'), NEW j \in 1..Len(evs'), evs'[i].fd = evs'[j].fd
               PROVE  i = j
    OBVIOUS
  <2>1. i + 1 = j + 1
    BY <1>3 DEF Lists
  <2> QED BY <1>2, <1>3, <2>1
<1>6. jfd \in Fds
  BY <1>2 DEF Event, jfd
<1> QED BY <1>2, <1>3, <1>4, <1>5, <1>6 DEF Event

\* The descriptor of an event stands for the listener or for a client.
LEMMA EventOwner ==
  ASSUME TypeOK, Items, Lists, NEW i \in 1..Len(evs)
  PROVE  /\ evs[i].fd \in Fds
         /\ evs[i].fd # FirstFd => fdtab[evs[i].fd] \in Clients
<1> DEFINE Event == [fd : Fds, events : SUBSET {"in", "out", "err", "hup"}]
<1>1. evs \in Seq(Event)
  BY DEF TypeOK
<1>2. evs[i] \in Event
  <2> HIDE DEF Event
  <2> QED BY <1>1
<1>3. interest[evs[i].fd] # "none"
  BY DEF Lists
<1> QED BY <1>2, <1>3 DEF Items

-----------------------------------------------------------------------------
(* The clients *)

\* What is true of an event stays true while the clients go on: they take nothing
\* back.
LEMMA ClientsTakeNothingBack ==
  ASSUME TypeOK, Items, Lists, Events, EdgeOrNone,
         UNCHANGED <<fdtab, interest, evs, heard>>,
         said' \in [Clients -> 0..MaxSaid],
         \A c \in Clients : said[c] <= said'[c] /\ (Ended(c) => Ended(c)'),
         backlog # <<>> => backlog' # <<>>
  PROVE  ready' \in Seq(Fds) /\ Items' /\ Lists' /\ Events'
<1>1. ready' \in Seq(Fds) /\ Items' /\ Lists'
  <2>1. \A f \in Fds : interest[f] # "none" => interest'[f] # "none"
    OBVIOUS
  <2> QED BY <2>1, ReadyKept DEF Items, Lists
<1>2. Events'
  <2> SUFFICES ASSUME NEW i \in 1..Len(evs)
               PROVE  IF evs[i].fd = FirstFd
                        THEN evs[i].events \subseteq {"in"} /\ backlog' # <<>>
                        ELSE /\ "in" \in evs[i].events =>
                                    Unread(fdtab[evs[i].fd])' \/ Ended(fdtab[evs[i].fd])'
                             /\ "out" \in evs[i].events => interest[evs[i].fd] = "out"
    BY DEF Events, Ended, Unread
  <2>1. CASE evs[i].fd = FirstFd
    BY <2>1 DEF Events
  <2>2. CASE evs[i].fd # FirstFd
    <3> DEFINE c == fdtab[evs[i].fd]
    <3>1. PICK d : d = c
      OBVIOUS
    <3>2. d \in Clients
      BY <2>2, <3>1, EventOwner
    <3>3. Unread(d) => Unread(d)'
      BY <3>2 DEF Unread, TypeOK
    <3>4. "in" \in evs[i].events => Unread(d) \/ Ended(d)
      BY <2>2, <3>1 DEF Events
    <3>5. fdtab'[evs[i].fd] = d
      BY <3>1
    <3>6. "in" \in evs[i].events => Unread(d)' \/ Ended(d)'
      BY <3>2, <3>3, <3>4
    <3> QED BY <2>2, <3>1, <3>5, <3>6 DEF Events, Unread, Ended
  <2> QED BY <2>1, <2>2
<1> QED BY <1>1, <1>2

LEMMA ConnectKeepsInv ==
  ASSUME Inv, NEW c \in Clients, Connect(c)
  PROVE  Inv'
<1> USE DEF Inv, Connect
<1>1. /\ UNCHANGED <<status, fdtab, interest, evs, error, said, heard, answered>>
      /\ client[c] = "away" /\ client' = [client EXCEPT ![c] = "connected"]
      /\ backlog' = Append(backlog, c)
  OBVIOUS
<1>2. /\ backlog \in Seq(Clients) /\ Len(backlog) \in Nat
      /\ backlog' \in Seq(Clients) /\ Len(backlog') = Len(backlog) + 1
      /\ backlog'[Len(backlog) + 1] = c
      /\ \A i \in 1..Len(backlog) : backlog'[i] = backlog[i]
  BY <1>1 DEF TypeOK
<1>3. client' \in [Clients -> {"away", "connected", "half", "closed", "provoked", "reset"}]
  BY <1>1 DEF TypeOK
<1>4. EdgeOrNone
  <2>1. FirstFd \in Fds /\ interest'[FirstFd] # "none"
    BY FdAssumption DEF Items, Fds
  <2> QED BY <2>1 DEF EdgeOrNone
<1>5. ready' \in Seq(Fds) /\ Items' /\ Lists' /\ Events'
  <2>1. \A d \in Clients : said[d] <= said'[d] /\ (Ended(d) => Ended(d)')
    BY <1>1 DEF TypeOK, Ended
  <2>2. backlog' # <<>>
    BY <1>2
  <2>3. said' \in [Clients -> 0..MaxSaid]
    BY <1>1 DEF TypeOK
  <2> QED BY <1>1, <1>4, <2>1, <2>2, <2>3, ClientsTakeNothingBack
<1>6. TypeOK'
  BY <1>1, <1>2, <1>3, <1>5 DEF TypeOK
<1>7. Waiting'
  <2>1. \A i \in 1..Len(backlog) : backlog[i] # c /\ backlog[i] \in Clients
    BY <1>1, <1>2 DEF Waiting
  <2>2. \A f \in Fds : fdtab[f] # c
    BY <1>1 DEF Waiting
  <2>3. \A d \in Clients : client'[d] # "away" <=> d = c \/ client[d] # "away"
    BY <1>1 DEF TypeOK
  <2>4. \A i \in 1..Len(backlog') : i \in 1..Len(backlog) \/ i = Len(backlog) + 1
    BY <1>2
  <2>5. \A i \in 1..Len(backlog') : client'[backlog'[i]] # "away"
    BY <1>2, <2>1, <2>3, <2>4 DEF Waiting
  <2>6. \A i, j \in 1..Len(backlog') : backlog'[i] = backlog'[j] => i = j
    BY <1>2, <2>1, <2>4 DEF Waiting
  <2>7. \A f \in Fds : fdtab[f] \in Clients => client'[fdtab[f]] # "away"
    BY <2>3 DEF Waiting
  <2>8. \A f \in Fds, i \in 1..Len(backlog') : fdtab[f] # backlog'[i]
    BY <1>2, <2>2, <2>4 DEF Waiting
  <2> QED BY <1>1, <2>5, <2>6, <2>7, <2>8 DEF Waiting
<1>8. Asked'
  <2>1. \A d \in Clients : client[d] = "reset" => client'[d] = "reset"
    BY <1>1 DEF TypeOK
  <2> QED BY <1>1, <2>1 DEF Asked, SilentClientsAreHarmless
<1> QED BY <1>5, <1>6, <1>7, <1>8

\* A connected client changes: it stays known, and what has ended stays ended.
LEMMA ChangeKeepsInv ==
  ASSUME Inv, NEW c \in Clients, NEW new,
         client[c] # "away" /\ new \in {"connected", "half", "closed", "provoked", "reset"},
         client' = [client EXCEPT ![c] = new],
         Ended(c) => new \in {"half", "closed", "provoked", "reset"},
         client[c] # "reset",
         EdgeOrNone,
         error' \in [Clients -> {"none", "reset", "pipe"}],
         said' \in [Clients -> 0..MaxSaid],
         \A d \in Clients : said[d] <= said'[d],
         UNCHANGED <<status, fdtab, interest, evs, backlog, heard, answered>>
  PROVE  Inv'
<1> USE DEF Inv
<1>1. client' \in [Clients -> {"away", "connected", "half", "closed", "provoked", "reset"}]
      /\ client'[c] = new /\ \A d \in Clients \ {c} : client'[d] = client[d]
  BY DEF TypeOK
<1>2. \A d \in Clients : client'[d] # "away" <=> client[d] # "away"
  BY <1>1
<1>3. \A d \in Clients : Ended(d) => Ended(d)'
  BY <1>1 DEF Ended
<1>4. ready' \in Seq(Fds) /\ Items' /\ Lists' /\ Events'
  BY <1>3, ClientsTakeNothingBack
<1>5. TypeOK'
  BY <1>1, <1>4 DEF TypeOK
<1>6. Waiting'
  <2>1. \A i \in 1..Len(backlog) : backlog[i] \in Clients
    BY DEF TypeOK
  <2> QED BY <1>2, <2>1 DEF Waiting
<1>7. Asked'
  <2>1. \A d \in Clients : client[d] = "reset" => client'[d] = "reset"
    BY <1>1
  <2> QED BY <2>1 DEF Asked, SilentClientsAreHarmless
<1> QED BY <1>4, <1>5, <1>6, <1>7

LEMMA SayKeepsInv ==
  ASSUME Inv, NEW c \in Clients, Say(c)
  PROVE  Inv'
<1> USE DEF Inv, Say
<1>1. EdgeOrNone
  BY EdgeAtRegistered
<1>2. client[c] = "connected" /\ client' = [client EXCEPT ![c] = "connected"]
  BY DEF TypeOK
<1>3. ~Ended(c)
  BY <1>2 DEF Ended
<1>4. error' \in [Clients -> {"none", "reset", "pipe"}]
  BY DEF TypeOK
<1>5. said' \in [Clients -> 0..MaxSaid] /\ \A d \in Clients : said[d] <= said'[d]
  BY EpollAssumption DEF TypeOK
<1> QED BY <1>1, <1>2, <1>3, <1>4, <1>5, ChangeKeepsInv

LEMMA LeaveKeepsInv ==
  ASSUME Inv, NEW c \in Clients, Leave(c)
  PROVE  Inv'
<1> USE DEF Inv
<1>1. PICK how \in {"half", "closed", "reset"} :
          /\ client[c] = "connected" \/ (client[c] = "half" /\ how # "half")
          /\ client' = [client EXCEPT ![c] = how]
          /\ error' = [error EXCEPT ![c] =
                CASE how # "reset" -> @
                  [] how = "reset" /\ client[c] = "connected" -> "reset"
                  [] how = "reset" /\ client[c] = "half" -> "pipe"]
          /\ IF client[c] = "half" /\ how = "closed"
               THEN UNCHANGED ready ELSE EdgeAt(c, {"in", "out"})
  BY DEF Leave
<1>2. UNCHANGED <<status, fdtab, interest, evs, backlog, said, heard, answered>>
  BY DEF Leave
<1>3. EdgeOrNone
  <2>1. CASE UNCHANGED ready
    BY <2>1 DEF EdgeOrNone
  <2>2. CASE EdgeAt(c, {"in", "out"})
    BY <1>2, <2>2, EdgeAtRegistered
  <2> QED BY <1>1, <2>1, <2>2
<1>4. error' \in [Clients -> {"none", "reset", "pipe"}]
  BY <1>1 DEF TypeOK
<1>5. said' \in [Clients -> 0..MaxSaid] /\ \A d \in Clients : said[d] <= said'[d]
  BY <1>2 DEF TypeOK
<1> QED BY <1>1, <1>2, <1>3, <1>4, <1>5, ChangeKeepsInv

LEMMA RstBackKeepsInv ==
  ASSUME Inv, NEW c \in Clients, RstBack(c)
  PROVE  Inv'
<1> USE DEF Inv, RstBack
<1>1. EdgeOrNone
  BY EdgeAtRegistered
<1>2. error' \in [Clients -> {"none", "reset", "pipe"}]
  BY DEF TypeOK
<1>3. said' \in [Clients -> 0..MaxSaid] /\ \A d \in Clients : said[d] <= said'[d]
  BY DEF TypeOK
<1> QED BY <1>1, <1>2, <1>3, ChangeKeepsInv

-----------------------------------------------------------------------------
(* The server *)

LEMMA WaitKeepsInv ==
  ASSUME Inv, Wait
  PROVE  Inv'
<1> USE DEF Inv
<1>1. UNCHANGED <<status, fdtab, interest, backlog, client, error, said, heard, answered>>
      /\ ready' = <<>>
  BY DEF Wait, peers
<1>0. PICK n \in 0..Len(ready) : \E at \in [1..n -> 1..Len(ready)] :
         /\ Live(at)
         /\ evs' = [k \in 1..n |->
                      [fd |-> ready[at[k]], events |-> Reported(ready[at[k]])]]
  BY DEF Wait
<1>2. PICK at \in [1..n -> 1..Len(ready)] :
         /\ Live(at)
         /\ evs' = [k \in 1..n |->
                      [fd |-> ready[at[k]], events |-> Reported(ready[at[k]])]]
  BY <1>0
<1> DEFINE fd(k) == ready[at[k]]
<1>3. n \in Nat /\ Len(evs') = n
  <2>1. Len(ready) \in Nat
    BY DEF TypeOK
  <2> QED BY <1>2, <2>1
<1>4. \A k \in 1..n : fd(k) \in Fds /\ interest[fd(k)] # "none"
  BY <1>2 DEF TypeOK, Lists
<1>5. \A k \in 1..n : evs'[k] = [fd |-> fd(k), events |-> Reported(fd(k))]
  BY <1>2
<1>6. \A j, k \in 1..n : fd(j) = fd(k) => j = k
  <2> SUFFICES ASSUME NEW j \in 1..n, NEW k \in 1..n, fd(j) = fd(k)
               PROVE  j = k
    OBVIOUS
  <2>1. at[j] = at[k]
    BY <1>2 DEF Lists
  <2>2. at[j] \in 1..Len(ready) /\ at[k] \in 1..Len(ready) /\ Len(ready) \in Nat
    BY <1>2 DEF TypeOK
  <2>3. ~(j < k) /\ ~(k < j)
    BY <1>2, <2>1, <2>2 DEF Live
  <2> QED BY <1>3, <2>3
<1>7. \A k \in 1..n : fd(k) # FirstFd => fdtab[fd(k)] \in Clients
  BY <1>4 DEF Items
<1>8. TypeOK'
  <2>1. \A f \in Fds : Reported(f) \in SUBSET {"in", "out", "err", "hup"}
    BY DEF Reported, Condition
  <2>2. \A k \in 1..n : evs'[k] \in [fd : Fds, events : SUBSET {"in", "out", "err", "hup"}]
    <3> SUFFICES ASSUME NEW k \in 1..n
                 PROVE  evs'[k] \in [fd : Fds, events : SUBSET {"in", "out", "err", "hup"}]
      OBVIOUS
    <3>1. fd(k) \in Fds /\ Reported(fd(k)) \in SUBSET {"in", "out", "err", "hup"}
      BY <1>4, <2>1
    <3>2. evs'[k] = [fd |-> fd(k), events |-> Reported(fd(k))]
      BY <1>5
    <3> QED BY <3>1, <3>2
  <2> DEFINE Event == [fd : Fds, events : SUBSET {"in", "out", "err", "hup"}]
  <2>3. evs' \in Seq(Event)
    <3>1. \A k \in 1..n : evs'[k] \in Event
      BY <2>2
    <3>2. evs' = [k \in 1..n |-> evs'[k]]
      BY <1>2
    <3> HIDE DEF Event
    <3> QED BY <1>3, <3>1, <3>2
  <2>4. ready' \in Seq(Fds)
    BY <1>1
  <2> QED BY <1>1, <2>3, <2>4 DEF TypeOK
<1>9. Lists'
  <2>1. Len(ready') = 0
    BY <1>1
  <2>2. \A k \in 1..Len(evs') : evs'[k].fd = fd(k)
    BY <1>3, <1>5
  <2>3. \A k \in 1..Len(evs') : interest'[evs'[k].fd] # "none"
    BY <1>1, <1>3, <1>4, <2>2
  <2>4. \A j, k \in 1..Len(evs') : evs'[j].fd = evs'[k].fd => j = k
    BY <1>3, <1>6, <2>2
  <2> QED BY <2>1, <2>3, <2>4 DEF Lists
<1>10. Events'
  <2>1. ASSUME NEW k \in 1..n
        PROVE  IF fd(k) = FirstFd
                 THEN Reported(fd(k)) \subseteq {"in"} /\ backlog # <<>>
                 ELSE /\ "in" \in Reported(fd(k)) =>
                             Unread(fdtab[fd(k)]) \/ Ended(fdtab[fd(k)])
                      /\ "out" \in Reported(fd(k)) => interest[fd(k)] = "out"
    <3>1. fd(k) \in Fds /\ Reported(fd(k)) # {}
      BY <1>2, <1>4 DEF Live
    <3>2. CASE fd(k) = FirstFd
      <4>1. Reported(FirstFd) = Condition(Listen) \intersect {"in", "err", "hup"}
        BY DEF Reported, Items
      <4> QED BY <3>1, <3>2, <4>1 DEF Condition
    <3>3. CASE fd(k) # FirstFd
      <4>1. fdtab[fd(k)] \in Clients /\ fdtab[fd(k)] # Listen
        BY <1>4, <1>7, <3>3 DEF Items
      <4>2. "in" \in Reported(fd(k)) => Unread(fdtab[fd(k)]) \/ Ended(fdtab[fd(k)])
        BY <4>1 DEF Reported, Condition
      <4>3. "out" \in Reported(fd(k)) => interest[fd(k)] = "out"
        BY DEF Reported
      <4> QED BY <3>3, <4>2, <4>3
    <3> QED BY <3>2, <3>3
  <2>2. \A k \in 1..Len(evs') : /\ k \in 1..n /\ evs'[k].fd = fd(k)
                               /\ evs'[k].events = Reported(fd(k))
    BY <1>3, <1>5
  <2> HIDE DEF fd
  <2> QED BY <1>1, <2>1, <2>2 DEF Events, Unread, Ended
<1>11. Items' /\ Waiting' /\ Asked'
  BY <1>1 DEF Items, Waiting, Asked, SilentClientsAreHarmless
<1> QED BY <1>8, <1>9, <1>10, <1>11

\* Handling one event leaves the other events of the round true: it changes
\* nothing at their descriptors.
LEMMA OtherEventsStay ==
  ASSUME TypeOK, Items, Lists, Events, evs # <<>>, Handled,
         UNCHANGED said,
         jfd = FirstFd \/ backlog' = backlog,
         \A f \in Fds \ {jfd} : interest[f] # "none" =>
             fdtab'[f] = fdtab[f] /\ interest'[f] = interest[f],
         \A f \in Fds \ {jfd} : fdtab[f] \in Clients =>
             /\ heard'[fdtab[f]] = heard[fdtab[f]]
             /\ Ended(fdtab[f]) => client'[fdtab[f]] \in {"half", "closed", "provoked", "reset"}
  PROVE  /\ Events'
         /\ \A i \in 1..Len(evs') : interest'[evs'[i].fd] # "none"
<1>1. \A i \in 1..Len(evs') : i + 1 \in 1..Len(evs) /\ evs'[i] = evs[i + 1]
                             /\ evs'[i].fd # jfd
  BY EventHandled
<1>2. ASSUME NEW i \in 1..Len(evs')
      PROVE  /\ interest'[evs'[i].fd] # "none"
             /\ IF evs'[i].fd = FirstFd
                  THEN evs'[i].events \subseteq {"in"} /\ backlog' # <<>>
                  ELSE /\ "in" \in evs'[i].events =>
                              \/ heard'[fdtab'[evs'[i].fd]] < said'[fdtab'[evs'[i].fd]]
                              \/ client'[fdtab'[evs'[i].fd]] \in {"half", "closed", "provoked", "reset"}
                       /\ "out" \in evs'[i].events => interest'[evs'[i].fd] = "out"
  <2>1. PICK k \in 1..Len(evs) : evs'[i] = evs[k] /\ evs[k].fd # jfd
    BY <1>1
  <2>2. evs[k].fd \in Fds /\ interest[evs[k].fd] # "none"
        /\ (evs[k].fd # FirstFd => fdtab[evs[k].fd] \in Clients)
    BY EventOwner DEF Lists
  <2>3. fdtab'[evs[k].fd] = fdtab[evs[k].fd] /\ interest'[evs[k].fd] = interest[evs[k].fd]
    BY <2>1, <2>2
  <2>4. CASE evs[k].fd = FirstFd
    BY <2>1, <2>2, <2>3, <2>4 DEF Events
  <2>5. CASE evs[k].fd # FirstFd
    <3>1. /\ heard'[fdtab[evs[k].fd]] = heard[fdtab[evs[k].fd]]
          /\ Ended(fdtab[evs[k].fd]) =>
                client'[fdtab[evs[k].fd]] \in {"half", "closed", "provoked", "reset"}
      BY <2>1, <2>2, <2>5
    <3>2. "in" \in evs[k].events => Unread(fdtab[evs[k].fd]) \/ Ended(fdtab[evs[k].fd])
      BY <2>5 DEF Events
    <3>3. "out" \in evs[k].events => interest[evs[k].fd] = "out"
      BY <2>5 DEF Events
    <3> QED BY <2>1, <2>2, <2>3, <2>5, <3>1, <3>2, <3>3 DEF Unread
  <2> QED BY <2>4, <2>5
<1> QED BY <1>2 DEF Events, Unread, Ended

LEMMA AcceptKeepsInv ==
  ASSUME Inv, Accept
  PROVE  Inv'
<1> USE DEF Inv
<1>1. /\ evs # <<>> /\ Handled /\ jfd = FirstFd /\ backlog # <<>>
      /\ UNCHANGED <<status, client, error, said, heard, answered>>
  BY DEF Accept, AcceptFor, Reports
<1>2. /\ evs' \in Seq([fd : Fds, events : SUBSET {"in", "out", "err", "hup"}])
      /\ \A i, j \in 1..Len(evs') : evs'[i].fd = evs'[j].fd => i = j
  BY <1>1, EventHandled
<1>3. CASE ~CanOpen(fdtab) /\ UNCHANGED <<fdtab, interest, ready, backlog>>
  <2>1. Events' /\ \A i \in 1..Len(evs') : interest'[evs'[i].fd] # "none"
    BY <1>1, <1>3, OtherEventsStay DEF Ended
  <2>2. TypeOK'
    BY <1>1, <1>2, <1>3 DEF TypeOK
  <2>3. Lists'
    BY <1>2, <1>3, <2>1 DEF Lists
  <2>4. Items' /\ Waiting' /\ Asked'
    BY <1>1, <1>3 DEF Items, Waiting, Asked, SilentClientsAreHarmless
  <2> QED BY <2>1, <2>2, <2>3, <2>4
<1>4. CASE CanOpen(fdtab)
  <2> DEFINE c == Head(backlog)
             sock == LowestFree(fdtab)
  <2>1. /\ fdtab' = [fdtab EXCEPT ![sock] = c]
        /\ interest' = [interest EXCEPT ![sock] = "in"]
        /\ ready' = Edge(sock) \/ ready' = ready
        /\ backlog' = Tail(backlog)
    BY <1>4 DEF Accept, AcceptFor, Open, Register
  <2>2. sock \in Fds /\ fdtab[sock] = Free
    BY <1>4, LowestFreeIsFree
  <2>3. PICK s : s = sock
    OBVIOUS
  <2>4. /\ c \in Clients /\ c = backlog[1] /\ 1 \in 1..Len(backlog)
        /\ backlog' \in Seq(Clients)
        /\ \A i \in 1..Len(backlog') : i + 1 \in 1..Len(backlog) /\ backlog'[i] = backlog[i + 1]
        /\ Len(backlog') = Len(backlog) - 1 /\ Len(backlog) \in Nat
    <3>1. backlog \in Seq(Clients)
      BY DEF TypeOK
    <3> QED BY <1>1, <2>1, <3>1, HeadAndTail
  <2>5. PICK b : b = c
    OBVIOUS
  <2> HIDE DEF sock, c
  <2>6. /\ interest[s] = "none" /\ s # FirstFd /\ s \in Fds /\ b \in Clients
        /\ b # Listen /\ b # Free
    BY <2>2, <2>3, <2>4, <2>5, EpollAssumption DEF TypeOK, Items
  <2>7. /\ fdtab'[s] = b /\ \A f \in Fds \ {s} : fdtab'[f] = fdtab[f]
        /\ interest'[s] = "in" /\ \A f \in Fds \ {s} : interest'[f] = interest[f]
        /\ fdtab' \in [Fds -> Clients \union {Listen, Instance, Free}]
        /\ interest' \in [Fds -> {"none", "in", "out"}]
    BY <2>1, <2>3, <2>5, <2>6 DEF TypeOK
  <2>8. EdgeOrNone
    BY <2>1, <2>3, <2>6, <2>7 DEF EdgeOrNone
  <2>9. /\ ready' \in Seq(Fds)
        /\ \A i \in 1..Len(ready') : interest'[ready'[i]] # "none"
        /\ \A i, j \in 1..Len(ready') : ready'[i] = ready'[j] => i = j
    <3>1. \A f \in Fds : interest[f] # "none" => interest'[f] # "none"
      BY <2>6, <2>7
    <3> QED BY <2>8, <3>1, ReadyKept
  <2>10. Events' /\ \A i \in 1..Len(evs') : interest'[evs'[i].fd] # "none"
    <3>1. \A f \in Fds \ {jfd} : interest[f] # "none" =>
             fdtab'[f] = fdtab[f] /\ interest'[f] = interest[f]
      BY <2>6, <2>7
    <3> QED BY <1>1, <3>1, OtherEventsStay DEF Ended
  <2>11. TypeOK'
    BY <1>1, <1>2, <2>4, <2>7, <2>9 DEF TypeOK
  <2>12. \A f \in Fds : fdtab[f] # b
    BY <2>4, <2>5 DEF Waiting
  <2>13. Items'
    <3>1. FirstFd \in Fds
      BY FdAssumption DEF Fds
    <3>2. \A f, g \in Fds : fdtab'[f] \in Clients /\ fdtab'[f] = fdtab'[g] => f = g
      BY <2>7, <2>12 DEF Items
    <3> QED BY <2>6, <2>7, <3>1, <3>2 DEF Items
  <2>14. Lists'
    BY <1>2, <2>9, <2>10 DEF Lists
  <2>15. Waiting'
    <3>1. \A i \in 1..Len(backlog') : client'[backlog'[i]] # "away" /\ backlog'[i] # b
      <4> SUFFICES ASSUME NEW i \in 1..Len(backlog')
                   PROVE  client'[backlog'[i]] # "away" /\ backlog'[i] # b
        OBVIOUS
      <4>1. i + 1 # 1 /\ i + 1 \in 1..Len(backlog) /\ backlog'[i] = backlog[i + 1]
        BY <2>4
      <4> QED BY <1>1, <2>4, <2>5, <4>1 DEF Waiting
    <3>2. \A i, j \in 1..Len(backlog') : backlog'[i] = backlog'[j] => i = j
      <4> SUFFICES ASSUME NEW i \in 1..Len(backlog'), NEW j \in 1..Len(backlog'),
                          backlog'[i] = backlog'[j]
                   PROVE  i = j
        OBVIOUS
      <4>1. i + 1 = j + 1
        BY <2>4 DEF Waiting
      <4> QED BY <2>4, <4>1
    <3>3. \A f \in Fds : fdtab'[f] \in Clients => client'[fdtab'[f]] # "away"
      BY <1>1, <2>4, <2>5, <2>7 DEF Waiting
    <3>4. \A f \in Fds, i \in 1..Len(backlog') : fdtab'[f] # backlog'[i]
      BY <2>4, <2>7, <3>1 DEF Waiting
    <3> QED BY <3>1, <3>2, <3>3, <3>4 DEF Waiting
  <2>16. Asked'
    BY <1>1, <2>6, <2>7 DEF Asked, SilentClientsAreHarmless
  <2> QED BY <2>10, <2>11, <2>13, <2>14, <2>15, <2>16
<1> QED BY <1>3, <1>4 DEF Accept, AcceptFor

\* read and write are called for the descriptor of a client.
LEMMA ClientAtHand ==
  ASSUME TypeOK, Items, Lists, evs # <<>>, jfd # FirstFd
  PROVE  /\ jfd \in Fds /\ Head(evs) = evs[1] /\ 1 \in 1..Len(evs)
         /\ jfd = evs[1].fd
         /\ fdtab[jfd] \in Clients /\ interest[jfd] # "none"
         /\ \A f \in Fds \ {jfd} : fdtab[f] \in Clients => fdtab[f] # fdtab[jfd]
<1> DEFINE Event == [fd : Fds, events : SUBSET {"in", "out", "err", "hup"}]
<1>1. evs \in Seq(Event)
  BY DEF TypeOK
<1> HIDE DEF Event
<1>2. Head(evs) = evs[1] /\ 1 \in 1..Len(evs)
  BY <1>1, HeadAndTail
<1>3. jfd \in Fds /\ fdtab[jfd] \in Clients
  BY <1>2, EventOwner DEF jfd
<1> QED BY <1>2, <1>3 DEF Items, jfd

LEMMA ReadKeepsInv ==
  ASSUME Inv, Read
  PROVE  Inv'
<1> USE DEF Inv
<1>1. evs # <<>> /\ jfd # FirstFd /\ UNCHANGED <<status, backlog, client, said, answered>>
  BY DEF Read, Read_With, Reports
<1>2. PICK f : f = jfd
  OBVIOUS
<1>3. PICK c : c = fdtab[f]
  OBVIOUS
<1>4. /\ f \in Fds /\ c \in Clients /\ interest[f] # "none" /\ f # FirstFd
      /\ \A g \in Fds \ {f} : fdtab[g] \in Clients => fdtab[g] # c
  BY <1>1, <1>2, <1>3, ClientAtHand
<1>5. Handled
  BY DEF Read, Read_With
<1>6. /\ evs' \in Seq([fd : Fds, events : SUBSET {"in", "out", "err", "hup"}])
      /\ \A i, j \in 1..Len(evs') : evs'[i].fd = evs'[j].fd => i = j
  BY <1>1, <1>5, EventHandled
<1>7. CASE /\ Unread(c) /\ heard' = [heard EXCEPT ![c] = said[c]]
           /\ interest' = [interest EXCEPT ![f] = "out"] /\ ready' = Edge(f)
           /\ UNCHANGED <<fdtab, error>>
  <2>1. /\ heard' \in [Clients -> 0..MaxSaid] /\ heard'[c] = said[c] /\ said[c] > 0
        /\ \A d \in Clients \ {c} : heard'[d] = heard[d]
        /\ heard[c] \in Nat /\ said[c] \in Nat
    BY <1>4, <1>7, EpollAssumption DEF TypeOK, Unread
  <2>2. /\ interest' \in [Fds -> {"none", "in", "out"}] /\ interest'[f] = "out"
        /\ \A g \in Fds \ {f} : interest'[g] = interest[g]
    BY <1>4, <1>7 DEF TypeOK
  <2>3. EdgeOrNone
    BY <1>4, <1>7, <2>2 DEF EdgeOrNone
  <2>4. /\ ready' \in Seq(Fds)
        /\ \A i \in 1..Len(ready') : interest'[ready'[i]] # "none"
        /\ \A i, j \in 1..Len(ready') : ready'[i] = ready'[j] => i = j
    <3>1. \A g \in Fds : interest[g] # "none" => interest'[g] # "none"
      BY <2>2
    <3> QED BY <2>3, <3>1, ReadyKept
  <2>5. Events' /\ \A i \in 1..Len(evs') : interest'[evs'[i].fd] # "none"
    <3>1. \A g \in Fds \ {jfd} : fdtab[g] \in Clients =>
             /\ heard'[fdtab[g]] = heard[fdtab[g]]
             /\ Ended(fdtab[g]) => client'[fdtab[g]] \in {"half", "closed", "provoked", "reset"}
      BY <1>1, <1>2, <1>4, <2>1 DEF Ended
    <3> QED BY <1>1, <1>2, <1>5, <1>7, <2>2, <3>1, OtherEventsStay
  <2>6. TypeOK'
    BY <1>1, <1>6, <1>7, <2>1, <2>2, <2>4 DEF TypeOK
  <2>7. Items'
    BY <1>4, <1>7, <2>2 DEF Items
  <2>8. Lists'
    BY <1>6, <2>4, <2>5 DEF Lists
  <2>9. Waiting'
    BY <1>1, <1>7 DEF Waiting
  <2>10. Asked'
    <3>1. \A d \in Clients : heard[d] > 0 => heard'[d] > 0
      BY <2>1
    <3>2. \A g \in Fds : interest'[g] = "out" => heard'[fdtab[g]] > 0
      <4>1. SUFFICES ASSUME NEW g \in Fds \ {f}, interest[g] = "out"
                     PROVE  heard'[fdtab[g]] > 0
        BY <1>3, <2>1, <2>2
      <4>2. fdtab[g] \in Clients
        BY <4>1, FdAssumption DEF Items
      <4> QED BY <3>1, <4>1, <4>2 DEF Asked
    <3> QED BY <1>1, <1>7, <3>1, <3>2 DEF Asked, SilentClientsAreHarmless
  <2> QED BY <2>5, <2>6, <2>7, <2>8, <2>9, <2>10
<1>8. CASE error' = [error EXCEPT ![c] = "none"] /\ UNCHANGED <<fdtab, interest, ready, heard>>
  <2>1. Events' /\ \A i \in 1..Len(evs') : interest'[evs'[i].fd] # "none"
    BY <1>1, <1>5, <1>8, OtherEventsStay DEF Ended
  <2>2. error' \in [Clients -> {"none", "reset", "pipe"}]
    BY <1>8 DEF TypeOK
  <2>3. TypeOK'
    BY <1>1, <1>6, <1>8, <2>2 DEF TypeOK
  <2>4. Lists'
    BY <1>6, <1>8, <2>1 DEF Lists
  <2>5. Items' /\ Waiting' /\ Asked'
    BY <1>1, <1>8 DEF Items, Waiting, Asked, SilentClientsAreHarmless
  <2> QED BY <2>1, <2>3, <2>4, <2>5
<1>9. CASE /\ interest' = [interest EXCEPT ![f] = "none"]
           /\ fdtab' = Close(fdtab, {f}) /\ ready' = Without(f)
           /\ UNCHANGED <<error, heard>>
  <2>1. /\ interest' \in [Fds -> {"none", "in", "out"}] /\ interest'[f] = "none"
        /\ \A g \in Fds \ {f} : interest'[g] = interest[g]
    BY <1>4, <1>9 DEF TypeOK
  <2>2. /\ fdtab' \in [Fds -> Clients \union {Listen, Instance, Free}]
        /\ fdtab'[f] = Free /\ \A g \in Fds \ {f} : fdtab'[g] = fdtab[g]
    BY <1>4, <1>9 DEF TypeOK, Close
  <2>3. Free \notin Clients \union {Listen}
    BY EpollAssumption
  <2>4. Events' /\ \A i \in 1..Len(evs') : interest'[evs'[i].fd] # "none"
    <3>1. \A g \in Fds \ {jfd} : fdtab[g] \in Clients =>
             /\ heard'[fdtab[g]] = heard[fdtab[g]]
             /\ Ended(fdtab[g]) => client'[fdtab[g]] \in {"half", "closed", "provoked", "reset"}
      BY <1>1, <1>9 DEF Ended
    <3> QED BY <1>1, <1>2, <1>5, <2>1, <2>2, <3>1, OtherEventsStay
  <2>5. /\ ready' \in Seq(Fds)
        /\ \A i, j \in 1..Len(ready') : ready'[i] = ready'[j] => i = j
        /\ \A i \in 1..Len(ready') : ready'[i] # f /\ InList(ready, ready'[i])
    BY <1>4, <1>9, WithoutRemoves
  <2>6. \A i \in 1..Len(ready') : interest'[ready'[i]] # "none"
    <3> SUFFICES ASSUME NEW i \in 1..Len(ready') PROVE interest'[ready'[i]] # "none"
      OBVIOUS
    <3>1. PICK k \in 1..Len(ready) : ready[k] = ready'[i]
      BY <2>5 DEF InList
    <3>2. ready'[i] \in Fds \ {f}
      BY <2>5
    <3> QED BY <2>1, <3>1, <3>2 DEF Lists
  <2>7. TypeOK'
    BY <1>1, <1>6, <1>9, <2>1, <2>2, <2>5 DEF TypeOK
  <2>8. Items'
    <3>1. FirstFd \in Fds
      BY FdAssumption DEF Fds
    <3> QED BY <1>4, <2>1, <2>2, <2>3, <3>1 DEF Items
  <2>9. Lists'
    BY <1>6, <2>4, <2>5, <2>6 DEF Lists
  <2>10. Waiting'
    <3>1. \A i \in 1..Len(backlog) : backlog[i] \in Clients
      BY DEF TypeOK
    <3> QED BY <1>1, <2>2, <2>3, <3>1 DEF Waiting
  <2>11. Asked'
    BY <1>1, <1>9, <2>1, <2>2 DEF Asked, SilentClientsAreHarmless
  <2> QED BY <2>4, <2>7, <2>8, <2>9, <2>10, <2>11
<1> QED BY <1>2, <1>3, <1>7, <1>8, <1>9 DEF Read, Read_With, SwitchToOut, Register, Gone

LEMMA WriteKeepsInv ==
  ASSUME Inv, Write
  PROVE  Inv'
<1> USE DEF Inv
<1>1. /\ evs # <<>> /\ "out" \in Head(evs).events /\ Handled
      /\ UNCHANGED <<fdtab, interest, ready, backlog, said, heard>>
  BY DEF Write, Reports
<1>2. jfd # FirstFd /\ interest[jfd] = "out"
  <2>1. Head(evs) = evs[1] /\ 1 \in 1..Len(evs)
    BY <1>1, EventHandled
  <2> QED BY <1>1, <2>1 DEF Events, jfd
<1>3. PICK f : f = jfd
  OBVIOUS
<1>4. PICK c : c = fdtab[f]
  OBVIOUS
<1>5. f \in Fds /\ c \in Clients /\ heard[c] > 0
  BY <1>1, <1>2, <1>3, <1>4, ClientAtHand DEF Asked
<1>6. /\ evs' \in Seq([fd : Fds, events : SUBSET {"in", "out", "err", "hup"}])
      /\ \A i, j \in 1..Len(evs') : evs'[i].fd = evs'[j].fd => i = j
  BY <1>1, EventHandled
<1>7. /\ status' \in {"up", "sigpipe"} /\ answered' \subseteq Clients
      /\ client' \in [Clients -> {"away", "connected", "half", "closed", "provoked", "reset"}]
      /\ error' \in [Clients -> {"none", "reset", "pipe"}]
      /\ \A d \in Clients : client'[d] # client[d] =>
             client[d] \in {"closed", "provoked"} /\ client'[d] = "provoked"
      /\ status' = "sigpipe" => status = "sigpipe" \/ (client[c] = "reset" /\ UNCHANGED client)
  <2>1. CASE client[c] \in {"connected", "half"} /\ answered' = answered \union {c}
             /\ UNCHANGED <<status, client, error>>
    BY <1>5, <2>1 DEF TypeOK
  <2>2. CASE client[c] \in {"closed", "provoked"}
             /\ client' = [client EXCEPT ![c] = "provoked"]
             /\ UNCHANGED <<status, error, answered>>
    BY <1>5, <2>2 DEF TypeOK
  <2>3. CASE error' = [error EXCEPT ![c] = "none"]
             /\ UNCHANGED <<status, client, answered>>
    BY <1>5, <2>3 DEF TypeOK
  <2>4. CASE client[c] = "reset" /\ status' = "sigpipe"
             /\ UNCHANGED <<client, error, answered>>
    BY <1>5, <2>4 DEF TypeOK
  <2> QED BY <1>3, <1>4, <2>1, <2>2, <2>3, <2>4 DEF Write
<1>8. \A d \in Clients : client'[d] = client[d]
                       \/ (client[d] \in {"closed", "provoked"} /\ client'[d] = "provoked")
  BY <1>7
<1>9. Events' /\ \A i \in 1..Len(evs') : interest'[evs'[i].fd] # "none"
  <2>1. \A g \in Fds \ {jfd} : fdtab[g] \in Clients =>
           /\ heard'[fdtab[g]] = heard[fdtab[g]]
           /\ Ended(fdtab[g]) => client'[fdtab[g]] \in {"half", "closed", "provoked", "reset"}
    BY <1>1, <1>8 DEF Ended
  <2> QED BY <1>1, <2>1, OtherEventsStay
<1>10. TypeOK'
  BY <1>1, <1>6, <1>7 DEF TypeOK
<1>11. Items'
  BY <1>1 DEF Items
<1>12. Lists'
  BY <1>1, <1>6, <1>9 DEF Lists
<1>13. Waiting'
  <2>1. \A i \in 1..Len(backlog) : backlog[i] \in Clients
    BY DEF TypeOK
  <2> QED BY <1>1, <1>8, <2>1 DEF Waiting
<1>14. Asked'
  <2>1. \A d \in Clients : client[d] = "reset" => client'[d] = "reset"
    BY <1>8
  <2>2. SilentClientsAreHarmless'
    BY <1>1, <1>5, <1>7, <2>1 DEF Asked, SilentClientsAreHarmless
  <2> QED BY <1>1, <2>2 DEF Asked
<1> QED BY <1>9, <1>10, <1>11, <1>12, <1>13, <1>14

-----------------------------------------------------------------------------

LEMMA InvHolds == Spec => []Inv
<1>1. ASSUME Inv, [Next]_vars
      PROVE  Inv'
  <2>1. CASE UNCHANGED vars
    BY <1>1, <2>1
    DEF vars, peers, Inv, TypeOK, Items, Lists, Waiting, Events, Asked,
        SilentClientsAreHarmless, Unread, Ended
  <2>2. CASE Server
    BY <1>1, <2>2, WaitKeepsInv, AcceptKeepsInv, ReadKeepsInv, WriteKeepsInv DEF Server
  <2>3. ASSUME NEW c \in Clients, Connect(c) \/ Say(c) \/ Leave(c) \/ RstBack(c)
        PROVE  Inv'
    BY <1>1, <2>3, ConnectKeepsInv, SayKeepsInv, LeaveKeepsInv, RstBackKeepsInv
  <2> QED BY <1>1, <2>1, <2>2, <2>3 DEF Next
<1> QED BY InitInv, <1>1, PTL DEF Spec

\* The variables keep their types.
THEOREM TypeCorrect == Spec => []TypeOK
  BY InvHolds, PTL DEF Inv

\* The items and the descriptors agree, and neither list names a closed descriptor:
\* no record is used after its free.
THEOREM ItemsAgree == Spec => []ItemsAreClients
<1>1. Inv => ItemsAreClients
  BY DEF Inv, Items, Lists, ItemsAreClients
<1> QED BY InvHolds, <1>1, PTL

\* accept and read find what their event told of.
THEOREM ServerNeverBlocks == Spec => []NeverBlocks
<1>1. Inv => NeverBlocks
  <2> SUFFICES ASSUME Inv, evs # <<>>, "in" \in Head(evs).events
               PROVE  IF jfd = FirstFd THEN backlog # <<>>
                                       ELSE Unread(fdtab[jfd]) \/ Ended(fdtab[jfd])
    BY DEF NeverBlocks
  <2> DEFINE Event == [fd : Fds, events : SUBSET {"in", "out", "err", "hup"}]
  <2>1. evs \in Seq(Event)
    BY DEF Inv, TypeOK
  <2> HIDE DEF Event
  <2>2. Head(evs) = evs[1] /\ 1 \in 1..Len(evs)
    BY <2>1, HeadAndTail
  <2> QED BY <2>2 DEF Inv, Events, jfd
<1> QED BY InvHolds, <1>1, PTL

\* A SIGPIPE is the doing of a client that asked and left.
THEOREM SilentHarmless == Spec => []SilentClientsAreHarmless
  BY InvHolds, PTL DEF Inv, Asked
=============================================================================
