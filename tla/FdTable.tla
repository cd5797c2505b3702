------------------------------- MODULE FdTable -------------------------------
(***************************************************************************)
(* The descriptor table of one process, as the programs of this repository  *)
(* use it: accept, open and pipe take the lowest free number, and close     *)
(* releases a number whatever it stands for.  The numbers are the integers  *)
(* of an interval, because which number is free next is what decides whose  *)
(* socket a stale or doubly closed number hits.                             *)
(***************************************************************************)
EXTENDS Integers

CONSTANTS
    FirstFd,   \* the lowest number in play (0, 1 and 2 are the terminal; 0 also
               \* stands for a variable that holds no number yet)
    LastFd,    \* the highest number the limit on open files allows
    Free       \* the entry of an unused number

ASSUME FdAssumption ==
    /\ FirstFd \in Nat \ {0}
    /\ LastFd \in Nat
    /\ FirstFd <= LastFd

Fds == FirstFd..LastFd

EmptyTable == [f \in Fds |-> Free]

\* A call that needs one descriptor, and pipe(), which needs two, find them
CanOpen(tab) == \E f \in Fds : tab[f] = Free
CanOpenTwo(tab) == \E f, g \in Fds : f # g /\ tab[f] = Free /\ tab[g] = Free

LowestFree(tab) ==
    CHOOSE f \in Fds : tab[f] = Free /\ \A g \in Fds : tab[g] = Free => f <= g

\* The table once the lowest free number stands for the object obj
Open(tab, obj) == [tab EXCEPT ![LowestFree(tab)] = obj]

\* close(f) for every f in the set: an unused number is EBADF, no change
Close(tab, fs) == [f \in Fds |-> IF f \in fs THEN Free ELSE tab[f]]

OpenObjects(tab) == {tab[f] : f \in Fds} \ {Free}
=============================================================================
